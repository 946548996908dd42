------------------------------- MODULE Queries -------------------------------
(***************************************************************************)
(* QuerySet: in the scene "query" a queryset is built call by call and     *)
(* run; the other scenes are those of the operations on model instances.   *)
(***************************************************************************)
EXTENDS Instances, Sequences, FiniteSetsExt, TLC

CONSTANTS
  Lookups,        \* lookup suffixes that are known
  Containing,     \* [term -> values that contain it]
  NoColumn,       \* a name that is no model's field
  MaxFilters      \* bound on filter() and exclude() calls of one queryset

ASSUME BoundAssumption == MaxFilters \in Nat

INSTANCE Expressions

VARIABLE qs       \* the queryset each client has built

NoQuery == [filters |-> <<>>, asked |-> <<>>, order |-> "", descending |-> FALSE,
            limit |-> -1, offset |-> 0, term |-> 0, locks |-> FALSE]

Model == scene.model

QueryInit == Init /\ qs = [c \in Clients |-> NoQuery]

(* A call ends and its queryset is dropped.                                *)
Finish(c, r) == Return(c, r) /\ qs' = [qs EXCEPT ![c] = NoQuery]

-----------------------------------------------------------------------------
(* Building a queryset.                                                    *)

Building(c) == scene.name = "query" /\ pc[c] = "idle" /\ result = NoResult

AddFilter(c, u, resolved) ==
  /\ Building(c)
  /\ Len(qs[c].filters) < MaxFilters /\ qs[c].order = "" /\ qs[c].limit = -1
  /\ IF resolved = Failed
       THEN Finish(c, Error("filter"))
       ELSE /\ qs' = [qs EXCEPT ![c].filters = Append(@, resolved), ![c].asked = Append(@, u)]
            /\ UNCHANGED <<pc, result, copy>>
  /\ NoWrite /\ UNCHANGED <<scene, lock, history>>

(* filter and exclude: an excluded expression is wrapped in Not.           *)
Filter(c, u, negated) ==
  LET e == Resolve(u, Model, "") IN
  IF negated
    THEN AddFilter(c, Negate(u), IF e = Failed THEN e ELSE [node |-> "not", inner |-> e])
    ELSE AddFilter(c, u, e)

(* filter_or_icontains: any of the fields contains the term.               *)
FilterOrIcontains(c, fields, term) ==
  LET tests == [i \in DOMAIN fields |->
                  [base |-> fields[i], suffix |-> "icontains", value |-> <<term>>]] IN
  AddFilter(c, [node |-> "any", parts |-> [i \in DOMAIN tests |-> Q(<<tests[i]>>)]],
            Group("or", [i \in DOMAIN tests |-> ResolveTest(tests[i], Model)]))

(* order_by, limit, offset, search and select_for_update, in one step.     *)
Shape(c, w) ==
  /\ Building(c) /\ [qs[c] EXCEPT !.filters = <<>>, !.asked = <<>>] = NoQuery
  /\ IF w.order # "" /\ ~HasField(Model, w.order)
       THEN Finish(c, Error("order_by"))
       ELSE /\ qs' = [qs EXCEPT ![c] = w @@ @]
            /\ UNCHANGED <<pc, result, copy>>
  /\ NoWrite /\ UNCHANGED <<scene, lock, history>>

-----------------------------------------------------------------------------
(* Running it: the statement is compiled, sent and answered by the         *)
(* database, then each call makes of the rows what it returns.             *)

(* The WHERE clause, its placeholders numbered from idx.                   *)
Where(q, idx) == CompileGroup("and", q.filters, Model, "", idx)

(* A full-text search is a condition of SELECT alone.                      *)
Searched(q, row) == q.term = 0 \/ row["title"] \in Containing[q.term]

(* The rows a clause selects, params being bound by number.                *)
Selected(sql, params) ==
  {p \in Rows(Model) :
     Evaluate(sql, params, db, <<[table |-> Model, row |-> db[Model][p]]>>) = "T"}

(* The rows that match what was asked of the queryset.                     *)
AskedRows(q) ==
  {p \in Rows(Model) :
     And3({Meaning(q.asked[i], db, <<db[Model][p]>>) : i \in DOMAIN q.asked}) = "T"}

Calls == {"all", "get", "first", "exists", "count", "aggregate", "annotate", "update", "delete"}
Selects(call) == call \notin {"update", "delete"}

(* SET comes before WHERE and has one parameter here.                      *)
SetParams(call) == IF call = "update" THEN <<1>> ELSE <<>>

(* check_for_update fails, as no transaction is open; count and aggregates *)
(* refuse a lock.  Sqlite has no full-text search.                         *)
Refused(q, call) == Selects(call) /\ (q.locks \/ (q.term # 0 /\ ~scene.postgres))

Send(c, call) ==
  LET set == SetParams(call)
      where == Where(qs[c], Len(set) + 1)
      params == set \o where.params
      asked == AskedRows(qs[c]) IN
  /\ Building(c)
  /\ IF Refused(qs[c], call) \/ ~Valid(where.sql, <<Model>>)
       THEN Finish(c, Error(call))
       ELSE /\ Goto(c, "sent")
            /\ copy' = [copy EXCEPT ![c] =
                 [call |-> call, rows |-> Selected(where.sql, params), asked |-> asked,
                  bound |-> (set \o Placeholders(where.sql)) = [i \in DOMAIN params |-> i],
                  excused |-> \E i \in DOMAIN qs[c].asked : OutOfReach(qs[c].asked[i], <<Model>>)]]
            /\ UNCHANGED <<qs, result>>
  /\ NoWrite /\ UNCHANGED <<scene, lock, history>>

(* What the SELECT matched, search included.                               *)
Matched(c) == {p \in copy[c].rows : Searched(qs[c], db[Model][p])}

Before(q, p, r) ==
  LET a == db[Model][p][q.order]
      b == db[Model][r][q.order] IN
  q.order # "" /\ a # Null /\ b # Null /\ IF q.descending THEN a > b ELSE a < b

(* LIMIT and OFFSET: any set of rows that the order admits.                *)
PageSize(q, n) ==
  LET rest == IF n > q.offset THEN n - q.offset ELSE 0
  IN  IF q.limit = -1 \/ rest < q.limit THEN rest ELSE q.limit

Pages(q, S) ==
  {page \in SUBSET S :
     /\ Cardinality(page) = PageSize(q, Cardinality(S))
     /\ \A p \in page :
          /\ Cardinality({r \in S \ page : Before(q, r, p)}) <= q.offset
          /\ Cardinality({r \in S : Before(q, r, p)}) <
               (IF q.limit = -1 THEN Cardinality(S) ELSE q.offset + q.limit)}

Limited(c, n) == [qs[c] EXCEPT !.limit = n]
Fetched(c, call) == pc[c] = "sent" /\ copy[c].call = call

Outcome(c, pks, value) ==
  [call |-> copy[c].call, status |-> "ok", pks |-> pks, value |-> value, query |-> qs[c],
   asked |-> copy[c].asked, bound |-> copy[c].bound, excused |-> copy[c].excused,
   searched |-> {p \in copy[c].asked : Searched(qs[c], db[Model][p])}]

Answered(c) == NoWrite /\ UNCHANGED <<scene, lock, history>>

All(c) ==
  /\ Fetched(c, "all")
  /\ \E page \in Pages(qs[c], Matched(c)) : Finish(c, Outcome(c, page, Cardinality(page)))
  /\ Answered(c)

(* get asks for two rows, first and exists for one, whatever the limit was.*)
Get(c) ==
  /\ Fetched(c, "get")
  /\ \E page \in Pages(Limited(c, 2), Matched(c)) :
       Finish(c, [Outcome(c, page, 0) EXCEPT !.status =
         IF page = {} THEN "notFound" ELSE IF Cardinality(page) > 1 THEN "multiple" ELSE "ok"])
  /\ Answered(c)

First(c) ==
  /\ Fetched(c, "first")
  /\ \E page \in Pages(Limited(c, 1), Matched(c)) : Finish(c, Outcome(c, page, Cardinality(page)))
  /\ Answered(c)

Exists(c) ==
  /\ Fetched(c, "exists")
  /\ Finish(c, Outcome(c, {}, PageSize(Limited(c, 1), Cardinality(Matched(c)))))
  /\ Answered(c)

(* The one row of COUNT is itself subject to LIMIT and OFFSET.             *)
Count(c) ==
  /\ Fetched(c, "count")
  /\ Finish(c, IF PageSize(qs[c], 1) = 0 THEN Error("count")
                 ELSE Outcome(c, {}, Cardinality(Matched(c))))
  /\ Answered(c)

(* SUM over the matching rows, without LIMIT and OFFSET; NULL for none.    *)
SumOf(S, field) ==
  LET known == {p \in S : db[Model][p][field] # Null} IN
  IF known = {} THEN Null ELSE MapThenSumSet(LAMBDA p : db[Model][p][field], known)

Aggregate(c) ==
  /\ Fetched(c, "aggregate")
  /\ Finish(c, Outcome(c, Matched(c), SumOf(Matched(c), "price")))
  /\ Answered(c)

(* annotate: one group per value of the field, with its rows.              *)
Annotate(c) ==
  LET Value(p) == db[Model][p]["price"] IN
  /\ Fetched(c, "annotate")
  /\ Finish(c, Outcome(c, Matched(c),
       {{p \in Matched(c) : Value(p) = v} : v \in {Value(p) : p \in Matched(c)}}))
  /\ Answered(c)

(* update(price = F("price") + 1): LIMIT, OFFSET and search do not count.  *)
BulkUpdate(c) ==
  LET Changed(row) == IF row["price"] = Null THEN row ELSE [row EXCEPT !["price"] = @ + 1] IN
  /\ Fetched(c, "update")
  /\ Write(c, [db EXCEPT ![Model] =
       [p \in DOMAIN @ |-> IF p \in copy[c].rows THEN Changed(@[p]) ELSE @[p]]])
  /\ Finish(c, Outcome(c, copy[c].rows, Cardinality(copy[c].rows)))
  /\ UNCHANGED <<scene, lock, history>>

(* delete: like update it looks at the filters alone.                      *)
BulkDelete(c) ==
  /\ Fetched(c, "delete")
  /\ Write(c, [db EXCEPT ![Model] = Without(@, copy[c].rows)])
  /\ Finish(c, Outcome(c, copy[c].rows, Cardinality(copy[c].rows)))
  /\ UNCHANGED <<scene, lock, history>>

-----------------------------------------------------------------------------
QueryNext ==
  \/ Next /\ UNCHANGED qs
  \/ \E c \in scene.clients :
       \/ \E u \in scene.filters, negated \in BOOLEAN : Filter(c, u, negated)
       \/ \E term \in DOMAIN Containing, fields \in {<<>>, <<"title">>} :
            FilterOrIcontains(c, fields, term)
       \/ \E w \in scene.windows : Shape(c, w)
       \/ \E call \in Calls : Send(c, call)
       \/ All(c) \/ Get(c) \/ First(c) \/ Exists(c) \/ Count(c) \/ Aggregate(c) \/ Annotate(c)
       \/ BulkUpdate(c) \/ BulkDelete(c)

QuerySpec == QueryInit /\ [][QueryNext]_<<vars, qs>>

-----------------------------------------------------------------------------
(* What a call returned is what its filters, excludes, search and window   *)
(* ask of the rows at the time.  update and delete look at filters alone;  *)
(* COUNT ignores LIMIT.                                                    *)
Answers(r) ==
  LET n == Cardinality(r.searched) IN
  CASE r.call \in {"update", "delete"} -> r.pks = r.asked
    [] r.call = "all" -> r.pks \subseteq r.searched /\ r.value = PageSize(r.query, n)
    [] r.call = "get" ->
         /\ r.pks \subseteq r.searched
         /\ r.query.offset = 0 =>
              r.status = (IF n = 0 THEN "notFound" ELSE IF n = 1 THEN "ok" ELSE "multiple")
    [] r.call = "first" -> r.pks \subseteq r.searched /\ (r.value = 1) = (n > r.query.offset)
    [] r.call = "exists" -> (r.value = 1) = (n > r.query.offset)
    [] r.call = "count" -> r.value = n
    [] r.call \in {"aggregate", "annotate"} -> r.pks = r.searched

(* "Adds filter expressions", "the negation of filter", "the bind          *)
(* parameters [...] in order": every statement carries one parameter per   *)
(* placeholder, in order, and selects the rows the expression tree means   *)
(* under SQL's three-valued logic.  An OuterRef below two subqueries, or   *)
(* in one over its own table, names the wrong row and is left out.         *)
StatementsMeanFilters ==
  "bound" \in DOMAIN result => result.bound /\ (result.excused \/ Answers(result))

=============================================================================
