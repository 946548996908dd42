------------------------------- MODULE Listing -------------------------------
(***************************************************************************)
(* The list side of djangors-rest and the paginator of djangors-core: the  *)
(* query-string filters, the page arithmetic and the keyset cursor.        *)
(*                                                                         *)
(* A filter is one query parameter: the field and lookup it names and the  *)
(* values its text parses to (none, when it does not parse).               *)
(***************************************************************************)
EXTENDS Serializers, Integers

-----------------------------------------------------------------------------
(* FieldFilter, and the allowlist of ViewSetConfig (lookup "eq"): text     *)
(* that does not parse is ignored, except that "in" keeps what parsed of   *)
(* its list, and an empty list matches nothing.                            *)
FieldHolds(f, row) ==
  LET value == row[f.field]
      known == value # NullValue
      arg == CHOOSE v \in f.values : TRUE IN
  CASE f.lookup = "isnull" -> (f.raw \notin {"false", "0"}) = ~known
    [] f.lookup = "in" -> known /\ value \in f.values
    [] f.values = {} -> TRUE
    [] f.lookup = "eq" -> known /\ value = arg
    [] f.lookup = "ne" -> known /\ value # arg
    [] f.lookup = "lt" -> known /\ value < arg
    [] f.lookup = "lte" -> known /\ value <= arg
    [] f.lookup = "gt" -> known /\ value > arg
    [] f.lookup = "gte" -> known /\ value >= arg

(* SearchFilter: some field contains the term; f.values are the values     *)
(* that do.                                                                *)
SearchHolds(f, row) ==
  \/ f.raw = "" \/ f.fields = {}
  \/ \E field \in f.fields : row[field] # NullValue /\ row[field] \in f.values

(* apply_backends: every parameter narrows the list.                       *)
Holds(filters, row) ==
  \A f \in filters :
    IF f.lookup = "search" THEN SearchHolds(f, row) ELSE FieldHolds(f, row)

-----------------------------------------------------------------------------
Clamp(n, low, high) == IF n < low THEN low ELSE IF n > high THEN high ELSE n

(* ViewSetConfig::resolve_page_size and resolve_size: max = 0 stands for   *)
(* no ?page_size= allowed, asked = 0 for none given or not a number.       *)
ResolveSize(asked, default, max) ==
  IF max = 0 \/ asked < 1 THEN Clamp(default, 1, default + 1)
  ELSE IF asked > max THEN max ELSE asked

(* LimitOffsetPagination::resolved.                                        *)
LimitOffset(limit, offset, default, max) ==
  [limit |-> IF limit < 1 THEN Clamp(default, 1, default + 1)
             ELSE Clamp(limit, 1, Clamp(max, 1, max + 1)),
   offset |-> IF offset < 0 THEN 0 ELSE offset]

TotalPages(total, size) == IF total = 0 THEN 1 ELSE (total + size - 1) \div size

(* Paginator::offset.                                                      *)
Offset(page, size, total) == (Clamp(page, 1, TotalPages(total, size)) - 1) * size

-----------------------------------------------------------------------------
(* A DateTime in a cursor is written in whole seconds (Value's Display),   *)
(* and NULL as "-"; ranks count half seconds.                              *)
Ranks == Int \cup {NullValue}
WholeSecond(rank) == rank - (rank % 2)

NoCursor == [rank |-> -1, pk |-> -1]
Cursor(row, pk) ==
  [rank |-> IF row.rank = NullValue THEN NullValue ELSE WholeSecond(row.rank), pk |-> pk]

(* Variant: rows equal to the cursor's value are not told apart by key.    *)
AfterValueOnly(cursor, row, pk, descending) ==
  \/ cursor = NoCursor
  \/ /\ row.rank # NullValue
     /\ IF descending THEN row.rank < cursor.rank ELSE row.rank > cursor.rank

(* QuerySet::after: strictly past a keyset position, which no NULL is.     *)
After(cursor, row, pk, descending) ==
  \/ cursor = NoCursor
  \/ /\ row.rank # NullValue
     /\ \/ IF descending THEN row.rank < cursor.rank ELSE row.rank > cursor.rank
        \/ /\ row.rank = cursor.rank
           /\ IF descending THEN pk < cursor.pk ELSE pk > cursor.pk

(* SQLite sorts NULL below every value, Postgres above (w.nullsLow).       *)
NullsFirst(w) == w.nullsLow # w.descending

RankSortsBefore(w, a, b) ==
  \/ a = NullValue /\ b # NullValue /\ NullsFirst(w)
  \/ a # NullValue /\ b = NullValue /\ ~NullsFirst(w)
  \/ /\ a # NullValue /\ b # NullValue
     /\ IF w.descending THEN a > b ELSE a < b

(* The order of a list: ?ordering=rank (or -rank), then flag when that is  *)
(* asked for as well, and in cursor mode rank and the primary key again.   *)
SortsBefore(w, flagRank, a, p, b, q) ==
  \/ RankSortsBefore(w, a.rank, b.rank)
  \/ /\ a.rank = b.rank
     /\ \/ w.byFlag /\ flagRank[a.flag] < flagRank[b.flag]
        \/ /\ w.byFlag => a.flag = b.flag
           /\ w.mode = "cursor"
           /\ IF w.descending THEN p > q ELSE p < q

(* The orders a database may return the rows of S in: position by key.     *)
Orders(S, Precedes(_, _)) ==
  {at \in [S -> 0..(Cardinality(S) - 1)] :
     /\ \A p, q \in S : p # q => at[p] # at[q]
     /\ \A p, q \in S : Precedes(p, q) => at[p] < at[q]}

=============================================================================
