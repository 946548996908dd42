----------------------------- MODULE Expressions -----------------------------
(***************************************************************************)
(* The filter expressions of djangors-orm: how Q objects combine, how they *)
(* are resolved against a model, compiled to a WHERE clause with bind      *)
(* parameters, and what the clause means to the database.                  *)
(*                                                                         *)
(* An expression is a tree of records told apart by "node".  SQL text is   *)
(* the tree it parses to: a placeholder is its number, a column the table  *)
(* that qualifies it ("" for none) and its name.                           *)
(***************************************************************************)
EXTENDS Integers, Sequences, SequencesExt

CONSTANTS
  Fields,       \* [model -> its fields and relations]
  Lookups,     \* lookup suffixes that are known
  Containing,   \* [term -> values that contain it]
  Null,         \* NULL, and a bind value of NULL
  NoColumn      \* a name that is no model's field

-----------------------------------------------------------------------------
(* Q objects: q!(...), q_f!(...), q_outer!(...) and their combinations.    *)
Q(tests) == [node |-> "q", tests |-> tests]
QF(left, op, right) == [node |-> "qf", left |-> left, op |-> op, right |-> right]
QOuter(field, op, outer) == [node |-> "qouter", field |-> field, op |-> op, outer |-> outer]
ExistsQ(negated, model, filters) ==
  [node |-> "exists", negated |-> negated, model |-> model, filters |-> filters]

(* a & b and a | b: a group of the same kind is extended, not nested.      *)
Combine(kind, l, r) ==
  CASE l.node = kind /\ r.node = kind -> [node |-> kind, parts |-> l.parts \o r.parts]
    [] l.node = kind /\ r.node # kind -> [node |-> kind, parts |-> Append(l.parts, r)]
    [] l.node # kind /\ r.node = kind -> [node |-> kind, parts |-> <<l>> \o r.parts]
    [] OTHER -> [node |-> kind, parts |-> <<l, r>>]

Both(l, r) == Combine("all", l, r)
Either(l, r) == Combine("any", l, r)
Negate(u) == [node |-> "negate", inner |-> u]

-----------------------------------------------------------------------------
(* split_field_lookup: a suffix that is not known is part of the name.     *)
FieldOf(lookup) == IF lookup.suffix \in Lookups \cup {"none"} THEN lookup.base ELSE NoColumn
OpOf(lookup) == IF lookup.suffix \in Lookups THEN lookup.suffix ELSE "eq"

HasField(model, field) == field \in Fields[model]

Failed == [node |-> "failed"]
Group(kind, parts) ==
  IF \E i \in DOMAIN parts : parts[i].node = "failed" THEN Failed
  ELSE [node |-> kind, parts |-> parts]

ResolveTest(test, model) ==
  IF HasField(model, FieldOf(test))
    THEN [node |-> "compare", field |-> FieldOf(test), op |-> OpOf(test), value |-> test.value]
    ELSE Failed

(* An OuterRef outside a subquery is an error.                             *)
ResolveOuter(u, model, outer) ==
  IF outer # "" /\ HasField(model, u.field) /\ HasField(outer, u.outer)
    THEN Group("and", <<[node |-> "outer", field |-> u.field, op |-> u.op, outer |-> u.outer]>>)
    ELSE Failed

RECURSIVE Resolve(_, _, _)
Resolve(u, model, outer) ==
  CASE u.node = "q" -> Group("and", [i \in DOMAIN u.tests |-> ResolveTest(u.tests[i], model)])
    [] u.node = "qf" ->
         IF HasField(model, u.left) /\ HasField(model, u.right)
           THEN Group("and", <<[node |-> "fields", left |-> u.left, op |-> u.op,
                                right |-> u.right]>>)
           ELSE Failed
    [] u.node = "qouter" -> ResolveOuter(u, model, outer)
    [] u.node = "all" ->
         Group("and", [i \in DOMAIN u.parts |-> Resolve(u.parts[i], model, outer)])
    [] u.node = "any" ->
         Group("or", [i \in DOMAIN u.parts |-> Resolve(u.parts[i], model, outer)])
    [] u.node = "negate" ->
         LET inner == Resolve(u.inner, model, outer)
         IN  IF inner = Failed THEN Failed ELSE [node |-> "not", inner |-> inner]
    [] u.node = "exists" ->
         LET filters == Group("and", [i \in DOMAIN u.filters |->
                                        Resolve(u.filters[i], u.model, model)])
         IN  IF filters = Failed THEN Failed
             ELSE [node |-> "exists", negated |-> u.negated, table |-> u.model,
                   filters |-> filters.parts]

-----------------------------------------------------------------------------
(* compile_expr_sql.  idx is the number of the next placeholder.           *)
Compiled(sql, params, next) == [sql |-> sql, params |-> params, next |-> next]
Column(table, name) == [table |-> table, name |-> name]

(* The qualifier of a column: none outside a subquery.                     *)
Scoped(sub, field) == Column(sub, field)

CompileTest(e, sub, idx) ==
  CASE e.op = "isnull" ->
         Compiled([node |-> "isnull", col |-> Scoped(sub, e.field), want |-> e.value[1] # 0],
                  <<>>, idx)
    [] e.op = "in" /\ e.value = <<>> -> Compiled([node |-> "or", parts |-> <<>>], <<>>, idx)
    [] OTHER ->
         Compiled([node |-> "test", col |-> Scoped(sub, e.field), op |-> e.op,
                   args |-> [i \in DOMAIN e.value |-> idx + i - 1]],
                  e.value, idx + Len(e.value))

(* The table an OuterRef names: the outermost one, however deep it is.     *)
OuterColumn(e, outer, sub) ==
  [node |-> "columns", left |-> Column(IF sub = "" THEN outer ELSE sub, e.field),
   op |-> e.op, right |-> Column(outer, e.outer)]

RECURSIVE Compile(_, _, _, _)
(* Variant: every part of a group is numbered from the group's first.      *)
CompileAllRestarted(parts, outer, sub, idx) ==
  FoldLeft(LAMBDA done, e :
             LET c == Compile(e, outer, sub, idx)
             IN  Compiled(Append(done.sql, c.sql), done.params \o c.params, c.next),
           Compiled(<<>>, <<>>, idx), parts)

(* The parts of a group, each in parentheses, in order.                    *)
CompileAll(parts, outer, sub, idx) ==
  FoldLeft(LAMBDA done, e :
             LET c == Compile(e, outer, sub, done.next)
             IN  Compiled(Append(done.sql, c.sql), done.params \o c.params, c.next),
           Compiled(<<>>, <<>>, idx), parts)

CompileGroup(kind, parts, outer, sub, idx) ==
  LET all == CompileAll(parts, outer, sub, idx)
  IN  Compiled([node |-> kind, parts |-> all.sql], all.params, all.next)

CompileExists(e, outer, idx) ==
  LET where == CompileGroup("and", e.filters, outer, e.table, idx)
  IN  Compiled([node |-> "exists", negated |-> e.negated, table |-> e.table,
                where |-> where.sql], where.params, where.next)

Compile(e, outer, sub, idx) ==
  CASE e.node = "compare" -> CompileTest(e, sub, idx)
    [] e.node \in {"and", "or"} -> CompileGroup(e.node, e.parts, outer, sub, idx)
    [] e.node = "not" ->
         LET inner == Compile(e.inner, outer, sub, idx)
         IN  Compiled([node |-> "not", inner |-> inner.sql], inner.params, inner.next)
    [] e.node = "fields" ->
         Compiled([node |-> "columns", left |-> Scoped(sub, e.left), op |-> e.op,
                   right |-> Scoped(sub, e.right)], <<>>, idx)
    [] e.node = "outer" -> Compiled(OuterColumn(e, outer, sub), <<>>, idx)
    [] e.node = "exists" -> CompileExists(e, outer, idx)

(* The placeholders of a clause, in the order of its text.                 *)
RECURSIVE Placeholders(_)
Placeholders(sql) ==
  CASE sql.node = "test" -> sql.args
    [] sql.node \in {"and", "or"} ->
         FoldLeft(LAMBDA done, part : done \o Placeholders(part), <<>>, sql.parts)
    [] sql.node = "not" -> Placeholders(sql.inner)
    [] sql.node = "exists" -> Placeholders(sql.where)
    [] OTHER -> <<>>

-----------------------------------------------------------------------------
(* The database: SQL's three truth values, and names that are looked up    *)
(* from the innermost FROM outwards.                                       *)
Truth(b) == IF b THEN "T" ELSE "F"
Not3(t) == CASE t = "T" -> "F" [] t = "F" -> "T" [] OTHER -> t
And3(S) == IF "F" \in S THEN "F" ELSE IF "U" \in S THEN "U" ELSE "T"
Or3(S) == IF "T" \in S THEN "T" ELSE IF "U" \in S THEN "U" ELSE "F"

Test3(op, a, b) ==
  IF a = Null \/ b = Null THEN "U"
  ELSE Truth(CASE op \in {"eq", "in", "isnull"} -> a = b
               [] op = "ne" -> a # b
               [] op = "lt" -> a < b
               [] op = "lte" -> a <= b
               [] op = "gt" -> a > b
               [] op = "gte" -> a >= b
               [] op = "icontains" -> a \in Containing[b])

(* scopes: the rows in scope, the innermost query's first.                 *)
Known(col, scopes) == \E i \in DOMAIN scopes :
  (col.table = "" \/ scopes[i].table = col.table) /\ HasField(scopes[i].table, col.name)
Lookup(col, scopes) ==
  LET i == CHOOSE i \in DOMAIN scopes :
             /\ col.table = "" \/ scopes[i].table = col.table
             /\ \A j \in 1..(i - 1) : col.table # "" /\ scopes[j].table # col.table
  IN  scopes[i].row[col.name]

(* Every column a clause names exists; otherwise the statement fails.      *)
RECURSIVE Valid(_, _)
Valid(sql, tables) ==
  LET scopes == [i \in DOMAIN tables |-> [table |-> tables[i]]] IN
  CASE sql.node \in {"test", "isnull"} -> Known(sql.col, scopes)
    [] sql.node = "columns" -> Known(sql.left, scopes) /\ Known(sql.right, scopes)
    [] sql.node \in {"and", "or"} -> \A i \in DOMAIN sql.parts : Valid(sql.parts[i], tables)
    [] sql.node = "not" -> Valid(sql.inner, tables)
    [] sql.node = "exists" -> Valid(sql.where, <<sql.table>> \o tables)

RowsOf(db, table) == {db[table][p] : p \in DOMAIN db[table]}

RECURSIVE Evaluate(_, _, _, _)
Evaluate(sql, params, db, scopes) ==
  CASE sql.node = "test" ->
         Or3({Test3(sql.op, Lookup(sql.col, scopes), params[sql.args[i]]) : i \in DOMAIN sql.args})
    [] sql.node = "isnull" -> Truth((Lookup(sql.col, scopes) = Null) = sql.want)
    [] sql.node = "columns" -> Test3(sql.op, Lookup(sql.left, scopes), Lookup(sql.right, scopes))
    [] sql.node = "and" ->
         And3({Evaluate(sql.parts[i], params, db, scopes) : i \in DOMAIN sql.parts})
    [] sql.node = "or" ->
         Or3({Evaluate(sql.parts[i], params, db, scopes) : i \in DOMAIN sql.parts})
    [] sql.node = "not" -> Not3(Evaluate(sql.inner, params, db, scopes))
    [] sql.node = "exists" ->
         Truth(sql.negated # (\E row \in RowsOf(db, sql.table) :
           Evaluate(sql.where, params, db, <<[table |-> sql.table, row |-> row]>> \o scopes) = "T"))

-----------------------------------------------------------------------------
(* What a Q object means: a field is one of the row it is asked about, an  *)
(* OuterRef one of the row the enclosing query is at.                      *)
MeaningOfTest(test, row) ==
  LET value == row[FieldOf(test)] IN
  CASE OpOf(test) = "isnull" -> Truth((value = Null) = (test.value[1] # 0))
    [] OTHER -> Or3({Test3(OpOf(test), value, v) : v \in ToSet(test.value)})

RECURSIVE Meaning(_, _, _)
Meaning(u, db, rows) ==
  CASE u.node = "q" -> And3({MeaningOfTest(u.tests[i], Head(rows)) : i \in DOMAIN u.tests})
    [] u.node = "qf" -> Test3(u.op, Head(rows)[u.left], Head(rows)[u.right])
    [] u.node = "qouter" -> Test3(u.op, Head(rows)[u.field], rows[2][u.outer])
    [] u.node = "all" -> And3({Meaning(u.parts[i], db, rows) : i \in DOMAIN u.parts})
    [] u.node = "any" -> Or3({Meaning(u.parts[i], db, rows) : i \in DOMAIN u.parts})
    [] u.node = "negate" -> Not3(Meaning(u.inner, db, rows))
    [] u.node = "exists" ->
         Truth(u.negated # (\E row \in RowsOf(db, u.model) :
           \A i \in DOMAIN u.filters : Meaning(u.filters[i], db, <<row>> \o rows) = "T"))

(* An OuterRef that the compiled clause cannot reach: below two subqueries *)
(* or in a subquery over the table it is correlated with.                  *)
RECURSIVE OutOfReach(_, _)
OutOfReach(u, tables) ==
  CASE u.node = "qouter" -> Len(tables) > 2 \/ tables[1] = tables[2]
    [] u.node \in {"all", "any"} -> \E i \in DOMAIN u.parts : OutOfReach(u.parts[i], tables)
    [] u.node = "negate" -> OutOfReach(u.inner, tables)
    [] u.node = "exists" ->
         \E i \in DOMAIN u.filters : OutOfReach(u.filters[i], <<u.model>> \o tables)
    [] OTHER -> FALSE

=============================================================================
