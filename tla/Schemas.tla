------------------------------ MODULE Schemas ------------------------------
(***************************************************************************)
(* The operations of a migration, the plans that lead from models to       *)
(* operations, and what a database makes of them.                          *)
(*                                                                         *)
(* A model is [name, table, fields, relations, indexes]; a field [name,    *)
(* kind, len, auto, null, pk, unique, choices], a relation [name, target,  *)
(* kind, delete], an index [name, fields].  The name of a table is <<t>>,  *)
(* of a join table <<t, r>>.  A database is [tables: [table -> [column ->  *)
(* definition]], indexes], beside it the set of tables that have rows.     *)
(***************************************************************************)
EXTENDS Integers, Sequences, SequencesExt, TLC

NoType == <<>>
NoRef == [table |-> <<>>, delete |-> "none"]

(* sql_type_for.  An auto-increment integer of Sqlite is its primary key.  *)
Exact ==
  [postgres |-> [text |-> "TEXT", file |-> "TEXT", int |-> "INTEGER", bigint |-> "BIGINT",
                 float |-> "DOUBLE PRECISION", bool |-> "BOOLEAN", date |-> "DATE",
                 datetime |-> "TIMESTAMPTZ", time |-> "TIME", duration |-> "INTERVAL",
                 uuid |-> "UUID", ip |-> "INET", binary |-> "BYTEA", json |-> "JSONB"],
   sqlite |-> [float |-> "REAL", decimal |-> "NUMERIC", binary |-> "BLOB"] @@
              [k \in {"int", "bigint", "bool"} |-> "INTEGER"] @@
              [k \in {"char", "text", "file", "date", "datetime", "time", "duration", "uuid",
                      "ip", "json"} |-> "TEXT"]]

SqlType(f, dialect) ==
  CASE f.auto /\ f.kind \in {"int", "bigint"} ->
         IF dialect = "sqlite" THEN <<"INTEGER", "PRIMARY KEY">>
         ELSE <<IF f.kind = "int" THEN "SERIAL" ELSE "BIGSERIAL">>
    [] f.kind = "char" /\ dialect = "postgres" ->
         IF f.len = 0 THEN NoType ELSE <<"VARCHAR", f.len>>
    [] f.kind = "decimal" /\ dialect = "postgres" -> <<"NUMERIC", f.len>>
    [] OTHER -> <<Exact[dialect][f.kind]>>

(* column_sql: what the text of a definition makes of it.                  *)
ColumnSql(type, null, pk, unique, ref) ==
  LET keyed == type = <<"INTEGER", "PRIMARY KEY">> IN
  [type |-> type, null |-> null /\ ~keyed, pk |-> pk \/ keyed,
   unique |-> unique /\ ~pk /\ ~keyed, ref |-> ref, check |-> FALSE]

ColumnOf(f, dialect) == ColumnSql(SqlType(f, dialect), f.null, f.pk, f.unique, NoRef)

-----------------------------------------------------------------------------
(* The operations and their reverses.                                      *)

CreateTable(table, columns) == [op |-> "create", table |-> table, columns |-> columns]
AddColumn(table, name, column) == [op |-> "add", table |-> table, name |-> name, column |-> column]
DropColumn(table, name) == [op |-> "drop", table |-> table, name |-> name]
AlterType(table, name, type) == [op |-> "alter", table |-> table, name |-> name, type |-> type]
RenameColumn(table, old, new) == [op |-> "rename", table |-> table, name |-> old, new |-> new]
DropTable(table) == [op |-> "drop_table", table |-> table]
CreateIndex(name, table, columns) ==
  [op |-> "index", table |-> table, name |-> name, columns |-> columns]
DropIndex(name) == [op |-> "drop_index", name |-> name]

(* Variant: a column that was added is not dropped again.                  *)
ReverseTables(o) ==
  CASE o.op = "create" -> <<DropTable(o.table)>>
    [] o.op = "index" -> <<DropIndex(o.name)>>
    [] OTHER -> <<>>

Reverse1(o) ==
  CASE o.op = "create" -> <<DropTable(o.table)>>
    [] o.op = "add" -> <<DropColumn(o.table, o.name)>>
    [] o.op = "rename" -> <<RenameColumn(o.table, o.new, o.name)>>
    [] o.op = "index" -> <<DropIndex(o.name)>>
    [] OTHER -> <<>>

(* to_sql: the one operation a dialect has no statement for.               *)
Unsupported(o, dialect) == o.op = "alter" /\ dialect = "sqlite"

-----------------------------------------------------------------------------
(* The database.                                                           *)

NoTables == [tables |-> <<>>, indexes |-> {}]
Refers(db, table) ==
  {t \in DOMAIN db.tables \ {table} :
     \E c \in DOMAIN db.tables[t] : db.tables[t][c].ref.table = table}

(* May it be executed?  A table has one key at most; Postgres checks       *)
(* references when a table is created or dropped, Sqlite when there are    *)
(* rows; only Postgres adds columns that are NOT NULL or UNIQUE, the former *)
(* while the table is empty.                                               *)
Runs(o, db, filled, dialect) ==
  LET has == o.op \in {"create", "drop_index"} \/ o.table \in DOMAIN db.tables IN
  CASE o.op = "create" ->
         \/ o.table \in DOMAIN db.tables
         \/ /\ \A c, d \in DOMAIN o.columns : o.columns[c].pk /\ o.columns[d].pk => c = d
            /\ \/ dialect = "sqlite"
               \/ \A c \in DOMAIN o.columns :
                    o.columns[c].ref.table \in DOMAIN db.tables \cup {o.table, NoRef.table}
    [] o.op = "add" ->
         /\ has /\ o.name \notin DOMAIN db.tables[o.table]
         /\ IF dialect = "sqlite" THEN o.column.null /\ ~o.column.unique /\ ~o.column.pk
            ELSE (o.column.null \/ o.table \notin filled) /\ ~o.column.pk
    [] o.op \in {"drop", "alter"} ->
         /\ has /\ o.name \in DOMAIN db.tables[o.table]
         /\ dialect = "sqlite" =>
              /\ ~db.tables[o.table][o.name].pk /\ ~db.tables[o.table][o.name].unique
              /\ \A i \in db.indexes : i.table = o.table => o.name \notin i.columns
    [] o.op = "rename" ->
         has /\ o.name \in DOMAIN db.tables[o.table] /\ o.new \notin DOMAIN db.tables[o.table]
    [] o.op = "drop_table" ->
         has /\ (IF dialect = "postgres" THEN Refers(db, o.table) = {}
                 ELSE Refers(db, o.table) \cap filled = {})
    [] o.op = "index" -> has /\ o.columns \subseteq DOMAIN db.tables[o.table]
    [] OTHER -> TRUE

(* What it leaves.  CREATE has IF NOT EXISTS.                              *)
After(o, db) ==
  LET columns == db.tables[o.table]
      With(new) == [db EXCEPT !.tables[o.table] = new] IN
  CASE o.op = "create" ->
         IF o.table \in DOMAIN db.tables THEN db
         ELSE [db EXCEPT !.tables = (o.table :> o.columns) @@ @]
    [] o.op = "add" -> With((o.name :> o.column) @@ columns)
    [] o.op = "drop" ->
         [With([c \in DOMAIN columns \ {o.name} |-> columns[c]])
            EXCEPT !.indexes = {i \in @ : i.table # o.table \/ o.name \notin i.columns}]
    [] o.op = "alter" -> With([columns EXCEPT ![o.name].type = o.type])
    [] o.op = "rename" ->
         With([c \in (DOMAIN columns \ {o.name}) \cup {o.new} |->
                 columns[IF c = o.new THEN o.name ELSE c]])
    [] o.op = "drop_table" ->
         [tables |-> [t \in DOMAIN db.tables \ {o.table} |-> db.tables[t]],
          indexes |-> {i \in db.indexes : i.table # o.table}]
    [] o.op = "index" ->
         IF \E i \in db.indexes : i.name = o.name THEN db
         ELSE [db EXCEPT !.indexes =
                 @ \cup {[name |-> o.name, table |-> o.table, columns |-> o.columns]}]
    [] OTHER -> [db EXCEPT !.indexes = {i \in @ : i.name # o.name}]

(* A transaction of them: all, or none.                                    *)
Execute(ops, db, filled, dialect) ==
  FoldLeft(LAMBDA r, o : IF r.ok /\ Runs(o, r.db, filled, dialect)
                           THEN [r EXCEPT !.db = After(o, @)] ELSE [r EXCEPT !.ok = FALSE],
           [ok |-> TRUE, db |-> db], ops)

-----------------------------------------------------------------------------
(* Plans.                                                                  *)

Named(models) == [n \in {m.name : m \in Range(models)} |-> CHOOSE m \in Range(models) : m.name = n]
KeyOf(m) == CHOOSE f \in Range(m.fields) : f.pk

(* What a key is, and what refers to it: the latter does not count itself. *)
(* build_create_all_plan types the columns of a join table as the former.  *)
OwnKeyType(m, dialect) == SqlType(KeyOf(m), dialect)

KeyType(m, dialect) == SqlType([KeyOf(m) EXCEPT !.auto = FALSE], dialect)

RelationColumn(r, target, dialect) ==
  ColumnSql(KeyType(target, dialect), r.delete = "set_null", FALSE, r.kind = "one_to_one",
            [table |-> target.table, delete |-> IF r.delete = "protect" THEN "restrict" ELSE r.delete])

FieldColumns(m, dialect) ==
  [c \in {f.name : f \in Range(m.fields)} |->
     ColumnOf(CHOOSE f \in Range(m.fields) : f.name = c, dialect)]

RelationColumns(m, byName, dialect) ==
  LET columns == {r \in Range(m.relations) : r.kind # "many_to_many"} IN
  [c \in {r.name : r \in columns} |->
     LET r == CHOOSE r \in columns : r.name = c IN RelationColumn(r, byName[r.target], dialect)]

(* m2m_through_table and its two columns: own, if typed as the keys are.   *)
JoinTable(m, r, byName, dialect, own) ==
  LET side(o) == ColumnSql(IF own THEN OwnKeyType(o, dialect) ELSE KeyType(o, dialect),
                           FALSE, FALSE, FALSE, [table |-> o.table, delete |-> "cascade"]) IN
  CreateTable(m.table \o <<r.name>>,
              (<<m.name, "id">> :> side(m)) @@ (<<r.target, "id">> :> side(byName[r.target])))

(* The operations of one model: its table, indexes and join tables.        *)
ModelOps(m, byName, dialect, own) ==
  LET indexes == SelectSeq(m.indexes, LAMBDA i : i.fields # {})
      joins == SelectSeq(m.relations, LAMBDA r : r.kind = "many_to_many") IN
  <<CreateTable(m.table, FieldColumns(m, dialect) @@ RelationColumns(m, byName, dialect))>>
    \o [i \in DOMAIN indexes |-> CreateIndex(indexes[i].name, m.table, indexes[i].fields)]
    \o [i \in DOMAIN joins |-> JoinTable(m, joins[i], byName, dialect, own)]

(* ... which there are if every type and every target is known.            *)
Typed(m, dialect) == \A f \in Range(m.fields) : SqlType(f, dialect) # NoType
Plannable(models, dialect) ==
  \A m \in Range(models) :
    Typed(m, dialect) /\ \A r \in Range(m.relations) : r.target \in DOMAIN Named(models)

(* visit: targets first, each model once.                                  *)
RECURSIVE Visit(_, _, _)
Visit(m, byName, acc) ==
  IF m.name \in acc.visited THEN acc
  ELSE LET rest == FoldLeft(LAMBDA a, r : IF r.target \in DOMAIN byName
                                            THEN Visit(byName[r.target], byName, a) ELSE a,
                            [acc EXCEPT !.visited = @ \cup {m.name}], m.relations)
       IN  [rest EXCEPT !.ordered = Append(@, m)]

Ordered(models) ==
  FoldLeft(LAMBDA a, m : Visit(m, Named(models), a),
           [visited |-> {}, ordered |-> <<>>], models).ordered

PlanWith(models, dialect, own) ==
  LET ordered == Ordered(models) IN
  FlattenSeq([i \in DOMAIN ordered |-> ModelOps(ordered[i], Named(models), dialect, own)])

(* build_create_plan_from_snapshots.                                       *)
CreatePlan(models, dialect) == PlanWith(models, dialect, FALSE)

(* dfs refuses models that refer to one another, or to themselves.         *)
Cyclic(models) ==
  LET byName == Named(models)
      next(S) == {r.target : r \in UNION {Range(byName[n].relations) : n \in S}} \cap DOMAIN byName
      reach(n) == FoldLeft(LAMBDA S, i : S \cup next(S), next({n}), [i \in 1..Len(models) |-> i])
  IN  \E n \in DOMAIN byName : n \in reach(n)

(* build_create_all_plan: with checks for fields with choices, and columns *)
(* of join tables that are automatic when the keys are.                    *)
HasCheck(models, table, column) ==
  \E m \in Range(models) : m.table = table /\
    \E f \in Range(m.fields) : f.name = column /\ f.choices # {}

CheckedPlan(models, dialect) ==
  LET plan == PlanWith(models, dialect, TRUE) IN
  [i \in DOMAIN plan |->
     IF plan[i].op # "create" THEN plan[i]
     ELSE [plan[i] EXCEPT !.columns =
             [c \in DOMAIN @ |-> [@[c] EXCEPT !.check = HasCheck(models, plan[i].table, c)]]]]

(* detect_changes: tables that are new, columns that are new, are gone, or *)
(* have another type.  What a new table refers to is left out.             *)
DetectChanges(previous, current, dialect) ==
  LET byName == Named(previous)
      Changes(m) ==
        IF m.name \notin DOMAIN byName THEN <<CreateTable(m.table, FieldColumns(m, dialect))>>
        ELSE LET old == byName[m.name]
                 kept(f) == {g \in Range(old.fields) : g.name = f.name}
                 gone == SelectSeq(old.fields, LAMBDA f : \A g \in Range(m.fields) : g.name # f.name)
                 new == SelectSeq(m.fields, LAMBDA f :
                          \A g \in kept(f) : g.kind # f.kind \/ g.len # f.len)
             IN  [i \in DOMAIN gone |-> DropColumn(m.table, gone[i].name)] \o
                 [i \in DOMAIN new |->
                    IF kept(new[i]) # {} THEN AlterType(m.table, new[i].name, SqlType(new[i], dialect))
                    ELSE AddColumn(m.table, new[i].name, ColumnOf(new[i], dialect))]
  IN  FlattenSeq([i \in DOMAIN current |-> Changes(current[i])])

=============================================================================
