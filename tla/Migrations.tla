----------------------------- MODULE Migrations -----------------------------
(***************************************************************************)
(* Developers change the models of a project, let makemigrations write the *)
(* difference to a file, and run the files against a database; a process   *)
(* of a deployment does the same at any time.  A migration runs in one     *)
(* transaction with its entry in djangors_migrations; which ones are still *)
(* to run, or are the newest, is read before.  Any command may be killed.  *)
(***************************************************************************)
EXTENDS Schemas, FiniteSets, FiniteSetsExt

CONSTANTS
  Clients,
  Scenes          \* [dialect, versions, files, dir, tools, fill, commands, crashes]: the database
                  \* and the models over time, the files there are and whether they are used, the
                  \* commands of each client, the tables that may get rows, and two bounds

(* No model is joined to itself: both columns would have the same name.    *)
ASSUME SceneAssumption ==
  \A s \in Scenes :
    /\ s.commands \in Nat /\ s.crashes \in Nat
    /\ \A v \in Range(s.versions) : \A m \in Range(v) : \A r \in Range(m.relations) :
         r.kind = "many_to_many" => r.target # m.name

VARIABLES
  scene,
  version,        \* the models in the code
  snapshot,       \* .schema_snapshot.json
  files,          \* [number -> [up, down, nodown]]: the directory
  db, filled,     \* the database; the tables with rows
  history,        \* djangors_migrations: [name, fake, boot], in the order of their ids
  executed,       \* history: the operations last executed under a name
  first,          \* history: each model as it was when a table for it was planned
  found,          \* history: the migrations that, when last executed, found a table or an
                  \* index they create
  straight,       \* history: what was rolled back was the newest entry, no fake, and had
                  \* found nothing
  pc, work, result,
  commands, crashes

vars == <<scene, version, snapshot, files, db, filled, history, executed, first, found,
          straight, pc, work, result, commands, crashes>>

Steps == {"idle", "check", "apply", "select", "read", "undo", "fake", "write", "remember"}
Initial == 0      \* the name 0001_initial, which no file has
NoWork == [call |-> "none", names |-> <<>>]
NoResult == [call |-> "none", status |-> "none"]

Recorded == {history[i].name : i \in DOMAIN history}
Applied(names) == names \subseteq Recorded
IsBy(n, fake) == \E i \in DOMAIN history : history[i].name = n /\ history[i].fake = fake
Models == scene.versions[version]

TypeOK ==
  /\ version \in DOMAIN scene.versions
  /\ filled \subseteq DOMAIN db.tables
  /\ \A t \in DOMAIN db.tables : \A c \in DOMAIN db.tables[t] :
       scene.dialect = "postgres" =>
         db.tables[t][c].ref.table \in DOMAIN db.tables \cup {NoRef.table}
  /\ \A i \in db.indexes : i.table \in DOMAIN db.tables /\ i.columns \subseteq DOMAIN db.tables[i.table]
  /\ \A i, j \in DOMAIN history : history[i].name = history[j].name => i = j
  /\ pc \in [Clients -> Steps]
  /\ \A c \in Clients : (pc[c] = "idle") = (work[c] = NoWork)
  /\ commands \in 0..scene.commands /\ crashes \in 0..scene.crashes

Init ==
  /\ scene \in Scenes
  /\ version = 1 /\ snapshot = <<>> /\ files = scene.files
  /\ db = NoTables /\ filled = {} /\ history = <<>>
  /\ executed = <<>> /\ first = <<>> /\ found = {} /\ straight = TRUE
  /\ pc = [c \in Clients |-> "idle"] /\ work = [c \in Clients |-> NoWork]
  /\ result = NoResult /\ commands = 0 /\ crashes = 0

-----------------------------------------------------------------------------
Begin(c, tool) ==
  /\ pc[c] = "idle" /\ tool \in scene.tools[c] /\ commands < scene.commands
  /\ commands' = commands + 1

Do(c, step, w) == pc' = [pc EXCEPT ![c] = step] /\ work' = [work EXCEPT ![c] = w]

(* The process exits, with an error or without.                            *)
Exit(c, r) ==
  /\ Do(c, "idle", NoWork)
  /\ result' = r

Ended(c, status) == Exit(c, [call |-> work[c].call, status |-> status])

project == <<scene, version, snapshot, files, first>>
database == <<db, filled, history, executed, found, straight>>

(* migration_files, sorted by their numbers.                               *)
Names(S) == SetToSortSeq(S, <)

(* Both ask ensure_history first, which changes nothing once it is there.  *)
MigrateFromDir(c) ==
  /\ Begin(c, "migrate") /\ (scene.dir \/ files # <<>>)
  /\ IF files = <<>> THEN Exit(c, [call |-> "migrate", status |-> "ok"])
     ELSE Do(c, "check", [call |-> "migrate", names |-> Names(DOMAIN files)]) /\ UNCHANGED result
  /\ UNCHANGED <<project, database, crashes>>

(* Without a directory, dj migrate executes the plan for the models of the *)
(* project, and migrate(), called by the program, with checks and cycles.  *)
PlanOf(tool) ==
  IF tool = "boot" THEN CheckedPlan(Models, scene.dialect) ELSE CreatePlan(Models, scene.dialect)

MigratePlan(c, tool) ==
  /\ Begin(c, tool) /\ ~scene.dir /\ files = <<>>
  /\ IF ~Plannable(Models, scene.dialect) \/ (tool = "boot" /\ Cyclic(Models))
       THEN Exit(c, [call |-> tool, status |-> IF Initial \in Recorded THEN "ok" ELSE "error"])
       ELSE Do(c, "check", [call |-> tool, names |-> <<Initial>>, ops |-> PlanOf(tool),
                           models |-> Models])
            /\ UNCHANGED result
  /\ UNCHANGED <<project, database, crashes>>

(* SELECT 1 FROM djangors_migrations WHERE name = ...                      *)
Check(c) ==
  LET w == work[c] IN
  /\ pc[c] = "check"
  /\ CASE Head(w.names) \notin Recorded -> Do(c, "apply", w) /\ UNCHANGED result
       [] Head(w.names) \in Recorded /\ Len(w.names) > 1 ->
            Do(c, "check", [w EXCEPT !.names = Tail(@)]) /\ UNCHANGED result
       [] OTHER -> Ended(c, "ok")
  /\ UNCHANGED <<project, database, commands, crashes>>

(* Variant: the entry is no part of the transaction's success.             *)
EntryIgnored(name) == TRUE

(* INSERT INTO djangors_migrations, whose name is UNIQUE.                  *)
EntryTaken(name) == name \notin Recorded

(* CREATE ... IF NOT EXISTS changes nothing.                               *)
Finds(ops) ==
  \E o \in Range(ops) : \/ o.op = "create" /\ o.table \in DOMAIN db.tables
                        \/ o.op = "index" /\ \E i \in db.indexes : i.name = o.name

(* The transaction of a migration and its entry.                           *)
Apply(c) ==
  LET w == work[c]
      name == Head(w.names)
      ops == IF name = Initial THEN w.ops ELSE files[name].up
      run == Execute(ops, db, filled, scene.dialect) IN
  /\ pc[c] = "apply"
  /\ IF run.ok /\ EntryTaken(name)
       THEN /\ db' = run.db /\ filled' = filled \cap DOMAIN run.db.tables
            /\ history' = Append(history, [name |-> name, fake |-> FALSE, boot |-> w.call = "boot"])
            /\ executed' = (name :> ops) @@ executed
            /\ found' = IF Finds(ops) THEN found \cup {name} ELSE found \ {name}
            /\ first' = IF name = Initial
                          THEN first @@ [n \in DOMAIN Named(w.models) |-> Named(w.models)[n]]
                          ELSE first
            /\ IF Len(w.names) > 1
                 THEN Do(c, "check", [w EXCEPT !.names = Tail(@)]) /\ UNCHANGED result
                 ELSE Ended(c, "ok")
       ELSE /\ Ended(c, "error")
            /\ UNCHANGED <<db, filled, history, executed, found, first>>
  /\ UNCHANGED <<scene, version, snapshot, files, straight, commands, crashes>>

-----------------------------------------------------------------------------
(* Rolling back.                                                           *)

Rollback(c, count) ==
  /\ Begin(c, "rollback")
  /\ IF files = <<>>
       THEN Exit(c, [call |-> "rollback", status |-> IF scene.dir THEN "ok" ELSE "error"])
       ELSE Do(c, "select", [call |-> "rollback", names |-> Names(DOMAIN files), count |-> count])
            /\ UNCHANGED result
  /\ UNCHANGED <<project, database, crashes>>

(* The newest entries among them.                                          *)
Newest(names, count) ==
  LET mine == SelectSeq(Reverse(history), LAMBDA e : e.name \in names)
      taken == SubSeq(mine, 1, IF count < Len(mine) THEN count ELSE Len(mine)) IN
  [i \in DOMAIN taken |-> taken[i].name]

Select(c) ==
  LET names == Newest(Range(work[c].names), work[c].count) IN
  /\ pc[c] = "select"
  /\ IF names = <<>> THEN Ended(c, "ok")
     ELSE Do(c, "read", [call |-> "rollback", names |-> names]) /\ UNCHANGED result
  /\ UNCHANGED <<project, database, commands, crashes>>

(* All are refused when one of them has no way back.                       *)
ReadDowns(c) ==
  /\ pc[c] = "read"
  /\ IF \E n \in Range(work[c].names) : files[n].nodown \/ files[n].down = <<>>
       THEN Ended(c, "error")
       ELSE Do(c, "undo", work[c]) /\ UNCHANGED result
  /\ UNCHANGED <<project, database, commands, crashes>>

(* The transaction of a migration's way back and its entry.                *)
Undo(c) ==
  LET w == work[c]
      name == Head(w.names)
      run == Execute(files[name].down, db, filled, scene.dialect) IN
  /\ pc[c] = "undo"
  /\ IF run.ok
       THEN /\ db' = run.db /\ filled' = filled \cap DOMAIN run.db.tables
            /\ history' = SelectSeq(history, LAMBDA e : e.name # name)
            /\ straight' = (straight /\ history # <<>> /\ Last(history).name = name
                              /\ IsBy(name, FALSE) /\ name \notin found)
            /\ IF Len(w.names) > 1
                 THEN Do(c, "undo", [w EXCEPT !.names = Tail(@)]) /\ UNCHANGED result
                 ELSE Ended(c, "ok")
       ELSE Ended(c, "error") /\ UNCHANGED <<db, filled, history, straight>>
  /\ UNCHANGED <<project, executed, found, commands, crashes>>

-----------------------------------------------------------------------------
(* --plan, --fake, showmigrations and sqlmigrate.                          *)

Unapplied == IF files # <<>> \/ scene.dir THEN DOMAIN files \ Recorded ELSE {Initial} \ Recorded

ShowPlan(c) ==
  /\ Begin(c, "plan")
  /\ Exit(c, [call |-> "plan", status |-> "ok", names |-> Names(Unapplied)])
  /\ UNCHANGED <<project, database, crashes>>

ShowMigrations(c) ==
  /\ Begin(c, "show")
  /\ Exit(c, [call |-> "show", status |-> "ok", applied |-> Recorded,
              missing |-> Recorded \ DOMAIN files, names |-> Names(DOMAIN files \cup Recorded)])
  /\ UNCHANGED <<project, database, crashes>>

(* The statements of the plan for the snapshot, if there is one, or for    *)
(* the models; only when there is no plan either, those of the file.       *)
SqlMigrate(c, name) ==
  LET models == IF snapshot # <<>> THEN snapshot ELSE Models IN
  /\ Begin(c, "sql")
  /\ Exit(c, [call |-> "sql", status |-> IF name \in DOMAIN files THEN "ok" ELSE "error", ops |->
       IF name \notin DOMAIN files THEN <<>>
       ELSE IF Plannable(models, scene.dialect) THEN CreatePlan(models, scene.dialect)
       ELSE files[name].up])
  /\ UNCHANGED <<project, database, crashes>>

Fake(c) ==
  /\ Begin(c, "fake")
  /\ IF Unapplied = {} THEN Exit(c, [call |-> "fake", status |-> "ok"])
     ELSE Do(c, "fake", [call |-> "fake", names |-> Names(Unapplied)]) /\ UNCHANGED result
  /\ UNCHANGED <<project, database, crashes>>

RecordMigration(c) ==
  LET w == work[c] IN
  /\ pc[c] = "fake"
  /\ IF Head(w.names) \in Recorded
       THEN Ended(c, "error") /\ UNCHANGED history
       ELSE /\ history' = Append(history, [name |-> Head(w.names), fake |-> TRUE, boot |-> FALSE])
            /\ IF Len(w.names) > 1
                 THEN Do(c, "fake", [w EXCEPT !.names = Tail(@)]) /\ UNCHANGED result
                 ELSE Ended(c, "ok")
  /\ UNCHANGED <<project, db, filled, executed, found, straight, commands, crashes>>

-----------------------------------------------------------------------------
(* makemigrations.                                                         *)

Tables(models) == {m.table : m \in Range(models)}
NewModels(old, new) == SelectSeq(new, LAMBDA m : m.table \notin Tables(old))

(* Columns are only added: for what a field was changed to, for fields and *)
(* models that are gone, and for relations of a model that was there, no   *)
(* operation is planned.                                                   *)
NewColumns(old, new, dialect) ==
  LET Was(m) == CHOOSE o \in Range(old) : o.table = m.table
      Added(m) == IF m.table \notin Tables(old) THEN <<>>
                  ELSE SelectSeq(m.fields, LAMBDA f : \A g \in Range(Was(m).fields) : g.name # f.name)
      Of(m) == [i \in DOMAIN Added(m) |->
                  AddColumn(m.table, Added(m)[i].name, ColumnOf(Added(m)[i], dialect))] IN
  FlattenSeq([i \in DOMAIN new |-> Of(new[i])])

(* The reverses are listed in the order of the operations.                 *)
Down(ops) == FlattenSeq([i \in DOMAIN ops |-> Reverse1(ops[i])])

MakeMigrations(c, check) ==
  LET d == scene.dialect
      new == NewModels(snapshot, Models)
      ops == CreatePlan(new, d) \o NewColumns(snapshot, Models, d)
      typed == \A m \in Range(Models) : Typed(m, d) IN
  /\ Begin(c, "make")
  /\ CASE ~Plannable(new, d) \/ ~typed -> Exit(c, [call |-> "make", status |-> "error"])
       [] Plannable(new, d) /\ typed /\ (ops = <<>> \/ check) ->
            Exit(c, [call |-> "make", status |-> IF ops = <<>> THEN "ok" ELSE "error"])
       [] OTHER -> /\ Do(c, "write", [call |-> "make", names |-> <<>>, up |-> ops, models |-> Models])
                   /\ UNCHANGED result
  /\ UNCHANGED <<project, database, crashes>>

(* The number after the last one.                                          *)
Number == IF files = <<>> THEN 1 ELSE Max(DOMAIN files) + 1

WriteFile(c) ==
  LET w == work[c] IN
  /\ pc[c] = "write"
  /\ files' = (Number :> [up |-> w.up, down |-> Down(w.up), nodown |-> FALSE]) @@ files
  /\ first' = first @@ Named(w.models)
  /\ Do(c, "remember", w)
  /\ UNCHANGED <<scene, version, snapshot, database, result, commands, crashes>>

WriteSnapshot(c) ==
  /\ pc[c] = "remember"
  /\ snapshot' = work[c].models
  /\ Ended(c, "ok")
  /\ UNCHANGED <<scene, version, files, first, database, commands, crashes>>

(* detect_changes is for programs; Sqlite has no statement for some of it.  *)
Detect(c) ==
  LET old == scene.versions[version - 1]
      ops == DetectChanges(old, Models, scene.dialect) IN
  /\ version > 1 /\ Begin(c, "detect")
  /\ IF ~Typed(Last(Models), scene.dialect) \/ \E i \in DOMAIN ops : Unsupported(ops[i], scene.dialect)
       THEN Exit(c, [call |-> "unsupported", status |-> "error"])
       ELSE Exit(c, [call |-> "detect", status |-> "ok", old |-> old, new |-> Models, ops |-> ops])
  /\ UNCHANGED <<project, database, crashes>>

-----------------------------------------------------------------------------
(* A command is killed; what it had committed or written stays.            *)
Kill(c) ==
  /\ pc[c] # "idle" /\ crashes < scene.crashes
  /\ crashes' = crashes + 1
  /\ Ended(c, "killed")
  /\ UNCHANGED <<project, database, commands>>

(* The models are edited, one version after another.                       *)
Edit ==
  /\ version < Len(scene.versions)
  /\ version' = version + 1
  /\ UNCHANGED <<scene, snapshot, files, first, database, pc, work, result, commands, crashes>>

(* The program stores rows.                                                *)
Fill(t) ==
  /\ t \in DOMAIN db.tables \ filled
  /\ filled' = filled \cup {t}
  /\ UNCHANGED <<project, db, history, executed, found, straight, pc, work, result,
                 commands, crashes>>

Next ==
  \/ \E c \in Clients :
       \/ MigrateFromDir(c) \/ Check(c) \/ Apply(c)
       \/ \E tool \in {"migrate", "boot"} : MigratePlan(c, tool)
       \/ \E count \in 1..2 : Rollback(c, count)
       \/ Select(c) \/ ReadDowns(c) \/ Undo(c)
       \/ ShowPlan(c) \/ ShowMigrations(c) \/ Fake(c) \/ RecordMigration(c)
       \/ \E name \in 1..2 : SqlMigrate(c, name)
       \/ \E check \in BOOLEAN : MakeMigrations(c, check)
       \/ WriteFile(c) \/ WriteSnapshot(c) \/ Detect(c) \/ Kill(c)
  \/ \E t \in scene.fill : Fill(t)
  \/ Edit

Spec == Init /\ [][Next]_vars

-----------------------------------------------------------------------------
(* The tables are what the recorded migrations make, in the order of their *)
(* entries, whatever was killed, repeated, refused or run at once, and     *)
(* when makemigrations was killed before it wrote the snapshot and plans   *)
(* the same operations again.  Known exceptions: a rollback of a fake, one *)
(* overtaken by another command, and one of a migration whose CREATE ... IF *)
(* NOT EXISTS found the table, which goes with it.                         *)
SchemaMatchesRecord ==
  straight =>
    LET run == SelectSeq(history, LAMBDA e : ~e.fake)
        ops == FlattenSeq([i \in DOMAIN run |-> executed[run[i].name]]) IN
    db = Execute(ops, NoTables, {}, scene.dialect).db

(* A reference to a key that counts by itself does not count.              *)
KeyTypes == {<<<<"INTEGER">>, <<"SERIAL">>>>, <<<<"BIGINT">>, <<"BIGSERIAL">>>>,
             <<<<"INTEGER">>, <<"INTEGER", "PRIMARY KEY">>>>}
RelationsOf(m) == {r.name : r \in Range(m.relations)}

(* The executed migrations that create a table, and the one that did.      *)
Creates(table) ==
  {i \in DOMAIN history : ~history[i].fake /\
     \E o \in Range(executed[history[i].name]) : o.op = "create" /\ o.table = table}
Creator(table) == history[Min(Creates(table))]

(* Those that create the same table give it the same columns.              *)
Agree ==
  \A i, j \in DOMAIN history : ~history[i].fake /\ ~history[j].fake =>
    \A o \in Range(executed[history[i].name]), p \in Range(executed[history[j].name]) :
      o.op = "create" /\ p.op = "create" /\ o.table = p.table =>
        DOMAIN o.columns = DOMAIN p.columns

(* A column refers to a table, with the type of its key; exact: with all.  *)
RefersTo(column, target, exact) ==
  LET key == db.tables[target.table][KeyOf(target).name] IN
  /\ column.ref.table = target.table
  /\ IF exact \/ ~KeyOf(target).auto THEN column.type = key.type
     ELSE <<column.type, key.type>> \in KeyTypes

(* "bring the database from `previous` to `current`": once every file was  *)
(* run, each model of the snapshot (without files, of the plan) has its    *)
(* table, the column of each field and, as far as its table was created    *)
(* with them, of its relations, each of the type of the key it refers to,  *)
(* unless two files create a table with other columns; and so have the     *)
(* operations of detect_changes, for the fields.  Known exception: the     *)
(* columns of a join table that migrate() planned, which are of the type   *)
(* of the keys themselves: they count, and on Sqlite one is its only key.  *)
PlanReachesTarget ==
  /\ straight /\ Agree /\ (\A n \in IF files = <<>> THEN Recorded ELSE DOMAIN files : IsBy(n, FALSE)) =>
       \A m \in Range(IF files = <<>> THEN first ELSE snapshot) :
         LET was == first[m.name] IN
         /\ m.table \in DOMAIN db.tables
         /\ {f.name : f \in Range(m.fields)} \subseteq DOMAIN db.tables[m.table]
         /\ \A r \in Range(was.relations) :
              IF r.kind # "many_to_many"
                THEN RefersTo(db.tables[m.table][r.name], first[r.target], FALSE)
                ELSE LET join == m.table \o <<r.name>>
                         own == Creator(join).name = Initial /\ Creator(join).boot IN
                     \A o \in {was, first[r.target]} :
                       RefersTo(db.tables[join][<<o.name, "id">>], o, own)
  /\ result.call = "detect" =>
       LET d == scene.dialect
           before == Execute(CreatePlan(result.old, d), NoTables, {}, d)
           run == Execute(result.ops, before.db, {}, d) IN
       \A m \in Range(result.new) :
         /\ DOMAIN run.db.tables[m.table] \ RelationsOf(m) = {f.name : f \in Range(m.fields)}
         /\ \A f \in Range(m.fields) : run.db.tables[m.table][f.name].type = SqlType(f, d)

=============================================================================
