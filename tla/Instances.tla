------------------------------ MODULE Instances ------------------------------
(***************************************************************************)
(* Operations on model instances that take two statements, against a       *)
(* database that other clients write to in between.                        *)
(*                                                                         *)
(* A behaviour is about one scene: "relate" loads related rows in a second *)
(* statement; "create" is get_or_create and update_or_create; "modify"     *)
(* reads a row and writes it back, as an instance saved over the pool or   *)
(* inside the transaction that locked it, next to in-database increments.  *)
(* The scene "query" is that of the module Queries.                        *)
(***************************************************************************)
EXTENDS Integers, FiniteSets

CONSTANTS
  Clients,
  Scenes,         \* what a behaviour is about: [name, clients, databases, ...]
  Pks,            \* primary keys
  Fields,         \* [model -> its fields and relations]
  Null,           \* NULL, and a bind value of NULL
  MaxWrites,      \* bound on the writes of a scene: [name -> Nat]
  Tag             \* the value a client gives the columns it sets: [Clients -> values]

Models == {"author", "book", "link"}
IsRow(model, p, row) == DOMAIN row = Fields[model] /\ row["id"] = p

ASSUME KeyAssumption == IsFiniteSet(Pks) /\ Pks \subseteq Int /\ Null \notin Clients

ASSUME ModelAssumption ==
  /\ "id" \in Fields["author"]
  /\ Fields["book"] = {"id", "author", "title", "price"}
  /\ Fields["link"] = {"id", "book", "author"}

(* The rows a behaviour begins with: their keys, and                       *)
(*   - in "relate", every book's author is there, or NULL;                 *)
(*   - in "create", at most one book has the title;                        *)
(*   - in "modify", the row has not been incremented yet.                  *)
Titles(tables, title) == {p \in DOMAIN tables["book"] : tables["book"][p]["title"] = title}

Begins(s, tables) ==
  /\ DOMAIN tables = Models
  /\ \A model \in Models :
       DOMAIN tables[model] \subseteq Pks /\ \A p \in DOMAIN tables[model] : IsRow(model, p, tables[model][p])
  /\ s.name = "relate" =>
       \A p \in DOMAIN tables["book"] : tables["book"][p]["author"] \in DOMAIN tables["author"] \cup {Null}
  /\ s.name = "create" => \A p, q \in Titles(tables, s.title) : p = q
  /\ s.name = "modify" => \A p \in DOMAIN tables["book"] : tables["book"][p]["price"] = 0

ASSUME SceneAssumption == \A s \in Scenes :
  /\ s.clients \subseteq Clients
  /\ MaxWrites[s.name] \in Nat
  /\ \A tables \in s.databases : Begins(s, tables)

VARIABLES
  scene,
  db,             \* [model -> [keys of its rows -> rows]]
  pc,             \* where each client is
  copy,           \* the row, or rows, it has read
  result,         \* what the last call that ended returned
  lock,           \* the client that holds the lock on the row of "modify"
  writes,
  touched,        \* history: changed by another client since this one read it
  increments,     \* history: increments of the row in "modify"
  since,          \* history: increments of the row since this client read it
  undone,         \* history: increments that copies saved over the pool had not seen
  racedInserts    \* history: rows created although another had been since the lookup

vars == <<scene, db, pc, copy, result, lock, writes, touched, increments, since,
          undone, racedInserts>>

Steps == {"idle", "sent", "related", "insert", "update", "readBack", "loaded", "locked"}
NoResult == [call |-> "none"]
NoCopy == [pk |-> 0]

Rows(model) == DOMAIN db[model]

TypeOK ==
  /\ scene \in Scenes
  /\ DOMAIN db = Models
  /\ \A model \in Models :
       Rows(model) \subseteq Pks /\ \A p \in Rows(model) : IsRow(model, p, db[model][p])
  /\ pc \in [Clients -> Steps] /\ DOMAIN copy = Clients
  /\ lock \in Clients \cup {Null}
  /\ \A c \in Clients : pc[c] = "locked" /\ scene.postgres => lock = c
  /\ writes \in 0..MaxWrites[scene.name]
  /\ touched \in [Clients -> BOOLEAN]
  /\ since \in [Clients -> Nat] /\ undone \in Nat
  /\ {increments, racedInserts} \subseteq 0..writes

Init ==
  /\ scene \in Scenes
  /\ db \in scene.databases
  /\ pc = [c \in Clients |-> "idle"]
  /\ copy = [c \in Clients |-> NoCopy]
  /\ result = NoResult
  /\ lock = Null
  /\ writes = 0 /\ increments = 0 /\ undone = 0 /\ racedInserts = 0
  /\ since = [c \in Clients |-> 0]
  /\ touched = [c \in Clients |-> FALSE]

Goto(c, step) == pc' = [pc EXCEPT ![c] = step]

(* A call ends: what it returned, and what it should have.                 *)
Return(c, r) ==
  /\ Goto(c, "idle")
  /\ result' = r
  /\ copy' = [copy EXCEPT ![c] = NoCopy]

Error(call) == [call |-> call, status |-> "error"]

(* A write is applied; the rows others have read are out of date.          *)
Write(c, new) ==
  /\ writes < MaxWrites[scene.name]
  /\ db' = new
  /\ writes' = writes + 1
  /\ touched' = [d \in Clients |-> touched[d] \/ d # c]

NoWrite == UNCHANGED <<db, writes, touched>>
history == <<increments, since, undone, racedInserts>>

Without(table, S) == [p \in DOMAIN table \ S |-> table[p]]
With(table, p, row) == [q \in DOMAIN table \cup {p} |-> IF q = p THEN row ELSE table[q]]

-----------------------------------------------------------------------------
(* Loading related rows takes a second statement.                          *)

Relating(c) == scene.name = "relate" /\ pc[c] = "idle"

(* select_related: the rows and their foreign keys, then the rows these    *)
(* name, unless all of them are NULL.                                      *)
SelectRelated(c) ==
  LET fks == [p \in Rows("book") |-> db["book"][p]["author"]]
      pairs == [p \in DOMAIN fks |-> Null] IN
  /\ Relating(c)
  /\ IF \A p \in DOMAIN fks : fks[p] = Null
       THEN Return(c, [call |-> "select_related", fks |-> fks, pairs |-> pairs,
                       touched |-> FALSE])
       ELSE /\ copy' = [copy EXCEPT ![c] = [call |-> "select_related", fks |-> fks]]
            /\ Goto(c, "related")
            /\ UNCHANGED result
  /\ touched' = [touched EXCEPT ![c] = FALSE]
  /\ UNCHANGED <<scene, db, lock, writes, history>>

(* prefetch_related: the parents were fetched before; their children are   *)
(* grouped by the foreign key they have now.                               *)
Prefetch(c) ==
  /\ Relating(c)
  /\ copy' = [copy EXCEPT ![c] = [call |-> "prefetch", fks |-> [p \in Rows("author") |-> p]]]
  /\ Goto(c, "related")
  /\ touched' = [touched EXCEPT ![c] = FALSE]
  /\ UNCHANGED <<scene, db, result, lock, writes, history>>

(* Variant: a child is filed under its own key.                            *)
FiledByKey(p) == p

FiledUnder(p) == db["book"][p]["author"]

FetchRelated(c) ==
  LET parents == DOMAIN copy[c].fks IN
  /\ pc[c] = "related"
  /\ IF copy[c].call = "select_related"
       THEN Return(c, [call |-> "select_related", fks |-> copy[c].fks, touched |-> touched[c],
              pairs |-> [p \in parents |->
                IF copy[c].fks[p] \in Rows("author") THEN copy[c].fks[p] ELSE Null]])
       ELSE Return(c, [call |-> "prefetch", touched |-> touched[c],
              groups |-> [a \in parents |->
                {p \in Rows("book") : db["book"][p]["author"] \in parents /\ FiledUnder(p) = a}],
              asked |-> [a \in parents |-> {p \in Rows("book") : db["book"][p]["author"] = a}]])
  /\ NoWrite /\ UNCHANGED <<scene, lock, history>>

(* m2m_add is ON CONFLICT DO NOTHING, m2m_remove deletes the pair.         *)
M2mAdd(c, book, author) ==
  LET Linked(p) == db["link"][p]["book"] = book /\ db["link"][p]["author"] = author IN
  /\ Relating(c) /\ book \in Rows("book") /\ author \in Rows("author")
  /\ ~\E p \in Rows("link") : Linked(p)
  /\ \E p \in Pks \ Rows("link") :
       Write(c, [db EXCEPT !["link"] = With(@, p, [id |-> p, book |-> book, author |-> author])])
  /\ UNCHANGED <<scene, pc, copy, result, lock, history>>

M2mRemove(c, book, author) ==
  LET linked == {p \in Rows("link") :
                   db["link"][p]["book"] = book /\ db["link"][p]["author"] = author} IN
  /\ Relating(c) /\ linked # {}
  /\ Write(c, [db EXCEPT !["link"] = Without(@, linked)])
  /\ UNCHANGED <<scene, pc, copy, result, lock, history>>

M2mRelated(c, book) ==
  /\ Relating(c)
  /\ Return(c, [call |-> "m2m", book |-> book, touched |-> FALSE,
       pks |-> {a \in Rows("author") : \E p \in Rows("link") :
                  db["link"][p]["author"] = a /\ db["link"][p]["book"] = book}])
  /\ touched' = [touched EXCEPT ![c] = FALSE]
  /\ UNCHANGED <<scene, db, lock, writes, history>>

(* An author is deleted with its books and links (ON DELETE CASCADE).      *)
DeleteAuthor(c, a) ==
  LET books == {p \in Rows("book") : db["book"][p]["author"] = a} IN
  /\ Relating(c) /\ a \in Rows("author")
  /\ Write(c, [author |-> Without(db["author"], {a}), book |-> Without(db["book"], books),
               link |-> Without(db["link"], {p \in Rows("link") :
                 db["link"][p]["author"] = a \/ db["link"][p]["book"] \in books})])
  /\ UNCHANGED <<scene, pc, copy, result, lock, history>>

SetAuthor(c, p, a) ==
  /\ Relating(c) /\ p \in Rows("book") /\ a \in Rows("author") \cup {Null}
  /\ db["book"][p]["author"] # a
  /\ Write(c, [db EXCEPT !["book"][p]["author"] = a])
  /\ UNCHANGED <<scene, pc, copy, result, lock, history>>

-----------------------------------------------------------------------------
(* get_or_create and update_or_create of the row with a title.             *)

Creating(c) == scene.name = "create" /\ pc[c] = "idle"
Title == scene.title
Titled == Titles(db, Title)

(* Variant: the row is not looked up first.                                *)
FirstIsNeverThere == TRUE

FirstIsNone == Titled = {}

CreateLookup(c, call) ==
  /\ Creating(c)
  /\ touched' = [touched EXCEPT ![c] = FALSE]
  /\ IF FirstIsNone
       THEN Goto(c, "insert") /\ copy' = [copy EXCEPT ![c] = [call |-> call, pk |-> 0]]
                              /\ UNCHANGED result
       ELSE \E p \in Titled :
              IF call = "get_or_create"
                THEN Return(c, [call |-> call, status |-> "ok", created |-> FALSE,
                                row |-> db["book"][p], touched |-> FALSE])
                ELSE /\ Goto(c, "update")
                     /\ copy' = [copy EXCEPT ![c] = [call |-> call, pk |-> p,
                                                     row |-> db["book"][p]]]
                     /\ UNCHANGED result
  /\ UNCHANGED <<scene, db, lock, writes, history>>

(* update_or_create updates whatever matches and returns what it had read. *)
CreateUpdate(c) ==
  LET old == copy[c].row IN
  /\ pc[c] = "update"
  /\ Write(c, [db EXCEPT !["book"] =
       [p \in DOMAIN @ |-> IF p \in Titled THEN [@[p] EXCEPT !["price"] = Tag[c]] ELSE @[p]]])
  /\ Return(c, [call |-> "update_or_create", status |-> "ok", created |-> FALSE, row |-> old,
                touched |-> touched[c]])
  /\ UNCHANGED <<scene, lock, history>>

Unclashed == scene.unique => Titled = {}

(* The key an auto-increment column gets.                                  *)
NewKey(table, p) == p \in Pks \ DOMAIN table /\ \A q \in Pks \ DOMAIN table : p <= q

CreateInsert(c) ==
  /\ pc[c] = "insert"
  /\ IF Unclashed
       THEN \E p \in Pks :
              /\ NewKey(db["book"], p)
              /\ Write(c, [db EXCEPT !["book"] =
                   With(@, p, [id |-> p, author |-> Null, title |-> Title, price |-> Tag[c]])])
              /\ Goto(c, "readBack")
              /\ copy' = [copy EXCEPT ![c] = [call |-> @.call, pk |-> p]]
              /\ racedInserts' = racedInserts + (IF touched[c] THEN 1 ELSE 0)
              /\ UNCHANGED result
       ELSE /\ Return(c, [call |-> copy[c].call, status |-> "error", touched |-> touched[c]])
            /\ NoWrite /\ UNCHANGED racedInserts
  /\ UNCHANGED <<scene, lock, increments, since, undone>>

CreateReadBack(c) ==
  LET p == copy[c].pk IN
  /\ pc[c] = "readBack"
  /\ Return(c, IF p \in Rows("book")
                 THEN [call |-> copy[c].call, status |-> "ok", created |-> TRUE,
                       row |-> db["book"][p], touched |-> touched[c]]
                 ELSE [call |-> copy[c].call, status |-> "error", touched |-> touched[c]])
  /\ NoWrite /\ UNCHANGED <<scene, lock, history>>

DeleteByPk(c, p) ==
  /\ Creating(c) /\ p \in Rows("book")
  /\ Write(c, [db EXCEPT !["book"] = Without(@, {p})])
  /\ UNCHANGED <<scene, pc, copy, result, lock, history>>

-----------------------------------------------------------------------------
(* Reading an instance, changing a field and writing it back.              *)

Modifying(c) == scene.name = "modify" /\ pc[c] = "idle"
Row == 1

(* A statement on another connection waits for a lock on the row.          *)
LockFree == lock = Null

ReadRow(c, step) ==
  /\ Modifying(c) /\ Row \in Rows("book")
  /\ copy' = [copy EXCEPT ![c] = [pk |-> Row, row |-> db["book"][Row]]]
  /\ Goto(c, step)
  /\ touched' = [touched EXCEPT ![c] = FALSE]
  /\ since' = [since EXCEPT ![c] = 0]
  /\ UNCHANGED <<scene, db, result, writes, increments, undone, racedInserts>>

Load(c) == ReadRow(c, "loaded") /\ UNCHANGED lock

(* Variant: FOR UPDATE locks nothing.                                      *)
NoLockTaken(c) == lock

(* FOR UPDATE is not emitted on Sqlite.                                    *)
LockTaken(c) == IF scene.postgres THEN c ELSE lock

(* BEGIN; SELECT ... FOR UPDATE, which waits for the lock.                 *)
LoadLocked(c) == ReadRow(c, "locked") /\ LockFree /\ lock' = LockTaken(c)

Release(c) == lock' = IF lock = c THEN Null ELSE lock

(* The instance's update takes the pool, never the connection that holds   *)
(* the lock: every column is written, in a statement of its own.           *)
SaveCopy(c) ==
  /\ pc[c] = "loaded" /\ LockFree
  /\ IF Row \notin Rows("book")
       THEN Return(c, Error("save")) /\ NoWrite /\ UNCHANGED undone
       ELSE /\ Write(c, [db EXCEPT !["book"][Row] =
                 [copy[c].row EXCEPT !["title"] = Tag[c]]])
            /\ undone' = undone + since[c]
            /\ Return(c, [call |-> "save", status |-> "ok"])
  /\ UNCHANGED <<scene, lock, increments, since, racedInserts>>

Counted ==
  /\ increments' = increments + 1
  /\ since' = [d \in Clients |-> since[d] + 1]

(* QuerySet::update on the transaction's connection, with a literal worked *)
(* out from what was read, and the COMMIT.  Sqlite refuses a write over a  *)
(* snapshot that is out of date.                                           *)
UpdateLocked(c) ==
  /\ pc[c] = "locked"
  /\ IF ~scene.postgres /\ touched[c]
       THEN Return(c, Error("update")) /\ NoWrite /\ UNCHANGED <<increments, since>>
       ELSE /\ Write(c, [db EXCEPT !["book"][Row]["price"] = copy[c].row["price"] + 1])
            /\ Counted
            /\ Return(c, [call |-> "update", status |-> "ok"])
  /\ Release(c)
  /\ UNCHANGED <<scene, undone, racedInserts>>

(* The closure of the transaction fails: ROLLBACK.                         *)
RollBack(c) ==
  /\ pc[c] = "locked"
  /\ Return(c, Error("update")) /\ Release(c)
  /\ NoWrite /\ UNCHANGED <<scene, history>>

(* QuerySet::update with price = price + 1.                                *)
Increment(c) ==
  /\ Modifying(c) /\ Row \in Rows("book") /\ LockFree
  /\ Write(c, [db EXCEPT !["book"][Row]["price"] = @ + 1])
  /\ Counted
  /\ UNCHANGED <<scene, pc, copy, result, lock, undone, racedInserts>>

DeleteInstance(c) ==
  /\ Modifying(c) /\ Row \in Rows("book") /\ LockFree
  /\ Write(c, [db EXCEPT !["book"] = Without(@, {Row})])
  /\ UNCHANGED <<scene, pc, copy, result, lock, history>>

-----------------------------------------------------------------------------
Next ==
  \E c \in scene.clients :
    \/ SelectRelated(c) \/ Prefetch(c) \/ FetchRelated(c)
    \/ \E b, a \in Pks : M2mAdd(c, b, a) \/ M2mRemove(c, b, a)
    \/ \E b \in Pks : M2mRelated(c, b)
    \/ \E a \in Pks : DeleteAuthor(c, a)
    \/ \E p \in Pks, a \in Pks \cup {Null} : SetAuthor(c, p, a)
    \/ \E call \in {"get_or_create", "update_or_create"} : CreateLookup(c, call)
    \/ CreateUpdate(c) \/ CreateInsert(c) \/ CreateReadBack(c)
    \/ \E p \in Pks : DeleteByPk(c, p)
    \/ Load(c) \/ SaveCopy(c) \/ LoadLocked(c) \/ UpdateLocked(c) \/ RollBack(c)
    \/ Increment(c) \/ DeleteInstance(c)

Spec == Init /\ [][Next]_vars

-----------------------------------------------------------------------------
(* select_related and prefetch_related pair a row with the one its foreign *)
(* key names and nothing else; a related row is missing only if there was  *)
(* a write between the two statements.                                     *)
RelatedRowsMatch ==
  /\ result.call = "select_related" =>
       \A p \in DOMAIN result.fks :
         result.pairs[p] = result.fks[p] \/ (result.pairs[p] = Null /\ result.touched)
  /\ result.call = "prefetch" => result.groups = result.asked

(* "Fetches the first row matching the current filter, or creates a new    *)
(* one": with a unique index there is one row; without one every further   *)
(* row was inserted by a caller overtaken between its two statements; and  *)
(* a call fails only if another client wrote in between.                   *)
CreatedOnce ==
  scene.name = "create" =>
    /\ Cardinality(Titled) <= 1 + (IF scene.unique THEN 0 ELSE racedInserts)
    /\ (result.call # "none" /\ result.status = "error") => result.touched

(* select_for_update: on Postgres, from the SELECT to the end of the       *)
(* transaction one client has the row, and it is as that client read it.   *)
LockedRowStands ==
  scene.postgres => \A c \in Clients : pc[c] = "locked" =>
    /\ Row \in Rows("book") /\ copy[c].row = db["book"][Row]
    /\ \A d \in Clients : pc[d] = "locked" => d = c

(* Saving an instance writes every column: it undoes at most the           *)
(* increments made since the copy was read, and a copy read with           *)
(* select_for_update and written back in its transaction undoes none.      *)
IncrementsSurvive ==
  (scene.name = "modify" /\ Row \in Rows("book")) =>
    db["book"][Row]["price"] \in (increments - undone)..increments

=============================================================================
