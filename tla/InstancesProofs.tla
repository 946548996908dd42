--------------------------- MODULE InstancesProofs ---------------------------
(***************************************************************************)
(* Related rows, get_or_create and saves, for any clients, keys, rows and  *)
(* bounds.  The inductive invariant says what a client knows between its   *)
(* two statements as long as nobody wrote.                                 *)
(***************************************************************************)
EXTENDS Instances, FiniteSetTheorems, TLAPS

Creates == {"get_or_create", "update_or_create"}

(* What a client read holds until another client writes; a lock on         *)
(* Postgres keeps the others from writing.                                 *)
ClientOK(c) ==
  \/ pc[c] = "idle"
  \/ /\ pc[c] = "related" /\ scene.name = "relate"
     /\ copy[c].call = "select_related" /\ touched[c] = FALSE =>
          \A p \in DOMAIN copy[c].fks : copy[c].fks[p] \in Rows("author") \cup {Null}
  \/ /\ pc[c] = "insert" /\ scene.name = "create" /\ copy[c].call \in Creates
     /\ touched[c] = FALSE => Titled = {}
  \/ pc[c] = "update" /\ scene.name = "create"
  \/ /\ pc[c] = "readBack" /\ scene.name = "create" /\ copy[c].call \in Creates
     /\ touched[c] = FALSE => copy[c].pk \in Rows("book")
  \/ /\ pc[c] \in {"loaded", "locked"} /\ scene.name = "modify"
     /\ IsRow("book", Row, copy[c].row)
     /\ copy[c].row["price"] \in (increments - undone - since[c])..increments
     /\ touched[c] = FALSE => Row \in Rows("book") /\ copy[c].row = db["book"][Row]
     /\ pc[c] = "locked" /\ scene.postgres => touched[c] = FALSE

(* The foreign key of a book.                                              *)
References ==
  scene.name = "relate" =>
    \A p \in Rows("book") : db["book"][p]["author"] \in Rows("author") \cup {Null}

IInv ==
  /\ TypeOK
  /\ References
  /\ \A c \in Clients : ClientOK(c)
  /\ RelatedRowsMatch
  /\ CreatedOnce
  /\ IncrementsSurvive

-----------------------------------------------------------------------------
(* The parts of the invariant.                                             *)

TablesOK(tables) ==
  /\ DOMAIN tables = Models
  /\ \A model \in Models :
       DOMAIN tables[model] \subseteq Pks
       /\ \A p \in DOMAIN tables[model] : IsRow(model, p, tables[model][p])

TitledOnce ==
  scene.name = "create" =>
    Cardinality(Titled) <= 1 + (IF scene.unique THEN 0 ELSE racedInserts)

ErrorsRaced ==
  scene.name = "create" => ((result.call # "none" /\ result.status = "error") => result.touched)

LEMMA Parts ==
  /\ TypeOK <=> /\ scene \in Scenes /\ TablesOK(db)
                /\ pc \in [Clients -> Steps] /\ DOMAIN copy = Clients
                /\ lock \in Clients \cup {Null}
                /\ \A c \in Clients : pc[c] = "locked" /\ scene.postgres => lock = c
                /\ writes \in 0..MaxWrites[scene.name]
                /\ touched \in [Clients -> BOOLEAN]
                /\ since \in [Clients -> Nat] /\ undone \in Nat
                /\ {increments, racedInserts} \subseteq 0..writes
  /\ CreatedOnce <=> TitledOnce /\ ErrorsRaced
BY DEF TypeOK, TablesOK, Rows, CreatedOnce, TitledOnce, ErrorsRaced

LEMMA Scene ==
  ASSUME NEW s \in Scenes
  PROVE  /\ s.clients \subseteq Clients /\ MaxWrites[s.name] \in Nat
         /\ \A tables \in s.databases : Begins(s, tables)
BY SceneAssumption

LEMMA TitledFinite ==
  ASSUME TypeOK
  PROVE  IsFiniteSet(Titled) /\ Cardinality(Titled) \in Nat /\ Titled \subseteq Rows("book")
<1>1. Titled \subseteq Rows("book") /\ Rows("book") \subseteq Pks
  BY DEF Titled, Titles, TypeOK, Models, Rows
<1>2. IsFiniteSet(Titled)
  BY <1>1, KeyAssumption, FS_Subset
<1> QED
  BY <1>1, <1>2, FS_CardinalityType

(* A table is replaced.                                                    *)
LEMMA TableChanged ==
  ASSUME TablesOK(db), NEW model \in Models, NEW table, DOMAIN table \subseteq Pks,
         \A p \in DOMAIN table : IsRow(model, p, table[p]),
         NEW new, new = [db EXCEPT ![model] = table]
  PROVE  TablesOK(new) /\ new[model] = table /\ \A m \in Models \ {model} : new[m] = db[m]
BY DEF TablesOK

-----------------------------------------------------------------------------
(* What a step does to the clients that do not take it.                    *)

(* A copy is behind by no more than it was.                                *)
NoOlder(d) ==
  /\ increments <= increments'
  /\ increments' - undone' - since'[d] <= increments - undone - since[d]

CountersOK ==
  /\ increments \in Nat /\ undone \in Nat /\ since \in [Clients -> Nat]

LEMMA Counters ==
  ASSUME IInv
  PROVE  /\ CountersOK
         /\ UNCHANGED <<increments, undone>> =>
              \A d \in Clients : since'[d] = since[d] => NoOlder(d)
<1>1. CountersOK
  BY Scene DEF IInv, TypeOK, CountersOK
<1> QED
  BY <1>1 DEF CountersOK, NoOlder

LEMMA StillBounded ==
  ASSUME NEW d \in Clients, CountersOK, CountersOK', NoOlder(d), NEW price,
         price \in (increments - undone - since[d])..increments
  PROVE  price \in (increments' - undone' - since'[d])..increments'
BY DEF CountersOK, NoOlder

LEMMA OthersStay ==
  ASSUME NEW d \in Clients, ClientOK(d), pc'[d] = pc[d], copy'[d] = copy[d], UNCHANGED scene,
         CountersOK, CountersOK', NoOlder(d),
         \/ UNCHANGED db /\ touched'[d] = touched[d]
         \/ touched'[d] = TRUE /\ ~(pc[d] = "locked" /\ scene.postgres)
  PROVE  ClientOK(d)'
<1>1. CASE pc[d] \in {"loaded", "locked"}
  <2>1. copy'[d].row["price"] \in (increments' - undone' - since'[d])..increments'
    BY <1>1, StillBounded DEF ClientOK
  <2> QED
    BY <1>1, <2>1 DEF ClientOK, Rows, Row, IsRow
<1>2. CASE pc[d] \notin {"loaded", "locked"}
  BY <1>2 DEF ClientOK, Titled, Titles, Title, Rows
<1> QED
  BY <1>1, <1>2

Stays(c) ==
  /\ pc' \in [Clients -> Steps] /\ DOMAIN copy' = Clients
  /\ \A d \in Clients \ {c} : pc'[d] = pc[d] /\ copy'[d] = copy[d]

LockOK ==
  /\ lock \in Clients \cup {Null}
  /\ \A c \in Clients : pc[c] = "locked" /\ scene.postgres => lock = c

LEMMA Going ==
  ASSUME TypeOK, NEW c \in Clients, NEW step \in Steps, Goto(c, step),
         NEW x, copy' = [copy EXCEPT ![c] = x]
  PROVE  Stays(c) /\ pc'[c] = step /\ copy'[c] = x
BY DEF TypeOK, Goto, Stays

LEMMA Returning ==
  ASSUME TypeOK, NEW c \in Clients, NEW r, Return(c, r)
  PROVE  Stays(c) /\ pc'[c] = "idle" /\ result' = r /\ ClientOK(c)'
<1>1. "idle" \in Steps
  BY DEF Steps
<1>2. Stays(c) /\ pc'[c] = "idle" /\ result' = r
  BY <1>1, Going DEF Return
<1> QED
  BY <1>2 DEF ClientOK

(* A step that writes no row; the client may have read one.                *)
LEMMA ReadRowInv ==
  ASSUME IInv, NEW c \in Clients, Stays(c),
         UNCHANGED <<scene, db, writes, increments, undone, racedInserts>>,
         touched' \in [Clients -> BOOLEAN], since' \in [Clients -> Nat],
         \A d \in Clients \ {c} : touched'[d] = touched[d] /\ since'[d] = since[d],
         ClientOK(c)', LockOK', RelatedRowsMatch', ErrorsRaced'
  PROVE  IInv'
<1>1. \A d \in Clients : ClientOK(d)'
  <2>1. CountersOK /\ CountersOK'
    BY Counters DEF CountersOK
  <2>2. ASSUME NEW d \in Clients \ {c}
        PROVE  ClientOK(d)'
    <3>1. NoOlder(d)
      BY Counters
    <3> QED
      BY <2>1, <3>1, OthersStay DEF IInv, Stays
  <2> QED
    BY <2>2
<1>2. TypeOK'
  BY DEF IInv, TypeOK, Stays, LockOK, Rows, IsRow, Models, Steps
<1>3. References' /\ TitledOnce' /\ IncrementsSurvive'
  <2>1. Titled' = Titled
    BY DEF Titled, Titles, Title
  <2> QED
    BY <2>1, Parts DEF IInv, References, TitledOnce, IncrementsSurvive, Rows, Row
<1>4. CreatedOnce'
  BY <1>3 DEF CreatedOnce, TitledOnce, ErrorsRaced
<1> QED
  BY <1>1, <1>2, <1>3, <1>4 DEF IInv

LEMMA ReadInv ==
  ASSUME IInv, NEW c \in Clients, Stays(c), UNCHANGED <<scene, db, writes, history>>,
         touched' \in [Clients -> BOOLEAN],
         \A d \in Clients \ {c} : touched'[d] = touched[d],
         ClientOK(c)', LockOK', RelatedRowsMatch', ErrorsRaced'
  PROVE  IInv'
<1>1. since' \in [Clients -> Nat] /\ UNCHANGED <<since, increments, undone, racedInserts>>
  BY DEF history, IInv, TypeOK
<1> QED
  BY <1>1, ReadRowInv

Grows(c) ==
  /\ increments' \in 0..(writes + 1) /\ CountersOK'
  /\ \A d \in Clients \ {c} : NoOlder(d)

(* A step that writes rows: nobody else has them locked.                   *)
LEMMA WriteInv ==
  ASSUME IInv, NEW c \in Clients, NEW new, Write(c, new), TablesOK(new), Stays(c),
         UNCHANGED scene, \A d \in Clients \ {c} : ~(pc[d] = "locked" /\ scene.postgres),
         Grows(c), racedInserts' \in 0..(writes + 1),
         ClientOK(c)', LockOK', References', TitledOnce', IncrementsSurvive',
         RelatedRowsMatch', ErrorsRaced'
  PROVE  IInv'
<1>1. /\ db' = new /\ writes' = writes + 1 /\ touched' \in [Clients -> BOOLEAN]
      /\ \A d \in Clients \ {c} : touched'[d] = TRUE
      /\ writes \in Nat /\ writes' \in 0..MaxWrites[scene.name]
  <2>1. touched' = [d \in Clients |-> touched[d] \/ d # c] /\ touched \in [Clients -> BOOLEAN]
    BY DEF Write, IInv, TypeOK
  <2>2. touched' \in [Clients -> BOOLEAN] /\ \A d \in Clients \ {c} : touched'[d] = TRUE
    BY <2>1
  <2>3. writes \in Nat /\ MaxWrites[scene.name] \in Nat /\ writes < MaxWrites[scene.name]
    BY Scene DEF Write, IInv, TypeOK
  <2> QED
    BY <2>2, <2>3 DEF Write
<1>2. \A d \in Clients : ClientOK(d)'
  <2>1. \A d \in Clients \ {c} : ClientOK(d)'
    BY <1>1, Counters, OthersStay DEF IInv, Stays, Grows
  <2> QED
    BY <2>1
<1>3. TablesOK(db')
  BY <1>1
<1>4. TypeOK'
  BY <1>1, <1>3 DEF Grows, CountersOK, IInv, TypeOK, TablesOK, Stays, LockOK, Rows, IsRow, Models, Steps
<1>5. CreatedOnce'
  BY DEF CreatedOnce, TitledOnce, ErrorsRaced
<1> QED
  BY <1>2, <1>4, <1>5 DEF IInv

-----------------------------------------------------------------------------
(* Steps that change no row, or leave the results and locks alone.         *)

LEMMA LockStays ==
  ASSUME IInv, NEW c \in Clients, Stays(c), UNCHANGED <<scene, lock>>,
         pc'[c] # "locked" \/ pc'[c] = pc[c]
  PROVE  LockOK'
BY DEF IInv, TypeOK, Stays, LockOK

LEMMA NobodyLocked ==
  ASSUME IInv, scene.name # "modify"
  PROVE  \A d \in Clients : pc[d] # "locked"
BY DEF IInv, ClientOK

LEMMA Untouched ==
  ASSUME IInv, NEW c \in Clients, touched' = [touched EXCEPT ![c] = FALSE]
  PROVE  /\ touched' \in [Clients -> BOOLEAN] /\ touched'[c] = FALSE
         /\ \A d \in Clients \ {c} : touched'[d] = touched[d]
BY DEF IInv, TypeOK

LEMMA ResultStays ==
  ASSUME IInv, UNCHANGED <<scene, result>>
  PROVE  RelatedRowsMatch' /\ ErrorsRaced'
BY DEF IInv, RelatedRowsMatch, CreatedOnce, ErrorsRaced

(* A client that is between no statements writes.                          *)
LEMMA IdleWrites ==
  ASSUME IInv, NEW c \in Clients, pc[c] = "idle", UNCHANGED <<scene, pc, copy, result, lock>>
  PROVE  Stays(c) /\ ClientOK(c)' /\ LockOK' /\ RelatedRowsMatch' /\ ErrorsRaced'
<1>1. Stays(c)
  BY DEF IInv, TypeOK, Stays
<1>2. ClientOK(c)'
  BY DEF ClientOK
<1>3. LockOK'
  BY <1>1, LockStays
<1> QED
  BY <1>1, <1>2, <1>3, ResultStays

LEMMA Histories ==
  ASSUME IInv
  PROVE  /\ writes \in Nat /\ increments \in 0..writes /\ racedInserts \in 0..writes
         /\ \A h \in 0..writes : h \in 0..(writes + 1) /\ h + 1 \in 0..(writes + 1)
<1>1. writes \in Nat
  BY Scene DEF IInv, TypeOK
<1> QED
  BY <1>1 DEF IInv, TypeOK

LEMMA Uncounted ==
  ASSUME IInv, NEW c \in Clients, UNCHANGED <<increments, since, undone>>
  PROVE  Grows(c)
BY Histories, Counters DEF Grows, CountersOK

-----------------------------------------------------------------------------
(* Loading related rows.                                                   *)

LEMMA SelectRelatedInv ==
  ASSUME IInv, NEW c \in Clients, SelectRelated(c)
  PROVE  IInv'
<1> DEFINE fks == [p \in Rows("book") |-> db["book"][p]["author"]]
           pairs == [p \in DOMAIN fks |-> Null]
<1>0. /\ scene.name = "relate" /\ UNCHANGED <<scene, db, lock, writes, history>>
      /\ touched' = [touched EXCEPT ![c] = FALSE]
  BY DEF SelectRelated, Relating
<1>1. CASE \A p \in DOMAIN fks : fks[p] = Null
  <2> DEFINE r == [call |-> "select_related", fks |-> fks, pairs |-> pairs, touched |-> FALSE]
  <2>1. Return(c, r)
    BY <1>1 DEF SelectRelated
  <2>2. Stays(c) /\ pc'[c] = "idle" /\ result' = r /\ ClientOK(c)'
    BY <2>1, Returning DEF IInv
  <2>3. RelatedRowsMatch' /\ ErrorsRaced'
    BY <1>0, <1>1, <2>2 DEF RelatedRowsMatch, ErrorsRaced
  <2> QED
    BY <1>0, <2>2, <2>3, Untouched, LockStays, ReadInv
<1>2. CASE ~\A p \in DOMAIN fks : fks[p] = Null
  <2> DEFINE x == [call |-> "select_related", fks |-> fks]
  <2>1. copy' = [copy EXCEPT ![c] = x] /\ Goto(c, "related") /\ UNCHANGED result
    BY <1>2 DEF SelectRelated
  <2>2. Stays(c) /\ pc'[c] = "related" /\ copy'[c] = x
    BY <2>1, Going DEF IInv, Steps
  <2>3. ClientOK(c)'
    <3>1. \A p \in DOMAIN fks : fks[p] \in Rows("author") \cup {Null}
      BY <1>0 DEF IInv, References
    <3> HIDE DEF fks
    <3> QED
      BY <1>0, <2>2, <3>1 DEF ClientOK, Rows
  <2> QED
    BY <1>0, <2>1, <2>2, <2>3, Untouched, LockStays, ResultStays, ReadInv
<1> QED
  BY <1>1, <1>2

LEMMA PrefetchInv ==
  ASSUME IInv, NEW c \in Clients, Prefetch(c)
  PROVE  IInv'
<1> DEFINE x == [call |-> "prefetch", fks |-> [p \in Rows("author") |-> p]]
<1>0. /\ scene.name = "relate" /\ UNCHANGED <<scene, db, result, lock, writes, history>>
      /\ touched' = [touched EXCEPT ![c] = FALSE]
      /\ copy' = [copy EXCEPT ![c] = x] /\ Goto(c, "related")
  BY DEF Prefetch, Relating
<1>1. Stays(c) /\ pc'[c] = "related" /\ copy'[c] = x
  BY <1>0, Going DEF IInv, Steps
<1>2. ClientOK(c)'
  BY <1>0, <1>1 DEF ClientOK
<1> QED
  BY <1>0, <1>1, <1>2, Untouched, LockStays, ResultStays, ReadInv

LEMMA FetchRelatedInv ==
  ASSUME IInv, NEW c \in Clients, FetchRelated(c)
  PROVE  IInv'
<1> DEFINE parents == DOMAIN copy[c].fks
<1>0. /\ pc[c] = "related" /\ scene.name = "relate"
      /\ UNCHANGED <<scene, db, lock, writes, touched, history>>
      /\ touched' \in [Clients -> BOOLEAN]
  BY DEF FetchRelated, NoWrite, IInv, ClientOK, TypeOK
<1>1. CASE copy[c].call = "select_related"
  <2> DEFINE pairs == [p \in parents |->
                         IF copy[c].fks[p] \in Rows("author") THEN copy[c].fks[p] ELSE Null]
             r == [call |-> "select_related", fks |-> copy[c].fks, touched |-> touched[c],
                   pairs |-> pairs]
  <2>1. Return(c, r)
    BY <1>1 DEF FetchRelated
  <2>2. Stays(c) /\ pc'[c] = "idle" /\ result' = r /\ ClientOK(c)'
    BY <2>1, Returning DEF IInv
  <2>3. touched[c] \in BOOLEAN
    BY DEF IInv, TypeOK
  <2>4. touched[c] = FALSE => \A p \in parents : copy[c].fks[p] \in Rows("author") \cup {Null}
    BY <1>0, <1>1 DEF IInv, ClientOK
  <2>5. \A p \in parents : pairs[p] = copy[c].fks[p] \/ (pairs[p] = Null /\ touched[c])
    <3> SUFFICES ASSUME NEW p \in parents, pairs[p] # copy[c].fks[p]
                 PROVE  pairs[p] = Null /\ touched[c]
      OBVIOUS
    <3> QED
      BY <2>3, <2>4
  <2>6. RelatedRowsMatch' /\ ErrorsRaced'
    <3> HIDE DEF pairs
    <3>1. /\ result'.call = "select_related" /\ result'.fks = copy[c].fks
          /\ result'.pairs = pairs /\ result'.touched = touched[c]
      BY <2>2
    <3> QED
      BY <1>0, <2>5, <3>1 DEF RelatedRowsMatch, ErrorsRaced
  <2> QED
    BY <1>0, <2>2, <2>6, LockStays, ReadInv
<1>2. CASE copy[c].call # "select_related"
  <2> DEFINE groups == [a \in parents |->
               {p \in Rows("book") : db["book"][p]["author"] \in parents /\ FiledUnder(p) = a}]
             asked == [a \in parents |-> {p \in Rows("book") : db["book"][p]["author"] = a}]
             r == [call |-> "prefetch", touched |-> touched[c], groups |-> groups,
                   asked |-> asked]
  <2>1. Return(c, r)
    BY <1>2 DEF FetchRelated
  <2>2. Stays(c) /\ pc'[c] = "idle" /\ result' = r /\ ClientOK(c)'
    BY <2>1, Returning DEF IInv
  <2>3. groups = asked
    BY DEF FiledUnder
  <2>4. RelatedRowsMatch' /\ ErrorsRaced'
    <3> HIDE DEF groups, asked
    <3> QED
      BY <1>0, <2>2, <2>3 DEF RelatedRowsMatch, ErrorsRaced
  <2> QED
    BY <1>0, <2>2, <2>4, LockStays, ReadInv
<1> QED
  BY <1>1, <1>2

(* Rows of the three tables come and go; a book's author stays, or is NULL.*)
LEMMA RelateWriteInv ==
  ASSUME IInv, NEW c \in Clients, scene.name = "relate", pc[c] = "idle",
         NEW new, Write(c, new), TablesOK(new),
         \A p \in DOMAIN new["book"] : new["book"][p]["author"] \in DOMAIN new["author"] \cup {Null},
         UNCHANGED <<scene, pc, copy, result, lock, history>>
  PROVE  IInv'
<1>1. db' = new
  BY DEF Write
<1>2. References' /\ TitledOnce' /\ IncrementsSurvive'
  BY <1>1 DEF References, TitledOnce, IncrementsSurvive, Rows
<1>3. Grows(c) /\ racedInserts' \in 0..(writes + 1)
  BY Histories, Uncounted DEF history
<1> QED
  BY <1>2, <1>3, IdleWrites, NobodyLocked, WriteInv

LEMMA M2mAddInv ==
  ASSUME IInv, NEW c \in Clients, NEW book \in Pks, NEW author \in Pks, M2mAdd(c, book, author)
  PROVE  IInv'
<1>1. PICK p \in Pks \ Rows("link") :
        Write(c, [db EXCEPT !["link"] =
          With(db["link"], p, [id |-> p, book |-> book, author |-> author])])
  BY DEF M2mAdd
<1> DEFINE row == [id |-> p, book |-> book, author |-> author]
           table == With(db["link"], p, row)
           new == [db EXCEPT !["link"] = table]
<1>2. TablesOK(db) /\ "link" \in Models /\ "book" \in Models /\ "author" \in Models
  BY Parts DEF IInv, Models
<1>3. IsRow("link", p, row)
  BY ModelAssumption DEF IsRow
<1>4. DOMAIN table \subseteq Pks /\ \A q \in DOMAIN table : IsRow("link", q, table[q])
  <2> HIDE DEF row
  <2> QED
    BY <1>2, <1>3 DEF With, TablesOK
<1>5. TablesOK(new) /\ \A m \in Models \ {"link"} : new[m] = db[m]
  <2> HIDE DEF table
  <2> QED
    BY <1>2, <1>4, TableChanged
<1>6. /\ scene.name = "relate" /\ pc[c] = "idle"
      /\ UNCHANGED <<scene, pc, copy, result, lock, history>>
  BY DEF M2mAdd, Relating
<1>7. \A q \in DOMAIN new["book"] : new["book"][q]["author"] \in DOMAIN new["author"] \cup {Null}
  <2>1. new["book"] = db["book"] /\ new["author"] = db["author"]
    BY <1>2, <1>5
  <2> HIDE DEF new
  <2> QED
    BY <1>6, <2>1 DEF IInv, References, Rows
<1> HIDE DEF new
<1> QED
  BY <1>1, <1>5, <1>6, <1>7, RelateWriteInv DEF new

LEMMA M2mRemoveInv ==
  ASSUME IInv, NEW c \in Clients, NEW book \in Pks, NEW author \in Pks, M2mRemove(c, book, author)
  PROVE  IInv'
<1> DEFINE linked == {p \in Rows("link") :
                        db["link"][p]["book"] = book /\ db["link"][p]["author"] = author}
           table == Without(db["link"], linked)
           new == [db EXCEPT !["link"] = table]
<1>1. Write(c, new)
  BY DEF M2mRemove
<1>2. TablesOK(db) /\ "link" \in Models /\ "book" \in Models /\ "author" \in Models
  BY Parts DEF IInv, Models
<1>4. DOMAIN table \subseteq Pks /\ \A q \in DOMAIN table : IsRow("link", q, table[q])
  <2> HIDE DEF linked
  <2> QED
    BY <1>2 DEF Without, TablesOK
<1>5. TablesOK(new) /\ \A m \in Models \ {"link"} : new[m] = db[m]
  <2> HIDE DEF table
  <2> QED
    BY <1>2, <1>4, TableChanged
<1>6. /\ scene.name = "relate" /\ pc[c] = "idle"
      /\ UNCHANGED <<scene, pc, copy, result, lock, history>>
  BY DEF M2mRemove, Relating
<1>7. \A q \in DOMAIN new["book"] : new["book"][q]["author"] \in DOMAIN new["author"] \cup {Null}
  <2>1. new["book"] = db["book"] /\ new["author"] = db["author"]
    BY <1>2, <1>5
  <2> HIDE DEF new
  <2> QED
    BY <1>6, <2>1 DEF IInv, References, Rows
<1> HIDE DEF new
<1> QED
  BY <1>1, <1>5, <1>6, <1>7, RelateWriteInv

LEMMA M2mRelatedInv ==
  ASSUME IInv, NEW c \in Clients, NEW book \in Pks, M2mRelated(c, book)
  PROVE  IInv'
<1> DEFINE pks == {a \in Rows("author") : \E p \in Rows("link") :
                     db["link"][p]["author"] = a /\ db["link"][p]["book"] = book}
           r == [call |-> "m2m", book |-> book, touched |-> FALSE, pks |-> pks]
<1>1. /\ scene.name = "relate" /\ UNCHANGED <<scene, db, lock, writes, history>>
      /\ touched' = [touched EXCEPT ![c] = FALSE] /\ Return(c, r)
  BY DEF M2mRelated, Relating
<1>2. Stays(c) /\ pc'[c] = "idle" /\ result' = r /\ ClientOK(c)'
  BY <1>1, Returning DEF IInv
<1>3. RelatedRowsMatch' /\ ErrorsRaced'
  BY <1>1, <1>2 DEF RelatedRowsMatch, ErrorsRaced
<1> QED
  BY <1>1, <1>2, <1>3, Untouched, LockStays, ReadInv

LEMMA DeleteAuthorInv ==
  ASSUME IInv, NEW c \in Clients, NEW a \in Pks, DeleteAuthor(c, a)
  PROVE  IInv'
<1> DEFINE books == {p \in Rows("book") : db["book"][p]["author"] = a}
           links == {p \in Rows("link") :
                       db["link"][p]["author"] = a \/ db["link"][p]["book"] \in books}
           new == [author |-> Without(db["author"], {a}), book |-> Without(db["book"], books),
                   link |-> Without(db["link"], links)]
<1>1. /\ Write(c, new) /\ scene.name = "relate" /\ pc[c] = "idle"
      /\ UNCHANGED <<scene, pc, copy, result, lock, history>>
  BY DEF DeleteAuthor, Relating
<1>2. TablesOK(db) /\ "link" \in Models /\ "book" \in Models /\ "author" \in Models
  BY Parts DEF IInv, Models
<1>3. TablesOK(new)
  <2> HIDE DEF books, links
  <2>1. DOMAIN new = Models
    BY DEF Models
  <2>2. \A m \in Models : \E S : new[m] = Without(db[m], S)
    BY DEF Models
  <2> HIDE DEF new
  <2>3. ASSUME NEW m \in Models
        PROVE  DOMAIN new[m] \subseteq Pks /\ \A q \in DOMAIN new[m] : IsRow(m, q, new[m][q])
    <3>1. PICK S : new[m] = Without(db[m], S)
      BY <2>2
    <3> QED
      BY <1>2, <3>1 DEF Without, TablesOK
  <2> QED
    BY <2>1, <2>3 DEF TablesOK
<1>4. \A q \in DOMAIN new["book"] : new["book"][q]["author"] \in DOMAIN new["author"] \cup {Null}
  <2>1. new["book"] = Without(db["book"], books) /\ new["author"] = Without(db["author"], {a})
    OBVIOUS
  <2> HIDE DEF new
  <2>2. ASSUME NEW q \in DOMAIN new["book"]
        PROVE  new["book"][q]["author"] \in DOMAIN new["author"] \cup {Null}
    <3>1. q \in Rows("book") /\ q \notin books /\ new["book"][q] = db["book"][q]
      BY <2>1 DEF Without, Rows
    <3>2. db["book"][q]["author"] \in Rows("author") \cup {Null} /\ db["book"][q]["author"] # a
      BY <1>1, <3>1 DEF IInv, References
    <3>3. DOMAIN new["author"] = Rows("author") \ {a}
      BY <2>1 DEF Without, Rows
    <3> QED
      BY <3>1, <3>2, <3>3
  <2> QED
    BY <2>2
<1> HIDE DEF new
<1> QED
  BY <1>1, <1>3, <1>4, RelateWriteInv

LEMMA BooksChanged ==
  ASSUME IInv, NEW table, DOMAIN table \subseteq Pks,
         \A p \in DOMAIN table : IsRow("book", p, table[p]),
         NEW new, new = [db EXCEPT !["book"] = table]
  PROVE  TablesOK(new) /\ new["book"] = table /\ new["author"] = db["author"]
<1>1. TablesOK(db)
  BY Parts DEF IInv
<1>2. "book" \in Models /\ "author" \in Models \ {"book"}
  BY DEF Models
<1>3. TablesOK(new) /\ new["book"] = table /\ \A m \in Models \ {"book"} : new[m] = db[m]
  BY <1>1, <1>2 DEF TablesOK
<1> QED
  BY <1>2, <1>3

LEMMA SetAuthorInv ==
  ASSUME IInv, NEW c \in Clients, NEW p \in Pks, NEW a \in Pks \cup {Null}, SetAuthor(c, p, a)
  PROVE  IInv'
<1> DEFINE row == [db["book"][p] EXCEPT !["author"] = a]
           table == [db["book"] EXCEPT ![p] = row]
           new == [db EXCEPT !["book"] = table]
<1>1. /\ scene.name = "relate" /\ pc[c] = "idle" /\ p \in Rows("book")
      /\ a \in Rows("author") \cup {Null}
      /\ UNCHANGED <<scene, pc, copy, result, lock, history>>
  BY DEF SetAuthor, Relating
<1>2. TablesOK(db) /\ "book" \in Models
  BY Parts DEF IInv, Models
<1>3. Write(c, new)
  BY DEF SetAuthor
<1>4. IsRow("book", p, row) /\ row["author"] = a
  <2>1. IsRow("book", p, db["book"][p]) /\ "author" \in Fields["book"]
    BY <1>1, <1>2, ModelAssumption DEF TablesOK, Rows
  <2> QED
    BY <2>1 DEF IsRow
<1>5. /\ DOMAIN table = Rows("book") /\ table[p] = row
      /\ \A q \in Rows("book") \ {p} : table[q] = db["book"][q]
  <2> HIDE DEF row
  <2> QED
    BY <1>1 DEF Rows
<1>6. DOMAIN table \subseteq Pks /\ \A q \in DOMAIN table : IsRow("book", q, table[q])
  <2> HIDE DEF row, table
  <2> QED
    BY <1>2, <1>4, <1>5 DEF TablesOK, Rows
<1>7. TablesOK(new) /\ new["book"] = table /\ new["author"] = db["author"]
  <2>1. new = [db EXCEPT !["book"] = table]
    OBVIOUS
  <2> HIDE DEF table, new
  <2> QED
    BY <1>6, <2>1, BooksChanged
<1>8. \A q \in DOMAIN new["book"] : new["book"][q]["author"] \in DOMAIN new["author"] \cup {Null}
  <2>1. DOMAIN new["author"] = Rows("author")
    BY <1>2, <1>7 DEF Rows
  <2> HIDE DEF new, row, table
  <2> QED
    BY <1>1, <1>4, <1>5, <1>7, <2>1 DEF IInv, References
<1> HIDE DEF new
<1> QED
  BY <1>1, <1>3, <1>7, <1>8, RelateWriteInv

-----------------------------------------------------------------------------
(* get_or_create and update_or_create.                                     *)

LEMMA CreateWriteInv ==
  ASSUME IInv, NEW c \in Clients, scene.name = "create", NEW table, DOMAIN table \subseteq Pks,
         \A p \in DOMAIN table : IsRow("book", p, table[p]),
         Write(c, [db EXCEPT !["book"] = table]), Stays(c), pc'[c] # "locked",
         UNCHANGED <<scene, lock, increments, since, undone>>,
         racedInserts' \in 0..(writes + 1),
         db'["book"] = table => ClientOK(c)' /\ TitledOnce',
         RelatedRowsMatch', ErrorsRaced'
  PROVE  IInv'
<1> DEFINE new == [db EXCEPT !["book"] = table]
<1>1. TablesOK(new) /\ new["book"] = table
  <2>1. new = [db EXCEPT !["book"] = table]
    OBVIOUS
  <2> HIDE DEF new
  <2> QED
    BY <2>1, BooksChanged
<1>2. db' = new /\ Write(c, new)
  BY DEF Write
<1> HIDE DEF new
<1>3. References' /\ IncrementsSurvive'
  BY DEF References, IncrementsSurvive
<1>4. Grows(c)
  BY Uncounted
<1> QED
  BY <1>1, <1>2, <1>3, <1>4, LockStays, NobodyLocked, WriteInv

LEMMA CreateLookupInv ==
  ASSUME IInv, NEW c \in Clients, NEW call \in Creates, CreateLookup(c, call)
  PROVE  IInv'
<1>0. /\ scene.name = "create" /\ UNCHANGED <<scene, db, lock, writes, history>>
      /\ touched' = [touched EXCEPT ![c] = FALSE]
  BY DEF CreateLookup, Creating
<1>1. CASE Titled = {}
  <2> DEFINE x == [call |-> call, pk |-> 0]
  <2>1. copy' = [copy EXCEPT ![c] = x] /\ Goto(c, "insert") /\ UNCHANGED result
    BY <1>1 DEF CreateLookup, FirstIsNone
  <2>2. Stays(c) /\ pc'[c] = "insert" /\ copy'[c] = x
    BY <2>1, Going DEF IInv, Steps
  <2>3. ClientOK(c)'
    BY <1>0, <1>1, <2>2 DEF ClientOK, Titled, Titles, Title
  <2> QED
    BY <1>0, <2>1, <2>2, <2>3, Untouched, LockStays, ResultStays, ReadInv
<1>2. CASE Titled # {} /\ call = "get_or_create"
  <2>1. PICK p \in Titled :
          Return(c, [call |-> call, status |-> "ok", created |-> FALSE,
                     row |-> db["book"][p], touched |-> FALSE])
    BY <1>2 DEF CreateLookup, FirstIsNone
  <2>2. Stays(c) /\ pc'[c] = "idle" /\ result'.call = call /\ result'.status = "ok" /\ ClientOK(c)'
    BY <2>1, Returning DEF IInv
  <2>3. RelatedRowsMatch' /\ ErrorsRaced'
    BY <1>2, <2>2 DEF RelatedRowsMatch, ErrorsRaced
  <2> QED
    BY <1>0, <2>2, <2>3, Untouched, LockStays, ReadInv
<1>3. CASE Titled # {} /\ call # "get_or_create"
  <2>1. PICK p \in Titled :
          /\ Goto(c, "update") /\ UNCHANGED result
          /\ copy' = [copy EXCEPT ![c] = [call |-> call, pk |-> p, row |-> db["book"][p]]]
    BY <1>3 DEF CreateLookup, FirstIsNone
  <2>2. Stays(c) /\ pc'[c] = "update"
    BY ZenonT(60), <2>1, Going DEF IInv, Steps
  <2>3. ClientOK(c)'
    BY <1>0, <2>2 DEF ClientOK
  <2> QED
    BY <1>0, <2>1, <2>2, <2>3, Untouched, LockStays, ResultStays, ReadInv
<1> QED
  BY <1>1, <1>2, <1>3

LEMMA CreateUpdateInv ==
  ASSUME IInv, NEW c \in Clients, CreateUpdate(c)
  PROVE  IInv'
<1> DEFINE table == [p \in DOMAIN db["book"] |->
                       IF p \in Titled THEN [db["book"][p] EXCEPT !["price"] = Tag[c]]
                       ELSE db["book"][p]]
           r == [call |-> "update_or_create", status |-> "ok", created |-> FALSE,
                 row |-> copy[c].row, touched |-> touched[c]]
<1>1. /\ pc[c] = "update" /\ scene.name = "create" /\ UNCHANGED <<scene, lock, history>>
      /\ Write(c, [db EXCEPT !["book"] = table]) /\ Return(c, r)
  BY DEF CreateUpdate, IInv, ClientOK
<1>2. Stays(c) /\ pc'[c] = "idle" /\ result' = r /\ ClientOK(c)'
  BY <1>1, Returning DEF IInv
<1>3. /\ DOMAIN table = DOMAIN db["book"] /\ DOMAIN table \subseteq Pks
      /\ \A p \in DOMAIN table : IsRow("book", p, table[p])
                                 /\ table[p]["title"] = db["book"][p]["title"]
  <2>1. /\ DOMAIN db["book"] \subseteq Pks
        /\ \A p \in DOMAIN db["book"] : IsRow("book", p, db["book"][p])
    BY Parts DEF IInv, TablesOK, Models
  <2>2. ASSUME NEW p \in DOMAIN db["book"]
        PROVE  IsRow("book", p, table[p]) /\ table[p]["title"] = db["book"][p]["title"]
    <3>1. DOMAIN db["book"][p] = {"id", "author", "title", "price"} /\ db["book"][p]["id"] = p
      BY <2>1, ModelAssumption DEF IsRow
    <3> QED
      BY <3>1, ModelAssumption DEF IsRow
  <2> QED
    BY <2>1, <2>2
<1>4. RelatedRowsMatch' /\ ErrorsRaced'
  BY <1>1, <1>2 DEF RelatedRowsMatch, ErrorsRaced
<1>5. db'["book"] = table => TitledOnce'
  <2> HIDE DEF table
  <2>1. db'["book"] = table => Titled' = Titled
    BY <1>1, <1>3 DEF Titled, Titles, Title
  <2> QED
    BY <1>1, <2>1, Parts DEF IInv, TitledOnce, history
<1>6. racedInserts' \in 0..(writes + 1) /\ UNCHANGED <<increments, since, undone>>
  BY <1>1, Histories DEF history
<1> HIDE DEF table, r
<1> QED
  BY <1>1, <1>2, <1>3, <1>4, <1>5, <1>6, CreateWriteInv

(* A row with the title is added.                                          *)
LEMMA OneMore ==
  ASSUME IInv, scene.name = "create", scene' = scene, NEW p, p \notin Rows("book"),
         Titled' = Titled \cup {p}, NEW raced \in {0, 1}, racedInserts' = racedInserts + raced,
         scene.unique \/ raced = 0 => Titled = {}
  PROVE  TitledOnce'
<1>1. /\ IsFiniteSet(Titled) /\ Cardinality(Titled) \in Nat /\ p \notin Titled
      /\ Cardinality(Titled \cup {p}) = Cardinality(Titled) + 1
  BY TitledFinite, FS_AddElement DEF IInv
<1>2. racedInserts \in Nat
  BY Histories
<1>3. TitledOnce
  BY Parts DEF IInv
<1>4. CASE scene.unique \/ raced = 0
  <2>1. Cardinality(Titled') = 1
    BY <1>1, <1>4, FS_EmptySet
  <2> QED
    BY <1>2, <2>1 DEF TitledOnce
<1>5. CASE ~scene.unique /\ raced = 1
  BY <1>1, <1>2, <1>3, <1>5 DEF TitledOnce
<1> QED
  BY <1>4, <1>5

LEMMA CreateInsertInv ==
  ASSUME IInv, NEW c \in Clients, CreateInsert(c)
  PROVE  IInv'
<1>0. /\ pc[c] = "insert" /\ scene.name = "create" /\ copy[c].call \in Creates
      /\ touched[c] \in BOOLEAN /\ (touched[c] = FALSE => Titled = {})
      /\ UNCHANGED <<scene, lock, increments, since, undone>>
  BY DEF CreateInsert, IInv, ClientOK, TypeOK
<1>1. CASE ~Unclashed
  <2> DEFINE r == [call |-> copy[c].call, status |-> "error", touched |-> touched[c]]
  <2>1. Return(c, r) /\ UNCHANGED <<db, writes, touched, racedInserts>>
    BY <1>1 DEF CreateInsert, NoWrite
  <2>2. Stays(c) /\ pc'[c] = "idle" /\ result' = r /\ ClientOK(c)'
    BY <2>1, Returning DEF IInv
  <2>3. touched[c] = TRUE
    BY <1>0, <1>1 DEF Unclashed
  <2>4. RelatedRowsMatch' /\ ErrorsRaced'
    BY <1>0, <2>2, <2>3 DEF RelatedRowsMatch, ErrorsRaced, Creates
  <2>5. touched' \in [Clients -> BOOLEAN]
    BY <2>1 DEF IInv, TypeOK
  <2> QED
    BY <1>0, <2>1, <2>2, <2>4, <2>5, LockStays, ReadInv DEF history
<1>2. CASE Unclashed
  <2> DEFINE raced == IF touched[c] THEN 1 ELSE 0
  <2>1. PICK p \in Pks :
          /\ NewKey(db["book"], p)
          /\ Write(c, [db EXCEPT !["book"] = With(db["book"], p,
                         [id |-> p, author |-> Null, title |-> Title, price |-> Tag[c]])])
          /\ Goto(c, "readBack")
          /\ copy' = [copy EXCEPT ![c] = [call |-> copy[c].call, pk |-> p]]
          /\ racedInserts' = racedInserts + raced
          /\ UNCHANGED result
    <3>1. c \in DOMAIN copy
      BY DEF IInv, TypeOK
    <3> QED
      BY <1>2, <3>1 DEF CreateInsert
  <2> DEFINE row == [id |-> p, author |-> Null, title |-> Title, price |-> Tag[c]]
             table == With(db["book"], p, row)
  <2>2. Stays(c) /\ pc'[c] = "readBack" /\ copy'[c] = [call |-> copy[c].call, pk |-> p]
    BY <2>1, Going DEF IInv, Steps
  <2>3. IsRow("book", p, row) /\ row["title"] = Title
    BY ModelAssumption DEF IsRow
  <2>4. /\ DOMAIN db["book"] \subseteq Pks
        /\ \A q \in DOMAIN db["book"] : IsRow("book", q, db["book"][q])
    BY Parts DEF IInv, TablesOK, Models
  <2>5. /\ DOMAIN table = Rows("book") \cup {p} /\ p \notin Rows("book") /\ table[p] = row
        /\ \A q \in Rows("book") : table[q] = db["book"][q]
    <3> HIDE DEF row
    <3> QED
      BY <2>1 DEF With, NewKey, Rows
  <2>6. DOMAIN table \subseteq Pks /\ \A q \in DOMAIN table : IsRow("book", q, table[q])
    <3> HIDE DEF row, table
    <3> QED
      BY <2>3, <2>4, <2>5 DEF Rows
  <2> HIDE DEF row
  <2>7. db'["book"] = table => ClientOK(c)' /\ TitledOnce'
    <3> SUFFICES ASSUME db'["book"] = table
                 PROVE  ClientOK(c)' /\ TitledOnce'
      OBVIOUS
    <3> HIDE DEF table
    <3>1. ClientOK(c)'
      <4>1. copy'[c].call \in Creates /\ copy'[c].pk = p
        BY <1>0, <2>2
      <4> QED
        BY <1>0, <2>2, <2>5, <4>1 DEF ClientOK, Rows
    <3>2. Titled' = Titled \cup {p}
      BY <1>0, <2>3, <2>5 DEF Titled, Titles, Title, Rows
    <3>3. scene.unique \/ raced = 0 => Titled = {}
      BY <1>0, <1>2 DEF Unclashed
    <3>4. TitledOnce'
      <4>1. raced \in {0, 1}
        OBVIOUS
      <4> HIDE DEF raced
      <4> QED
        BY <1>0, <2>1, <2>5, <3>2, <3>3, <4>1, OneMore
    <3> QED
      BY <3>1, <3>4
  <2>8. racedInserts' \in 0..(writes + 1)
    BY <2>1, Histories
  <2>9. RelatedRowsMatch' /\ ErrorsRaced'
    BY <1>0, <2>1, ResultStays
  <2>10. Write(c, [db EXCEPT !["book"] = table])
    BY <2>1 DEF row
  <2> HIDE DEF table, raced
  <2> QED
    BY <1>0, <2>2, <2>6, <2>7, <2>8, <2>9, <2>10, CreateWriteInv
<1> QED
  BY <1>1, <1>2

LEMMA CreateReadBackInv ==
  ASSUME IInv, NEW c \in Clients, CreateReadBack(c)
  PROVE  IInv'
<1>0. /\ pc[c] = "readBack" /\ scene.name = "create" /\ copy[c].call \in Creates
      /\ touched[c] \in BOOLEAN /\ (touched[c] = FALSE => copy[c].pk \in Rows("book"))
      /\ UNCHANGED <<scene, lock, history, db, writes, touched>>
      /\ touched' \in [Clients -> BOOLEAN]
  BY DEF CreateReadBack, NoWrite, IInv, ClientOK, TypeOK
<1>1. PICK r : /\ Return(c, r) /\ r.call = copy[c].call
               /\ (r.status = "error" => r.touched = TRUE)
  <2>1. CASE copy[c].pk \in Rows("book")
    BY <2>1 DEF CreateReadBack
  <2>2. CASE copy[c].pk \notin Rows("book")
    <3>1. touched[c] = TRUE
      BY <1>0, <2>2
    <3> QED
      BY <2>2, <3>1 DEF CreateReadBack
  <2> QED
    BY <2>1, <2>2
<1>2. Stays(c) /\ pc'[c] = "idle" /\ result' = r /\ ClientOK(c)'
  BY <1>1, Returning DEF IInv
<1>3. RelatedRowsMatch' /\ ErrorsRaced'
  BY <1>0, <1>1, <1>2 DEF RelatedRowsMatch, ErrorsRaced, Creates
<1> QED
  BY <1>0, <1>2, <1>3, LockStays, ReadInv

LEMMA DeleteByPkInv ==
  ASSUME IInv, NEW c \in Clients, NEW p \in Pks, DeleteByPk(c, p)
  PROVE  IInv'
<1> DEFINE table == Without(db["book"], {p})
<1>0. /\ scene.name = "create" /\ pc[c] = "idle"
      /\ Write(c, [db EXCEPT !["book"] = table])
      /\ UNCHANGED <<scene, pc, copy, result, lock, history>>
  BY DEF DeleteByPk, Creating
<1>1. /\ DOMAIN db["book"] \subseteq Pks
      /\ \A q \in DOMAIN db["book"] : IsRow("book", q, db["book"][q])
  BY Parts DEF IInv, TablesOK, Models
<1>2. DOMAIN table \subseteq Pks /\ \A q \in DOMAIN table : IsRow("book", q, table[q])
  BY <1>1 DEF Without
<1>3. db'["book"] = table => TitledOnce'
  <2>1. db'["book"] = table => Titled' \subseteq Titled
    BY <1>0 DEF Titled, Titles, Title, Without
  <2>2. IsFiniteSet(Titled) /\ Cardinality(Titled) \in Nat
    BY TitledFinite DEF IInv
  <2>3. Titled' \subseteq Titled =>
          Cardinality(Titled') \in Nat /\ Cardinality(Titled') <= Cardinality(Titled)
    BY <2>2, FS_Subset, FS_CardinalityType
  <2>4. TitledOnce /\ racedInserts \in Nat /\ racedInserts' = racedInserts
    BY <1>0, Parts, Histories DEF IInv, history
  <2>5. CASE scene.unique
    BY <1>0, <2>1, <2>2, <2>3, <2>4, <2>5 DEF TitledOnce
  <2>6. CASE ~scene.unique
    BY <1>0, <2>1, <2>2, <2>3, <2>4, <2>6 DEF TitledOnce
  <2> QED
    BY <2>5, <2>6
<1>4. racedInserts' \in 0..(writes + 1) /\ UNCHANGED <<increments, since, undone>>
  BY <1>0, Histories DEF history
<1>5. pc'[c] # "locked"
  BY <1>0
<1> HIDE DEF table
<1> QED
  BY <1>0, <1>2, <1>3, <1>4, <1>5, IdleWrites, CreateWriteInv

-----------------------------------------------------------------------------
(* Reading an instance and writing it back.                                *)

LEMMA NobodyLocks ==
  ASSUME IInv, LockFree
  PROVE  \A d \in Clients : ~(pc[d] = "locked" /\ scene.postgres)
BY KeyAssumption DEF IInv, TypeOK, LockFree

LEMMA NobodyElseLocked ==
  ASSUME IInv, NEW c \in Clients, LockFree \/ pc[c] = "locked"
  PROVE  \A d \in Clients \ {c} : ~(pc[d] = "locked" /\ scene.postgres)
BY NobodyLocks DEF IInv, TypeOK

LEMMA Released ==
  ASSUME IInv, NEW c \in Clients, Stays(c), pc'[c] = "idle", Release(c), scene' = scene
  PROVE  LockOK'
<1>1. lock' \in Clients \cup {Null}
  BY DEF IInv, TypeOK, Release
<1>2. ASSUME NEW d \in Clients, pc'[d] = "locked", scene.postgres
      PROVE  lock' = d
  <2>1. d # c /\ pc[d] = "locked"
    BY <1>2 DEF Stays
  <2>2. lock = d
    BY <1>2, <2>1 DEF IInv, TypeOK
  <2> QED
    BY <2>1, <2>2 DEF Release
<1> QED
  BY <1>1, <1>2 DEF LockOK

LEMMA TheRow ==
  ASSUME IInv, Row \in Rows("book")
  PROVE  IsRow("book", Row, db["book"][Row]) /\ Row \in Pks
BY Parts DEF IInv, TablesOK, Models, Rows

(* What ReadRow leaves.                                                    *)
LEMMA RowRead ==
  ASSUME IInv, NEW c \in Clients, NEW step \in {"loaded", "locked"}, ReadRow(c, step)
  PROVE  /\ UNCHANGED <<scene, db, result, writes, increments, undone, racedInserts>>
         /\ Stays(c) /\ pc'[c] = step /\ scene.name = "modify"
         /\ touched' \in [Clients -> BOOLEAN] /\ since' \in [Clients -> Nat]
         /\ \A d \in Clients \ {c} : touched'[d] = touched[d] /\ since'[d] = since[d]
         /\ ClientOK(c)'
<1> DEFINE x == [pk |-> Row, row |-> db["book"][Row]]
<1>0. /\ scene.name = "modify" /\ Row \in Rows("book")
      /\ UNCHANGED <<scene, db, result, writes, increments, undone, racedInserts>>
      /\ touched' = [touched EXCEPT ![c] = FALSE] /\ since' = [since EXCEPT ![c] = 0]
      /\ copy' = [copy EXCEPT ![c] = x] /\ Goto(c, step)
  BY DEF ReadRow, Modifying
<1>1. Stays(c) /\ pc'[c] = step /\ copy'[c] = x
  <2>1. step \in Steps
    BY DEF Steps
  <2> HIDE DEF x
  <2> QED
    BY <1>0, <2>1, Going DEF IInv
<1>2. /\ since' \in [Clients -> Nat] /\ since'[c] = 0
      /\ \A d \in Clients \ {c} : since'[d] = since[d]
  BY <1>0, Counters DEF CountersOK
<1>3. ClientOK(c)'
  <2>1. copy'[c].row = db["book"][Row]
    BY <1>1
  <2>2. copy'[c].row["price"] \in (increments' - undone' - since'[c])..increments'
    BY <1>0, <1>2, <2>1, Counters DEF IInv, IncrementsSurvive, CountersOK
  <2> QED
    BY <1>0, <1>1, <2>1, <2>2, TheRow, Untouched DEF ClientOK, Rows, IsRow, Row
<1> QED
  BY <1>0, <1>1, <1>2, <1>3, Untouched

LEMMA LoadInv ==
  ASSUME IInv, NEW c \in Clients, Load(c)
  PROVE  IInv'
<1>1. ReadRow(c, "loaded") /\ UNCHANGED lock
  BY DEF Load
<1> QED
  BY <1>1, RowRead, LockStays, ResultStays, ReadRowInv

LEMMA LoadLockedInv ==
  ASSUME IInv, NEW c \in Clients, LoadLocked(c)
  PROVE  IInv'
<1>1. ReadRow(c, "locked") /\ LockFree /\ lock' = LockTaken(c)
  BY DEF LoadLocked
<1>2. LockOK'
  BY <1>1, RowRead, NobodyLocks DEF LockOK, LockTaken, Stays, IInv, TypeOK
<1> QED
  BY <1>1, <1>2, RowRead, ResultStays, ReadRowInv

(* The row is written by a client that holds its lock, or nobody does.     *)
LEMMA ModifyWriteInv ==
  ASSUME IInv, NEW c \in Clients, scene.name = "modify",
         LockFree \/ pc[c] = "locked",
         NEW table, DOMAIN table \subseteq Pks, \A p \in DOMAIN table : IsRow("book", p, table[p]),
         Write(c, [db EXCEPT !["book"] = table]), Stays(c), UNCHANGED scene,
         Grows(c), racedInserts' \in 0..(writes + 1),
         db'["book"] = table => IncrementsSurvive',
         ClientOK(c)', LockOK', RelatedRowsMatch'
  PROVE  IInv'
<1> DEFINE new == [db EXCEPT !["book"] = table]
<1>1. TablesOK(new) /\ new["book"] = table
  <2>1. new = [db EXCEPT !["book"] = table]
    OBVIOUS
  <2> HIDE DEF new
  <2> QED
    BY <2>1, BooksChanged
<1>2. db' = new /\ Write(c, new)
  BY DEF Write
<1> HIDE DEF new
<1>3. References' /\ TitledOnce' /\ ErrorsRaced'
  BY DEF References, TitledOnce, ErrorsRaced
<1> QED
  BY <1>1, <1>2, <1>3, NobodyElseLocked, WriteInv

LEMMA RowChanged ==
  ASSUME IInv, NEW row, IsRow("book", Row, row), Row \in Rows("book"),
         NEW table, table = [db["book"] EXCEPT ![Row] = row]
  PROVE  /\ DOMAIN table \subseteq Pks /\ \A p \in DOMAIN table : IsRow("book", p, table[p])
         /\ table[Row] = row
<1>1. /\ DOMAIN db["book"] \subseteq Pks
      /\ \A p \in DOMAIN db["book"] : IsRow("book", p, db["book"][p])
  BY Parts DEF IInv, TablesOK, Models
<1> QED
  BY <1>1 DEF Rows

LEMMA SaveCopyInv ==
  ASSUME IInv, NEW c \in Clients, SaveCopy(c)
  PROVE  IInv'
<1>0. /\ pc[c] = "loaded" /\ scene.name = "modify" /\ LockFree
      /\ IsRow("book", Row, copy[c].row)
      /\ copy[c].row["price"] \in (increments - undone - since[c])..increments
      /\ UNCHANGED <<scene, lock, increments, since, racedInserts>>
  BY DEF SaveCopy, IInv, ClientOK
<1>1. CASE Row \notin Rows("book")
  <2>1. Return(c, Error("save")) /\ UNCHANGED <<db, writes, touched, undone>>
    BY <1>1 DEF SaveCopy, NoWrite
  <2>2. Stays(c) /\ pc'[c] = "idle" /\ result' = Error("save") /\ ClientOK(c)'
    BY <2>1, Returning DEF IInv
  <2>3. RelatedRowsMatch' /\ ErrorsRaced'
    BY <1>0, <2>2 DEF RelatedRowsMatch, ErrorsRaced, Error
  <2>4. touched' \in [Clients -> BOOLEAN]
    BY <2>1 DEF IInv, TypeOK
  <2> QED
    BY <1>0, <2>1, <2>2, <2>3, <2>4, LockStays, ReadInv DEF history
<1>2. CASE Row \in Rows("book")
  <2> DEFINE row == [copy[c].row EXCEPT !["title"] = Tag[c]]
             table == [db["book"] EXCEPT ![Row] = row]
             r == [call |-> "save", status |-> "ok"]
  <2>1. /\ Write(c, [db EXCEPT !["book"] = table])
        /\ undone' = undone + since[c] /\ Return(c, r)
    BY <1>2 DEF SaveCopy
  <2>2. Stays(c) /\ pc'[c] = "idle" /\ result' = r /\ ClientOK(c)'
    BY <2>1, Returning DEF IInv
  <2>3. RelatedRowsMatch'
    BY <2>2 DEF RelatedRowsMatch
  <2>4. IsRow("book", Row, row) /\ row["price"] = copy[c].row["price"]
    BY <1>0, ModelAssumption DEF IsRow
  <2> HIDE DEF row
  <2>5. /\ DOMAIN table \subseteq Pks /\ \A p \in DOMAIN table : IsRow("book", p, table[p])
        /\ table[Row] = row
    <3>1. table = [db["book"] EXCEPT ![Row] = row]
      OBVIOUS
    <3> HIDE DEF table
    <3> QED
      BY <1>2, <2>4, <3>1, RowChanged
  <2> HIDE DEF table
  <2>6. CountersOK /\ CountersOK' /\ since[c] \in Nat
    BY <1>0, <2>1, Counters DEF CountersOK
  <2>7. db'["book"] = table => IncrementsSurvive'
    BY <1>0, <2>1, <2>4, <2>5, <2>6 DEF IncrementsSurvive, Row, CountersOK
  <2>8. Grows(c) /\ racedInserts' \in 0..(writes + 1)
    BY <1>0, <2>1, <2>6, Histories DEF Grows, CountersOK, NoOlder
  <2>9. LockOK'
    BY <1>0, <2>2, LockStays
  <2> HIDE DEF r
  <2> QED
    BY <1>0, <2>1, <2>2, <2>3, <2>5, <2>7, <2>8, <2>9, ModifyWriteInv
<1> QED
  BY <1>1, <1>2

(* Every client's copy is one increment older.                             *)
LEMMA CountedGrows ==
  ASSUME IInv, NEW c \in Clients, Counted, undone' = undone
  PROVE  Grows(c)
BY Histories, Counters DEF Grows, CountersOK, NoOlder, Counted

LEMMA UpdateLockedInv ==
  ASSUME IInv, NEW c \in Clients, UpdateLocked(c)
  PROVE  IInv'
<1>0. /\ pc[c] = "locked" /\ scene.name = "modify" /\ touched[c] \in BOOLEAN
      /\ touched[c] = FALSE => Row \in Rows("book") /\ copy[c].row = db["book"][Row]
      /\ scene.postgres => touched[c] = FALSE
      /\ Release(c) /\ UNCHANGED <<scene, undone, racedInserts>>
  BY DEF UpdateLocked, IInv, ClientOK, TypeOK
<1>1. CASE ~scene.postgres /\ touched[c]
  <2>1. Return(c, Error("update")) /\ UNCHANGED <<db, writes, touched, increments, since>>
    BY <1>1 DEF UpdateLocked, NoWrite
  <2>2. Stays(c) /\ pc'[c] = "idle" /\ result' = Error("update") /\ ClientOK(c)'
    BY <2>1, Returning DEF IInv
  <2>3. RelatedRowsMatch' /\ ErrorsRaced'
    BY <1>0, <2>2 DEF RelatedRowsMatch, ErrorsRaced, Error
  <2>4. touched' \in [Clients -> BOOLEAN]
    BY <2>1 DEF IInv, TypeOK
  <2> QED
    BY <1>0, <2>1, <2>2, <2>3, <2>4, Released, ReadInv DEF history
<1>2. CASE ~(~scene.postgres /\ touched[c])
  <2> DEFINE row == [db["book"][Row] EXCEPT !["price"] = copy[c].row["price"] + 1]
             table == [db["book"] EXCEPT ![Row] = row]
             r == [call |-> "update", status |-> "ok"]
  <2>0. Row \in Rows("book") /\ copy[c].row = db["book"][Row]
    BY <1>0, <1>2
  <2>1. Write(c, [db EXCEPT !["book"] = table]) /\ Counted /\ Return(c, r)
    BY <1>2 DEF UpdateLocked
  <2>2. Stays(c) /\ pc'[c] = "idle" /\ result' = r /\ ClientOK(c)'
    BY <2>1, Returning DEF IInv
  <2>3. RelatedRowsMatch'
    BY <2>2 DEF RelatedRowsMatch
  <2>4. IsRow("book", Row, row) /\ row["price"] = db["book"][Row]["price"] + 1
    BY <2>0, TheRow, ModelAssumption DEF IsRow
  <2> HIDE DEF row
  <2>5. /\ DOMAIN table \subseteq Pks /\ \A p \in DOMAIN table : IsRow("book", p, table[p])
        /\ table[Row] = row
    <3>1. table = [db["book"] EXCEPT ![Row] = row]
      OBVIOUS
    <3> HIDE DEF table
    <3> QED
      BY <2>0, <2>4, <3>1, RowChanged
  <2> HIDE DEF table
  <2>6. db'["book"] = table => IncrementsSurvive'
    BY <1>0, <2>0, <2>1, <2>4, <2>5, Counters
      DEF IInv, IncrementsSurvive, Row, CountersOK, Counted
  <2>7. Grows(c) /\ racedInserts' \in 0..(writes + 1)
    BY <1>0, <2>1, Histories, CountedGrows
  <2> HIDE DEF r
  <2> QED
    BY <1>0, <2>1, <2>2, <2>3, <2>5, <2>6, <2>7, Released, ModifyWriteInv
<1> QED
  BY <1>1, <1>2

LEMMA RollBackInv ==
  ASSUME IInv, NEW c \in Clients, RollBack(c)
  PROVE  IInv'
<1>0. /\ pc[c] = "locked" /\ scene.name = "modify" /\ Release(c) /\ Return(c, Error("update"))
      /\ UNCHANGED <<scene, history, db, writes, touched>> /\ touched' \in [Clients -> BOOLEAN]
  BY DEF RollBack, NoWrite, IInv, ClientOK, TypeOK
<1>1. Stays(c) /\ pc'[c] = "idle" /\ result' = Error("update") /\ ClientOK(c)'
  BY <1>0, Returning DEF IInv
<1>2. RelatedRowsMatch' /\ ErrorsRaced'
  BY <1>0, <1>1 DEF RelatedRowsMatch, ErrorsRaced, Error
<1> QED
  BY <1>0, <1>1, <1>2, Released, ReadInv

LEMMA IncrementInv ==
  ASSUME IInv, NEW c \in Clients, Increment(c)
  PROVE  IInv'
<1> DEFINE row == [db["book"][Row] EXCEPT !["price"] = db["book"][Row]["price"] + 1]
           table == [db["book"] EXCEPT ![Row] = row]
<1>0. /\ scene.name = "modify" /\ pc[c] = "idle" /\ Row \in Rows("book") /\ LockFree
      /\ Counted /\ UNCHANGED <<scene, pc, copy, result, lock, undone, racedInserts>>
  BY DEF Increment, Modifying
<1>1. IsRow("book", Row, row) /\ row["price"] = db["book"][Row]["price"] + 1
  BY <1>0, TheRow, ModelAssumption DEF IsRow
<1>2. Write(c, [db EXCEPT !["book"] = table])
  BY DEF Increment
<1> HIDE DEF row
<1>3. /\ DOMAIN table \subseteq Pks /\ \A p \in DOMAIN table : IsRow("book", p, table[p])
      /\ table[Row] = row
  <2>1. table = [db["book"] EXCEPT ![Row] = row]
    OBVIOUS
  <2> HIDE DEF table
  <2> QED
    BY <1>0, <1>1, <2>1, RowChanged
<1> HIDE DEF table
<1>4. db'["book"] = table => IncrementsSurvive'
  BY <1>0, <1>1, <1>3, Counters DEF IInv, IncrementsSurvive, Row, Counted, CountersOK
<1>5. Grows(c) /\ racedInserts' \in 0..(writes + 1)
  BY <1>0, Histories, CountedGrows
<1> QED
  BY <1>0, <1>2, <1>3, <1>4, <1>5, IdleWrites, ModifyWriteInv

LEMMA DeleteInstanceInv ==
  ASSUME IInv, NEW c \in Clients, DeleteInstance(c)
  PROVE  IInv'
<1> DEFINE table == Without(db["book"], {Row})
<1>0. /\ scene.name = "modify" /\ pc[c] = "idle" /\ LockFree
      /\ Write(c, [db EXCEPT !["book"] = table])
      /\ UNCHANGED <<scene, pc, copy, result, lock, history>>
  BY DEF DeleteInstance, Modifying
<1>1. /\ DOMAIN db["book"] \subseteq Pks
      /\ \A q \in DOMAIN db["book"] : IsRow("book", q, db["book"][q])
  BY Parts DEF IInv, TablesOK, Models
<1>2. DOMAIN table \subseteq Pks /\ \A q \in DOMAIN table : IsRow("book", q, table[q])
  BY <1>1 DEF Without
<1>3. db'["book"] = table => IncrementsSurvive'
  BY DEF IncrementsSurvive, Rows, Row, Without
<1>4. Grows(c) /\ racedInserts' \in 0..(writes + 1)
  BY <1>0, Histories, Uncounted DEF history
<1> HIDE DEF table
<1> QED
  BY <1>0, <1>2, <1>3, <1>4, IdleWrites, ModifyWriteInv

-----------------------------------------------------------------------------
(* The invariant is inductive.                                             *)

LEMMA InitInv == Init => IInv
<1> SUFFICES ASSUME Init
             PROVE  IInv
  OBVIOUS
<1>1. MaxWrites[scene.name] \in Nat /\ Begins(scene, db)
  BY Scene DEF Init
<1>2. TypeOK
  <2>1. "idle" \in Steps /\ "idle" # "locked"
    BY DEF Steps
  <2>2. pc \in [Clients -> Steps] /\ touched \in [Clients -> BOOLEAN] /\ DOMAIN copy = Clients
    BY <2>1 DEF Init
  <2>3. \A c \in Clients : pc[c] = "idle"
    BY DEF Init
  <2> QED
    BY <1>1, <2>1, <2>2, <2>3 DEF Init, TypeOK, Begins, Rows
<1>3. References
  BY <1>1 DEF References, Begins, Rows
<1>4. \A c \in Clients : ClientOK(c)
  BY DEF Init, ClientOK
<1>5. RelatedRowsMatch
  BY DEF Init, NoResult, RelatedRowsMatch
<1>6. CreatedOnce
  <2>1. SUFFICES ASSUME scene.name = "create"
                 PROVE  Cardinality(Titled) <= 1
    BY DEF Init, NoResult, CreatedOnce
  <2>2. \A p, q \in Titled : p = q
    BY <1>1, <2>1 DEF Begins, Titled, Title
  <2>3. CASE Titled = {}
    BY <2>3, FS_EmptySet
  <2>4. CASE Titled # {}
    <3>1. PICK p : Titled = {p}
      BY <2>2, <2>4
    <3>2. Cardinality({p}) = 1
      BY FS_Singleton
    <3> QED
      BY <3>1, <3>2
  <2> QED
    BY <2>3, <2>4
<1>7. IncrementsSurvive
  BY <1>1 DEF Init, IncrementsSurvive, Begins, Rows, Row
<1> QED
  BY <1>2, <1>3, <1>4, <1>5, <1>6, <1>7 DEF IInv

LEMMA NextInv == IInv /\ [Next]_vars => IInv'
<1> SUFFICES ASSUME IInv, [Next]_vars
             PROVE  IInv'
  OBVIOUS
<1>1. CASE UNCHANGED vars
  <2>1. Titled' = Titled
    BY <1>1 DEF vars, Titled, Titles, Title
  <2>2. TypeOK' /\ References' /\ RelatedRowsMatch'
    BY <1>1 DEF vars, IInv, TypeOK, References, RelatedRowsMatch, Rows
  <2>3. \A c \in Clients : ClientOK(c)'
    BY <1>1 DEF vars, IInv, ClientOK, Titled, Titles, Title, Rows
  <2>4. CreatedOnce' /\ IncrementsSurvive'
    BY <1>1, <2>1 DEF vars, IInv, CreatedOnce, IncrementsSurvive, Rows
  <2> QED
    BY <2>2, <2>3, <2>4 DEF IInv
<1>2. ASSUME Next
      PROVE  IInv'
  <2>1. scene.clients \subseteq Clients
    BY Scene DEF IInv, TypeOK
  <2>2. PICK c \in Clients :
          \/ SelectRelated(c) \/ Prefetch(c) \/ FetchRelated(c)
          \/ \E b, a \in Pks : M2mAdd(c, b, a) \/ M2mRemove(c, b, a)
          \/ \E b \in Pks : M2mRelated(c, b)
          \/ \E a \in Pks : DeleteAuthor(c, a)
          \/ \E p \in Pks, a \in Pks \cup {Null} : SetAuthor(c, p, a)
          \/ \E call \in Creates : CreateLookup(c, call)
          \/ CreateUpdate(c) \/ CreateInsert(c) \/ CreateReadBack(c)
          \/ \E p \in Pks : DeleteByPk(c, p)
          \/ Load(c) \/ SaveCopy(c) \/ LoadLocked(c) \/ UpdateLocked(c) \/ RollBack(c)
          \/ Increment(c) \/ DeleteInstance(c)
    BY <1>2, <2>1 DEF Next, Creates
  <2>3. CASE SelectRelated(c) \/ Prefetch(c) \/ FetchRelated(c)
    BY <2>3, SelectRelatedInv, PrefetchInv, FetchRelatedInv
  <2>4. CASE \/ \E b, a \in Pks : M2mAdd(c, b, a) \/ M2mRemove(c, b, a)
             \/ \E b \in Pks : M2mRelated(c, b)
    BY <2>4, M2mAddInv, M2mRemoveInv, M2mRelatedInv
  <2>5. CASE \/ \E a \in Pks : DeleteAuthor(c, a)
             \/ \E p \in Pks, a \in Pks \cup {Null} : SetAuthor(c, p, a)
    BY <2>5, DeleteAuthorInv, SetAuthorInv
  <2>6. CASE \/ \E call \in Creates : CreateLookup(c, call)
             \/ CreateUpdate(c) \/ CreateInsert(c) \/ CreateReadBack(c)
    BY <2>6, CreateLookupInv, CreateUpdateInv, CreateInsertInv, CreateReadBackInv
  <2>7. CASE \E p \in Pks : DeleteByPk(c, p)
    BY <2>7, DeleteByPkInv
  <2>8. CASE Load(c) \/ SaveCopy(c) \/ LoadLocked(c) \/ UpdateLocked(c) \/ RollBack(c)
    BY <2>8, LoadInv, SaveCopyInv, LoadLockedInv, UpdateLockedInv, RollBackInv
  <2>9. CASE Increment(c) \/ DeleteInstance(c)
    BY <2>9, IncrementInv, DeleteInstanceInv
  <2> QED
    BY <2>2, <2>3, <2>4, <2>5, <2>6, <2>7, <2>8, <2>9
<1> QED
  BY <1>1, <1>2

(* What a client read is still there unless another client wrote, and on   *)
(* Postgres nobody writes the row of a SELECT ... FOR UPDATE.              *)
THEOREM InductiveInvariant == Spec => []IInv
BY InitInv, NextInv, PTL DEF Spec

(* Rows keep their keys and columns, and at most one client holds the lock *)
(* that select_for_update takes on Postgres.                               *)
THEOREM TypeCorrect == Spec => []TypeOK
<1>1. IInv => TypeOK
  BY DEF IInv
<1> QED
  BY <1>1, InductiveInvariant, PTL

(* select_related and prefetch_related, which load the related rows in a   *)
(* second statement, pair a row only with the row its foreign key names,   *)
(* and miss it only if another client wrote between the two.               *)
THEOREM RelatedRows == Spec => []RelatedRowsMatch
<1>1. IInv => RelatedRowsMatch
  BY DEF IInv
<1> QED
  BY <1>1, InductiveInvariant, PTL

(* get_or_create and update_or_create leave one row with a unique title;   *)
(* without the index each further one is the insert of a call that was     *)
(* overtaken after its lookup, and a call fails only if it was overtaken.  *)
THEOREM CreatedAtMostOnce == Spec => []CreatedOnce
<1>1. IInv => CreatedOnce
  BY DEF IInv
<1> QED
  BY <1>1, InductiveInvariant, PTL

(* However loads, saves, locked updates and increments of a row interleave,*)
(* its counter lacks at most the increments that saved copies had not seen:*)
(* what was written from a copy read with select_for_update undoes nothing,*)
(* as Postgres makes the others wait and Sqlite refuses the late write.    *)
THEOREM IncrementsKept == Spec => []IncrementsSurvive
<1>1. IInv => IncrementsSurvive
  BY DEF IInv
<1> QED
  BY <1>1, InductiveInvariant, PTL

(* select_for_update: from the SELECT to the end of the transaction nobody *)
(* else has the row on Postgres, and it is as it was read.                 *)
THEOREM LocksHold == Spec => []LockedRowStands
<1>1. ASSUME IInv, scene.postgres, NEW c \in Clients, pc[c] = "locked"
      PROVE  /\ Row \in Rows("book") /\ copy[c].row = db["book"][Row]
             /\ \A d \in Clients : pc[d] = "locked" => d = c
  BY <1>1 DEF IInv, ClientOK, TypeOK
<1>2. IInv => LockedRowStands
  BY <1>1 DEF LockedRowStands
<1> QED
  BY <1>2, InductiveInvariant, PTL

=============================================================================
