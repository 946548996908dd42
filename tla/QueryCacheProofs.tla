--------------------------- MODULE QueryCacheProofs ---------------------------
(***************************************************************************)
(* Theorems about QueryCache for every set of requests, tables and         *)
(* queries (finite or not), every set of limits and ways of writing, and   *)
(* every bound on writes and faults.                                       *)
(*                                                                         *)
(* The argument.  An entry is as current as the fetch it was filled from,  *)
(* so the guarantee about entries needs the same one about fetched rows    *)
(* not stored yet (FillInv).  What a transaction commits is a version      *)
(* because its table is its own until then (TxInv).  The limit is kept     *)
(* because every insertion finds room or makes it (StoreInv), but that a   *)
(* limit of 0 leaves none for the entry that is then inserted.             *)
(***************************************************************************)
EXTENDS QueryCache, FiniteSetTheorems, TLAPS

LEMMA Assumptions ==
  /\ Capacities \subseteq Nat /\ Capacities # {}
  /\ MaxWrites \in Nat /\ MaxFaults \in Nat
  /\ AnyKey \in Keys
  /\ NoEntry \notin Entry /\ NoVersion \notin Versions
<1>1. PICK t \in Tables, q \in Queries : TRUE
  BY CachedAssumption
<1>2. <<t, q>> \in Keys
  BY DEF Keys
<1>3. AnyKey \in Keys
  BY <1>2 DEF AnyKey
<1> QED
  BY <1>3, CapacityAssumption, BoundAssumption
  DEF NoEntry, Entry, NoVersion, Versions

LEMMA TableType ==
  ASSUME NEW k \in Keys
  PROVE  TableOf(k) \in Tables
BY DEF Keys, TableOf

-----------------------------------------------------------------------------
(* What may happen to the store.                                           *)

EntryType == [Keys -> Entry \cup {NoEntry}]

(* An entry of the new store is the old one, or there is none.             *)
Shrinks == \A j \in Keys : store'[j] = store[j] \/ store'[j] = NoEntry

(* Losing entries keeps within the limit.                                  *)
LEMMA ShrinkInv ==
  ASSUME TypeOK, StoreInv, Shrinks, maxEntries' = maxEntries
  PROVE  StoreInv'
<1>1. Stored' \subseteq Stored
  BY DEF Stored, Shrinks
<1>2. IsFiniteSet(Stored') /\ Cardinality(Stored') <= Cardinality(Stored)
  BY <1>1, FS_Subset DEF StoreInv
<1>3. Cardinality(Stored) \in Nat /\ Cardinality(Stored') \in Nat
  BY <1>2, FS_CardinalityType DEF StoreInv
<1>4. maxEntries \in Nat
  BY Assumptions DEF TypeOK
<1> QED
  BY <1>2, <1>3, <1>4 DEF StoreInv, WithinCapacity

LEMMA SameStoreInv ==
  ASSUME StoreInv, UNCHANGED storeVars
  PROVE  StoreInv'
BY DEF StoreInv, WithinCapacity, Stored, storeVars

(* put_cached stores the entry it was given, loses others only, and makes  *)
(* room first when the store is full.                                      *)
LEMMA PutCachedInv ==
  ASSUME TypeOK, StoreInv, maxEntries' = maxEntries,
         NEW k \in Keys, NEW version \in Versions, NEW inFlight \in BOOLEAN,
         PutCached(k, version, inFlight)
  PROVE  /\ store' \in EntryType
         /\ store'[k] = [version |-> version, live |-> TRUE, raced |-> inFlight]
         /\ \A j \in Keys \ {k} : store'[j] = store[j] \/ store'[j] = NoEntry
         /\ StoreInv'
<1> DEFINE new == [version |-> version, live |-> TRUE, raced |-> inFlight]
<1>1. PICK kept \in SUBSET Stored :
        /\ IF k \notin Stored /\ Cardinality(Stored) >= maxEntries
             THEN Evict(Stored, RoomForOne, kept)
             ELSE kept = Stored
        /\ store' = [j \in Keys |->
             IF j = k THEN new ELSE IF j \in kept THEN store[j] ELSE NoEntry]
  BY DEF PutCached
<1>2. new \in Entry /\ new # NoEntry
  <2>1. new \in Entry
    BY DEF Entry
  <2> QED
    BY <2>1, Assumptions
<1> HIDE DEF new
<1>3. /\ store' \in EntryType
      /\ store'[k] = new
      /\ \A j \in Keys \ {k} : store'[j] = store[j] \/ store'[j] = NoEntry
  BY <1>1, <1>2 DEF TypeOK, EntryType
<1>4. Stored' \subseteq kept \cup {k}
  BY <1>1 DEF Stored
<1>5. /\ IsFiniteSet(kept) /\ Cardinality(kept) \in Nat
      /\ Cardinality(Stored) \in Nat
  BY FS_Subset, FS_CardinalityType DEF StoreInv
<1>6. /\ maxEntries \in Nat
      /\ \/ Cardinality(Stored) <= maxEntries
         \/ maxEntries = 0 /\ Cardinality(Stored) = 1
  BY Assumptions DEF TypeOK, StoreInv, WithinCapacity
<1>7. \/ Cardinality(kept \cup {k}) <= maxEntries
      \/ maxEntries = 0 /\ Cardinality(kept \cup {k}) = 1
  <2>1. CASE k \in Stored
    BY <1>1, <1>6, <2>1, kept = Stored, kept \cup {k} = Stored
  <2>2. CASE k \notin Stored
    <3>1. Cardinality(kept \cup {k}) = Cardinality(kept) + 1
      BY <1>5, <2>2, FS_AddElement
    <3>2. Cardinality(kept) <= RoomForOne
      BY <1>1, <1>5, <1>6, <2>2 DEF Evict, RoomForOne
    <3> QED
      BY <1>5, <1>6, <3>1, <3>2 DEF RoomForOne
  <2> QED
    BY <2>1, <2>2
<1>8. IsFiniteSet(kept \cup {k})
  BY <1>5, FS_AddElement
<1>9. IsFiniteSet(Stored') /\ Cardinality(Stored') <= Cardinality(kept \cup {k})
  BY <1>4, <1>8, FS_Subset
<1>10. Cardinality(Stored') \in Nat /\ Cardinality(kept \cup {k}) \in Nat
  BY <1>8, <1>9, FS_CardinalityType
<1>11. StoreInv'
  BY <1>6, <1>7, <1>9, <1>10 DEF StoreInv, WithinCapacity
<1> QED
  BY <1>3, <1>11 DEF new

(* invalidate_table leaves nothing of its table, stored or on the way.     *)
LEMMA InvalidateTableInv ==
  ASSUME TypeOK, StoreInv, maxEntries' = maxEntries,
         NEW t \in Tables, InvalidateTable(t)
  PROVE  /\ store' \in EntryType
         /\ Shrinks
         /\ \A k \in Keys : TableOf(k) = t => store'[k] = NoEntry
         /\ raced' \in [Clients -> BOOLEAN]
         /\ \A c \in Clients :
              /\ raced[c] => raced'[c]
              /\ pc[c] = "fetched" /\ TableOf(key[c]) = t => raced'[c]
         /\ untracked' = untracked \ {t}
         /\ StoreInv'
<1>1. store' \in EntryType /\ Shrinks
  BY DEF TypeOK, EntryType, Shrinks, InvalidateTable
<1>2. StoreInv'
  BY <1>1, ShrinkInv
<1>3. \A k \in Keys : TableOf(k) = t => store'[k] = NoEntry
  BY DEF InvalidateTable
<1>4. /\ raced' \in [Clients -> BOOLEAN]
      /\ \A c \in Clients :
           /\ raced[c] => raced'[c]
           /\ pc[c] = "fetched" /\ TableOf(key[c]) = t => raced'[c]
  BY DEF TypeOK, InvalidateTable
<1> QED
  BY <1>1, <1>2, <1>3, <1>4 DEF InvalidateTable
-----------------------------------------------------------------------------
(* The invariant holds initially and is kept by every action.              *)

LEMMA InitInv == Init => IInv
<1> SUFFICES ASSUME Init PROVE IInv
  OBVIOUS
<1>1. TypeOK
  BY Assumptions DEF Init, TypeOK, Versions, Steps
<1>2. FillInv /\ TxInv
  BY DEF Init, FillInv, TxInv, InTransaction
<1>3. Stored = {}
  BY DEF Init, Stored
<1>4. StoreInv
  BY <1>1, <1>3, FS_EmptySet, Assumptions DEF TypeOK, StoreInv, WithinCapacity
<1>5. FreshUnlessRaced
  BY DEF Init, FreshUnlessRaced, Fresh, Live, NoEntry
<1> QED
  BY <1>1, <1>2, <1>4, <1>5 DEF IInv

(* Steps that lose entries only, and leave the tables as they are, keep    *)
(* the rest fresh.                                                         *)
LEMMA ShrinkFresh ==
  ASSUME FreshUnlessRaced, Shrinks, UNCHANGED <<committed, untracked>>
  PROVE  FreshUnlessRaced'
BY DEF FreshUnlessRaced, Shrinks, Fresh, Live, NoEntry

LEMMA MissInv ==
  ASSUME IInv, NEW c \in Clients, NEW k \in Keys, Miss(c, k)
  PROVE  IInv'
<1>1. TypeOK'
  BY DEF IInv, TypeOK, Miss, Goto, Steps, tableVars, storeVars
<1>2. FillInv' /\ TxInv'
  BY DEF IInv, TypeOK, FillInv, TxInv, InTransaction, Versions, NoVersion, Miss,
         Goto, tableVars
<1>3. StoreInv'
  BY SameStoreInv DEF IInv, Miss
<1>4. FreshUnlessRaced'
  BY ShrinkFresh DEF IInv, Miss, Shrinks, tableVars, storeVars
<1> QED
  BY <1>1, <1>2, <1>3, <1>4 DEF IInv

(* At the moment of the fetch its rows are current.                        *)
LEMMA FetchInv ==
  ASSUME IInv, NEW c \in Clients, Fetch(c)
  PROVE  IInv'
<1>1. committed[TableOf(key[c])] \in Versions
  BY TableType DEF IInv, TypeOK
<1>2. TypeOK'
  BY <1>1 DEF IInv, TypeOK, Fetch, Goto, Steps, tableVars, storeVars
<1>3. FillInv'
  BY DEF IInv, TypeOK, FillInv, Fetch, Goto, tableVars
<1>4. TxInv'
  BY DEF IInv, TypeOK, TxInv, InTransaction, Versions, NoVersion, Fetch, Goto,
         tableVars
<1>5. StoreInv'
  BY SameStoreInv DEF IInv, Fetch
<1>6. FreshUnlessRaced'
  BY ShrinkFresh DEF IInv, Fetch, Shrinks, tableVars, storeVars
<1> QED
  BY <1>2, <1>3, <1>4, <1>5, <1>6 DEF IInv

(* The entry is as fresh as the rows it is made of.                        *)
LEMMA PutInv ==
  ASSUME IInv, NEW c \in Clients, Put(c)
  PROVE  IInv'
<1>1. key[c] \in Keys /\ rows[c] \in Versions /\ raced[c] \in BOOLEAN
  BY DEF IInv, TypeOK
<1>2. /\ store' \in EntryType
      /\ store'[key[c]] =
           [version |-> rows[c], live |-> TRUE, raced |-> raced[c]]
      /\ \A j \in Keys \ {key[c]} : store'[j] = store[j] \/ store'[j] = NoEntry
      /\ StoreInv'
  BY <1>1, PutCachedInv DEF IInv, Put
<1>3. TypeOK'
  BY <1>2 DEF IInv, TypeOK, EntryType, Put, Goto, Steps, tableVars, fillVars
<1>4. FillInv' /\ TxInv'
  BY DEF IInv, TypeOK, FillInv, TxInv, InTransaction, Versions, NoVersion, Put,
         Goto, tableVars, fillVars
<1>5. FreshUnlessRaced'
  <2> SUFFICES ASSUME NEW k \in Keys
               PROVE  Fresh(k)' \/ store'[k].raced \/ TableOf(k) \in untracked'
    BY DEF FreshUnlessRaced
  <2>1. CASE k = key[c]
    BY <1>2, <2>1 DEF IInv, FillInv, Fresh, Put, tableVars
  <2>2. CASE k # key[c]
    BY <1>2, <2>2
    DEF IInv, FreshUnlessRaced, Fresh, Live, NoEntry, Put, tableVars
  <2> QED
    BY <2>1, <2>2
<1> QED
  BY <1>2, <1>3, <1>4, <1>5 DEF IInv

LEMMA AbandonInv ==
  ASSUME IInv, NEW c \in Clients, Abandon(c)
  PROVE  IInv'
<1>1. TypeOK'
  BY DEF IInv, TypeOK, Abandon, Goto, Steps, tableVars, storeVars, fillVars
<1>2. FillInv' /\ TxInv'
  BY DEF IInv, TypeOK, FillInv, TxInv, InTransaction, Versions, NoVersion, Abandon,
         Goto, tableVars, fillVars
<1>3. StoreInv'
  BY SameStoreInv DEF IInv, Abandon
<1>4. FreshUnlessRaced'
  BY ShrinkFresh DEF IInv, Abandon, Shrinks, tableVars, storeVars
<1> QED
  BY <1>1, <1>2, <1>3, <1>4 DEF IInv

LEMMA SetMaxEntriesInv ==
  ASSUME IInv, NEW n \in Capacities, SetMaxEntries(n)
  PROVE  IInv'
<1>1. PICK kept \in SUBSET Stored :
        /\ Evict(Stored, n, kept)
        /\ store' = [k \in Keys |-> IF k \in kept THEN store[k] ELSE NoEntry]
  BY DEF SetMaxEntries
<1>2. Shrinks /\ Stored' \subseteq kept
  BY <1>1 DEF Shrinks, Stored
<1>3. TypeOK'
  BY <1>1 DEF IInv, TypeOK, SetMaxEntries, tableVars, requestVars, fillVars
<1>4. FillInv' /\ TxInv'
  BY DEF IInv, FillInv, TxInv, InTransaction, SetMaxEntries, tableVars, requestVars,
         fillVars
<1>5. StoreInv'
  <2>1. IsFiniteSet(kept) /\ IsFiniteSet(Stored)
    BY FS_Subset DEF IInv, StoreInv
  <2>2. IsFiniteSet(Stored') /\ Cardinality(Stored') <= Cardinality(kept)
    BY <1>2, <2>1, FS_Subset
  <2>3. /\ Cardinality(kept) \in Nat /\ Cardinality(Stored) \in Nat
        /\ Cardinality(Stored') \in Nat /\ n \in Nat
    BY <2>1, <2>2, FS_CardinalityType, Assumptions
  <2>4. Cardinality(kept) <= n
    BY <1>1, <2>3 DEF Evict
  <2> QED
    BY <2>2, <2>3, <2>4 DEF StoreInv, WithinCapacity, SetMaxEntries
<1>6. FreshUnlessRaced'
  BY <1>2, ShrinkFresh DEF IInv, SetMaxEntries, tableVars
<1> QED
  BY <1>3, <1>4, <1>5, <1>6 DEF IInv

LEMMA ExpireInv ==
  ASSUME IInv, NEW k \in Keys, Expire(k)
  PROVE  IInv'
<1>1. store[k] \in Entry
  BY DEF IInv, TypeOK, Expire, Live, NoEntry
<1>2. [store[k] EXCEPT !.live = FALSE] \in Entry
  BY <1>1 DEF Entry
<1>3. TypeOK'
  BY <1>2 DEF IInv, TypeOK, Expire, tableVars, requestVars, fillVars
<1>4. FillInv' /\ TxInv'
  BY DEF IInv, FillInv, TxInv, InTransaction, Expire, tableVars, requestVars,
         fillVars
<1>5. Stored' = Stored
  <2>1. store[k] # NoEntry /\ store'[k] # NoEntry
    BY <1>1, <1>2, Assumptions DEF IInv, TypeOK, Expire
  <2> QED
    BY <2>1 DEF IInv, TypeOK, Expire, Stored
<1>6. StoreInv'
  BY <1>5 DEF IInv, StoreInv, WithinCapacity, Expire
<1>7. FreshUnlessRaced'
  BY DEF IInv, TypeOK, FreshUnlessRaced, Fresh, Live, Expire, tableVars
<1> QED
  BY <1>3, <1>4, <1>6, <1>7 DEF IInv

-----------------------------------------------------------------------------
(* The writes.                                                             *)

(* A request that begins a write gets a version of its own.                *)
LEMMA NewVersionType ==
  ASSUME TypeOK, NEW c \in Clients, NEW t \in Tables, NewVersion(c, t)
  PROVE  /\ written' \in Versions
         /\ written + 1 \in Versions
         /\ key' \in [Clients -> Keys]
         /\ TableOf(key'[c]) = t
         /\ \A d \in Clients \ {c} : key'[d] = key[d]
<1>1. written' \in Versions /\ written + 1 \in Versions
  BY Assumptions DEF TypeOK, NewVersion, Versions
<1>2. PICK q \in Queries : key' = [key EXCEPT ![c] = <<t, q>>]
  BY DEF NewVersion
<1>3. <<t, q>> \in Keys
  BY DEF Keys
<1> QED
  BY <1>1, <1>2, <1>3 DEF TypeOK, TableOf

(* A write on the pool makes its table untracked, so nothing is promised   *)
(* of it until the invalidation.                                           *)
LEMMA PoolWriteInv ==
  ASSUME IInv, NEW c \in Clients, NEW t \in Tables,
         NewVersion(c, t), CommitNow(t), untracked' = untracked \cup {t},
         \/ UNCHANGED pc
         \/ Goto(c, "written"),
         UNCHANGED <<storeVars, rows, raced, faults>>
  PROVE  IInv'
<1>1. /\ written' \in Versions
      /\ written + 1 \in Versions
      /\ key' \in [Clients -> Keys]
      /\ TableOf(key'[c]) = t
      /\ \A d \in Clients \ {c} : key'[d] = key[d]
  BY NewVersionType DEF IInv
<1>2. /\ committed' \in [Tables -> Versions]
      /\ \A u \in Tables \ {t} : committed'[u] = committed[u]
      /\ UNCHANGED uncommitted
  BY <1>1 DEF IInv, TypeOK, CommitNow
<1>3. /\ pc' \in [Clients -> Steps]
      /\ \A d \in Clients \ {c} : pc'[d] = pc[d]
      /\ pc'[c] \in {"idle", "written"}
  BY DEF IInv, TypeOK, Goto, Steps, NewVersion
<1>4. TypeOK'
  BY <1>1, <1>2, <1>3 DEF IInv, TypeOK, storeVars
<1>5. FillInv'
  <2> SUFFICES ASSUME NEW d \in Clients, pc'[d] = "fetched"
               PROVE  \/ raced'[d]
                      \/ rows'[d] = committed'[TableOf(key'[d])]
                      \/ TableOf(key'[d]) \in untracked'
    BY DEF FillInv
  <2>1. d # c /\ key'[d] = key[d] /\ pc[d] = "fetched"
    BY <1>1, <1>3
  <2>2. TableOf(key[d]) \in Tables
    BY TableType DEF IInv, TypeOK
  <2> QED
    BY <1>2, <2>1, <2>2 DEF IInv, FillInv
<1>6. TxInv'
  <2>1. \A d \in Clients :
          InTransaction(d)' => InTransaction(d) /\ key'[d] = key[d]
    BY <1>1, <1>3 DEF InTransaction
  <2> QED
    BY <1>2, <2>1 DEF IInv, TxInv, Versions
<1>7. StoreInv'
  BY SameStoreInv DEF IInv
<1>8. FreshUnlessRaced'
  BY <1>2, TableType DEF IInv, FreshUnlessRaced, Fresh, Live, storeVars
<1> QED
  BY <1>4, <1>5, <1>6, <1>7, <1>8 DEF IInv

(* An invalidation restores the promise: what it does not drop it marks.   *)
LEMMA InvalidationInv ==
  ASSUME IInv, NEW c \in Clients,
         pc[c] \in {"written", "txWritten"},
         InvalidateTable(TableOf(key[c])),
         \/ pc[c] = "written" /\ Goto(c, "idle")
         \/ pc[c] = "txWritten" /\ Goto(c, "inTx"),
         UNCHANGED <<tableVars, maxEntries, key, rows, faults>>
  PROVE  IInv'
<1> DEFINE t == TableOf(key[c])
<1>0. t \in Tables
  BY TableType DEF IInv, TypeOK
<1>1. /\ store' \in EntryType
      /\ Shrinks
      /\ \A k \in Keys : TableOf(k) = t => store'[k] = NoEntry
      /\ raced' \in [Clients -> BOOLEAN]
      /\ \A d \in Clients :
           /\ raced[d] => raced'[d]
           /\ pc[d] = "fetched" /\ TableOf(key[d]) = t => raced'[d]
      /\ untracked' = untracked \ {t}
      /\ StoreInv'
  BY <1>0, InvalidateTableInv DEF IInv
<1> HIDE DEF t
<1>2. /\ pc' \in [Clients -> Steps]
      /\ \A d \in Clients \ {c} : pc'[d] = pc[d]
      /\ pc'[c] # "fetched"
      /\ \A d \in Clients : InTransaction(d)' => InTransaction(d)
  BY DEF IInv, TypeOK, Goto, Steps, InTransaction
<1>3. TypeOK'
  BY <1>1, <1>2 DEF IInv, TypeOK, EntryType, tableVars
<1>4. FillInv'
  BY <1>1, <1>2 DEF IInv, FillInv, tableVars
<1>5. TxInv'
  BY <1>2 DEF IInv, TxInv, Versions, tableVars
<1>6. FreshUnlessRaced'
  <2> SUFFICES ASSUME NEW k \in Keys
               PROVE  Fresh(k)' \/ store'[k].raced \/ TableOf(k) \in untracked'
    BY DEF FreshUnlessRaced
  <2>1. CASE store'[k] = NoEntry
    BY <2>1 DEF Fresh, Live, NoEntry
  <2>2. CASE store'[k] = store[k] /\ TableOf(k) # t
    BY <1>1, <2>2 DEF IInv, FreshUnlessRaced, Fresh, Live, tableVars
  <2> QED
    BY <1>1, <2>1, <2>2 DEF Shrinks
<1> QED
  BY <1>1, <1>3, <1>4, <1>5, <1>6 DEF IInv

(* A transaction begins only on a table no other one holds.                *)
LEMMA TxWriteInv ==
  ASSUME IInv, NEW c \in Clients, NEW t \in Tables, TxWrite(c, t)
  PROVE  IInv'
<1>1. /\ written' \in Versions
      /\ written + 1 \in Versions
      /\ key' \in [Clients -> Keys]
      /\ TableOf(key'[c]) = t
      /\ \A d \in Clients \ {c} : key'[d] = key[d]
  BY NewVersionType DEF IInv, TxWrite
<1>2. /\ uncommitted' \in [Tables -> Versions \cup {NoVersion}]
      /\ uncommitted'[t] \in Versions
      /\ \A u \in Tables \ {t} : uncommitted'[u] = uncommitted[u]
      /\ uncommitted[t] = NoVersion
  BY <1>1 DEF IInv, TypeOK, TxWrite, NewVersion
<1>3. /\ pc' \in [Clients -> Steps]
      /\ \A d \in Clients \ {c} : pc'[d] = pc[d]
      /\ pc'[c] = "txWritten"
  BY DEF IInv, TypeOK, Goto, Steps, TxWrite
<1>4. TypeOK'
  BY <1>1, <1>2, <1>3 DEF IInv, TypeOK, TxWrite, storeVars
<1>5. FillInv'
  BY <1>1, <1>3 DEF IInv, FillInv, TxWrite
<1>6. TxInv'
  <2>1. \A d \in Clients \ {c} :
          /\ InTransaction(d)' <=> InTransaction(d)
          /\ InTransaction(d) => TableOf(key[d]) # t
    <3> SUFFICES ASSUME NEW d \in Clients \ {c}
                 PROVE  /\ InTransaction(d)' <=> InTransaction(d)
                        /\ InTransaction(d) => TableOf(key[d]) # t
      OBVIOUS
    <3>1. InTransaction(d)' <=> InTransaction(d)
      BY <1>3 DEF InTransaction
    <3>2. InTransaction(d) => uncommitted[TableOf(key[d])] # NoVersion
      BY Assumptions DEF IInv, TxInv
    <3> QED
      BY <1>2, <3>1, <3>2
  <2>2. \A d \in Clients : TableOf(key[d]) \in Tables
    BY TableType DEF IInv, TypeOK
  <2>3. \A d \in Clients : InTransaction(d)' => uncommitted'[TableOf(key'[d])] \in Versions
    BY <1>1, <1>2, <2>1, <2>2 DEF IInv, TxInv
  <2>4. \A d, e \in Clients :
          InTransaction(d)' /\ InTransaction(e)' /\ TableOf(key'[d]) = TableOf(key'[e])
          => d = e
    BY <1>1, <2>1 DEF IInv, TxInv
  <2>5. Versions' = Versions
    BY DEF Versions
  <2> QED
    BY <2>3, <2>4, <2>5 DEF TxInv
<1>7. StoreInv'
  BY SameStoreInv DEF IInv, TxWrite
<1>8. FreshUnlessRaced'
  BY ShrinkFresh DEF IInv, TxWrite, Shrinks, storeVars
<1> QED
  BY <1>4, <1>5, <1>6, <1>7, <1>8 DEF IInv

(* What a transaction reads of its own write is stored as raced.           *)
LEMMA TxFillInv ==
  ASSUME IInv, NEW c \in Clients, NEW k \in Keys, TxFill(c, k)
  PROVE  IInv'
<1>1. uncommitted[TableOf(k)] \in Versions
  BY DEF IInv, TxInv, InTransaction, TxFill
<1>2. /\ store' \in EntryType
      /\ store'[k] =
           [version |-> uncommitted[TableOf(k)], live |-> TRUE, raced |-> TRUE]
      /\ \A j \in Keys \ {k} : store'[j] = store[j] \/ store'[j] = NoEntry
      /\ StoreInv'
  BY <1>1, PutCachedInv DEF IInv, TxFill
<1>3. TypeOK'
  BY <1>2 DEF IInv, TypeOK, EntryType, TxFill, tableVars, requestVars, fillVars
<1>4. FillInv' /\ TxInv'
  BY DEF IInv, FillInv, TxInv, InTransaction, TxFill, tableVars, requestVars,
         fillVars
<1>5. FreshUnlessRaced'
  <2> SUFFICES ASSUME NEW j \in Keys
               PROVE  Fresh(j)' \/ store'[j].raced \/ TableOf(j) \in untracked'
    BY DEF FreshUnlessRaced
  <2>1. CASE j = k
    BY <1>2, <2>1
  <2>2. CASE j # k
    BY <1>2, <2>2
    DEF IInv, FreshUnlessRaced, Fresh, Live, NoEntry, TxFill, tableVars
  <2> QED
    BY <2>1, <2>2
<1> QED
  BY <1>2, <1>3, <1>4, <1>5 DEF IInv

(* The end of a transaction gives its table back, and only its table.      *)
LEMMA EndTxInv ==
  ASSUME IInv, NEW c \in Clients, InTransaction(c), Goto(c, "idle"),
         uncommitted' = [uncommitted EXCEPT ![TableOf(key[c])] = NoVersion],
         UNCHANGED <<fillVars, written>>
  PROVE  /\ pc' \in [Clients -> Steps]
         /\ uncommitted' \in [Tables -> Versions \cup {NoVersion}]
         /\ \A d \in Clients \ {c} : pc'[d] = pc[d]
         /\ pc'[c] = "idle"
         /\ TxInv'
<1>1. /\ pc' \in [Clients -> Steps]
      /\ \A d \in Clients \ {c} : pc'[d] = pc[d]
      /\ pc'[c] = "idle"
  BY DEF IInv, TypeOK, Goto, Steps
<1>2. /\ uncommitted' \in [Tables -> Versions \cup {NoVersion}]
      /\ \A u \in Tables \ {TableOf(key[c])} : uncommitted'[u] = uncommitted[u]
  BY DEF IInv, TypeOK
<1>3. \A d \in Clients :
        InTransaction(d)' =>
          InTransaction(d) /\ TableOf(key[d]) \in Tables \ {TableOf(key[c])}
  BY <1>1, TableType DEF IInv, TypeOK, TxInv, InTransaction
<1>4. TxInv'
  BY <1>2, <1>3 DEF IInv, TxInv, fillVars, Versions
<1> QED
  BY <1>1, <1>2, <1>4

LEMMA CommitTxInv ==
  ASSUME IInv, NEW c \in Clients, CommitTx(c)
  PROVE  IInv'
<1> DEFINE t == TableOf(key[c])
<1>1. t \in Tables /\ uncommitted[t] \in Versions
  BY TableType DEF IInv, TypeOK, TxInv, InTransaction, CommitTx
<1>2. /\ committed' \in [Tables -> Versions]
      /\ \A u \in Tables \ {t} : committed'[u] = committed[u]
      /\ untracked' = untracked \cup {t}
  BY <1>1 DEF IInv, TypeOK, CommitTx
<1>3. /\ pc' \in [Clients -> Steps]
      /\ uncommitted' \in [Tables -> Versions \cup {NoVersion}]
      /\ \A d \in Clients \ {c} : pc'[d] = pc[d]
      /\ pc'[c] = "idle"
      /\ TxInv'
  BY EndTxInv DEF CommitTx, InTransaction
<1> HIDE DEF t
<1>4. TypeOK'
  BY <1>1, <1>2, <1>3 DEF IInv, TypeOK, CommitTx, storeVars, fillVars
<1>5. FillInv'
  BY <1>2, <1>3, TableType DEF IInv, TypeOK, FillInv, CommitTx, fillVars
<1>6. StoreInv'
  BY SameStoreInv DEF IInv, CommitTx
<1>7. FreshUnlessRaced'
  BY <1>2, TableType
  DEF IInv, FreshUnlessRaced, Fresh, Live, CommitTx, storeVars
<1> QED
  BY <1>3, <1>4, <1>5, <1>6, <1>7 DEF IInv

LEMMA RollbackTxInv ==
  ASSUME IInv, NEW c \in Clients, RollbackTx(c)
  PROVE  IInv'
<1>1. /\ pc' \in [Clients -> Steps]
      /\ uncommitted' \in [Tables -> Versions \cup {NoVersion}]
      /\ \A d \in Clients \ {c} : pc'[d] = pc[d]
      /\ pc'[c] = "idle"
      /\ TxInv'
  BY EndTxInv DEF RollbackTx, InTransaction
<1>2. TypeOK'
  BY <1>1 DEF IInv, TypeOK, RollbackTx, storeVars, fillVars
<1>3. FillInv'
  BY <1>1 DEF IInv, FillInv, RollbackTx, fillVars
<1>4. StoreInv'
  BY SameStoreInv DEF IInv, RollbackTx
<1>5. FreshUnlessRaced'
  BY ShrinkFresh DEF IInv, RollbackTx, Shrinks, storeVars
<1> QED
  BY <1>1, <1>2, <1>3, <1>4, <1>5 DEF IInv

-----------------------------------------------------------------------------
LEMMA StepInv == IInv /\ [Next]_vars => IInv'
<1> SUFFICES ASSUME IInv, [Next]_vars PROVE IInv'
  OBVIOUS
<1>1. ASSUME NEW c \in Clients, Continue(c) PROVE IInv'
  <2>1. CASE Fetch(c)
    BY <2>1, FetchInv
  <2>2. CASE Put(c)
    BY <2>2, PutInv
  <2>3. CASE Abandon(c)
    BY <2>3, AbandonInv
  <2>4. CASE Invalidate(c)
    BY <2>4, InvalidationInv DEF Invalidate
  <2>5. CASE TxInvalidate(c)
    BY <2>5, InvalidationInv DEF TxInvalidate
  <2>6. CASE CommitTx(c)
    BY <2>6, CommitTxInv
  <2>7. CASE RollbackTx(c)
    BY <2>7, RollbackTxInv
  <2> QED
    BY <1>1, <2>1, <2>2, <2>3, <2>4, <2>5, <2>6, <2>7 DEF Continue
<1>2. ASSUME NEW c \in Clients, WriteAnswerLost(c) PROVE IInv'
  <2>1. TypeOK'
    BY <1>2, Assumptions
    DEF IInv, TypeOK, WriteAnswerLost, Goto, Steps, tableVars, storeVars, fillVars
  <2>2. FillInv' /\ TxInv'
    BY <1>2 DEF IInv, TypeOK, FillInv, TxInv, InTransaction, Versions, NoVersion,
                WriteAnswerLost, Goto, tableVars, fillVars
  <2>3. StoreInv'
    BY <1>2, SameStoreInv DEF IInv, WriteAnswerLost
  <2>4. FreshUnlessRaced'
    BY <1>2, ShrinkFresh DEF IInv, WriteAnswerLost, Shrinks, tableVars, storeVars
  <2> QED
    BY <2>1, <2>2, <2>3, <2>4 DEF IInv
<1>3. ASSUME NEW c \in Clients, NEW k \in Keys, Miss(c, k) \/ TxFill(c, k)
      PROVE  IInv'
  BY <1>3, MissInv, TxFillInv
<1>4. ASSUME NEW c \in Clients, NEW t \in Tables,
             Write(c, t) \/ BulkUpdate(c, t) \/ TxWrite(c, t)
      PROVE  IInv'
  <2>1. CASE Write(c, t)
    BY <2>1, PoolWriteInv DEF Write
  <2>2. CASE BulkUpdate(c, t)
    BY <2>2, PoolWriteInv DEF BulkUpdate
  <2>3. CASE TxWrite(c, t)
    BY <2>3, TxWriteInv
  <2> QED
    BY <1>4, <2>1, <2>2, <2>3
<1>5. ASSUME NEW k \in Keys, Expire(k) PROVE IInv'
  BY <1>5, ExpireInv
<1>6. ASSUME NEW n \in Capacities, SetMaxEntries(n) PROVE IInv'
  BY <1>6, SetMaxEntriesInv
<1>7. CASE UNCHANGED vars
  <2>1. StoreInv'
    BY <1>7, SameStoreInv DEF IInv, vars
  <2> QED
    BY <1>7, <2>1
    DEF IInv, TypeOK, FillInv, TxInv, InTransaction, Versions, FreshUnlessRaced,
        Fresh, Live, vars, tableVars, storeVars, requestVars, fillVars
<1> QED
  BY <1>1, <1>2, <1>3, <1>4, <1>5, <1>6, <1>7 DEF Next

(* The invariant the theorems below are read off: the types, what is known *)
(* of rows fetched and not stored yet, the tables transactions hold, and   *)
(* the size of the store.                                                  *)
THEOREM InductiveInvariant == Spec => []IInv
BY InitInv, StepInv, PTL DEF Spec

(* An entry that cached_all serves is current unless its fill overlapped   *)
(* an invalidation of the table, it was filled inside a transaction, or    *)
(* the table changed by a write that has not invalidated it.               *)
THEOREM FreshEntries == Spec => []FreshUnlessRaced
<1>1. IInv => FreshUnlessRaced
  BY DEF IInv
<1> QED
  BY <1>1, InductiveInvariant, PTL

(* put_cached and set_max_cache_entries keep the store within its limit,   *)
(* any usize, whatever is evicted: the one entry put_cached keeps when the *)
(* limit is 0 is all there ever is above it.                               *)
THEOREM BoundedStore == Spec => []WithinCapacity
<1>1. IInv => WithinCapacity
  BY DEF IInv, StoreInv
<1> QED
  BY <1>1, InductiveInvariant, PTL

-----------------------------------------------------------------------------
(* Where writes are the tracked ones and answers are not lost.             *)

LEMMA PendingStep ==
  ASSUME TrackedOnly, IInv, PendingInv, [Next]_vars
  PROVE  PendingInv'
<1> DEFINE Pending(t) == \E c \in Clients : pc[c] = "written" /\ TableOf(key[c]) = t
<1> DEFINE Calm(c) == /\ pc'[c] \in {"idle", "missed", "fetched"}
                      /\ pc[c] # "written"
                      /\ \A d \in Clients \ {c} : pc'[d] = pc[d] /\ key'[d] = key[d]
                      /\ UNCHANGED untracked
<1>1. ASSUME NEW c \in Clients, Calm(c) PROVE PendingInv'
  BY <1>1 DEF PendingInv, InTransaction
<1>2. ASSUME UNCHANGED <<pc, key, untracked>> PROVE PendingInv'
  BY <1>2 DEF PendingInv, InTransaction
<1>3. ASSUME NEW c \in Clients, NEW k \in Keys, Miss(c, k) PROVE PendingInv'
  <2>1. Calm(c)
    BY <1>3 DEF IInv, TypeOK, Miss, Goto
  <2> QED
    BY <2>1, <1>1
<1>4. ASSUME NEW c \in Clients, Fetch(c) \/ Put(c) \/ Abandon(c) PROVE PendingInv'
  <2>1. Calm(c)
    BY <1>4 DEF IInv, TypeOK, Fetch, Put, Abandon, Goto, fillVars
  <2> QED
    BY <2>1, <1>1
<1>5. ASSUME NEW c \in Clients, NEW t \in Tables, Write(c, t) PROVE PendingInv'
  <2>1. /\ pc[c] = "idle" /\ pc'[c] = "written" /\ TableOf(key'[c]) = t
        /\ \A d \in Clients \ {c} : pc'[d] = pc[d] /\ key'[d] = key[d]
        /\ untracked' = untracked \cup {t}
    BY <1>5, NewVersionType DEF IInv, TypeOK, Write, Goto, NewVersion
  <2> QED
    BY <2>1 DEF PendingInv, InTransaction
<1>6. ASSUME NEW c \in Clients, Invalidate(c) PROVE PendingInv'
  <2>1. /\ pc[c] = "written" /\ pc'[c] = "idle"
        /\ \A d \in Clients \ {c} : pc'[d] = pc[d]
        /\ UNCHANGED key
        /\ untracked' = untracked \ {TableOf(key[c])}
    BY <1>6 DEF IInv, TypeOK, Invalidate, InvalidateTable, Goto
  <2> QED
    BY <2>1 DEF PendingInv, InTransaction
<1>7. /\ \A c \in Clients : /\ ~WriteAnswerLost(c) /\ ~TxInvalidate(c)
                            /\ ~CommitTx(c) /\ ~RollbackTx(c)
      /\ \A c \in Clients, k \in Keys : ~TxFill(c, k)
      /\ \A c \in Clients, t \in Tables : ~BulkUpdate(c, t) /\ ~TxWrite(c, t)
  <2>1. \A c \in Clients : ~WriteAnswerLost(c)
    BY DEF IInv, TypeOK, WriteAnswerLost, TrackedOnly
  <2> QED
    BY <2>1 DEF PendingInv, InTransaction, TxInvalidate, CommitTx, RollbackTx, TxFill,
                BulkUpdate, TxWrite, TrackedOnly
<1>8. ASSUME NEW k \in Keys, Expire(k) PROVE PendingInv'
  BY <1>8, <1>2 DEF Expire, requestVars, fillVars
<1>9. ASSUME NEW n \in Capacities, SetMaxEntries(n) PROVE PendingInv'
  BY <1>9, <1>2 DEF SetMaxEntries, requestVars, fillVars
<1>10. CASE UNCHANGED vars
  BY <1>10, <1>2 DEF vars, requestVars, fillVars
<1> QED
  BY <1>3, <1>4, <1>5, <1>6, <1>7, <1>8, <1>9, <1>10 DEF Next, Continue

(* Of "stale rows are never served after a mutation" this much holds where *)
(* every mutation invalidates: once all have returned, an entry is stale   *)
(* only if the fetch it was filled from had overlapped an invalidation.    *)
THEOREM StaleAfterMutationOnlyIfRaced ==
  ASSUME TrackedOnly
  PROVE  Spec => []StaleOnlyIfRaced
<1>1. Init => IInv /\ PendingInv
  BY InitInv DEF Init, PendingInv, InTransaction
<1>2. IInv /\ PendingInv /\ [Next]_vars => (IInv /\ PendingInv)'
  BY StepInv, PendingStep
<1>3. IInv /\ PendingInv => StaleOnlyIfRaced
  BY DEF IInv, FreshUnlessRaced, PendingInv, StaleOnlyIfRaced
<1> QED
  BY <1>1, <1>2, <1>3, PTL DEF Spec

=============================================================================
