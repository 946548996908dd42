------------------------------ MODULE QueryCache ------------------------------
(***************************************************************************)
(* The process-local queryset cache of djangors-orm.  QuerySet::cached_all *)
(* looks a query up, and on a miss fetches the rows and stores them, with  *)
(* no lock held from one to the other; model writes execute their SQL and  *)
(* then drop every entry of their table.                                   *)
(*                                                                         *)
(* The contents of a table are a version number: every write makes a new   *)
(* one.  Clients are the concurrent requests of one process.               *)
(***************************************************************************)
EXTENDS Naturals, FiniteSets

CONSTANTS
  Clients,        \* requests that run concurrently in the process
  Tables,         \* tables of cached models
  Queries,        \* compiled SQL and parameters of the cached querysets
  Capacities,     \* values set_max_cache_entries may be called with
  WriteKinds,     \* ways to write that are considered
  MaxWrites,      \* bound on writes
  MaxFaults       \* bound on writes whose answer is lost

Kinds == {"tracked", "bulk", "transaction"}

(* Any usize: 0 too, with which put_cached keeps the entry it inserts.     *)
ASSUME CapacityAssumption == Capacities \subseteq Nat /\ Capacities # {}
ASSUME KindAssumption == WriteKinds \subseteq Kinds
ASSUME BoundAssumption == MaxWrites \in Nat /\ MaxFaults \in Nat
ASSUME CachedAssumption == Tables # {} /\ Queries # {}

VARIABLES
  committed,      \* version of each table, as committed
  uncommitted,    \* version an open transaction gave a table, or NoVersion
  written,        \* versions made so far
  store,          \* entry of each key, or NoEntry
  maxEntries,     \* max_entries of the store
  pc,             \* where each request is
  key,            \* the key its cached_all, or the table its write, works on
  rows,           \* the version its fetch returned
  raced,          \* history: the table was invalidated since that fetch
  untracked,      \* history: tables that changed with no later invalidation
  faults

tableVars == <<committed, uncommitted, written>>
storeVars == <<store, maxEntries>>
fillVars == <<key, rows, raced>>
requestVars == <<pc, fillVars>>
vars == <<tableVars, storeVars, requestVars, untracked, faults>>

Keys == Tables \X Queries
AnyKey == CHOOSE k \in Keys : TRUE
TableOf(k) == k[1]

Steps == {"idle", "missed", "fetched", "written", "txWritten", "inTx"}
NoVersion == MaxWrites + 1
Versions == 0..MaxWrites
NoEntry == [version |-> NoVersion, live |-> FALSE, raced |-> FALSE]
Entry == [version : Versions, live : BOOLEAN, raced : BOOLEAN]

TypeOK ==
  /\ committed \in [Tables -> Versions]
  /\ uncommitted \in [Tables -> Versions \cup {NoVersion}]
  /\ written \in Versions
  /\ store \in [Keys -> Entry \cup {NoEntry}]
  /\ maxEntries \in Capacities
  /\ pc \in [Clients -> Steps]
  /\ key \in [Clients -> Keys]
  /\ rows \in [Clients -> Versions]
  /\ raced \in [Clients -> BOOLEAN]
  /\ untracked \subseteq Tables
  /\ faults \in 0..MaxFaults

Init ==
  /\ committed = [t \in Tables |-> 0]
  /\ uncommitted = [t \in Tables |-> NoVersion]
  /\ written = 0
  /\ store = [k \in Keys |-> NoEntry]
  /\ maxEntries \in Capacities
  /\ pc = [c \in Clients |-> "idle"]
  /\ key = [c \in Clients |-> AnyKey]
  /\ rows = [c \in Clients |-> 0]
  /\ raced = [c \in Clients |-> FALSE]
  /\ untracked = {}
  /\ faults = 0

-----------------------------------------------------------------------------
Stored == {k \in Keys : store[k] # NoEntry}

(* Variant: expires_at is not looked at.                                   *)
Present(k) == store[k] # NoEntry

(* get_cached finds the entry and it has not expired.                      *)
Live(k) == store[k].live

(* evict: remove entries in the map's order, that is any, down to target.  *)
Evict(from, target, kept) ==
  /\ kept \subseteq from
  /\ Cardinality(kept) =
       IF Cardinality(from) > target THEN target ELSE Cardinality(from)

(* max_entries.saturating_sub(1).                                          *)
RoomForOne == IF maxEntries = 0 THEN 0 ELSE maxEntries - 1

(* Variant: room is made only once the store is over its limit.            *)
PutLate(k, version, inFlight) ==
  \E kept \in SUBSET Stored :
    /\ IF k \notin Stored /\ Cardinality(Stored) > maxEntries
         THEN Evict(Stored, RoomForOne, kept)
         ELSE kept = Stored
    /\ store' = [j \in Keys |->
         IF j = k THEN [version |-> version, live |-> TRUE, raced |-> inFlight]
         ELSE IF j \in kept THEN store[j] ELSE NoEntry]

(* put_cached: a new key in a full store first evicts to make room.        *)
PutCached(k, version, inFlight) ==
  \E kept \in SUBSET Stored :
    /\ IF k \notin Stored /\ Cardinality(Stored) >= maxEntries
         THEN Evict(Stored, RoomForOne, kept)
         ELSE kept = Stored
    /\ store' = [j \in Keys |->
         IF j = k THEN [version |-> version, live |-> TRUE, raced |-> inFlight]
         ELSE IF j \in kept THEN store[j] ELSE NoEntry]

(* Variant: the condition of retain the wrong way round.                   *)
RetainInverted(t) ==
  /\ store' = [k \in Keys |-> IF TableOf(k) # t THEN NoEntry ELSE store[k]]
  /\ raced' = [c \in Clients |->
       raced[c] \/ (pc[c] = "fetched" /\ TableOf(key[c]) = t)]
  /\ untracked' = untracked \ {t}

(* invalidate_table, and what it means for the fills under way.            *)
InvalidateTable(t) ==
  /\ store' = [k \in Keys |-> IF TableOf(k) = t THEN NoEntry ELSE store[k]]
  /\ raced' = [c \in Clients |->
       raced[c] \/ (pc[c] = "fetched" /\ TableOf(key[c]) = t)]
  /\ untracked' = untracked \ {t}

Goto(c, step) == pc' = [pc EXCEPT ![c] = step]

-----------------------------------------------------------------------------
(* cached_all.  A hit returns the entry and changes nothing.               *)

Miss(c, k) ==
  /\ pc[c] = "idle"
  /\ ~Live(k)
  /\ Goto(c, "missed")
  /\ key' = [key EXCEPT ![c] = k]
  /\ UNCHANGED <<tableVars, storeVars, rows, raced, untracked, faults>>

Fetch(c) ==
  /\ pc[c] = "missed"
  /\ Goto(c, "fetched")
  /\ rows' = [rows EXCEPT ![c] = committed[TableOf(key[c])]]
  /\ raced' = [raced EXCEPT ![c] = FALSE]
  /\ UNCHANGED <<tableVars, storeVars, key, untracked, faults>>

Put(c) ==
  /\ pc[c] = "fetched"
  /\ PutCached(key[c], rows[c], raced[c])
  /\ Goto(c, "idle")
  /\ UNCHANGED <<tableVars, fillVars, maxEntries, untracked, faults>>

(* The fetch failed, or the queryset has no TTL: nothing is stored.        *)
Abandon(c) ==
  /\ pc[c] \in {"missed", "fetched"}
  /\ Goto(c, "idle")
  /\ UNCHANGED <<tableVars, storeVars, fillVars, untracked, faults>>

SetMaxEntries(n) ==
  /\ n # maxEntries
  /\ maxEntries' = n
  /\ \E kept \in SUBSET Stored :
       /\ Evict(Stored, n, kept)
       /\ store' = [k \in Keys |-> IF k \in kept THEN store[k] ELSE NoEntry]
  /\ UNCHANGED <<tableVars, requestVars, untracked, faults>>

(* expires_at passes.                                                      *)
Expire(k) ==
  /\ Live(k)
  /\ store' = [store EXCEPT ![k].live = FALSE]
  /\ UNCHANGED <<tableVars, requestVars, maxEntries, untracked, faults>>

-----------------------------------------------------------------------------
(* Writes.  A row an open transaction wrote makes other writers wait.      *)

NewVersion(c, t) ==
  /\ written < MaxWrites
  /\ written' = written + 1
  /\ pc[c] = "idle"
  /\ uncommitted[t] = NoVersion
  /\ \E q \in Queries : key' = [key EXCEPT ![c] = <<t, q>>]

CommitNow(t) ==
  /\ committed' = [committed EXCEPT ![t] = written + 1]
  /\ UNCHANGED uncommitted

(* save, update, delete, insert_raw, bulk_create, QuerySet::delete and     *)
(* delete_by_pk on the pool: the SQL, then the invalidation.               *)
Write(c, t) ==
  /\ "tracked" \in WriteKinds
  /\ NewVersion(c, t)
  /\ CommitNow(t)
  /\ Goto(c, "written")
  /\ untracked' = untracked \cup {t}
  /\ UNCHANGED <<storeVars, rows, raced, faults>>

Invalidate(c) ==
  /\ pc[c] = "written"
  /\ InvalidateTable(TableOf(key[c]))
  /\ Goto(c, "idle")
  /\ UNCHANGED <<tableVars, maxEntries, key, rows, faults>>

(* The write is applied but its answer is lost: `?` returns before the     *)
(* invalidation.                                                           *)
WriteAnswerLost(c) ==
  /\ faults < MaxFaults
  /\ faults' = faults + 1
  /\ pc[c] = "written"
  /\ Goto(c, "idle")
  /\ UNCHANGED <<tableVars, storeVars, fillVars, untracked>>

(* QuerySet::update, and update_or_create through it: the SQL alone.       *)
BulkUpdate(c, t) ==
  /\ "bulk" \in WriteKinds
  /\ NewVersion(c, t)
  /\ CommitNow(t)
  /\ untracked' = untracked \cup {t}
  /\ UNCHANGED <<storeVars, pc, rows, raced, faults>>

(* The writes that take any executor (the QuerySet's: insert_raw,          *)
(* bulk_create, delete, delete_by_pk, m2m_add and m2m_remove) on a         *)
(* transaction's connection: the invalidation comes before the COMMIT.     *)
TxWrite(c, t) ==
  /\ "transaction" \in WriteKinds
  /\ NewVersion(c, t)
  /\ uncommitted' = [uncommitted EXCEPT ![t] = written + 1]
  /\ Goto(c, "txWritten")
  /\ UNCHANGED <<storeVars, committed, rows, raced, untracked, faults>>

TxInvalidate(c) ==
  /\ pc[c] = "txWritten"
  /\ InvalidateTable(TableOf(key[c]))
  /\ Goto(c, "inTx")
  /\ UNCHANGED <<tableVars, maxEntries, key, rows, faults>>

(* A cached_all on the transaction's connection reads its own write.       *)
TxFill(c, k) ==
  /\ pc[c] = "inTx"
  /\ TableOf(k) = TableOf(key[c])
  /\ ~Live(k)
  /\ PutCached(k, uncommitted[TableOf(k)], TRUE)
  /\ UNCHANGED <<tableVars, requestVars, maxEntries, untracked, faults>>

CommitTx(c) ==
  LET t == TableOf(key[c]) IN
  /\ pc[c] = "inTx"
  /\ committed' = [committed EXCEPT ![t] = uncommitted[t]]
  /\ uncommitted' = [uncommitted EXCEPT ![t] = NoVersion]
  /\ untracked' = untracked \cup {t}
  /\ Goto(c, "idle")
  /\ UNCHANGED <<storeVars, fillVars, written, faults>>

RollbackTx(c) ==
  /\ pc[c] \in {"txWritten", "inTx"}
  /\ uncommitted' = [uncommitted EXCEPT ![TableOf(key[c])] = NoVersion]
  /\ Goto(c, "idle")
  /\ UNCHANGED <<storeVars, fillVars, committed, written, untracked, faults>>

-----------------------------------------------------------------------------
Continue(c) ==
  Fetch(c) \/ Put(c) \/ Abandon(c) \/ Invalidate(c) \/ TxInvalidate(c)
           \/ CommitTx(c) \/ RollbackTx(c)

Next ==
  \/ \E c \in Clients : Continue(c) \/ WriteAnswerLost(c)
  \/ \E c \in Clients, k \in Keys : Miss(c, k) \/ TxFill(c, k)
  \/ \E c \in Clients, t \in Tables :
       Write(c, t) \/ BulkUpdate(c, t) \/ TxWrite(c, t)
  \/ \E k \in Keys : Expire(k)
  \/ \E n \in Capacities : SetMaxEntries(n)

Spec == Init /\ [][Next]_vars

(* Requests go on with what they began, and the clock passes expires_at.   *)
Fairness ==
  /\ \A c \in Clients : WF_vars(Continue(c))
  /\ \A k \in Keys : WF_vars(Expire(k))

FairSpec == Spec /\ Fairness

-----------------------------------------------------------------------------
Fresh(k) == Live(k) => store[k].version = committed[TableOf(k)]

(* The exact extent of the cache's guarantee: an entry served is current   *)
(* unless its fill overlapped an invalidation of the table, it was filled  *)
(* inside a transaction, or the table changed by a write that has not      *)
(* invalidated it (yet, or at all).                                        *)
FreshUnlessRaced ==
  \A k \in Keys : Fresh(k) \/ store[k].raced \/ TableOf(k) \in untracked

(* set_max_cache_entries: "the maximum number of cached queryset entries"  *)
(* is what the store keeps to, however the limit moves and whatever is in  *)
(* flight, but that a limit of 0 lets one entry in.                        *)
WithinCapacity ==
  \/ Cardinality(Stored) <= maxEntries
  \/ maxEntries = 0 /\ Cardinality(Stored) = 1

(* The TTL bounds what races and untracked writes do: when writes stop,    *)
(* the cache in the end serves only current rows, and goes on doing so.    *)
EventuallyFresh == <>[](\A k \in Keys : Fresh(k))

(* "Called automatically by model writes (save/update/delete) so stale     *)
(* rows are never served after a mutation": once every write has returned, *)
(* no stale entry is left.                                                 *)
NeverStaleAfterMutation ==
  (\A c \in Clients : pc[c] # "written") => \A k \in Keys : Fresh(k)

-----------------------------------------------------------------------------
(* The inductive invariant.                                                *)

(* What a fetch returned is current until an invalidation marks it, or a   *)
(* write has not invalidated yet.                                          *)
FillInv ==
  \A c \in Clients :
    pc[c] = "fetched" =>
      \/ raced[c]
      \/ rows[c] = committed[TableOf(key[c])]
      \/ TableOf(key[c]) \in untracked

InTransaction(c) == pc[c] \in {"txWritten", "inTx"}

(* An open transaction has its version, and its table to itself.           *)
TxInv ==
  /\ \A c \in Clients :
       InTransaction(c) => uncommitted[TableOf(key[c])] \in Versions
  /\ \A c, d \in Clients :
       /\ InTransaction(c)
       /\ InTransaction(d)
       /\ TableOf(key[c]) = TableOf(key[d])
       => c = d

(* However many keys there are, the store holds finitely many.             *)
StoreInv == IsFiniteSet(Stored) /\ WithinCapacity

IInv == TypeOK /\ FillInv /\ TxInv /\ StoreInv /\ FreshUnlessRaced

(* Where every write is one that invalidates, and gets its answer, a table *)
(* is untracked only while the request that wrote it is still to           *)
(* invalidate.                                                             *)
TrackedOnly == WriteKinds = {"tracked"} /\ MaxFaults = 0

PendingInv ==
  /\ \A c \in Clients : ~InTransaction(c)
  /\ \A t \in untracked :
       \E c \in Clients : pc[c] = "written" /\ TableOf(key[c]) = t

(* What is left of the sentence above when nothing else is wrong: once     *)
(* every write has returned, an entry is stale only if its fill raced.     *)
StaleOnlyIfRaced ==
  (\A c \in Clients : pc[c] # "written")
    => \A k \in Keys : Fresh(k) \/ store[k].raced

=============================================================================
