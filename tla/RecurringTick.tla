---------------------------- MODULE RecurringTick ----------------------------
(***************************************************************************)
(* Cron schedules of djangors-tasks: register_recurring stores the next    *)
(* occurrence of a schedule, and every worker now and then runs            *)
(* tick_recurring_tasks, one transaction that INSERTs a task for each due  *)
(* schedule and moves the schedule to its following occurrence.            *)
(*                                                                         *)
(* The INSERTs and UPDATEs of a tick are seen by nobody before its COMMIT, *)
(* so they are one step (CommitTick); the SELECT that read the schedules   *)
(* is an earlier one.  On Postgres a tick first takes an advisory lock and *)
(* then locks the rows it reads; on Sqlite BEGIN is deferred, and the      *)
(* first write is refused when another connection committed meanwhile.     *)
(***************************************************************************)
EXTENDS Naturals

CONSTANTS
  Workers,        \* worker processes
  Schedules,      \* rows of djangors_recurring_task
  Fires,          \* Fires[s]: the times the cron expression of s names
  Dialects,       \* engines considered
  MaxTime,        \* bound on the clock
  MaxFaults,      \* bound on ticks that fail or crash
  MaxEdits        \* bound on edits of the table by an operator

Times == 0..MaxTime

(* The occurrence y of s is the first one after x.                         *)
FirstAfter(s, x, y) ==
  /\ y > x
  /\ \A z \in Fires[s] : z > x => y <= z

ASSUME FiresAssumption ==
  /\ Fires \in [Schedules -> SUBSET Nat]
  /\ \A s \in Schedules, x \in Times : \E y \in Fires[s] : FirstAfter(s, x, y)
ASSUME DialectAssumption == Dialects \subseteq {"Postgres", "Sqlite"}
ASSUME BoundAssumption == MaxTime \in Nat /\ MaxFaults \in Nat /\ MaxEdits \in Nat

VARIABLES
  dialect,        \* engine of the pool
  now,            \* Utc::now()
  registered,     \* schedules that have a row
  first,          \* history: next_run_at when the row was inserted
  next,           \* column next_run_at
  enabled,        \* column enabled
  parses,         \* whether column cron_expr parses and has a next occurrence
  inserted,       \* inserted[s][x]: rows of the task queue for occurrence x of s
  pc,             \* where each worker is in tick_recurring_tasks
  batch,          \* schedules the worker's SELECT returned
  previous,       \* next_run_at of those schedules, as the SELECT returned it
  stale,          \* Sqlite: somebody committed since the worker's SELECT
  faults, edits   \* bounds' counters

tableVars == <<registered, first, next, enabled, parses, inserted>>
tickVars == <<pc, batch, previous, stale>>
vars == <<dialect, now, tableVars, tickVars, faults, edits>>

After(s, x) == CHOOSE y \in Fires[s] : FirstAfter(s, x, y)

TypeOK ==
  /\ dialect \in Dialects
  /\ now \in Times
  /\ registered \subseteq Schedules
  /\ first \in [Schedules -> Nat]
  /\ next \in [Schedules -> Nat]
  /\ enabled \subseteq Schedules
  /\ parses \subseteq Schedules
  /\ inserted \in [Schedules -> [Times -> Nat]]
  /\ pc \in [Workers -> {"idle", "begun", "selected"}]
  /\ batch \in [Workers -> SUBSET Schedules]
  /\ previous \in [Workers -> [Schedules -> Times]]
  /\ stale \in [Workers -> BOOLEAN]
  /\ faults \in 0..MaxFaults
  /\ edits \in 0..MaxEdits

Init ==
  /\ dialect \in Dialects
  /\ now = 0
  /\ registered = {}
  /\ first = [s \in Schedules |-> 0]
  /\ next = [s \in Schedules |-> 0]
  /\ enabled = {}
  /\ parses = {}
  /\ inserted = [s \in Schedules |-> [x \in Times |-> 0]]
  /\ pc = [w \in Workers |-> "idle"]
  /\ batch = [w \in Workers |-> {}]
  /\ previous = [w \in Workers |-> [s \in Schedules |-> 0]]
  /\ stale = [w \in Workers |-> FALSE]
  /\ faults = 0
  /\ edits = 0

-----------------------------------------------------------------------------
StaleAfterCommit ==
  [w \in Workers |-> stale[w] \/ (dialect = "Sqlite" /\ pc[w] = "selected")]

LockedRow(s) ==
  dialect = "Postgres" /\ \E w \in Workers : pc[w] = "selected" /\ s \in batch[w]

(* pg_advisory_xact_lock waits until no other tick's transaction is open.  *)
AdvisoryLockFree ==
  dialect = "Postgres" => \A w \in Workers : pc[w] = "idle"

EndTick(w, marks) ==
  /\ pc' = [pc EXCEPT ![w] = "idle"]
  /\ batch' = [batch EXCEPT ![w] = {}]
  /\ previous' = [previous EXCEPT ![w] = [s \in Schedules |-> 0]]
  /\ stale' = [marks EXCEPT ![w] = FALSE]

-----------------------------------------------------------------------------
(* register_recurring: parse_schedule accepted the expression.             *)
Register(s) ==
  /\ s \notin registered
  /\ registered' = registered \cup {s}
  /\ first' = [first EXCEPT ![s] = After(s, now)]
  /\ next' = [next EXCEPT ![s] = After(s, now)]
  /\ enabled' = enabled \cup {s}
  /\ parses' = parses \cup {s}
  /\ stale' = StaleAfterCommit
  /\ UNCHANGED <<dialect, now, inserted, pc, batch, previous, faults, edits>>

BeginTick(w) ==
  /\ pc[w] = "idle"
  /\ AdvisoryLockFree
  /\ pc' = [pc EXCEPT ![w] = "begun"]
  /\ UNCHANGED <<dialect, now, tableVars, batch, previous, stale, faults, edits>>

(* Variants of the SELECT's condition: every enabled row, disabled rows     *)
(* too, and "<" for "<=".                                                  *)
AnyEnabled(s) == s \in registered \cap enabled /\ ~LockedRow(s)
DueOrDisabled(s) == s \in registered /\ next[s] <= now /\ ~LockedRow(s)
Overdue(s) == s \in registered \cap enabled /\ next[s] < now /\ ~LockedRow(s)

Due(s) == s \in registered \cap enabled /\ next[s] <= now /\ ~LockedRow(s)

SelectDue(w) ==
  LET due == {s \in Schedules : Due(s)} IN
  /\ pc[w] = "begun"
  /\ pc' = [pc EXCEPT ![w] = "selected"]
  /\ batch' = [batch EXCEPT ![w] = due]
  /\ previous' = [previous EXCEPT
       ![w] = [s \in Schedules |-> IF s \in due THEN next[s] ELSE 0]]
  /\ stale' = [stale EXCEPT ![w] = FALSE]
  /\ UNCHANGED <<dialect, now, tableVars, faults, edits>>

(* A tick that found nothing writes nothing, so nothing can refuse it.     *)
Writable(w) == batch[w] = {} \/ ~stale[w]

(* Variants: the next occurrence after now, not after the one enqueued;    *)
(* broken rows passed over.                                                *)
CommitFromNow(w) ==
  /\ pc[w] = "selected"
  /\ batch[w] \subseteq parses
  /\ Writable(w)
  /\ inserted' = [s \in Schedules |-> [x \in Times |->
       inserted[s][x] + (IF s \in batch[w] /\ x = previous[w][s] THEN 1 ELSE 0)]]
  /\ next' = [s \in Schedules |->
       IF s \in batch[w] THEN After(s, now) ELSE next[s]]
  /\ EndTick(w, IF batch[w] = {} THEN stale ELSE StaleAfterCommit)
  /\ UNCHANGED <<dialect, now, registered, first, enabled, parses, faults, edits>>

CommitParsable(w) ==
  LET good == batch[w] \cap parses IN
  /\ pc[w] = "selected"
  /\ Writable(w)
  /\ inserted' = [s \in Schedules |-> [x \in Times |->
       inserted[s][x] + (IF s \in good /\ x = previous[w][s] THEN 1 ELSE 0)]]
  /\ next' = [s \in Schedules |->
       IF s \in good THEN After(s, previous[w][s]) ELSE next[s]]
  /\ EndTick(w, IF good = {} THEN stale ELSE StaleAfterCommit)
  /\ UNCHANGED <<dialect, now, registered, first, enabled, parses, faults, edits>>

(* The loop over the rows and the COMMIT.                                  *)
CommitTick(w) ==
  /\ pc[w] = "selected"
  /\ batch[w] \subseteq parses
  /\ Writable(w)
  /\ inserted' = [s \in Schedules |-> [x \in Times |->
       inserted[s][x] + (IF s \in batch[w] /\ x = previous[w][s] THEN 1 ELSE 0)]]
  /\ next' = [s \in Schedules |->
       IF s \in batch[w] THEN After(s, previous[w][s]) ELSE next[s]]
  /\ EndTick(w, IF batch[w] = {} THEN stale ELSE StaleAfterCommit)
  /\ UNCHANGED <<dialect, now, registered, first, enabled, parses, faults, edits>>

(* A row whose expression does not parse, or Sqlite's refusal, is an error:*)
(* the whole tick rolls back and Worker::run ignores it.                   *)
RollbackTick(w) ==
  /\ pc[w] = "selected"
  /\ ~(batch[w] \subseteq parses) \/ ~Writable(w)
  /\ EndTick(w, stale)
  /\ UNCHANGED <<dialect, now, tableVars, faults, edits>>

(* A statement fails or the worker's process dies: the same rollback.      *)
TickFault(w) ==
  /\ faults < MaxFaults
  /\ faults' = faults + 1
  /\ pc[w] # "idle"
  /\ EndTick(w, stale)
  /\ UNCHANGED <<dialect, now, tableVars, edits>>

(* An operator edits a row in SQL (nothing in the crate does): switches it *)
(* on or off, or breaks its expression.  Postgres makes the edit wait for  *)
(* the row's lock.                                                         *)
OperatorEdit(s) ==
  /\ edits < MaxEdits
  /\ edits' = edits + 1
  /\ s \in registered
  /\ ~LockedRow(s)
  /\ \/ enabled' = enabled \cup {s} /\ UNCHANGED parses
     \/ enabled' = enabled \ {s} /\ UNCHANGED parses
     \/ parses' = parses \ {s} /\ UNCHANGED enabled
  /\ stale' = StaleAfterCommit
  /\ UNCHANGED <<dialect, now, registered, first, next, inserted, pc, batch,
                 previous, faults>>

Advance ==
  /\ now < MaxTime
  /\ now' = now + 1
  /\ UNCHANGED <<dialect, tableVars, tickVars, faults, edits>>

Tick(w) == BeginTick(w) \/ SelectDue(w) \/ CommitTick(w) \/ RollbackTick(w)

Next ==
  \/ \E s \in Schedules : Register(s) \/ OperatorEdit(s)
  \/ \E w \in Workers : Tick(w) \/ TickFault(w)
  \/ Advance

Spec == Init /\ [][Next]_vars

(* Every worker's loop comes back to its tick and a tick it began goes on. *)
Fairness == \A w \in Workers : WF_vars(Tick(w))

FairSpec == Spec /\ Fairness

-----------------------------------------------------------------------------
(* "exactly one of the two concurrent ticks must enqueue the single due    *)
(* row, never zero or two" (the tick race test), for every occurrence: the *)
(* occurrences before next_run_at have one task each, no other has any.    *)
EachOccurrenceOnce ==
  \A s \in Schedules, x \in Times :
    inserted[s][x] =
      IF s \in registered /\ x \in Fires[s] /\ first[s] <= x /\ x < next[s]
        THEN 1 ELSE 0

(* A tick never enqueues an occurrence of the future, nor one of a         *)
(* schedule that is switched off by the time the tick commits.             *)
FiresOnlyWhenDue ==
  [][\A s \in Schedules : inserted'[s] # inserted[s] =>
       s \in enabled /\ next[s] <= now /\ next'[s] > next[s]]_vars

(* One broken row stops every schedule: the tick's single transaction rolls *)
(* back as a whole, so while an enabled schedule that does not parse is due *)
(* nothing advances, but for a tick that read the table before it was due.  *)
BlocksTicks(b) ==
  /\ b \in registered \cap enabled
  /\ b \notin parses
  /\ next[b] <= now
  /\ \A w \in Workers : pc[w] = "selected" => b \in batch[w]

BrokenRowStopsTick ==
  [][(\E b \in Schedules : BlocksTicks(b)) =>
       inserted' = inserted /\ \A s \in registered : next'[s] = next[s]]_vars

(* The rows and their tasks follow RecurringSchedule.                      *)
Schedule ==
  INSTANCE RecurringSchedule WITH
    next <- [s \in registered |-> next[s]], tasks <- inserted
ImplementsSchedule == Schedule!Spec

(* Every due occurrence of an enabled schedule is enqueued, unless the     *)
(* schedule is switched off or some expression is broken.                  *)
DueIsEnqueued ==
  \A s \in Schedules, x \in Times :
    (s \in registered /\ next[s] = x /\ x <= now) ~>
      (inserted[s][x] = 1 \/ s \notin enabled \/ parses # registered)

(* The comment in tick_recurring_tasks: on Sqlite the interleaving the     *)
(* advisory lock defends against, another tick observing the same due row  *)
(* between the SELECT and the COMMIT of the first, "cannot occur".         *)
NoTwoTicksSeeTheSameRow ==
  \A v, w \in Workers :
    v # w /\ pc[v] = "selected" /\ pc[w] = "selected" => batch[v] \cap batch[w] = {}

(* What is left of it: it cannot on Postgres, and on either engine a tick  *)
(* that the database would still let commit has the rows as they are.      *)
CommitsSeeCurrentRows ==
  /\ dialect = "Postgres" => NoTwoTicksSeeTheSameRow
  /\ \A w \in Workers : Writable(w) =>
       \A s \in batch[w] : s \in registered \cap enabled /\ next[s] = previous[w][s]

-----------------------------------------------------------------------------
(* The inductive invariant behind these properties.                        *)

(* A row's next_run_at is one of its occurrences, from the first on.       *)
RowInv(s) ==
  /\ s \in enabled \cup parses => s \in registered
  /\ s \in registered => next[s] \in Fires[s] /\ first[s] <= next[s]

(* What an open tick may still rely on: the rows it read are as it read    *)
(* them, unless another connection committed meanwhile, which will have    *)
(* its first write refused.                                                *)
TickInv(w) ==
  /\ pc[w] # "selected" => batch[w] = {}
  /\ \A s \in batch[w] :
       /\ s \in registered
       /\ stale[w] \/ (s \in enabled /\ next[s] = previous[w][s] /\ next[s] <= now)

(* On Postgres one tick is open at a time, and nothing goes stale.         *)
Serial(v, w) ==
  dialect = "Postgres" => ~stale[w] /\ (pc[v] # "idle" /\ pc[w] # "idle" => v = w)

(* All of it together, which is inductive.                                 *)
IInv ==
  /\ TypeOK
  /\ \A s \in Schedules : RowInv(s)
  /\ \A w \in Workers : TickInv(w)
  /\ \A v, w \in Workers : Serial(v, w)
  /\ EachOccurrenceOnce

=============================================================================
