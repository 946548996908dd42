------------------------------ MODULE TaskQueue ------------------------------
(***************************************************************************)
(* The database-backed task queue of djangors-tasks: clients INSERT rows,  *)
(* workers claim the earliest due row in a transaction of their own, run   *)
(* its handler and write the outcome back with an UPDATE by id.            *)
(*                                                                         *)
(* One step is one database statement that another process can observe,    *)
(* or one step of a worker between two of them.  The engine is chosen once *)
(* (the pool's dialect) and decides how two open claims see each other:    *)
(*  - "Postgres": SELECT ... FOR UPDATE SKIP LOCKED holds the row's lock   *)
(*    until the transaction ends, and other claims pass over it;           *)
(*  - "Sqlite": BEGIN is deferred, the SELECT takes no write lock, and the *)
(*    UPDATE is refused (SQLITE_BUSY) when another connection has          *)
(*    committed since the SELECT.                                          *)
(***************************************************************************)
EXTENDS Naturals

CONSTANTS
  Workers,        \* worker processes, each one Worker::run loop
  Tasks,          \* identifiers of the rows clients may enqueue
  MaxAttempts,    \* max_attempts of every INSERT (3 in the code)
  Dialects,       \* engines considered
  MaxTime,        \* bound on the clock
  MaxFaults       \* bound on crashes, failed statements and lost answers

ASSUME TaskAssumption == Tasks \subseteq Nat \ {0}
ASSUME AttemptAssumption == MaxAttempts \in Nat \ {0}
ASSUME DialectAssumption == Dialects \subseteq {"Postgres", "Sqlite"}
ASSUME BoundAssumption == MaxTime \in Nat /\ MaxFaults \in Nat

VARIABLES
  dialect,        \* engine of the pool
  now,            \* Utc::now()
  status,         \* column status, "absent" before the INSERT
  attempts,       \* column attempts
  scheduled,      \* column scheduled_at
  pc,             \* where each worker is in run_once
  held,           \* row each worker has selected, NoTask when idle
  tried,          \* the attempts field of the worker's copy of the row
  stale,          \* Sqlite: somebody committed since the worker's SELECT
  runs,           \* history: handler executions started, per task
  succeeded,      \* history: handler executions that returned Ok
  parked,         \* history: rows a fault left "running" with no worker
  faults          \* faults so far

rowVars == <<status, attempts, scheduled>>
workerVars == <<pc, held, tried, stale>>
historyVars == <<runs, succeeded, parked>>
vars == <<dialect, now, rowVars, workerVars, historyVars, faults>>

NoTask == 0

(* Worker states after the claim committed: the row is this worker's.      *)
Owning == {"claimed", "executing", "succeeded", "failing"}
Steps == {"idle", "selected"} \cup Owning
Statuses == {"absent", "pending", "running", "completed", "failed"}

Holds(w, t) == held[w] = t /\ pc[w] \in Owning

TypeOK ==
  /\ dialect \in Dialects
  /\ now \in 0..MaxTime
  /\ status \in [Tasks -> Statuses]
  /\ attempts \in [Tasks -> 0..MaxAttempts]
  /\ scheduled \in [Tasks -> 0..MaxTime]
  /\ pc \in [Workers -> Steps]
  /\ held \in [Workers -> Tasks \cup {NoTask}]
  /\ tried \in [Workers -> 0..MaxAttempts]
  /\ stale \in [Workers -> BOOLEAN]
  /\ runs \in [Tasks -> 0..MaxAttempts]
  /\ succeeded \in [Tasks -> 0..MaxAttempts]
  /\ parked \subseteq Tasks
  /\ faults \in 0..MaxFaults

Init ==
  /\ dialect \in Dialects
  /\ now = 0
  /\ status = [t \in Tasks |-> "absent"]
  /\ attempts = [t \in Tasks |-> 0]
  /\ scheduled = [t \in Tasks |-> 0]
  /\ pc = [w \in Workers |-> "idle"]
  /\ held = [w \in Workers |-> NoTask]
  /\ tried = [w \in Workers |-> 0]
  /\ stale = [w \in Workers |-> FALSE]
  /\ runs = [t \in Tasks |-> 0]
  /\ succeeded = [t \in Tasks |-> 0]
  /\ parked = {}
  /\ faults = 0

-----------------------------------------------------------------------------
(* The engine.                                                             *)

(* On Sqlite a commit makes the snapshot of every open claim stale.        *)
StaleAfterCommit ==
  [w \in Workers |-> stale[w] \/ (dialect = "Sqlite" /\ pc[w] = "selected")]

(* Variant: SELECT ... FOR UPDATE forgotten.                               *)
LocksIgnored(t) == FALSE

LockedRow(t) ==
  dialect = "Postgres" /\ \E w \in Workers : pc[w] = "selected" /\ held[w] = t

(* Variant: the SELECT also offers "running" rows, as a reaper would.      *)
ClaimableOrRunning(t) ==
  /\ status[t] \in {"pending", "running"}
  /\ scheduled[t] <= now
  /\ ~LockedRow(t)

(* Rows the SELECT of claim_next_task may return.                          *)
Claimable(t) ==
  /\ status[t] = "pending"
  /\ scheduled[t] <= now
  /\ ~LockedRow(t)

(* ORDER BY scheduled_at ASC, id ASC                                       *)
Precedes(t, u) ==
  \/ scheduled[t] < scheduled[u]
  \/ scheduled[t] = scheduled[u] /\ t < u

Goto(w, step) == pc' = [pc EXCEPT ![w] = step]

(* The worker ends its run_once and forgets its copy of the row; its       *)
(* transaction, if one is open, is over.                                   *)
Rest(w, marks) ==
  /\ Goto(w, "idle")
  /\ held' = [held EXCEPT ![w] = NoTask]
  /\ tried' = [tried EXCEPT ![w] = 0]
  /\ stale' = [marks EXCEPT ![w] = FALSE]

-----------------------------------------------------------------------------
(* Clients.                                                                *)

Enqueue(t, at) ==
  /\ status[t] = "absent"
  /\ status' = [status EXCEPT ![t] = "pending"]
  /\ attempts' = [attempts EXCEPT ![t] = 0]
  /\ scheduled' = [scheduled EXCEPT ![t] = at]
  /\ stale' = StaleAfterCommit
  /\ UNCHANGED <<dialect, now, pc, held, tried, historyVars, faults>>

-----------------------------------------------------------------------------
(* Workers.                                                                *)

(* BEGIN and the SELECT of claim_next_task return the earliest claimable   *)
(* row.  When there is none run_once returns Ok(false) and nothing changes.*)
SelectDue(w, t) ==
  /\ pc[w] = "idle"
  /\ Claimable(t)
  /\ \A u \in Tasks : Claimable(u) => u = t \/ Precedes(t, u)
  /\ Goto(w, "selected")
  /\ held' = [held EXCEPT ![w] = t]
  /\ tried' = [tried EXCEPT ![w] = attempts[t]]
  /\ stale' = [stale EXCEPT ![w] = FALSE]
  /\ UNCHANGED <<dialect, now, rowVars, historyVars, faults>>

(* Variants: a claim nothing refuses; a claim that does not count.         *)
ClaimUnrefused(w) ==
  /\ pc[w] = "selected"
  /\ status' = [status EXCEPT ![held[w]] = "running"]
  /\ attempts' = [attempts EXCEPT ![held[w]] = tried[w] + 1]
  /\ UNCHANGED scheduled

ClaimUncounted(w) ==
  /\ pc[w] = "selected"
  /\ ~stale[w]
  /\ status' = [status EXCEPT ![held[w]] = "running"]
  /\ UNCHANGED <<attempts, scheduled>>

(* The UPDATE of claim_next_task and its COMMIT, as the database sees them.*)
ApplyClaim(w) ==
  LET t == held[w] IN
  /\ pc[w] = "selected"
  /\ ~stale[w]
  /\ status' = [status EXCEPT ![t] = "running"]
  /\ attempts' = [attempts EXCEPT ![t] = tried[w] + 1]
  /\ UNCHANGED scheduled

CommitClaim(w) ==
  /\ ApplyClaim(w)
  /\ Goto(w, "claimed")
  /\ tried' = [tried EXCEPT ![w] = @ + 1]
  /\ stale' = [StaleAfterCommit EXCEPT ![w] = FALSE]
  /\ UNCHANGED <<dialect, now, held, historyVars, faults>>

(* Sqlite refuses the UPDATE: the transaction rolls back, run sleeps.      *)
ClaimBusy(w) ==
  /\ pc[w] = "selected"
  /\ stale[w]
  /\ Rest(w, stale)
  /\ UNCHANGED <<dialect, now, rowVars, historyVars, faults>>

(* The handler is registered and the payload is JSON: it is spawned.       *)
StartHandler(w) ==
  /\ pc[w] = "claimed"
  /\ Goto(w, "executing")
  /\ runs' = [runs EXCEPT ![held[w]] = @ + 1]
  /\ UNCHANGED <<dialect, now, rowVars, held, tried, stale, succeeded, parked,
                 faults>>

(* Variant: a claim this binary cannot run is dropped without a mark.      *)
DropClaim(w) ==
  /\ pc[w] = "claimed"
  /\ Rest(w, stale)
  /\ UNCHANGED <<dialect, now, rowVars, historyVars, faults>>

(* No handler of that name in this binary, or the payload does not parse.  *)
RejectClaim(w) ==
  /\ pc[w] = "claimed"
  /\ Goto(w, "failing")
  /\ UNCHANGED <<dialect, now, rowVars, held, tried, stale, historyVars, faults>>

HandlerOk(w) ==
  /\ pc[w] = "executing"
  /\ Goto(w, "succeeded")
  /\ succeeded' = [succeeded EXCEPT ![held[w]] = @ + 1]
  /\ UNCHANGED <<dialect, now, rowVars, held, tried, stale, runs, parked, faults>>

(* The handler returns Err or panics inside its tokio task.                *)
HandlerErr(w) ==
  /\ pc[w] = "executing"
  /\ Goto(w, "failing")
  /\ UNCHANGED <<dialect, now, rowVars, held, tried, stale, historyVars, faults>>

MarkCompleted(w) ==
  /\ pc[w] = "succeeded"
  /\ status' = [status EXCEPT ![held[w]] = "completed"]
  /\ Rest(w, StaleAfterCommit)
  /\ UNCHANGED <<dialect, now, attempts, scheduled, historyVars, faults>>

(* Variant: retries without end.                                           *)
RetryForEver(w) == "pending"

(* mark_task_failed decides from the worker's copy of the row.             *)
StatusAfterFailure(w) == IF tried[w] < MaxAttempts THEN "pending" ELSE "failed"

MarkFailed(w) ==
  /\ pc[w] = "failing"
  /\ status' = [status EXCEPT ![held[w]] = StatusAfterFailure(w)]
  /\ Rest(w, StaleAfterCommit)
  /\ UNCHANGED <<dialect, now, attempts, scheduled, historyVars, faults>>

-----------------------------------------------------------------------------
(* Faults.                                                                 *)

Fault ==
  /\ faults < MaxFaults
  /\ faults' = faults + 1

(* A statement of the claim fails: the transaction rolls back.             *)
ClaimError(w) ==
  /\ Fault
  /\ pc[w] = "selected"
  /\ Rest(w, stale)
  /\ UNCHANGED <<dialect, now, rowVars, historyVars>>

(* The COMMIT is applied but its answer is lost: run_once returns Err for  *)
(* a row that is now "running".                                            *)
ClaimAnswerLost(w) ==
  /\ Fault
  /\ ApplyClaim(w)
  /\ Rest(w, StaleAfterCommit)
  /\ parked' = parked \cup {held[w]}
  /\ UNCHANGED <<dialect, now, runs, succeeded>>

(* Variant: a mark that fails gives the row back.                          *)
RequeueOnMarkError(w) ==
  /\ Fault
  /\ pc[w] \in {"succeeded", "failing"}
  /\ status' = [status EXCEPT ![held[w]] = "pending"]
  /\ Rest(w, stale)
  /\ UNCHANGED <<dialect, now, attempts, scheduled, historyVars>>

(* mark_task_completed or mark_task_failed fails; run swallows the error.  *)
MarkError(w) ==
  /\ Fault
  /\ pc[w] \in {"succeeded", "failing"}
  /\ Rest(w, stale)
  /\ parked' = parked \cup {held[w]}
  /\ UNCHANGED <<dialect, now, rowVars, runs, succeeded>>

(* The process dies, its handler with it, and is started again.            *)
Crash(w) ==
  /\ Fault
  /\ pc[w] # "idle"
  /\ Rest(w, stale)
  /\ parked' = IF pc[w] \in Owning THEN parked \cup {held[w]} ELSE parked
  /\ UNCHANGED <<dialect, now, rowVars, runs, succeeded>>

Advance ==
  /\ now < MaxTime
  /\ now' = now + 1
  /\ UNCHANGED <<dialect, rowVars, workerVars, historyVars, faults>>

-----------------------------------------------------------------------------
RunOnce(w) ==
  \/ \E t \in Tasks : SelectDue(w, t)
  \/ CommitClaim(w)
  \/ ClaimBusy(w)
  \/ StartHandler(w)
  \/ RejectClaim(w)
  \/ HandlerOk(w)
  \/ HandlerErr(w)
  \/ MarkCompleted(w)
  \/ MarkFailed(w)

FaultAt(w) ==
  ClaimError(w) \/ ClaimAnswerLost(w) \/ MarkError(w) \/ Crash(w)

Next ==
  \/ \E t \in Tasks, at \in 0..MaxTime : Enqueue(t, at)
  \/ \E w \in Workers : RunOnce(w) \/ FaultAt(w)
  \/ Advance

Spec == Init /\ [][Next]_vars

(* run loops for ever, handlers return, and the clock goes on.             *)
Fairness ==
  /\ \A w \in Workers : WF_vars(RunOnce(w))
  /\ WF_vars(Advance)

FairSpec == Spec /\ Fairness

-----------------------------------------------------------------------------
(* Properties.                                                             *)

(* "Exactly one worker should claim the single pending task" (the claim    *)
(* race test), extended to the whole execution: two workers never hold the *)
(* same claimed row, whatever the engine and whatever fails.               *)
SingleExecutor ==
  \A v, w \in Workers, t \in Tasks : Holds(v, t) /\ Holds(w, t) => v = w

(* mark_task_completed and mark_task_failed update by id alone and decide  *)
(* from a copy read before the handler ran.  That is sound because the row *)
(* is still "running" on the very attempt the worker claimed.              *)
MarkHitsOwnAttempt ==
  \A w \in Workers : pc[w] \in Owning =>
    status[held[w]] = "running" /\ attempts[held[w]] = tried[w]

(* A task whose handler returned Ok is never offered to a worker again,    *)
(* even when recording the success fails.                                  *)
SuccessIsFinal ==
  \A t \in Tasks : succeeded[t] > 0 =>
    succeeded[t] = 1 /\ status[t] \in {"running", "completed"}

(* attempts counts claims: it is never below the executions that happened, *)
(* and "failed" is reached only after every attempt was used.              *)
AttemptsAccountForRuns ==
  \A t \in Tasks :
    /\ runs[t] <= attempts[t]
    /\ status[t] = "failed" => attempts[t] = MaxAttempts
    /\ status[t] = "completed" => succeeded[t] = 1

(* Every "running" row is either some worker's, which will mark it, or was *)
(* abandoned by a fault: no path through run_once forgets a row.           *)
RunningIsAccountedFor ==
  \A t \in Tasks :
    status[t] = "running" <=> t \in parked \/ \E w \in Workers : Holds(w, t)

(* The guide: a crash after the claim "leaves the task parked in running   *)
(* rather than double-claiming it".  A parked row is never touched again.  *)
LeftAlone(t) ==
  /\ t \in parked'
  /\ status'[t] = "running"
  /\ UNCHANGED <<attempts[t], runs[t]>>

ParkedLeftAlone == \A t \in parked : LeftAlone(t)

ParkedStaysParked == [][ParkedLeftAlone]_vars

(* A task that was completed or failed is not claimed, run or written      *)
(* again, whatever copies of its row there are.                            *)
Ended(t) == status[t] \in {"completed", "failed"}
EndedLeftAlone ==
  \A t \in Tasks : Ended(t) => UNCHANGED <<status[t], attempts[t], runs[t]>>

EndedStaysEnded == [][EndedLeftAlone]_vars

(* The rows follow TaskLifecycle.                                          *)
Lifecycle ==
  INSTANCE TaskLifecycle WITH status <- status, attempts <- attempts
ImplementsLifecycle == Lifecycle!Spec

(* Every enqueued task is in the end completed, failed, or parked by a     *)
(* fault, whatever older tasks keep failing before it.                     *)
Settled(t) == status[t] \in {"completed", "failed"} \/ t \in parked
EveryTaskSettles == \A t \in Tasks : status[t] = "pending" ~> Settled(t)

-----------------------------------------------------------------------------
(* The inductive invariant behind these properties.                        *)

(* What each status says about the row's counters.                         *)
RowInv(t) ==
  /\ status[t] = "absent" => attempts[t] = 0
  /\ status[t] \in {"absent", "pending"} => attempts[t] < MaxAttempts
  /\ status[t] \in {"absent", "pending", "failed"} => succeeded[t] = 0
  /\ status[t] = "completed" => succeeded[t] = 1
  /\ status[t] = "failed" => attempts[t] = MaxAttempts
  /\ succeeded[t] \in {0, 1}
  /\ runs[t] <= attempts[t]
  /\ t \in parked => status[t] = "running"

(* What an open claim may still rely on.                                   *)
ClaimInv(w) ==
  pc[w] = "selected" =>
    /\ held[w] \in Tasks
    /\ stale[w] \/ (status[held[w]] = "pending" /\ attempts[held[w]] = tried[w])

(* What the worker of a claimed row may rely on.                           *)
OwnerInv(w) ==
  pc[w] \in Owning =>
    /\ held[w] \in Tasks \ parked
    /\ status[held[w]] = "running"
    /\ attempts[held[w]] = tried[w]
    /\ pc[w] = "claimed" => runs[held[w]] < attempts[held[w]]
    /\ succeeded[held[w]] = IF pc[w] = "succeeded" THEN 1 ELSE 0

(* Two workers never work on one row; on Postgres, they never even have    *)
(* it selected together.                                                   *)
Exclusive(v, w) ==
  /\ pc[v] \in Owning /\ pc[w] \in Owning /\ held[v] = held[w] => v = w
  /\ dialect = "Postgres" /\ pc[v] = "selected" /\ pc[w] = "selected" =>
       (held[v] = held[w] => v = w)

(* No claimed row is forgotten.                                            *)
Accounted(t) ==
  status[t] = "running" => t \in parked \/ \E w \in Workers : Holds(w, t)

(* All of it together, which is inductive: an open claim whose row is no   *)
(* longer pending is stale and will be refused; a claimed row belongs to   *)
(* one worker, is "running" on that worker's attempt, and is not parked.   *)
IInv ==
  /\ TypeOK
  /\ \A t \in Tasks : RowInv(t) /\ Accounted(t)
  /\ \A w \in Workers : ClaimInv(w) /\ OwnerInv(w)
  /\ \A v, w \in Workers : Exclusive(v, w)

=============================================================================
