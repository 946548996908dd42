--------------------------- MODULE TaskQueueProofs ---------------------------
(***************************************************************************)
(* Theorems about TaskQueue for every set of workers and tasks, every      *)
(* attempt limit and every bound on the clock and on faults.               *)
(*                                                                         *)
(* The argument.  IInv is inductive: Init implies it (InitInv) and each    *)
(* action keeps it (one lemma per action, one step per conjunct).  What    *)
(* makes it inductive is ClaimInv, which says that an open claim on a row  *)
(* that is no longer pending is a stale one, and Exclusive, which says     *)
(* that on Postgres no two claims of one row are open at once.             *)
(***************************************************************************)
EXTENDS TaskQueue, TLAPS

LEMMA Assumptions ==
  /\ Tasks \subseteq Nat \ {0}
  /\ MaxAttempts \in Nat \ {0}
  /\ Dialects \subseteq {"Postgres", "Sqlite"}
  /\ MaxTime \in Nat /\ MaxFaults \in Nat
BY TaskAssumption, AttemptAssumption, DialectAssumption, BoundAssumption

-----------------------------------------------------------------------------
(* Types of what several actions share.                                    *)

WorkerTypes ==
  /\ pc \in [Workers -> Steps]
  /\ held \in [Workers -> Tasks \cup {NoTask}]
  /\ tried \in [Workers -> 0..MaxAttempts]
  /\ stale \in [Workers -> BOOLEAN]

LEMMA MarksType == TypeOK => StaleAfterCommit \in [Workers -> BOOLEAN]
BY DEF TypeOK, StaleAfterCommit

LEMMA RestType ==
  ASSUME TypeOK, NEW w \in Workers, NEW marks \in [Workers -> BOOLEAN],
         Rest(w, marks)
  PROVE  WorkerTypes'
<1>1. pc' \in [Workers -> Steps]
  BY DEF TypeOK, Rest, Goto, Steps
<1>2. held' \in [Workers -> Tasks \cup {NoTask}]
  BY DEF TypeOK, Rest
<1>3. tried' \in [Workers -> 0..MaxAttempts]
  BY Assumptions DEF TypeOK, Rest
<1>4. stale' \in [Workers -> BOOLEAN]
  BY DEF Rest
<1> QED
  BY <1>1, <1>2, <1>3, <1>4 DEF WorkerTypes

-----------------------------------------------------------------------------
(* The invariant holds initially and is kept by every action.              *)

LEMMA InitInv == Init => IInv
<1> SUFFICES ASSUME Init PROVE IInv
  OBVIOUS
<1>1. TypeOK
  BY Assumptions DEF Init, TypeOK, Statuses, Steps
<1>2. \A t \in Tasks : RowInv(t) /\ Accounted(t)
  BY Assumptions DEF Init, RowInv, Accounted
<1>3. \A w \in Workers : ClaimInv(w) /\ OwnerInv(w)
  BY DEF Init, ClaimInv, OwnerInv, Owning
<1>4. \A v, w \in Workers : Exclusive(v, w)
  BY DEF Init, Exclusive, Owning
<1> QED
  BY <1>1, <1>2, <1>3, <1>4 DEF IInv

(* A client's INSERT: the row was absent, so no worker holds it. *)
LEMMA EnqueueInv ==
  ASSUME NEW t \in Tasks, NEW at \in 0..MaxTime, IInv, Enqueue(t, at)
  PROVE  IInv'
<1>1. TypeOK'
  BY Assumptions DEF IInv, TypeOK, Steps, Statuses, Owning, Enqueue,
     StaleAfterCommit, historyVars
<1>2. \A u \in Tasks : RowInv(u)'
  BY Assumptions DEF IInv, TypeOK, RowInv, Enqueue, StaleAfterCommit,
     historyVars
<1>3. \A u \in Tasks : Accounted(u)'
  BY Assumptions DEF IInv, TypeOK, Accounted, Holds, Owning, Enqueue,
     StaleAfterCommit, historyVars
<1>4. \A v \in Workers : ClaimInv(v)'
  BY Assumptions DEF IInv, TypeOK, ClaimInv, Enqueue, StaleAfterCommit,
     historyVars
<1>5. \A v \in Workers : OwnerInv(v)'
  BY Assumptions DEF IInv, TypeOK, OwnerInv, Owning, Enqueue,
     StaleAfterCommit, historyVars
<1>6. \A v, x \in Workers : Exclusive(v, x)'
  BY Assumptions DEF IInv, TypeOK, Exclusive, Owning, Enqueue,
     StaleAfterCommit, historyVars
<1> QED
  BY <1>1, <1>2, <1>3, <1>4, <1>5, <1>6 DEF IInv

(* The row the SELECT returned is pending and nobody else's lock. *)
LEMMA SelectDueInv ==
  ASSUME NEW w \in Workers, NEW t \in Tasks, IInv, SelectDue(w, t)
  PROVE  IInv'
<1>1. TypeOK'
  BY Assumptions DEF IInv, TypeOK, Steps, Statuses, Owning, SelectDue, Goto,
     rowVars, historyVars
<1>2. \A u \in Tasks : RowInv(u)'
  BY Assumptions DEF IInv, TypeOK, RowInv, SelectDue, Goto, rowVars,
     historyVars
<1>3. \A u \in Tasks : Accounted(u)'
  BY Assumptions DEF IInv, TypeOK, Accounted, Holds, Owning, SelectDue, Goto,
     rowVars, historyVars
<1>4. \A v \in Workers : ClaimInv(v)'
  BY Assumptions DEF IInv, TypeOK, ClaimInv, SelectDue, Goto, rowVars,
     historyVars, Claimable
<1>5. \A v \in Workers : OwnerInv(v)'
  BY Assumptions DEF IInv, TypeOK, OwnerInv, Owning, SelectDue, Goto, rowVars,
     historyVars
<1>6. \A v, x \in Workers : Exclusive(v, x)'
  BY Assumptions DEF IInv, TypeOK, Exclusive, Owning, SelectDue, Goto,
     rowVars, historyVars, Claimable, LockedRow
<1> QED
  BY <1>1, <1>2, <1>3, <1>4, <1>5, <1>6 DEF IInv

(* The claim takes effect: other open claims of the row are impossible on
   Postgres and stale on Sqlite. *)
LEMMA CommitClaimInv ==
  ASSUME NEW w \in Workers, IInv, CommitClaim(w)
  PROVE  IInv'
<1>0. /\ pc[w] = "selected" /\ held[w] \in Tasks
      /\ status[held[w]] = "pending" /\ attempts[held[w]] = tried[w]
      /\ tried[w] < MaxAttempts /\ runs[held[w]] <= tried[w]
      /\ succeeded[held[w]] = 0 /\ held[w] \notin parked
  BY DEF IInv, ClaimInv, RowInv, CommitClaim, ApplyClaim
<1>1. TypeOK'
  <2>1. pc' \in [Workers -> Steps]
    BY DEF IInv, TypeOK, CommitClaim, Goto, Steps, Owning
  <2>2. tried' \in [Workers -> 0..MaxAttempts]
    BY <1>0, Assumptions DEF IInv, TypeOK, CommitClaim
  <2>3. stale' \in [Workers -> BOOLEAN]
    BY MarksType DEF IInv, CommitClaim
  <2> QED
    BY <1>0, <2>1, <2>2, <2>3, Assumptions
    DEF IInv, TypeOK, CommitClaim, ApplyClaim, historyVars, Statuses
<1>2. \A u \in Tasks : RowInv(u)'
  BY <1>0, Assumptions DEF IInv, TypeOK, RowInv, CommitClaim, ApplyClaim,
     Goto, StaleAfterCommit, historyVars, ClaimInv
<1>3. \A u \in Tasks : Accounted(u)'
  BY <1>0, Assumptions DEF IInv, TypeOK, Accounted, Holds, Owning,
     CommitClaim, ApplyClaim, Goto, StaleAfterCommit, historyVars, ClaimInv
<1>4. \A v \in Workers : ClaimInv(v)'
  <2> SUFFICES ASSUME NEW v \in Workers, pc'[v] = "selected"
               PROVE  ClaimInv(v)'
    BY DEF ClaimInv
  <2>1. /\ v # w /\ pc[v] = "selected"
        /\ held'[v] = held[v] /\ tried'[v] = tried[v]
    BY DEF IInv, TypeOK, CommitClaim, Goto
  <2>2. held[v] \in Tasks
    BY <2>1 DEF IInv, ClaimInv
  <2>3. CASE dialect = "Sqlite"
    <3>1. stale'[v]
      BY <2>1, <2>3 DEF IInv, TypeOK, CommitClaim, Goto, StaleAfterCommit
    <3> QED
      BY <2>1, <2>2, <3>1 DEF ClaimInv
  <2>4. CASE dialect = "Postgres"
    <3>1. held[v] # held[w]
      BY <1>0, <2>1, <2>4 DEF IInv, Exclusive
    <3>2. stale'[v] = stale[v]
      BY <2>1, <2>4 DEF IInv, TypeOK, CommitClaim, Goto, StaleAfterCommit
    <3>3. /\ status'[held[v]] = status[held[v]]
          /\ attempts'[held[v]] = attempts[held[v]]
      BY <2>2, <3>1 DEF IInv, TypeOK, CommitClaim, ApplyClaim
    <3> QED
      BY <2>1, <2>2, <3>2, <3>3 DEF IInv, ClaimInv
  <2> QED
    BY <2>3, <2>4, Assumptions DEF IInv, TypeOK
<1>5. \A v \in Workers : OwnerInv(v)'
  <2> SUFFICES ASSUME NEW v \in Workers, pc'[v] \in Owning
               PROVE  OwnerInv(v)'
    BY DEF OwnerInv
  <2>1. CASE v = w
    <3>1. pc'[w] = "claimed" /\ held'[w] = held[w] /\ tried'[w] = tried[w] + 1
      BY DEF IInv, TypeOK, CommitClaim, Goto
    <3>2. status'[held[w]] = "running" /\ attempts'[held[w]] = tried[w] + 1
      BY <1>0 DEF IInv, TypeOK, CommitClaim, ApplyClaim
    <3>3. tried[w] \in 0..MaxAttempts
      BY DEF IInv, TypeOK
    <3>4. runs[held[w]] \in 0..MaxAttempts
      BY <1>0 DEF IInv, TypeOK
    <3>5. runs[held[w]] < tried[w] + 1
      BY <1>0, <3>3, <3>4, Assumptions
    <3> QED
      BY <1>0, <2>1, <3>1, <3>2, <3>5 DEF OwnerInv, CommitClaim, historyVars
  <2>2. CASE v # w
    <3>1. /\ pc[v] \in Owning /\ pc'[v] = pc[v]
          /\ held'[v] = held[v] /\ tried'[v] = tried[v]
      BY <2>2 DEF IInv, TypeOK, CommitClaim, Goto
    <3>2. held[v] \in Tasks /\ held[v] # held[w]
      BY <1>0, <3>1 DEF IInv, OwnerInv
    <3>3. /\ status'[held[v]] = status[held[v]]
          /\ attempts'[held[v]] = attempts[held[v]]
      BY <3>2 DEF IInv, TypeOK, CommitClaim, ApplyClaim
    <3> QED
      BY <3>1, <3>3 DEF IInv, OwnerInv, CommitClaim, historyVars
  <2> QED
    BY <2>1, <2>2
<1>6. \A v, x \in Workers : Exclusive(v, x)'
  BY <1>0, Assumptions DEF IInv, TypeOK, Exclusive, Owning, CommitClaim,
     ApplyClaim, Goto, StaleAfterCommit, historyVars, OwnerInv, ClaimInv
<1> QED
  BY <1>1, <1>2, <1>3, <1>4, <1>5, <1>6 DEF IInv

LEMMA ClaimBusyInv ==
  ASSUME NEW w \in Workers, IInv, ClaimBusy(w)
  PROVE  IInv'
<1>1. TypeOK'
  BY Assumptions DEF IInv, TypeOK, Steps, Statuses, Owning, ClaimBusy, Rest,
     Goto, rowVars, historyVars, NoTask
<1>2. \A u \in Tasks : RowInv(u)'
  BY Assumptions DEF IInv, TypeOK, RowInv, ClaimBusy, Rest, Goto, rowVars,
     historyVars
<1>3. \A u \in Tasks : Accounted(u)'
  BY Assumptions DEF IInv, TypeOK, Accounted, Holds, Owning, ClaimBusy, Rest,
     Goto, rowVars, historyVars
<1>4. \A v \in Workers : ClaimInv(v)'
  BY Assumptions DEF IInv, TypeOK, ClaimInv, ClaimBusy, Rest, Goto, rowVars,
     historyVars
<1>5. \A v \in Workers : OwnerInv(v)'
  BY Assumptions DEF IInv, TypeOK, OwnerInv, Owning, ClaimBusy, Rest, Goto,
     rowVars, historyVars
<1>6. \A v, x \in Workers : Exclusive(v, x)'
  BY Assumptions DEF IInv, TypeOK, Exclusive, Owning, ClaimBusy, Rest, Goto,
     rowVars, historyVars
<1> QED
  BY <1>1, <1>2, <1>3, <1>4, <1>5, <1>6 DEF IInv

LEMMA StartHandlerInv ==
  ASSUME NEW w \in Workers, IInv, StartHandler(w)
  PROVE  IInv'
<1>0. pc[w] \in Owning /\ held[w] \in Tasks
  BY DEF IInv, OwnerInv, Owning, StartHandler
<1>1. TypeOK'
  <2>1. pc' \in [Workers -> Steps]
    BY DEF IInv, TypeOK, StartHandler, Goto, Steps, Owning
  <2>2. runs[held[w]] < attempts[held[w]]
    BY <1>0 DEF IInv, OwnerInv, StartHandler
  <2>3. /\ runs[held[w]] \in 0..MaxAttempts
        /\ attempts[held[w]] \in 0..MaxAttempts
    BY <1>0 DEF IInv, TypeOK
  <2>4. runs[held[w]] + 1 \in 0..MaxAttempts
    BY <2>2, <2>3, Assumptions
  <2>5. runs' \in [Tasks -> 0..MaxAttempts]
    BY <1>0, <2>4 DEF IInv, TypeOK, StartHandler
  <2> QED
    BY <2>1, <2>5 DEF IInv, TypeOK, StartHandler, rowVars
<1>2. \A u \in Tasks : RowInv(u)'
  BY <1>0, Assumptions DEF IInv, TypeOK, RowInv, StartHandler, Goto, rowVars,
     OwnerInv, Owning
<1>3. \A u \in Tasks : Accounted(u)'
  BY <1>0, Assumptions DEF IInv, TypeOK, Accounted, Holds, Owning,
     StartHandler, Goto, rowVars
<1>4. \A v \in Workers : ClaimInv(v)'
  BY <1>0, Assumptions DEF IInv, TypeOK, ClaimInv, StartHandler, Goto, rowVars
<1>5. \A v \in Workers : OwnerInv(v)'
  BY <1>0, Assumptions DEF IInv, TypeOK, OwnerInv, Owning, StartHandler, Goto,
     rowVars, Exclusive
<1>6. \A v, x \in Workers : Exclusive(v, x)'
  BY <1>0, Assumptions DEF IInv, TypeOK, Exclusive, Owning, StartHandler,
     Goto, rowVars
<1> QED
  BY <1>1, <1>2, <1>3, <1>4, <1>5, <1>6 DEF IInv

LEMMA RejectClaimInv ==
  ASSUME NEW w \in Workers, IInv, RejectClaim(w)
  PROVE  IInv'
<1>0. pc[w] \in Owning /\ held[w] \in Tasks
  BY DEF IInv, OwnerInv, Owning, RejectClaim
<1>1. TypeOK'
  BY <1>0, Assumptions DEF IInv, TypeOK, Steps, Statuses, Owning, RejectClaim,
     Goto, rowVars, historyVars
<1>2. \A u \in Tasks : RowInv(u)'
  BY <1>0, Assumptions DEF IInv, TypeOK, RowInv, RejectClaim, Goto, rowVars,
     historyVars
<1>3. \A u \in Tasks : Accounted(u)'
  BY <1>0, Assumptions DEF IInv, TypeOK, Accounted, Holds, Owning,
     RejectClaim, Goto, rowVars, historyVars
<1>4. \A v \in Workers : ClaimInv(v)'
  BY <1>0, Assumptions DEF IInv, TypeOK, ClaimInv, RejectClaim, Goto, rowVars,
     historyVars
<1>5. \A v \in Workers : OwnerInv(v)'
  BY <1>0, Assumptions DEF IInv, TypeOK, OwnerInv, Owning, RejectClaim, Goto,
     rowVars, historyVars
<1>6. \A v, x \in Workers : Exclusive(v, x)'
  BY <1>0, Assumptions DEF IInv, TypeOK, Exclusive, Owning, RejectClaim, Goto,
     rowVars, historyVars
<1> QED
  BY <1>1, <1>2, <1>3, <1>4, <1>5, <1>6 DEF IInv

LEMMA HandlerOkInv ==
  ASSUME NEW w \in Workers, IInv, HandlerOk(w)
  PROVE  IInv'
<1>0. pc[w] \in Owning /\ held[w] \in Tasks
  BY DEF IInv, OwnerInv, Owning, HandlerOk
<1>1. TypeOK'
  <2>1. pc' \in [Workers -> Steps]
    BY DEF IInv, TypeOK, HandlerOk, Goto, Steps, Owning
  <2>2. succeeded[held[w]] = 0
    BY <1>0 DEF IInv, OwnerInv, HandlerOk
  <2>3. succeeded' \in [Tasks -> 0..MaxAttempts]
    BY <1>0, <2>2, Assumptions DEF IInv, TypeOK, HandlerOk
  <2> QED
    BY <2>1, <2>3 DEF IInv, TypeOK, HandlerOk, rowVars
<1>2. \A u \in Tasks : RowInv(u)'
  BY <1>0, Assumptions DEF IInv, TypeOK, RowInv, HandlerOk, Goto, rowVars,
     OwnerInv, Owning
<1>3. \A u \in Tasks : Accounted(u)'
  BY <1>0, Assumptions DEF IInv, TypeOK, Accounted, Holds, Owning, HandlerOk,
     Goto, rowVars
<1>4. \A v \in Workers : ClaimInv(v)'
  BY <1>0, Assumptions DEF IInv, TypeOK, ClaimInv, HandlerOk, Goto, rowVars
<1>5. \A v \in Workers : OwnerInv(v)'
  BY <1>0, Assumptions DEF IInv, TypeOK, OwnerInv, Owning, HandlerOk, Goto,
     rowVars, Exclusive
<1>6. \A v, x \in Workers : Exclusive(v, x)'
  BY <1>0, Assumptions DEF IInv, TypeOK, Exclusive, Owning, HandlerOk, Goto,
     rowVars
<1> QED
  BY <1>1, <1>2, <1>3, <1>4, <1>5, <1>6 DEF IInv

LEMMA HandlerErrInv ==
  ASSUME NEW w \in Workers, IInv, HandlerErr(w)
  PROVE  IInv'
<1>0. pc[w] \in Owning /\ held[w] \in Tasks
  BY DEF IInv, OwnerInv, Owning, HandlerErr
<1>1. TypeOK'
  BY <1>0, Assumptions DEF IInv, TypeOK, Steps, Statuses, Owning, HandlerErr,
     Goto, rowVars, historyVars
<1>2. \A u \in Tasks : RowInv(u)'
  BY <1>0, Assumptions DEF IInv, TypeOK, RowInv, HandlerErr, Goto, rowVars,
     historyVars
<1>3. \A u \in Tasks : Accounted(u)'
  BY <1>0, Assumptions DEF IInv, TypeOK, Accounted, Holds, Owning, HandlerErr,
     Goto, rowVars, historyVars
<1>4. \A v \in Workers : ClaimInv(v)'
  BY <1>0, Assumptions DEF IInv, TypeOK, ClaimInv, HandlerErr, Goto, rowVars,
     historyVars
<1>5. \A v \in Workers : OwnerInv(v)'
  BY <1>0, Assumptions DEF IInv, TypeOK, OwnerInv, Owning, HandlerErr, Goto,
     rowVars, historyVars
<1>6. \A v, x \in Workers : Exclusive(v, x)'
  BY <1>0, Assumptions DEF IInv, TypeOK, Exclusive, Owning, HandlerErr, Goto,
     rowVars, historyVars
<1> QED
  BY <1>1, <1>2, <1>3, <1>4, <1>5, <1>6 DEF IInv

LEMMA MarkCompletedInv ==
  ASSUME NEW w \in Workers, IInv, MarkCompleted(w)
  PROVE  IInv'
<1>0. pc[w] \in Owning /\ held[w] \in Tasks
  BY DEF IInv, OwnerInv, Owning, MarkCompleted
<1>1. TypeOK'
  <2>1. WorkerTypes'
    BY RestType, MarksType DEF IInv, TypeOK, MarkCompleted
  <2> QED
    BY <1>0, <2>1, Assumptions
    DEF IInv, TypeOK, WorkerTypes, MarkCompleted, Statuses,
        historyVars
<1>2. \A u \in Tasks : RowInv(u)'
  BY <1>0, Assumptions DEF IInv, TypeOK, RowInv, MarkCompleted, Rest, Goto,
     StaleAfterCommit, historyVars, OwnerInv, Owning
<1>3. \A u \in Tasks : Accounted(u)'
  BY <1>0, Assumptions DEF IInv, TypeOK, Accounted, Holds, Owning,
     MarkCompleted, Rest, Goto, StaleAfterCommit, historyVars
<1>4. \A v \in Workers : ClaimInv(v)'
  BY <1>0, Assumptions DEF IInv, TypeOK, ClaimInv, MarkCompleted, Rest, Goto,
     StaleAfterCommit, historyVars, OwnerInv, Owning
<1>5. \A v \in Workers : OwnerInv(v)'
  BY <1>0, Assumptions DEF IInv, TypeOK, OwnerInv, Owning, MarkCompleted,
     Rest, Goto, StaleAfterCommit, historyVars, Exclusive
<1>6. \A v, x \in Workers : Exclusive(v, x)'
  BY <1>0, Assumptions DEF IInv, TypeOK, Exclusive, Owning, MarkCompleted,
     Rest, Goto, StaleAfterCommit, historyVars
<1> QED
  BY <1>1, <1>2, <1>3, <1>4, <1>5, <1>6 DEF IInv

LEMMA MarkFailedInv ==
  ASSUME NEW w \in Workers, IInv, MarkFailed(w)
  PROVE  IInv'
<1>0. pc[w] \in Owning /\ held[w] \in Tasks
  BY DEF IInv, OwnerInv, Owning, MarkFailed
<1>1. TypeOK'
  <2>1. WorkerTypes'
    BY RestType, MarksType DEF IInv, TypeOK, MarkFailed
  <2> QED
    BY <1>0, <2>1, Assumptions
    DEF IInv, TypeOK, WorkerTypes, MarkFailed, StatusAfterFailure, Statuses,
        historyVars
<1>2. \A u \in Tasks : RowInv(u)'
  BY <1>0, Assumptions DEF IInv, TypeOK, RowInv, MarkFailed,
     StatusAfterFailure, Rest, Goto, StaleAfterCommit, historyVars, OwnerInv,
     Owning
<1>3. \A u \in Tasks : Accounted(u)'
  BY <1>0, Assumptions DEF IInv, TypeOK, Accounted, Holds, Owning, MarkFailed,
     StatusAfterFailure, Rest, Goto, StaleAfterCommit, historyVars
<1>4. \A v \in Workers : ClaimInv(v)'
  BY <1>0, Assumptions DEF IInv, TypeOK, ClaimInv, MarkFailed,
     StatusAfterFailure, Rest, Goto, StaleAfterCommit, historyVars, OwnerInv,
     Owning
<1>5. \A v \in Workers : OwnerInv(v)'
  BY <1>0, Assumptions DEF IInv, TypeOK, OwnerInv, Owning, MarkFailed,
     StatusAfterFailure, Rest, Goto, StaleAfterCommit, historyVars, Exclusive
<1>6. \A v, x \in Workers : Exclusive(v, x)'
  BY <1>0, Assumptions DEF IInv, TypeOK, Exclusive, Owning, MarkFailed,
     StatusAfterFailure, Rest, Goto, StaleAfterCommit, historyVars
<1> QED
  BY <1>1, <1>2, <1>3, <1>4, <1>5, <1>6 DEF IInv

LEMMA ClaimErrorInv ==
  ASSUME NEW w \in Workers, IInv, ClaimError(w)
  PROVE  IInv'
<1>1. TypeOK'
  BY Assumptions DEF IInv, TypeOK, Steps, Statuses, Owning, ClaimError, Fault,
     Rest, Goto, rowVars, historyVars, NoTask
<1>2. \A u \in Tasks : RowInv(u)'
  BY Assumptions DEF IInv, TypeOK, RowInv, ClaimError, Fault, Rest, Goto,
     rowVars, historyVars
<1>3. \A u \in Tasks : Accounted(u)'
  BY Assumptions DEF IInv, TypeOK, Accounted, Holds, Owning, ClaimError,
     Fault, Rest, Goto, rowVars, historyVars
<1>4. \A v \in Workers : ClaimInv(v)'
  BY Assumptions DEF IInv, TypeOK, ClaimInv, ClaimError, Fault, Rest, Goto,
     rowVars, historyVars
<1>5. \A v \in Workers : OwnerInv(v)'
  BY Assumptions DEF IInv, TypeOK, OwnerInv, Owning, ClaimError, Fault, Rest,
     Goto, rowVars, historyVars
<1>6. \A v, x \in Workers : Exclusive(v, x)'
  BY Assumptions DEF IInv, TypeOK, Exclusive, Owning, ClaimError, Fault, Rest,
     Goto, rowVars, historyVars
<1> QED
  BY <1>1, <1>2, <1>3, <1>4, <1>5, <1>6 DEF IInv

LEMMA ClaimAnswerLostInv ==
  ASSUME NEW w \in Workers, IInv, ClaimAnswerLost(w)
  PROVE  IInv'
<1>0. /\ pc[w] = "selected" /\ held[w] \in Tasks
      /\ status[held[w]] = "pending" /\ attempts[held[w]] = tried[w]
      /\ tried[w] < MaxAttempts /\ runs[held[w]] <= tried[w]
      /\ succeeded[held[w]] = 0 /\ held[w] \notin parked
  BY DEF IInv, ClaimInv, RowInv, ClaimAnswerLost, ApplyClaim
<1>1. TypeOK'
  <2>1. WorkerTypes'
    BY RestType, MarksType DEF IInv, TypeOK, ClaimAnswerLost
  <2>2. parked' \subseteq Tasks
    BY <1>0 DEF IInv, TypeOK, ClaimAnswerLost
  <2>3. faults' \in 0..MaxFaults
    BY Assumptions DEF IInv, TypeOK, ClaimAnswerLost, Fault
  <2>4. /\ status' \in [Tasks -> Statuses]
        /\ attempts' \in [Tasks -> 0..MaxAttempts]
    BY <1>0, Assumptions
    DEF IInv, TypeOK, ClaimAnswerLost, ApplyClaim, Statuses
  <2> QED
    BY <2>1, <2>2, <2>3, <2>4
    DEF IInv, TypeOK, WorkerTypes, ClaimAnswerLost, ApplyClaim
<1>2. \A u \in Tasks : RowInv(u)'
  BY <1>0, Assumptions DEF IInv, TypeOK, RowInv, ClaimAnswerLost, ApplyClaim,
     Fault, Rest, Goto, StaleAfterCommit, ClaimInv
<1>3. \A u \in Tasks : Accounted(u)'
  BY <1>0, Assumptions DEF IInv, TypeOK, Accounted, Holds, Owning,
     ClaimAnswerLost, ApplyClaim, Fault, Rest, Goto, StaleAfterCommit,
     ClaimInv
<1>4. \A v \in Workers : ClaimInv(v)'
  <2> SUFFICES ASSUME NEW v \in Workers, pc'[v] = "selected"
               PROVE  ClaimInv(v)'
    BY DEF ClaimInv
  <2>1. /\ v # w /\ pc[v] = "selected"
        /\ held'[v] = held[v] /\ tried'[v] = tried[v]
    BY DEF IInv, TypeOK, ClaimAnswerLost, Rest, Goto
  <2>2. held[v] \in Tasks
    BY <2>1 DEF IInv, ClaimInv
  <2>3. CASE dialect = "Sqlite"
    <3>1. stale'[v]
      BY <2>1, <2>3 DEF IInv, TypeOK, ClaimAnswerLost, Rest, Goto, StaleAfterCommit
    <3> QED
      BY <2>1, <2>2, <3>1 DEF ClaimInv
  <2>4. CASE dialect = "Postgres"
    <3>1. held[v] # held[w]
      BY <1>0, <2>1, <2>4 DEF IInv, Exclusive
    <3>2. stale'[v] = stale[v]
      BY <2>1, <2>4 DEF IInv, TypeOK, ClaimAnswerLost, Rest, Goto, StaleAfterCommit
    <3>3. /\ status'[held[v]] = status[held[v]]
          /\ attempts'[held[v]] = attempts[held[v]]
      BY <2>2, <3>1 DEF IInv, TypeOK, ClaimAnswerLost, ApplyClaim
    <3> QED
      BY <2>1, <2>2, <3>2, <3>3 DEF IInv, ClaimInv
  <2> QED
    BY <2>3, <2>4, Assumptions DEF IInv, TypeOK
<1>5. \A v \in Workers : OwnerInv(v)'
  BY <1>0, Assumptions DEF IInv, TypeOK, OwnerInv, Owning, ClaimAnswerLost,
     ApplyClaim, Fault, Rest, Goto, StaleAfterCommit, ClaimInv
<1>6. \A v, x \in Workers : Exclusive(v, x)'
  BY <1>0, Assumptions DEF IInv, TypeOK, Exclusive, Owning, ClaimAnswerLost,
     ApplyClaim, Fault, Rest, Goto, StaleAfterCommit
<1> QED
  BY <1>1, <1>2, <1>3, <1>4, <1>5, <1>6 DEF IInv

LEMMA MarkErrorInv ==
  ASSUME NEW w \in Workers, IInv, MarkError(w)
  PROVE  IInv'
<1>0. pc[w] \in Owning /\ held[w] \in Tasks
  BY DEF IInv, OwnerInv, Owning, MarkError
<1>1. TypeOK'
  <2>1. WorkerTypes'
    BY RestType, MarksType DEF IInv, TypeOK, MarkError
  <2>2. parked' \subseteq Tasks
    BY <1>0 DEF IInv, TypeOK, MarkError
  <2>3. faults' \in 0..MaxFaults
    BY Assumptions DEF IInv, TypeOK, MarkError, Fault
  <2> QED
    BY <2>1, <2>2, <2>3 DEF IInv, TypeOK, WorkerTypes, MarkError, rowVars
<1>2. \A u \in Tasks : RowInv(u)'
  BY <1>0, Assumptions DEF IInv, TypeOK, RowInv, MarkError, Fault, Rest, Goto,
     rowVars, OwnerInv, Owning
<1>3. \A u \in Tasks : Accounted(u)'
  BY <1>0, Assumptions DEF IInv, TypeOK, Accounted, Holds, Owning, MarkError,
     Fault, Rest, Goto, rowVars
<1>4. \A v \in Workers : ClaimInv(v)'
  BY <1>0, Assumptions DEF IInv, TypeOK, ClaimInv, MarkError, Fault, Rest,
     Goto, rowVars
<1>5. \A v \in Workers : OwnerInv(v)'
  BY <1>0, Assumptions DEF IInv, TypeOK, OwnerInv, Owning, MarkError, Fault,
     Rest, Goto, rowVars, Exclusive
<1>6. \A v, x \in Workers : Exclusive(v, x)'
  BY <1>0, Assumptions DEF IInv, TypeOK, Exclusive, Owning, MarkError, Fault,
     Rest, Goto, rowVars
<1> QED
  BY <1>1, <1>2, <1>3, <1>4, <1>5, <1>6 DEF IInv

LEMMA CrashInv ==
  ASSUME NEW w \in Workers, IInv, Crash(w)
  PROVE  IInv'
<1>1. TypeOK'
  <2>1. WorkerTypes'
    BY RestType, MarksType DEF IInv, TypeOK, Crash
  <2>2. parked' \subseteq Tasks
    BY DEF IInv, TypeOK, OwnerInv, Crash
  <2>3. faults' \in 0..MaxFaults
    BY Assumptions DEF IInv, TypeOK, Crash, Fault
  <2> QED
    BY <2>1, <2>2, <2>3 DEF IInv, TypeOK, WorkerTypes, Crash, rowVars
<1>2. \A u \in Tasks : RowInv(u)'
  BY Assumptions DEF IInv, TypeOK, RowInv, Crash, Fault, Rest, Goto, rowVars,
     OwnerInv, Owning
<1>3. \A u \in Tasks : Accounted(u)'
  BY Assumptions DEF IInv, TypeOK, Accounted, Holds, Owning, Crash, Fault,
     Rest, Goto, rowVars
<1>4. \A v \in Workers : ClaimInv(v)'
  BY Assumptions DEF IInv, TypeOK, ClaimInv, Crash, Fault, Rest, Goto, rowVars
<1>5. \A v \in Workers : OwnerInv(v)'
  BY Assumptions DEF IInv, TypeOK, OwnerInv, Owning, Crash, Fault, Rest, Goto,
     rowVars, Exclusive
<1>6. \A v, x \in Workers : Exclusive(v, x)'
  BY Assumptions DEF IInv, TypeOK, Exclusive, Owning, Crash, Fault, Rest,
     Goto, rowVars
<1> QED
  BY <1>1, <1>2, <1>3, <1>4, <1>5, <1>6 DEF IInv

LEMMA StepInv == IInv /\ [Next]_vars => IInv'
<1> SUFFICES ASSUME IInv, [Next]_vars PROVE IInv'
  OBVIOUS
<1>1. CASE Advance
  BY <1>1, Assumptions
  DEF Advance, IInv, TypeOK, RowInv, Accounted, Holds, ClaimInv, OwnerInv,
      Exclusive, rowVars, workerVars, historyVars
<1>2. CASE UNCHANGED vars
  BY <1>2
  DEF vars, IInv, TypeOK, RowInv, Accounted, Holds, ClaimInv, OwnerInv,
      Exclusive, rowVars, workerVars, historyVars
<1> QED
  BY <1>1, <1>2, EnqueueInv, SelectDueInv, CommitClaimInv, ClaimBusyInv,
     StartHandlerInv, RejectClaimInv, HandlerOkInv, HandlerErrInv,
     MarkCompletedInv, MarkFailedInv, ClaimErrorInv, ClaimAnswerLostInv,
     MarkErrorInv, CrashInv DEF Next, RunOnce, FaultAt

(* The inductive invariant holds in every reachable state: it is what      *)
(* claim_next_task, run_once and the mark functions maintain together.     *)
THEOREM InductiveInvariant == Spec => []IInv
<1> QED
  BY InitInv, StepInv, PTL DEF Spec

-----------------------------------------------------------------------------
(* Consequences.                                                           *)

(* Every variable keeps its type: in particular a row's attempts never     *)
(* exceed max_attempts, however claims, crashes and retries interleave.    *)
THEOREM TypeCorrect == Spec => []TypeOK
<1>1. IInv => TypeOK
  BY DEF IInv
<1> QED
  BY <1>1, InductiveInvariant, PTL

(* claim_next_task never gives one row to two workers at a time.           *)
THEOREM OneExecutor == Spec => []SingleExecutor
<1>1. IInv => SingleExecutor
  BY DEF IInv, Exclusive, SingleExecutor, Holds
<1> QED
  BY <1>1, InductiveInvariant, PTL

(* The UPDATE by id of mark_task_completed and mark_task_failed always     *)
(* hits the attempt its worker claimed.                                    *)
THEOREM MarksAreSound == Spec => []MarkHitsOwnAttempt
<1>1. IInv => MarkHitsOwnAttempt
  BY DEF IInv, OwnerInv, MarkHitsOwnAttempt
<1> QED
  BY <1>1, InductiveInvariant, PTL

(* A handler that returned Ok is never run again.                          *)
THEOREM NoRerunAfterSuccess == Spec => []SuccessIsFinal
<1>1. IInv => SuccessIsFinal
  BY DEF IInv, TypeOK, Statuses, RowInv, SuccessIsFinal
<1> QED
  BY <1>1, InductiveInvariant, PTL

(* The attempts column bounds the executions, and a task fails for good    *)
(* only when it has used all of them.                                      *)
THEOREM AttemptsBoundRuns == Spec => []AttemptsAccountForRuns
<1>1. IInv => AttemptsAccountForRuns
  BY DEF IInv, RowInv, AttemptsAccountForRuns
<1> QED
  BY <1>1, InductiveInvariant, PTL

(* No path through run_once forgets a claimed row.                         *)
THEOREM NoForgottenRow == Spec => []RunningIsAccountedFor
<1>1. IInv => RunningIsAccountedFor
  BY DEF IInv, RowInv, OwnerInv, Accounted, Holds, RunningIsAccountedFor
<1> QED
  BY <1>1, InductiveInvariant, PTL

-----------------------------------------------------------------------------
(* Parked rows and the refinement of TaskLifecycle.                        *)

(* What a worker that may write its row knows about it.                    *)
LEMMA ClaimedRow ==
  ASSUME IInv, NEW w \in Workers, ApplyClaim(w)
  PROVE  /\ held[w] \in Tasks \ parked
         /\ status[held[w]] = "pending"
         /\ attempts[held[w]] = tried[w] /\ tried[w] < MaxAttempts
BY DEF IInv, ClaimInv, RowInv, ApplyClaim

LEMMA OwnedRow ==
  ASSUME IInv, NEW w \in Workers, pc[w] \in Owning
  PROVE  /\ held[w] \in Tasks \ parked
         /\ status[held[w]] = "running"
         /\ attempts[held[w]] = tried[w] /\ tried[w] \in 0..MaxAttempts
BY DEF IInv, TypeOK, OwnerInv

(* What an action of the queue does to the rows and to the runs.           *)
Quiet == UNCHANGED <<status, attempts, runs>> /\ parked \subseteq parked'

LEMMA QuietSteps ==
  ASSUME [Next]_vars
  PROVE  \/ Quiet
         \/ \E t \in Tasks, at \in 0..MaxTime : Enqueue(t, at)
         \/ \E w \in Workers :
              \/ CommitClaim(w) \/ ClaimAnswerLost(w) \/ StartHandler(w)
              \/ MarkCompleted(w) \/ MarkFailed(w)
<1> USE DEF Quiet, rowVars, historyVars, vars
<1>1. CASE UNCHANGED vars
  BY <1>1
<1>2. CASE Advance
  BY <1>2 DEF Advance
<1>3. ASSUME NEW w \in Workers, RunOnce(w)
      PROVE  \/ Quiet \/ CommitClaim(w) \/ StartHandler(w)
             \/ MarkCompleted(w) \/ MarkFailed(w)
  BY <1>3
  DEF RunOnce, SelectDue, ClaimBusy, RejectClaim, HandlerOk, HandlerErr
<1>4. ASSUME NEW w \in Workers, FaultAt(w)
      PROVE  Quiet \/ ClaimAnswerLost(w)
  BY <1>4 DEF FaultAt, ClaimError, MarkError, Crash
<1> QED
  BY <1>1, <1>2, <1>3, <1>4 DEF Next

LEMMA ParkedStep ==
  ASSUME IInv, [Next]_vars, NEW t \in parked
  PROVE  LeftAlone(t)
<1> USE DEF LeftAlone
<1>1. t \in Tasks /\ status[t] = "running"
  BY DEF IInv, TypeOK, RowInv
<1>2. CASE Quiet
  BY <1>1, <1>2 DEF Quiet
<1>3. ASSUME NEW u \in Tasks, NEW at \in 0..MaxTime, Enqueue(u, at)
      PROVE  LeftAlone(t)
  BY <1>1, <1>3 DEF IInv, TypeOK, Enqueue, historyVars
<1>4. ASSUME NEW w \in Workers, CommitClaim(w) \/ ClaimAnswerLost(w)
      PROVE  LeftAlone(t)
  <2>1. ApplyClaim(w) /\ parked \subseteq parked' /\ UNCHANGED runs
    BY <1>4 DEF CommitClaim, ClaimAnswerLost, historyVars
  <2>2. t # held[w]
    BY <2>1, ClaimedRow
  <2> QED
    BY <1>1, <2>1, <2>2 DEF IInv, TypeOK, ApplyClaim
<1>5. ASSUME NEW w \in Workers,
             StartHandler(w) \/ MarkCompleted(w) \/ MarkFailed(w)
      PROVE  LeftAlone(t)
  <2>1. pc[w] \in Owning
    BY <1>5 DEF StartHandler, MarkCompleted, MarkFailed, Owning
  <2>2. t # held[w]
    BY <2>1, OwnedRow
  <2> QED
    BY <1>1, <1>5, <2>2
    DEF IInv, TypeOK, StartHandler, MarkCompleted, MarkFailed, rowVars,
        historyVars
<1> QED
  BY <1>2, <1>3, <1>4, <1>5, QuietSteps

(* Nothing in the crate revives a row a fault left in "running": there is  *)
(* no lease and no reaper.                                                 *)
THEOREM ParkedForEver == Spec => ParkedStaysParked
<1>1. IInv /\ [Next]_vars => [ParkedLeftAlone]_vars
  BY ParkedStep DEF ParkedLeftAlone
<1> QED
  BY <1>1, InductiveInvariant, PTL DEF Spec, ParkedStaysParked

LEMMA LifecycleStep ==
  IInv /\ [Next]_vars => [Lifecycle!Next]_(Lifecycle!vars)
<1> SUFFICES ASSUME IInv, [Next]_vars
             PROVE  [Lifecycle!Next]_(Lifecycle!vars)
  OBVIOUS
<1> USE DEF Lifecycle!Next, Lifecycle!Move
<1>1. CASE Quiet
  BY <1>1 DEF Quiet, Lifecycle!vars
<1>2. ASSUME NEW t \in Tasks, NEW at \in 0..MaxTime, Enqueue(t, at)
      PROVE  Lifecycle!Submit(t)
  <2>1. attempts[t] = 0
    BY <1>2 DEF IInv, RowInv, Enqueue
  <2>2. attempts' = attempts
    BY <1>2, <2>1 DEF IInv, TypeOK, Enqueue
  <2> QED
    BY <1>2, <2>2 DEF Enqueue, Lifecycle!Submit
<1>3. ASSUME NEW w \in Workers, CommitClaim(w) \/ ClaimAnswerLost(w)
      PROVE  held[w] \in Tasks /\ Lifecycle!Claim(held[w])
  <2>1. ApplyClaim(w)
    BY <1>3 DEF CommitClaim, ClaimAnswerLost
  <2> QED
    BY <2>1, ClaimedRow DEF ApplyClaim, Lifecycle!Claim
<1>4. ASSUME NEW w \in Workers, StartHandler(w)
      PROVE  UNCHANGED Lifecycle!vars
  BY <1>4 DEF StartHandler, rowVars, Lifecycle!vars
<1>5. ASSUME NEW w \in Workers, MarkCompleted(w)
      PROVE  held[w] \in Tasks /\ Lifecycle!Complete(held[w])
  <2>1. pc[w] \in Owning
    BY <1>5 DEF MarkCompleted, Owning
  <2> QED
    BY <1>5, <2>1, OwnedRow DEF MarkCompleted, Lifecycle!Complete
<1>6. ASSUME NEW w \in Workers, MarkFailed(w)
      PROVE  /\ held[w] \in Tasks
             /\ Lifecycle!Retry(held[w]) \/ Lifecycle!GiveUp(held[w])
  <2>1. pc[w] \in Owning
    BY <1>6 DEF MarkFailed, Owning
  <2>2. CASE tried[w] < MaxAttempts
    BY <1>6, <2>1, <2>2, OwnedRow
    DEF MarkFailed, StatusAfterFailure, Lifecycle!Retry
  <2>3. CASE ~(tried[w] < MaxAttempts)
    <3>1. tried[w] = MaxAttempts
      BY <2>1, <2>3, OwnedRow, Assumptions
    <3> QED
      BY <1>6, <2>1, <2>3, <3>1, OwnedRow
      DEF MarkFailed, StatusAfterFailure, Lifecycle!GiveUp
  <2> QED
    BY <2>2, <2>3
<1> QED
  BY <1>1, <1>2, <1>3, <1>4, <1>5, <1>6, QuietSteps

(* The rows of djangors_task_queue follow TaskLifecycle: submitted once,   *)
(* claimed at most max_attempts times, retried only with attempts left,    *)
(* given up only without any, and final once completed or failed.          *)
THEOREM Refinement == Spec => ImplementsLifecycle
<1>1. Init => Lifecycle!Init
  BY DEF Init, Lifecycle!Init
<1> QED
  BY <1>1, LifecycleStep, InductiveInvariant, PTL
  DEF Spec, ImplementsLifecycle, Lifecycle!Spec

-----------------------------------------------------------------------------
(* Tasks that ended.                                                       *)

LEMMA EndedStep ==
  ASSUME IInv, [Next]_vars, NEW t \in Tasks, Ended(t)
  PROVE  UNCHANGED <<status[t], attempts[t], runs[t]>>
<1>1. status[t] \in {"completed", "failed"}
  BY DEF Ended
<1>2. CASE Quiet
  BY <1>2 DEF Quiet
<1>3. ASSUME NEW u \in Tasks, NEW at \in 0..MaxTime, Enqueue(u, at)
      PROVE  UNCHANGED <<status[t], attempts[t], runs[t]>>
  BY <1>1, <1>3 DEF IInv, TypeOK, Enqueue, historyVars
<1>4. ASSUME NEW w \in Workers, CommitClaim(w) \/ ClaimAnswerLost(w)
      PROVE  UNCHANGED <<status[t], attempts[t], runs[t]>>
  <2>1. ApplyClaim(w) /\ UNCHANGED runs
    BY <1>4 DEF CommitClaim, ClaimAnswerLost, historyVars
  <2>2. t # held[w]
    BY <1>1, <2>1, ClaimedRow
  <2> QED
    BY <1>1, <2>1, <2>2 DEF IInv, TypeOK, ApplyClaim
<1>5. ASSUME NEW w \in Workers,
             StartHandler(w) \/ MarkCompleted(w) \/ MarkFailed(w)
      PROVE  UNCHANGED <<status[t], attempts[t], runs[t]>>
  <2>1. pc[w] \in Owning
    BY <1>5 DEF StartHandler, MarkCompleted, MarkFailed, Owning
  <2>2. t # held[w]
    BY <1>1, <2>1, OwnedRow
  <2> QED
    BY <1>1, <1>5, <2>2
    DEF IInv, TypeOK, StartHandler, MarkCompleted, MarkFailed, rowVars, historyVars
<1> QED
  BY <1>2, <1>3, <1>4, <1>5, QuietSteps

(* mark_task_completed and mark_task_failed are final: no claim, handler   *)
(* or mark of any worker touches a task that was completed or failed.      *)
THEOREM EndsAreFinal == Spec => EndedStaysEnded
<1>1. IInv /\ [Next]_vars => [EndedLeftAlone]_vars
  BY EndedStep DEF EndedLeftAlone
<1> QED
  BY <1>1, InductiveInvariant, PTL DEF Spec, EndedStaysEnded

=============================================================================

