------------------------- MODULE RecurringTickProofs -------------------------
(***************************************************************************)
(* Theorems about RecurringTick for every set of workers and schedules,    *)
(* every set of occurrences a schedule may have, and every bound on the    *)
(* clock, on failed ticks and on edits.                                    *)
(*                                                                         *)
(* The argument.  What a tick writes is right if the rows it read are      *)
(* still as it read them.  TickInv says that they are unless the tick is   *)
(* stale; Serial says why that holds on Postgres, where nothing is ever    *)
(* stale: one tick is open at a time, and its row locks keep operators     *)
(* away.                                                                   *)
(***************************************************************************)
EXTENDS RecurringTick, TLAPS

LEMMA Assumptions ==
  /\ Fires \in [Schedules -> SUBSET Nat]
  /\ Dialects \subseteq {"Postgres", "Sqlite"}
  /\ MaxTime \in Nat /\ MaxFaults \in Nat /\ MaxEdits \in Nat
  /\ Times \subseteq Nat
BY FiresAssumption, DialectAssumption, BoundAssumption DEF Times

-----------------------------------------------------------------------------
(* schedule.after(x).next(): the first occurrence later than x, so there   *)
(* is none between.                                                        *)
LEMMA AfterIsNext ==
  ASSUME NEW s \in Schedules, NEW x \in Times
  PROVE  /\ After(s, x) \in Fires[s] /\ After(s, x) \in Nat
         /\ After(s, x) > x
         /\ \A z \in Fires[s] : z > x => After(s, x) <= z
<1>1. \E y \in Fires[s] : FirstAfter(s, x, y)
  BY FiresAssumption
<1>2. After(s, x) \in Fires[s] /\ FirstAfter(s, x, After(s, x))
  BY <1>1 DEF After
<1> QED
  BY <1>2, Assumptions DEF FirstAfter

LEMMA MarksType == TypeOK => StaleAfterCommit \in [Workers -> BOOLEAN]
BY DEF TypeOK, StaleAfterCommit

(* A tick that ends, well or not, leaves nothing of itself behind.         *)
LEMMA EndTickType ==
  ASSUME TypeOK, NEW w \in Workers, NEW marks \in [Workers -> BOOLEAN], EndTick(w, marks)
  PROVE  /\ pc' \in [Workers -> {"idle", "begun", "selected"}]
         /\ batch' \in [Workers -> SUBSET Schedules]
         /\ previous' \in [Workers -> [Schedules -> Times]]
         /\ stale' \in [Workers -> BOOLEAN]
<1>1. 0 \in Times
  BY Assumptions DEF Times
<1> QED
  BY <1>1 DEF TypeOK, EndTick

-----------------------------------------------------------------------------
(* The invariant holds initially and is kept by every action.              *)

LEMMA InitInv == Init => IInv
<1> SUFFICES ASSUME Init PROVE IInv
  OBVIOUS
<1>1. TypeOK
  BY Assumptions DEF Init, TypeOK, Times
<1>2. /\ \A s \in Schedules : RowInv(s)
      /\ \A w \in Workers : TickInv(w)
      /\ \A v, w \in Workers : Serial(v, w)
  BY DEF Init, RowInv, TickInv, Serial
<1>3. EachOccurrenceOnce
  BY DEF Init, EachOccurrenceOnce
<1> QED
  BY <1>1, <1>2, <1>3 DEF IInv

(* A new row starts at the first occurrence after now; no tick has read it.*)
LEMMA RegisterInv ==
  ASSUME NEW s \in Schedules, IInv, Register(s)
  PROVE  IInv'
<1>0. After(s, now) \in Fires[s] /\ After(s, now) \in Nat
  BY AfterIsNext DEF IInv, TypeOK
<1>1. TypeOK'
  BY <1>0, MarksType DEF IInv, TypeOK, Register
<1>2. \A r \in Schedules : RowInv(r)'
  BY <1>0, Assumptions DEF IInv, TypeOK, RowInv, Register
<1>3. \A w \in Workers : TickInv(w)'
  BY DEF IInv, TypeOK, TickInv, Register, StaleAfterCommit
<1>4. \A v, w \in Workers : Serial(v, w)'
  BY DEF IInv, TypeOK, Serial, Register, StaleAfterCommit
<1>5. EachOccurrenceOnce'
  BY <1>0, Assumptions DEF IInv, TypeOK, EachOccurrenceOnce, Register
<1> QED
  BY <1>1, <1>2, <1>3, <1>4, <1>5 DEF IInv

LEMMA BeginTickInv ==
  ASSUME NEW w \in Workers, IInv, BeginTick(w)
  PROVE  IInv'
<1> USE DEF IInv, BeginTick, tableVars
<1>1. TypeOK'
  BY DEF TypeOK
<1>2. /\ \A s \in Schedules : RowInv(s)'
      /\ EachOccurrenceOnce'
  BY DEF RowInv, EachOccurrenceOnce
<1>3. \A v \in Workers : TickInv(v)'
  BY DEF TypeOK, TickInv
<1>4. \A u, v \in Workers : Serial(u, v)'
  BY DEF TypeOK, Serial, AdvisoryLockFree
<1> QED
  BY <1>1, <1>2, <1>3, <1>4

(* The SELECT: what it returns is due, enabled and as it says.             *)
LEMMA SelectDueInv ==
  ASSUME NEW w \in Workers, IInv, SelectDue(w)
  PROVE  IInv'
<1> DEFINE due == {s \in Schedules : Due(s)}
<1>0. \A s \in due : s \in registered \cap enabled /\ next[s] <= now /\ next[s] \in Times
  BY Assumptions DEF Due, IInv, TypeOK, Times
<1>1. TypeOK'
  <2>1. [s \in Schedules |-> IF s \in due THEN next[s] ELSE 0] \in [Schedules -> Times]
    BY <1>0, Assumptions DEF Times
  <2> QED
    BY <2>1 DEF IInv, TypeOK, SelectDue, tableVars
<1>2. /\ \A s \in Schedules : RowInv(s)'
      /\ EachOccurrenceOnce'
  BY DEF IInv, RowInv, EachOccurrenceOnce, SelectDue, tableVars
<1>3. \A v \in Workers : TickInv(v)'
  BY <1>0 DEF IInv, TypeOK, TickInv, SelectDue, tableVars
<1>4. \A u, v \in Workers : Serial(u, v)'
  BY DEF IInv, TypeOK, Serial, SelectDue
<1> QED
  BY <1>1, <1>2, <1>3, <1>4 DEF IInv

(* What the COMMIT of a tick writes for a row it read: the row had not     *)
(* changed, so its occurrence gets a task and the next one takes over.     *)
LEMMA CommittedRow ==
  ASSUME NEW w \in Workers, IInv, CommitTick(w), NEW s \in batch[w]
  PROVE  /\ s \in Schedules /\ s \in registered \cap enabled /\ ~stale[w]
         /\ previous[w][s] = next[s] /\ next[s] <= now /\ next[s] \in Times
         /\ next'[s] = After(s, next[s])
         /\ \A x \in Times : inserted'[s][x] = inserted[s][x] + (IF x = next[s] THEN 1 ELSE 0)
<1>1. ~stale[w] /\ s \in Schedules
  BY DEF IInv, TypeOK, CommitTick, Writable
<1>2. s \in registered \cap enabled /\ previous[w][s] = next[s] /\ next[s] <= now
  BY <1>1 DEF IInv, TickInv
<1>3. next[s] \in Times
  BY <1>1, <1>2, Assumptions DEF IInv, TypeOK
<1> QED
  BY <1>1, <1>2, <1>3 DEF CommitTick

LEMMA UntouchedRow ==
  ASSUME NEW w \in Workers, IInv, CommitTick(w), NEW s \in Schedules \ batch[w]
  PROVE  next'[s] = next[s] /\ \A x \in Times : inserted'[s][x] = inserted[s][x]
BY DEF IInv, TypeOK, CommitTick

LEMMA CommitTickInv ==
  ASSUME NEW w \in Workers, IInv, CommitTick(w)
  PROVE  IInv'
<1> DEFINE marks == IF batch[w] = {} THEN stale ELSE StaleAfterCommit
<1>0. marks \in [Workers -> BOOLEAN] /\ EndTick(w, marks)
  BY MarksType DEF IInv, TypeOK, CommitTick
<1>1. TypeOK'
  <2>1. next' \in [Schedules -> Nat]
    <3>1. \A s \in batch[w] : next'[s] \in Nat
      BY CommittedRow, AfterIsNext
    <3>2. \A s \in Schedules \ batch[w] : next'[s] \in Nat
      BY UntouchedRow DEF IInv, TypeOK
    <3> QED
      BY <3>1, <3>2 DEF CommitTick
  <2>2. inserted' \in [Schedules -> [Times -> Nat]]
    BY DEF IInv, TypeOK, CommitTick
  <2> QED
    BY <1>0, <2>1, <2>2, EndTickType DEF IInv, TypeOK, CommitTick
<1>2. \A s \in Schedules : RowInv(s)'
  <2> SUFFICES ASSUME NEW s \in Schedules PROVE RowInv(s)'
    OBVIOUS
  <2>1. CASE s \in batch[w]
    <3>1. /\ next'[s] \in Fires[s] /\ next'[s] \in Nat /\ next'[s] > next[s]
          /\ first[s] <= next[s]
      BY <2>1, CommittedRow, AfterIsNext DEF IInv, RowInv
    <3> QED
      BY <2>1, <3>1, Assumptions DEF IInv, TypeOK, RowInv, CommitTick
  <2>2. CASE s \notin batch[w]
    BY <2>2, UntouchedRow DEF IInv, RowInv, CommitTick
  <2> QED
    BY <2>1, <2>2
<1>3. \A v \in Workers : TickInv(v)'
  <2> SUFFICES ASSUME NEW v \in Workers PROVE TickInv(v)'
    OBVIOUS
  <2>1. CASE v = w \/ pc[v] # "selected"
    BY <1>0, <2>1 DEF IInv, TypeOK, TickInv, EndTick
  <2>2. CASE v # w /\ pc[v] = "selected" /\ batch[w] = {}
    <3>1. \A s \in Schedules : next'[s] = next[s]
      BY <2>2, UntouchedRow
    <3> QED
      BY <1>0, <2>2, <3>1 DEF IInv, TypeOK, TickInv, EndTick, CommitTick
  <2>3. CASE v # w /\ pc[v] = "selected" /\ batch[w] # {}
    <3>1. dialect = "Sqlite"
      BY <2>3, Assumptions DEF IInv, TypeOK, Serial, CommitTick
    <3>2. stale'[v]
      BY <1>0, <2>3, <3>1 DEF EndTick, StaleAfterCommit
    <3> QED
      BY <1>0, <2>3, <3>2 DEF IInv, TypeOK, TickInv, EndTick, CommitTick
  <2> QED
    BY <2>1, <2>2, <2>3
<1>4. \A u, v \in Workers : Serial(u, v)'
  BY <1>0 DEF IInv, TypeOK, Serial, CommitTick, EndTick, StaleAfterCommit
<1>5. EachOccurrenceOnce'
  <2> SUFFICES ASSUME NEW s \in Schedules, NEW x \in Times
               PROVE  inserted'[s][x] = IF /\ s \in registered /\ x \in Fires[s]
                                           /\ first[s] <= x /\ x < next'[s]
                                          THEN 1 ELSE 0
    BY DEF EachOccurrenceOnce, CommitTick
  <2>0. inserted[s][x] = IF s \in registered /\ x \in Fires[s] /\ first[s] <= x /\ x < next[s]
                           THEN 1 ELSE 0
    BY DEF IInv, EachOccurrenceOnce
  <2>1. CASE s \in batch[w]
    <3>1. /\ next[s] \in Fires[s] /\ first[s] <= next[s] /\ s \in registered
          /\ next[s] \in Nat /\ first[s] \in Nat /\ x \in Nat
      BY <2>1, CommittedRow, Assumptions DEF IInv, TypeOK, RowInv
    <3>2. /\ next'[s] \in Nat /\ next'[s] > next[s]
          /\ \A z \in Fires[s] : z > next[s] => next'[s] <= z
      BY <2>1, CommittedRow, AfterIsNext
    <3>3. inserted'[s][x] = inserted[s][x] + (IF x = next[s] THEN 1 ELSE 0)
      BY <2>1, CommittedRow
    <3>4. x \in Fires[s] => (x < next'[s] <=> x < next[s] \/ x = next[s])
      BY <3>1, <3>2
    <3> QED
      BY <2>0, <3>1, <3>3, <3>4
  <2>2. CASE s \notin batch[w]
    BY <2>0, <2>2, UntouchedRow
  <2> QED
    BY <2>1, <2>2
<1> QED
  BY <1>1, <1>2, <1>3, <1>4, <1>5 DEF IInv

(* A rollback, for whatever reason, changes nothing but the tick.          *)
LEMMA AbortInv ==
  ASSUME NEW w \in Workers, IInv, EndTick(w, stale),
         UNCHANGED <<dialect, now, tableVars, edits>>, faults' \in 0..MaxFaults
  PROVE  IInv'
<1>1. TypeOK'
  BY EndTickType DEF IInv, TypeOK, tableVars
<1>2. /\ \A s \in Schedules : RowInv(s)'
      /\ EachOccurrenceOnce'
  BY DEF IInv, RowInv, EachOccurrenceOnce, tableVars
<1>3. \A v \in Workers : TickInv(v)'
  BY DEF IInv, TypeOK, TickInv, EndTick, tableVars
<1>4. \A u, v \in Workers : Serial(u, v)'
  BY DEF IInv, TypeOK, Serial, EndTick
<1> QED
  BY <1>1, <1>2, <1>3, <1>4 DEF IInv

(* An operator's edit: on Postgres no open tick has read the row, on       *)
(* Sqlite every open tick is stale from now on.                            *)
LEMMA OperatorEditInv ==
  ASSUME NEW s \in Schedules, IInv, OperatorEdit(s)
  PROVE  IInv'
<1>1. TypeOK'
  BY MarksType, Assumptions DEF IInv, TypeOK, OperatorEdit
<1>2. /\ \A r \in Schedules : RowInv(r)'
      /\ EachOccurrenceOnce'
  BY DEF IInv, RowInv, EachOccurrenceOnce, OperatorEdit
<1>3. \A w \in Workers : TickInv(w)'
  <2> SUFFICES ASSUME NEW w \in Workers PROVE TickInv(w)'
    OBVIOUS
  <2>1. CASE s \notin batch[w]
    BY <2>1 DEF IInv, TypeOK, TickInv, OperatorEdit, StaleAfterCommit
  <2>2. CASE s \in batch[w]
    <3>1. pc[w] = "selected" /\ dialect = "Sqlite"
      BY <2>2, Assumptions DEF IInv, TypeOK, TickInv, OperatorEdit, LockedRow
    <3>2. stale'[w]
      BY <3>1 DEF OperatorEdit, StaleAfterCommit
    <3> QED
      BY <3>1, <3>2 DEF IInv, TickInv, OperatorEdit
  <2> QED
    BY <2>1, <2>2
<1>4. \A v, w \in Workers : Serial(v, w)'
  BY DEF IInv, TypeOK, Serial, OperatorEdit, StaleAfterCommit
<1> QED
  BY <1>1, <1>2, <1>3, <1>4 DEF IInv

LEMMA StepInv == IInv /\ [Next]_vars => IInv'
<1> SUFFICES ASSUME IInv, [Next]_vars PROVE IInv'
  OBVIOUS
<1>1. ASSUME NEW w \in Workers, RollbackTick(w) \/ TickFault(w)
      PROVE  IInv'
  <2>1. /\ EndTick(w, stale)
        /\ UNCHANGED <<dialect, now, tableVars, edits>>
        /\ faults' \in 0..MaxFaults
    BY <1>1, Assumptions DEF RollbackTick, TickFault, IInv, TypeOK
  <2> QED
    BY <2>1, AbortInv
<1>2. CASE Advance
  BY <1>2, Assumptions
  DEF Advance, IInv, TypeOK, Times, RowInv, TickInv, Serial, EachOccurrenceOnce, tableVars,
      tickVars
<1>3. CASE UNCHANGED vars
  BY <1>3
  DEF vars, IInv, TypeOK, RowInv, TickInv, Serial, EachOccurrenceOnce, tableVars, tickVars
<1> QED
  BY <1>1, <1>2, <1>3, RegisterInv, OperatorEditInv, BeginTickInv, SelectDueInv, CommitTickInv
  DEF Next, Tick

(* The inductive invariant holds in every reachable state.                 *)
THEOREM InductiveInvariant == Spec => []IInv
<1> QED
  BY InitInv, StepInv, PTL DEF Spec

-----------------------------------------------------------------------------
(* Consequences.                                                           *)

(* tick_recurring_tasks enqueues every occurrence from the first on up to  *)
(* next_run_at once, whatever ticks of other workers, failed ticks and     *)
(* edits come in between, on either engine.                                *)
THEOREM OncePerOccurrence == Spec => []EachOccurrenceOnce
<1>1. IInv => EachOccurrenceOnce
  BY DEF IInv
<1> QED
  BY <1>1, InductiveInvariant, PTL

(* Only the COMMIT of a tick adds tasks or moves a registered row.         *)
LEMMA OnlyCommitsFire ==
  ASSUME IInv, [Next]_vars, ~ \E w \in Workers : CommitTick(w)
  PROVE  inserted' = inserted /\ \A s \in registered : next'[s] = next[s]
<1>1. ASSUME NEW s \in Schedules, Register(s)
      PROVE  inserted' = inserted /\ \A r \in registered : next'[r] = next[r]
  BY <1>1 DEF IInv, TypeOK, Register
<1> QED
  BY <1>1
  DEF Next, Tick, OperatorEdit, BeginTick, SelectDue, RollbackTick, TickFault, Advance, vars,
      tableVars

(* A schedule fires only while it is switched on and due, also when it was *)
(* switched off between the tick's SELECT and its COMMIT.                  *)
THEOREM FiresWhenDue == Spec => FiresOnlyWhenDue
<1>1. ASSUME IInv, [Next]_vars, NEW s \in Schedules, inserted'[s] # inserted[s]
      PROVE  s \in enabled /\ next[s] <= now /\ next'[s] > next[s]
  <2>1. PICK w \in Workers : CommitTick(w)
    BY <1>1, OnlyCommitsFire
  <2>2. s \in batch[w]
    BY <1>1, <2>1 DEF IInv, TypeOK, CommitTick
  <2> QED
    BY <1>1, <2>1, <2>2, CommittedRow, AfterIsNext
<1>2. IInv /\ [Next]_vars =>
        [\A s \in Schedules : inserted'[s] # inserted[s] =>
           s \in enabled /\ next[s] <= now /\ next'[s] > next[s]]_vars
  BY <1>1
<1> QED
  BY <1>2, InductiveInvariant, PTL DEF Spec, FiresOnlyWhenDue

(* One enabled due row whose expression does not parse stops every tick.   *)
THEOREM BrokenRowBlocks == Spec => BrokenRowStopsTick
<1>1. ASSUME IInv, [Next]_vars, NEW b \in Schedules, BlocksTicks(b)
      PROVE  inserted' = inserted /\ \A s \in registered : next'[s] = next[s]
  <2>1. ~ \E w \in Workers : CommitTick(w)
    BY <1>1 DEF BlocksTicks, CommitTick
  <2> QED
    BY <1>1, <2>1, OnlyCommitsFire
<1>2. IInv /\ [Next]_vars =>
        [(\E b \in Schedules : BlocksTicks(b)) =>
           inserted' = inserted /\ \A s \in registered : next'[s] = next[s]]_vars
  BY <1>1
<1> QED
  BY <1>2, InductiveInvariant, PTL DEF Spec, BrokenRowStopsTick

-----------------------------------------------------------------------------
(* The refinement of RecurringSchedule.                                    *)

(* A tick that goes on with any row enqueues what it read.                 *)
LEMMA CommitEnqueues ==
  ASSUME NEW w \in Workers, IInv, CommitTick(w), batch[w] # {}
  PROVE  \E due \in SUBSET Schedules : Schedule!Enqueue(due)
<1> DEFINE mapped == [s \in registered |-> next[s]]
<1>0. PICK due : due = batch[w]
  OBVIOUS
<1>1. /\ due \in SUBSET Schedules /\ registered' = registered
      /\ now' = now /\ enabled' = enabled
  BY <1>0 DEF IInv, TypeOK, CommitTick
<1>2. due \subseteq registered \cap enabled
  BY <1>0, CommittedRow
<1>3. ASSUME NEW s \in due
      PROVE  mapped[s] <= now /\ Schedule!Follows(s, mapped[s], mapped'[s])
  <2>1. next[s] <= now /\ next[s] \in Times /\ next'[s] = After(s, next[s]) /\ s \in Schedules
    BY <1>0, CommittedRow
  <2>2. mapped[s] = next[s] /\ mapped'[s] = next'[s]
    BY <1>1, <1>2
  <2> QED
    BY <2>1, <2>2, AfterIsNext DEF Schedule!Follows
<1>4. \A s \in registered \ due : mapped'[s] = mapped[s]
  BY <1>0, <1>1, UntouchedRow DEF IInv, TypeOK
<1>5. inserted' = [s \in Schedules |-> [x \in Times |->
        inserted[s][x] + (IF s \in due /\ x = mapped[s] THEN 1 ELSE 0)]]
  <2>1. ASSUME NEW s \in due PROVE previous[w][s] = mapped[s]
    BY <1>0, <1>2, CommittedRow
  <2> QED
    BY <1>0, <2>1 DEF CommitTick
<1>6. Schedule!Enqueue(due)
  BY <1>0, <1>1, <1>2, <1>3, <1>4, <1>5 DEF Schedule!Enqueue
<1> QED
  BY <1>1, <1>6

LEMMA ScheduleStep ==
  IInv /\ [Next]_vars => [Schedule!Next]_(Schedule!vars)
<1> SUFFICES ASSUME IInv, [Next]_vars PROVE [Schedule!Next]_(Schedule!vars)
  OBVIOUS
<1>1. ASSUME NEW s \in Schedules, Register(s)
      PROVE  Schedule!Register(s)
  <2>1. Schedule!Follows(s, now, After(s, now)) /\ next \in [Schedules -> Nat]
    BY AfterIsNext DEF IInv, TypeOK, Schedule!Follows
  <2> QED
    BY <1>1, <2>1 DEF Register, IInv, TypeOK, Schedule!Register
<1>2. ASSUME NEW s \in Schedules, OperatorEdit(s)
      PROVE  Schedule!Switch(s) \/ UNCHANGED Schedule!vars
  BY <1>2 DEF OperatorEdit, Schedule!Switch, Schedule!vars
<1>3. ASSUME NEW w \in Workers, CommitTick(w)
      PROVE  (\E due \in SUBSET Schedules : Schedule!Enqueue(due)) \/ UNCHANGED Schedule!vars
  <2>1. CASE batch[w] # {}
    BY <1>3, <2>1, CommitEnqueues
  <2>2. CASE batch[w] = {}
    <3>1. next' = next /\ inserted' = inserted
      BY <1>3, <2>2 DEF CommitTick, IInv, TypeOK
    <3> QED
      BY <1>3, <3>1 DEF CommitTick, Schedule!vars
  <2> QED
    BY <2>1, <2>2
<1>4. ASSUME NEW w \in Workers,
             BeginTick(w) \/ SelectDue(w) \/ RollbackTick(w) \/ TickFault(w)
      PROVE  UNCHANGED Schedule!vars
  BY <1>4 DEF BeginTick, SelectDue, RollbackTick, TickFault, tableVars, Schedule!vars
<1>5. CASE Advance
  BY <1>5 DEF Advance, tableVars, Schedule!Advance, Schedule!Next
<1>6. CASE UNCHANGED vars
  BY <1>6 DEF vars, tableVars, Schedule!vars
<1> QED
  BY <1>1, <1>2, <1>3, <1>4, <1>5, <1>6 DEF Next, Tick, Schedule!Next

(* djangors_recurring_task and the tasks made from it follow               *)
(* RecurringSchedule: each occurrence is enqueued in its turn, none before *)
(* its time, left out or enqueued twice, whatever workers, failed ticks    *)
(* and operators do, on either engine.                                     *)
THEOREM Refinement == Spec => ImplementsSchedule
<1>1. Init => Schedule!Init
  BY DEF Init, Schedule!Init
<1> QED
  BY <1>1, ScheduleStep, InductiveInvariant, PTL
  DEF Spec, ImplementsSchedule, Schedule!Spec

(* pg_advisory_xact_lock, FOR UPDATE and the refusal of a stale snapshot:  *)
(* on Postgres two ticks never have the same row, and on either engine one *)
(* that may still commit has its rows as they are.                         *)
THEOREM CommitsAreCurrent == Spec => []CommitsSeeCurrentRows
<1>1. ASSUME IInv, dialect = "Postgres" PROVE NoTwoTicksSeeTheSameRow
  BY <1>1 DEF IInv, Serial, NoTwoTicksSeeTheSameRow
<1>2. ASSUME IInv, NEW w \in Workers, Writable(w), NEW s \in batch[w]
      PROVE  s \in registered \cap enabled /\ next[s] = previous[w][s]
  BY <1>2 DEF IInv, TickInv, Writable
<1>3. IInv => CommitsSeeCurrentRows
  BY <1>1, <1>2 DEF CommitsSeeCurrentRows
<1> QED
  BY <1>3, InductiveInvariant, PTL

=============================================================================
