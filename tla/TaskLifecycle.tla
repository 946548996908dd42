---------------------------- MODULE TaskLifecycle ----------------------------
(***************************************************************************)
(* What the task queue promises about one row of djangors_task_queue,      *)
(* whoever works on it: a task is submitted once, is claimed at most       *)
(* MaxAttempts times, goes back to "pending" only while it has attempts    *)
(* left, is given up only when it has none, and never leaves "completed"   *)
(* or "failed".  TaskQueue is shown to implement this module.              *)
(***************************************************************************)
EXTENDS Naturals

CONSTANTS
  Tasks,          \* identifiers of the rows
  MaxAttempts     \* attempts a task is given before it is failed for good

VARIABLES
  status,         \* status of each row, "absent" before its INSERT
  attempts        \* number of times each row has been claimed

vars == <<status, attempts>>

Init ==
  /\ status = [t \in Tasks |-> "absent"]
  /\ attempts = [t \in Tasks |-> 0]

Move(t, from, to) ==
  /\ status[t] = from
  /\ status' = [status EXCEPT ![t] = to]

Submit(t) ==
  /\ Move(t, "absent", "pending")
  /\ UNCHANGED attempts

Claim(t) ==
  /\ Move(t, "pending", "running")
  /\ attempts[t] < MaxAttempts
  /\ attempts' = [attempts EXCEPT ![t] = @ + 1]

Complete(t) ==
  /\ Move(t, "running", "completed")
  /\ UNCHANGED attempts

Retry(t) ==
  /\ Move(t, "running", "pending")
  /\ attempts[t] < MaxAttempts
  /\ UNCHANGED attempts

GiveUp(t) ==
  /\ Move(t, "running", "failed")
  /\ attempts[t] = MaxAttempts
  /\ UNCHANGED attempts

Next ==
  \E t \in Tasks :
    Submit(t) \/ Claim(t) \/ Complete(t) \/ Retry(t) \/ GiveUp(t)

Spec == Init /\ [][Next]_vars

=============================================================================
