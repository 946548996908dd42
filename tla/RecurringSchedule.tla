-------------------------- MODULE RecurringSchedule --------------------------
(***************************************************************************)
(* What tick_recurring_tasks promises about the rows of                    *)
(* djangors_recurring_task, whoever ticks: schedules are enqueued together *)
(* or not at all, each for the occurrence that is its turn, while it is    *)
(* switched on and that occurrence has come, and its turn passes to the    *)
(* occurrence that follows, so that none is left out or enqueued twice.    *)
(* RecurringTick is shown to implement this module.                        *)
(***************************************************************************)
EXTENDS Naturals

CONSTANTS
  Schedules,      \* names of the schedules
  Fires,          \* Fires[s]: the times the cron expression of s names
  Times           \* the times of the clock

VARIABLES
  now,            \* the time
  next,           \* the occurrence whose turn it is, of each schedule registered
  enabled,        \* the schedules switched on
  tasks           \* tasks[s][x]: tasks enqueued for occurrence x of s

vars == <<now, next, enabled, tasks>>

Init ==
  /\ now = 0
  /\ next = [s \in {} |-> 0]
  /\ enabled = {}
  /\ tasks = [s \in Schedules |-> [x \in Times |-> 0]]

Follows(s, x, y) ==
  /\ y \in Fires[s] /\ y > x
  /\ \A z \in Fires[s] : z > x => y <= z

Register(s) ==
  /\ s \notin DOMAIN next
  /\ DOMAIN next' = DOMAIN next \cup {s}
  /\ Follows(s, now, next'[s])
  /\ \A r \in DOMAIN next : next'[r] = next[r]
  /\ enabled' = enabled \cup {s}
  /\ UNCHANGED <<now, tasks>>

Enqueue(due) ==
  /\ due # {} /\ due \subseteq DOMAIN next \cap enabled
  /\ \A s \in due : next[s] <= now /\ Follows(s, next[s], next'[s])
  /\ DOMAIN next' = DOMAIN next
  /\ \A s \in DOMAIN next \ due : next'[s] = next[s]
  /\ tasks' = [s \in Schedules |-> [x \in Times |->
       tasks[s][x] + (IF s \in due /\ x = next[s] THEN 1 ELSE 0)]]
  /\ UNCHANGED <<now, enabled>>

Switch(s) ==
  /\ s \in DOMAIN next
  /\ enabled' \in {enabled \cup {s}, enabled \ {s}}
  /\ UNCHANGED <<now, next, tasks>>

Advance ==
  /\ now' = now + 1
  /\ UNCHANGED <<next, enabled, tasks>>

Next ==
  \/ \E s \in Schedules : Register(s) \/ Switch(s)
  \/ \E due \in SUBSET Schedules : Enqueue(due)
  \/ Advance

Spec == Init /\ [][Next]_vars

=============================================================================
