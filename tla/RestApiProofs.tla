---------------------------- MODULE RestApiProofs ----------------------------
(***************************************************************************)
(* Theorems about RestApi for every set of clients, users, rows, columns   *)
(* and bodies, every limit and window of the throttle, and every bound on  *)
(* the clock, on requests and on faults.                                   *)
(*                                                                         *)
(* The argument.  The throttle: an entry that began in the present window  *)
(* accounts for everything admitted, by its count and a budget for each    *)
(* window before; one that began earlier leaves a part of its own window's *)
(* budget unused (CounterInv, Credit).  The same is true of what a check   *)
(* has read of it, until another one records (HitsInv).  A window opened   *)
(* late pays a budget for the one it will not keep closed.  A record that  *)
(* overtakes pays two: its own request and the ones it forgets, and the    *)
(* window it may bring back.  The handlers: a request                      *)
(* that has written can no longer be refused (WroteInv); a row that was    *)
(* looked up in scope leaves it only by another request (ScopeInv); and    *)
(* the values a parsed body gives are those it names (AskedIsWritten).     *)
(* The paging client: of the rows that stay as they are, a walk by cursor  *)
(* has shown exactly those not after its cursor (CursorWalk), boundaries   *)
(* excepted; a walk by page or offset, while nothing is written, exactly   *)
(* those on the pages it has fetched, since the position of a row without  *)
(* a twin is the same in every order the database may return (SliceWalk).  *)
(***************************************************************************)
EXTENDS RestApi, FiniteSetTheorems, TLAPS

LEMMA Assumptions ==
  /\ MaxAttempts \in Nat /\ Window \in Nat /\ Window > 0
  /\ MaxNow \in Nat
  /\ MaxRequests \in [Endpoints -> Nat] /\ MaxFaults \in [Endpoints -> Nat]
BY BoundAssumption

-----------------------------------------------------------------------------
(* The arithmetic of windows and budgets.                                  *)

LEMMA BudgetArith ==
  ASSUME NEW n \in Nat, NEW undone \in Nat
  PROVE  /\ Budget(n, undone) \in Nat
         /\ Budget(n + 1, undone) = Budget(n, undone) + MaxAttempts
         /\ Budget(1 + n, undone) = Budget(n, undone) + MaxAttempts
         /\ Budget(n, undone + 1) = Budget(n, undone) + 2 * MaxAttempts
BY Assumptions DEF Budget

LEMMA BudgetGrows ==
  ASSUME NEW n \in Nat, NEW m \in Nat, n <= m, NEW undone \in Nat
  PROVE  Budget(n, undone) <= Budget(m, undone)
BY Assumptions DEF Budget

(* Times a window apart fall in different windows, times less than that    *)
(* apart in the same one or in neighbours.                                 *)
LEMMA WindowArith ==
  ASSUME NEW n \in Nat, NEW m \in Nat
  PROVE  /\ n \div Window \in Nat
         /\ n <= m => n \div Window <= m \div Window
         /\ n + Window <= m => n \div Window + 1 <= m \div Window
         /\ m < n + Window => m \div Window <= n \div Window + 1
BY Assumptions

-----------------------------------------------------------------------------
(* Steps of one client's request.                                          *)

OthersStay(c) ==
  \A d \in Clients \ {c} : pc'[d] = pc[d] /\ req'[d] = req[d] /\ reply'[d] = reply[d]

RequestsType ==
  /\ pc \in [Clients -> Steps]
  /\ DOMAIN req = Clients
  /\ \A d \in Clients : IF pc[d] = "idle" THEN req[d] = NoRequest ELSE req[d] \in Request
  /\ reply \in [Clients -> Statuses]

LEMMA SameRequest == UNCHANGED endpoint => Request' = Request
BY DEF Request

LEMMA AnswerStep ==
  ASSUME TypeOK, NEW c \in Clients, NEW status \in Statuses, Answer(c, status),
         UNCHANGED endpoint
  PROVE  /\ RequestsType'
         /\ OthersStay(c)
         /\ pc'[c] = "idle" /\ reply'[c] = status
<1>1. /\ pc' \in [Clients -> Steps] /\ pc'[c] = "idle"
      /\ \A d \in Clients \ {c} : pc'[d] = pc[d]
  BY DEF TypeOK, Answer, Goto, Steps
<1>2. /\ reply' \in [Clients -> Statuses] /\ reply'[c] = status
      /\ \A d \in Clients \ {c} : reply'[d] = reply[d]
  BY DEF TypeOK, Answer
<1>3. /\ DOMAIN req' = Clients /\ req'[c] = NoRequest
      /\ \A d \in Clients \ {c} : req'[d] = req[d]
  BY DEF TypeOK, Answer
<1>4. \A d \in Clients :
        IF pc'[d] = "idle" THEN req'[d] = NoRequest ELSE req'[d] \in Request'
  BY <1>1, <1>3, SameRequest DEF TypeOK
<1>5. Statuses' = Statuses /\ Steps' = Steps /\ NoRequest' = NoRequest
  BY DEF Statuses, Steps, NoRequest
<1> QED
  BY <1>1, <1>2, <1>3, <1>4, <1>5 DEF RequestsType, OthersStay

(* A request that goes on, perhaps with more in its req.                   *)
LEMMA GotoStep ==
  ASSUME TypeOK, NEW c \in Clients, NEW step \in Steps \ {"idle"}, Goto(c, step),
         DOMAIN req' = Clients, req'[c] \in Request,
         \A d \in Clients \ {c} : req'[d] = req[d],
         UNCHANGED <<endpoint, reply>>
  PROVE  /\ RequestsType'
         /\ OthersStay(c)
         /\ pc'[c] = step
<1>1. /\ pc' \in [Clients -> Steps] /\ pc'[c] = step
      /\ \A d \in Clients \ {c} : pc'[d] = pc[d]
  BY DEF TypeOK, Goto
<1>2. \A d \in Clients :
        IF pc'[d] = "idle" THEN req'[d] = NoRequest ELSE req'[d] \in Request'
  BY <1>1, SameRequest DEF TypeOK
<1>3. Statuses' = Statuses /\ Steps' = Steps /\ NoRequest' = NoRequest
  BY DEF Statuses, Steps, NoRequest
<1> QED
  BY <1>1, <1>2, <1>3 DEF TypeOK, RequestsType, OthersStay

(* The throttle's invariants only depend on the throttle, and on requests  *)
(* that have read the counter.                                             *)
LEMMA ThrottleUntouched ==
  ASSUME CounterInv, HitsInv, NEW c \in Clients,
         \A d \in Clients \ {c} : pc'[d] = pc[d] /\ req'[d] = req[d],
         pc'[c] \notin {"judge", "purge", "record"},
         pc'[c] = "limit" => req'[c].hits.stamp <= now,
         UNCHANGED <<throttleVars, now>>
  PROVE  CounterInv' /\ HitsInv'
<1>1. UNCHANGED <<counter, admitted, late, lost, now>>
  BY DEF throttleVars
<1>2. \A u : Allowed(u)' = Allowed(u)
  BY <1>1 DEF Allowed, Budget
<1>3. \A entry : Credit(entry)' = Credit(entry) /\ EntryOK(entry)' = EntryOK(entry)
  BY <1>1 DEF Credit, Beyond, InPastWindow, EntryOK
<1>4. \A count, start : Beyond(count, start)' = Beyond(count, start)
  BY <1>1 DEF Beyond, InPastWindow
<1>5. CounterInv'
  BY <1>1, <1>2, <1>3 DEF CounterInv
<1>6. ASSUME NEW d \in Clients
      PROVE  HitsOK(d)'
  <2>1. CASE d = c
    BY <1>1, <2>1 DEF HitsOK
  <2>2. CASE d # c
    <3>1. HitsOK(d) /\ pc'[d] = pc[d] /\ req'[d] = req[d]
      BY <2>2 DEF HitsInv
    <3> QED
      BY <1>1, <1>2, <1>3, <1>4, <3>1 DEF HitsOK, Overtaken
  <2> QED
    BY <2>1, <2>2
<1> QED
  BY <1>5, <1>6 DEF HitsInv

(* A request that ends without touching the table: an error, a refusal, or *)
(* an answer from what it read.                                            *)
LEMMA AnswerInv ==
  ASSUME IInv, NEW c \in Clients, NEW status \in Statuses, Answer(c, status),
         wrote' \in [Clients -> BOOLEAN],
         \A d \in Clients \ {c} : wrote'[d] = wrote[d],
         wrote'[c] => status \notin Refusals,
         requests' \in 0..MaxRequests[endpoint], faults' \in 0..MaxFaults[endpoint],
         UNCHANGED <<endpoint, left, tableVars, throttleVars, now, walk>>
  PROVE  IInv'
<1>1. RequestsType' /\ OthersStay(c) /\ pc'[c] = "idle" /\ reply'[c] = status
  BY AnswerStep DEF IInv
<1>2. TypeOK'
  BY <1>1
  DEF IInv, TypeOK, RequestsType, Table, CounterEntry, WalkFields, NoWalk, tableVars,
      throttleVars
<1>3. WroteInv'
  BY <1>1 DEF IInv, WroteInv, OthersStay, Refusals
<1>4. NamedColumnsOnly'
  BY DEF IInv, NamedColumnsOnly, tableVars
<1>5. ScopeInv'
  BY <1>1 DEF IInv, ScopeInv, InScope, OthersStay, tableVars
<1>6. CounterInv' /\ HitsInv'
  BY <1>1, ThrottleUntouched DEF IInv, OthersStay
<1> QED
  BY <1>2, <1>3, <1>4, <1>5, <1>6 DEF IInv

-----------------------------------------------------------------------------
(* Requests come in.                                                       *)

LEMMA RefuseInv ==
  ASSUME IInv, NEW c \in Clients, Refuse(c)
  PROVE  IInv'
<1>1. "unauthorized" \in Statuses
  BY DEF Statuses
<1>2. requests' \in 0..MaxRequests[endpoint]
  BY Assumptions DEF IInv, TypeOK, Refuse
<1>3. /\ wrote' \in [Clients -> BOOLEAN] /\ ~wrote'[c]
      /\ \A d \in Clients \ {c} : wrote'[d] = wrote[d]
  BY DEF IInv, TypeOK, Refuse
<1> QED
  BY <1>1, <1>2, <1>3, AnswerInv DEF IInv, TypeOK, Refuse

LEMMA ArriveInv ==
  ASSUME IInv, NEW c \in Clients, NEW u \in Users, NEW m \in Methods, NEW p \in Pks,
         NEW b \in Bodies[endpoint], Arrive(c, u, m, p, b)
  PROVE  IInv'
<1> DEFINE stamp == IF Throttled(m) THEN now ELSE 0
           asked == [user |-> u, method |-> m, pk |-> p, body |-> b,
                     hits |-> [NoHits EXCEPT !.stamp = stamp]]
<1>1. asked \in Request /\ asked.hits.stamp <= now
  <2>1. stamp \in 0..MaxNow /\ stamp <= now
    BY Assumptions DEF IInv, TypeOK
  <2> HIDE DEF stamp
  <2>2. NoHits \in Hits
    BY Assumptions DEF NoHits, Hits
  <2>3. /\ [NoHits EXCEPT !.stamp = stamp] \in Hits
        /\ [NoHits EXCEPT !.stamp = stamp].stamp = stamp
    BY <2>1, <2>2 DEF Hits
  <2> QED
    BY <2>1, <2>3 DEF Request
<1> HIDE DEF asked
<1>2. /\ pc' \in [Clients -> Steps] /\ pc'[c] \in {"limit", "handle"}
      /\ \A d \in Clients \ {c} : pc'[d] = pc[d]
  BY DEF IInv, TypeOK, Arrive, Goto, Steps
<1>3. /\ DOMAIN req' = Clients /\ req'[c] = asked
      /\ \A d \in Clients \ {c} : req'[d] = req[d]
  BY DEF IInv, TypeOK, Arrive, asked
<1>4. \A d \in Clients :
        IF pc'[d] = "idle" THEN req'[d] = NoRequest ELSE req'[d] \in Request'
  BY <1>1, <1>2, <1>3, SameRequest DEF IInv, TypeOK, Arrive
<1>5. /\ reply' \in [Clients -> Statuses]
      /\ \A d \in Clients \ {c} : reply'[d] = reply[d]
  BY DEF IInv, TypeOK, Arrive, Statuses
<1>6. /\ wrote' \in [Clients -> BOOLEAN] /\ ~wrote'[c]
      /\ \A d \in Clients \ {c} : wrote'[d] = wrote[d]
      /\ left' \in [Clients -> BOOLEAN]
      /\ \A d \in Clients \ {c} : left'[d] = left[d]
  BY DEF IInv, TypeOK, Arrive
<1>7. requests' \in 0..MaxRequests[endpoint]
  BY Assumptions DEF IInv, TypeOK, Arrive
<1>8. TypeOK'
  BY <1>2, <1>3, <1>4, <1>5, <1>6, <1>7
  DEF IInv, TypeOK, Arrive, Table, CounterEntry, WalkFields, NoWalk, tableVars,
      throttleVars, Steps, Statuses, NoRequest
<1>9. WroteInv'
  BY <1>2, <1>5, <1>6 DEF IInv, WroteInv, Refusals
<1>10. NamedColumnsOnly'
  BY DEF IInv, NamedColumnsOnly, Arrive, tableVars
<1>11. ScopeInv'
  BY <1>2, <1>3, <1>6 DEF IInv, ScopeInv, InScope, Arrive, tableVars
<1>12. CounterInv' /\ HitsInv'
  <2>1. UNCHANGED <<throttleVars, now>>
    BY DEF Arrive
  <2> QED
    BY <1>1, <1>2, <1>3, <2>1, ThrottleUntouched DEF IInv
<1> QED
  BY <1>8, <1>9, <1>10, <1>11, <1>12 DEF IInv

-----------------------------------------------------------------------------
(* The throttle.                                                           *)

(* Steps of the throttle leave the rest of the invariant alone.            *)
LEMMA ThrottleStep ==
  ASSUME IInv, NEW c \in Clients, RequestsType', OthersStay(c),
         pc[c] \in {"limit", "judge", "purge", "record"},
         pc'[c] \in {"judge", "purge", "record", "handle"},
         counter' \in [Users -> CounterEntry \cup {NoEntry}],
         admitted' \in [Users -> Nat], late' \in [Users -> Nat], lost' \in [Users -> Nat],
         UNCHANGED <<endpoint, requests, wrote, left, tableVars, now, faults, walk>>
  PROVE  TypeOK' /\ WroteInv' /\ NamedColumnsOnly' /\ ScopeInv'
<1>1. TypeOK'
  BY DEF IInv, TypeOK, RequestsType, Table, CounterEntry, WalkFields, NoWalk, tableVars
<1>2. WroteInv'
  BY DEF IInv, WroteInv, OthersStay, Refusals
<1>3. NamedColumnsOnly'
  BY DEF IInv, NamedColumnsOnly, tableVars
<1>4. ScopeInv'
  BY DEF IInv, ScopeInv, InScope, OthersStay, tableVars
<1> QED
  BY <1>1, <1>2, <1>3, <1>4

(* Numbers of one user's counter.                                          *)
LEMMA CounterNumbers ==
  ASSUME IInv, NEW u \in Users
  PROVE  /\ counter[u] \in CounterEntry \cup {NoEntry} /\ EntryOK(counter[u])
         /\ now \in Nat /\ late[u] \in Nat /\ lost[u] \in Nat /\ admitted[u] \in Nat
         /\ Allowed(u) \in Nat
         /\ admitted[u] <= Allowed(u) + Credit(counter[u])
<1>1. /\ counter[u] \in CounterEntry \cup {NoEntry} /\ EntryOK(counter[u])
      /\ now \in Nat /\ late[u] \in Nat /\ lost[u] \in Nat /\ admitted[u] \in Nat
      /\ admitted[u] <= Allowed(u) + Credit(counter[u])
  BY Assumptions DEF IInv, TypeOK, CounterInv
<1>2. now \div Window + late[u] \in Nat
  BY <1>1, WindowArith
<1> QED
  BY <1>1, <1>2, BudgetArith DEF Allowed

(* What is allowed once a record or a purge has been counted.              *)
LEMMA AllowedAfter ==
  ASSUME IInv, now' = now, NEW u \in Users,
         late'[u] = late[u] \/ late'[u] = late[u] + 1,
         lost'[u] = lost[u] \/ lost'[u] = lost[u] + 1
  PROVE  Allowed(u)' = Allowed(u) + (IF late'[u] = late[u] THEN 0 ELSE MaxAttempts)
                                  + (IF lost'[u] = lost[u] THEN 0 ELSE 2 * MaxAttempts)
<1> DEFINE n == now \div Window + late[u]
           m == now \div Window + late'[u]
<1>1. n \in Nat /\ now \div Window \in Nat /\ late[u] \in Nat /\ lost[u] \in Nat
  BY CounterNumbers, WindowArith
<1>2. m \in Nat /\ (late'[u] = late[u] => m = n) /\ (late'[u] # late[u] => m = n + 1)
  BY <1>1
<1>3. Allowed(u) = Budget(n, lost[u]) /\ Allowed(u)' = Budget(m, lost'[u])
  BY DEF Allowed, Budget
<1> HIDE DEF n, m
<1>4. /\ Budget(n, lost[u]) \in Nat /\ Budget(m, lost[u]) \in Nat
      /\ Budget(n + 1, lost[u]) = Budget(n, lost[u]) + MaxAttempts
      /\ Budget(m, lost[u] + 1) = Budget(m, lost[u]) + 2 * MaxAttempts
  BY <1>1, <1>2, BudgetArith
<1>5. Budget(m, lost[u]) = Budget(n, lost[u]) + IF late'[u] = late[u] THEN 0 ELSE MaxAttempts
  BY <1>1, <1>2, <1>4
<1>6. Budget(m, lost'[u]) =
        Budget(m, lost[u]) + IF lost'[u] = lost[u] THEN 0 ELSE 2 * MaxAttempts
  BY <1>1, <1>4
<1> QED
  BY <1>3, <1>4, <1>5, <1>6, Assumptions

(* An entry never speaks for more than a budget beyond what is allowed,    *)
(* and for none once it has expired or its window is over.                 *)
LEMMA CreditBounds ==
  ASSUME NEW entry \in CounterEntry \cup {NoEntry}, EntryOK(entry), now \in Nat
  PROVE  /\ Credit(entry) \in Int /\ Credit(entry) <= MaxAttempts
         /\ \/ entry = NoEntry \/ Expired(entry)
            \/ entry.start + Window <= now
            => Credit(entry) <= 0
<1>1. CASE entry = NoEntry
  BY <1>1, Assumptions DEF Credit
<1>2. CASE entry # NoEntry
  <2>1. /\ entry.count \in Nat /\ entry.count <= MaxAttempts /\ entry.start \in Nat
        /\ entry.expires \in Nat /\ entry.start + Window <= entry.expires
    BY <1>2, Assumptions DEF CounterEntry, EntryOK
  <2>2. entry.start + Window <= now => InPastWindow(entry.start)
    <3>1. /\ entry.start \div Window \in Nat /\ now \div Window \in Nat
          /\ entry.start + Window <= now => entry.start \div Window + 1 <= now \div Window
      BY <2>1, WindowArith
    <3> QED
      BY <3>1 DEF InPastWindow
  <2>3. Expired(entry) => entry.start + Window <= now
    BY <2>1, Assumptions DEF Expired
  <2> QED
    BY <1>2, <2>1, <2>2, <2>3, Assumptions DEF Credit, Beyond
<1> QED
  BY <1>1, <1>2

(* Whatever the counter of u says, a budget per window has been admitted,  *)
(* counting the present window, and one less where no entry is current.    *)
LEMMA PresentBudget ==
  ASSUME IInv, NEW u \in Users
  PROVE  /\ admitted[u] <= Allowed(u) + MaxAttempts
         /\ (counter[u] = NoEntry \/ Expired(counter[u])) => admitted[u] <= Allowed(u)
<1>1. /\ Credit(counter[u]) \in Int /\ Credit(counter[u]) <= MaxAttempts
      /\ counter[u] = NoEntry \/ Expired(counter[u]) => Credit(counter[u]) <= 0
  BY CounterNumbers, CreditBounds
<1> QED
  BY <1>1, CounterNumbers, Assumptions

(* A check that is not overtaken keeps what it has read while the          *)
(* allowance grows; an overtaken one has nothing to keep.                  *)
LEMMA HitsKept ==
  ASSUME IInv, now' = now, NEW d \in Clients, pc'[d] = pc[d], req'[d] = req[d],
         pc[d] # "idle",
         admitted'[req[d].user] = admitted[req[d].user]
           \/ admitted'[req[d].user] = admitted[req[d].user] + 1,
         late'[req[d].user] = late[req[d].user] \/ late'[req[d].user] = late[req[d].user] + 1,
         lost'[req[d].user] = lost[req[d].user] \/ lost'[req[d].user] = lost[req[d].user] + 1
  PROVE  HitsOK(d)'
<1> DEFINE u == req[d].user
           hits == req[d].hits
<1>1. /\ HitsOK(d) /\ u \in Users /\ hits.after \in Nat /\ hits.count \in Nat
      /\ hits.found \in CounterEntry \cup {NoEntry}
  BY Assumptions DEF IInv, HitsInv, TypeOK, Request, Hits
<1>2. /\ Allowed(u) \in Nat /\ Allowed(u)' \in Nat /\ Allowed(u) <= Allowed(u)'
      /\ now \in Nat /\ admitted[u] \in Nat
  BY <1>1, CounterNumbers, AllowedAfter, Assumptions
<1>3. /\ Credit(hits.found)' = Credit(hits.found)
      /\ Beyond(hits.count, hits.start)' = Beyond(hits.count, hits.start)
      /\ EntryOK(hits.found)' = EntryOK(hits.found)
  BY DEF Credit, Beyond, InPastWindow, EntryOK
<1>4. Beyond(hits.count, hits.start) \in Int
  BY <1>1, Assumptions DEF Beyond
<1>5. EntryOK(hits.found) => Credit(hits.found) \in Int
  BY <1>1, <1>2, CreditBounds
<1>6. Overtaken(d)' <=> admitted'[u] > hits.after
  BY DEF Overtaken
<1>7. Overtaken(d) <=> admitted[u] > hits.after
  BY DEF Overtaken
<1>8. HitsOK(d)' <=>
        /\ pc[d] \in {"limit", "judge"} => hits.stamp <= now
        /\ pc[d] = "judge" =>
             /\ EntryOK(hits.found) /\ hits.after <= admitted'[u]
             /\ ~Overtaken(d)' => admitted'[u] <= Allowed(u)' + Credit(hits.found)
        /\ pc[d] \in {"purge", "record"} =>
             /\ hits.count < MaxAttempts
             /\ hits.start <= hits.since /\ hits.since <= now
             /\ hits.after <= admitted'[u]
             /\ ~Overtaken(d)' =>
                  admitted'[u] <= Allowed(u)' + Beyond(hits.count, hits.start)
                                    + IF hits.late THEN MaxAttempts ELSE 0
  BY <1>3 DEF HitsOK
<1>9. /\ pc[d] \in {"limit", "judge"} => hits.stamp <= now
      /\ pc[d] = "judge" =>
           /\ EntryOK(hits.found) /\ hits.after <= admitted[u]
           /\ ~Overtaken(d) => admitted[u] <= Allowed(u) + Credit(hits.found)
      /\ pc[d] \in {"purge", "record"} =>
           /\ hits.count < MaxAttempts
           /\ hits.start <= hits.since /\ hits.since <= now
           /\ hits.after <= admitted[u]
           /\ ~Overtaken(d) =>
                admitted[u] <= Allowed(u) + Beyond(hits.count, hits.start)
                                 + IF hits.late THEN MaxAttempts ELSE 0
  BY <1>1 DEF HitsOK
<1>10. admitted'[u] = admitted[u] \/ admitted'[u] = admitted[u] + 1
  OBVIOUS
<1> HIDE DEF u, hits
<1>11. /\ hits.after <= admitted[u] => hits.after <= admitted'[u]
       /\ hits.after <= admitted[u] /\ ~Overtaken(d)' =>
            ~Overtaken(d) /\ admitted'[u] = admitted[u]
  BY <1>1, <1>2, <1>6, <1>7, <1>10
<1>12. pc[d] = "judge" =>
         /\ EntryOK(hits.found) /\ hits.after <= admitted'[u]
         /\ ~Overtaken(d)' => admitted'[u] <= Allowed(u)' + Credit(hits.found)
  BY <1>2, <1>5, <1>9, <1>11
<1>13. pc[d] \in {"purge", "record"} /\ ~Overtaken(d)' =>
         admitted'[u] <= Allowed(u)' + Beyond(hits.count, hits.start)
                           + IF hits.late THEN MaxAttempts ELSE 0
  BY <1>2, <1>4, <1>9, <1>11, Assumptions
<1> QED
  BY <1>8, <1>9, <1>11, <1>12, <1>13

(* The same for everyone but c, whose step this is.                        *)
LEMMA OthersHits ==
  ASSUME IInv, now' = now, NEW c \in Clients, OthersStay(c),
         \A u \in Users : /\ admitted'[u] = admitted[u] \/ admitted'[u] = admitted[u] + 1
                          /\ late'[u] = late[u] \/ late'[u] = late[u] + 1
                          /\ lost'[u] = lost[u] \/ lost'[u] = lost[u] + 1,
         HitsOK(c)'
  PROVE  HitsInv'
<1>1. ASSUME NEW d \in Clients \ {c}
      PROVE  HitsOK(d)'
  <2>1. pc'[d] = pc[d] /\ req'[d] = req[d]
    BY DEF OthersStay
  <2>2. CASE pc[d] = "idle"
    BY <2>1, <2>2 DEF HitsOK
  <2>3. CASE pc[d] # "idle"
    <3>1. req[d].user \in Users
      BY <2>3 DEF IInv, TypeOK, Request
    <3> QED
      BY <2>1, <2>3, <3>1, HitsKept
  <2> QED
    BY <2>2, <2>3
<1> QED
  BY <1>1 DEF HitsInv

(* A counter that stays as it is.                                          *)
LEMMA CounterStays ==
  ASSUME IInv, now' = now, NEW u \in Users, counter'[u] = counter[u],
         admitted'[u] = admitted[u], late'[u] = late[u], lost'[u] = lost[u]
  PROVE  EntryOK(counter[u])' /\ admitted'[u] <= Allowed(u)' + Credit(counter[u])'
BY CounterNumbers DEF EntryOK, Allowed, Budget, Credit, Beyond, InPastWindow

LEMMA SelectEntryInv ==
  ASSUME IInv, NEW c \in Clients, SelectEntry(c)
  PROVE  IInv'
<1>1. /\ req[c] \in Request /\ pc[c] = "limit" /\ req[c].user \in Users /\ ~wrote[c]
      /\ req[c].hits.stamp <= now
  BY DEF IInv, TypeOK, WroteInv, HitsInv, HitsOK, SelectEntry, Request
<1> PICK u \in Users : u = req[c].user
  BY <1>1
<1>0. [req[c].hits EXCEPT !.found = counter[u], !.after = admitted[u]] \in Hits
  BY <1>1, CounterNumbers DEF Request, Hits
<1> PICK hits \in Hits :
      hits = [req[c].hits EXCEPT !.found = counter[u], !.after = admitted[u]]
  BY <1>0
<1>2. hits.stamp = req[c].hits.stamp /\ hits.found = counter[u] /\ hits.after = admitted[u]
  BY <1>1 DEF Request, Hits
<1>3. /\ DOMAIN req' = Clients
      /\ req'[c] = [req[c] EXCEPT !.hits = hits]
      /\ \A d \in Clients \ {c} : req'[d] = req[d]
  BY <1>1 DEF IInv, TypeOK, SelectEntry, Request, Hits
<1>4. req'[c] \in Request /\ req'[c].hits = hits /\ req'[c].user = u
  BY <1>1, <1>2, <1>3 DEF Request
<1>5. UNCHANGED <<counter, admitted, late, lost, now>>
  BY DEF SelectEntry, throttleVars
<1>6. RequestsType' /\ OthersStay(c) /\ pc'[c] = "judge"
  BY <1>3, <1>4, GotoStep DEF IInv, SelectEntry, Steps
<1>7. TypeOK' /\ WroteInv' /\ NamedColumnsOnly' /\ ScopeInv'
  BY <1>1, <1>5, <1>6, ThrottleStep DEF IInv, TypeOK, SelectEntry
<1>8. CounterInv'
  BY <1>5, CounterStays DEF CounterInv
<1>9. HitsOK(c)'
  <2>1. /\ admitted[u] \in Nat /\ EntryOK(counter[u])
        /\ admitted[u] <= Allowed(u) + Credit(counter[u])
    BY <1>1, CounterNumbers
  <2>2. /\ EntryOK(counter[u])' /\ admitted'[u] = admitted[u]
        /\ Allowed(u)' = Allowed(u) /\ Credit(counter[u])' = Credit(counter[u])
    BY <1>5, <2>1 DEF EntryOK, Allowed, Budget, Credit, Beyond, InPastWindow
  <2>3. req'[c].hits.found = counter[u] /\ req'[c].hits.after = admitted[u]
        /\ req'[c].hits.stamp <= now'
    BY <1>1, <1>2, <1>4, <1>5
  <2>4. EntryOK(req[c].hits.found)' /\ Credit(req[c].hits.found)' = Credit(counter[u])
    BY <1>5, <2>1, <2>3 DEF EntryOK, Credit, Beyond, InPastWindow
  <2> QED
    BY <1>4, <1>6, <2>1, <2>2, <2>3, <2>4 DEF HitsOK
<1>10. HitsInv'
  BY <1>5, <1>6, <1>9, OthersHits
<1> QED
  BY <1>7, <1>8, <1>10 DEF IInv

(* What a check goes on with is right: what an entry that still counts     *)
(* says, or that no more than the past windows' budgets was admitted.      *)
LEMMA CountedBudget ==
  ASSUME IInv, NEW c \in Clients, pc[c] = "judge"
  PROVE  LET hits == req[c].hits
             go == Counted(hits)
             u == req[c].user IN
         /\ go.count \in 0..MaxAttempts /\ go.start \in 0..MaxNow /\ go.start <= now
         /\ hits.after <= admitted[u]
         /\ ~Overtaken(c) =>
              admitted[u] <= Allowed(u) + Beyond(go.count, go.start)
                + IF go.count = 0 /\ InPastWindow(go.start) THEN MaxAttempts ELSE 0
<1> DEFINE hits == req[c].hits
           go == Counted(hits)
           u == req[c].user
           found == hits.found
<1>1. /\ hits.stamp \in 0..MaxNow /\ found \in CounterEntry \cup {NoEntry}
      /\ u \in Users /\ now \in Nat
  BY Assumptions DEF IInv, TypeOK, Request, Hits
<1>2. /\ hits.stamp <= now /\ EntryOK(found) /\ hits.after <= admitted[u]
      /\ ~Overtaken(c) => admitted[u] <= Allowed(u) + Credit(found)
  BY DEF IInv, HitsInv, HitsOK
<1>3. Allowed(u) \in Nat /\ admitted[u] \in Nat
  BY <1>1, CounterNumbers
<1>4. /\ Credit(found) \in Int
      /\ found = NoEntry \/ Expired(found) \/ found.start + Window <= now => Credit(found) <= 0
  BY <1>1, <1>2, CreditBounds
<1>5. found # NoEntry =>
        /\ found.count \in 1..MaxAttempts /\ found.start \in 0..MaxNow /\ found.start <= now
  BY <1>1, <1>2 DEF CounterEntry, EntryOK
<1> HIDE DEF hits, u
<1>6. CASE found = NoEntry \/ Expired(found) \/ ~WithinWindow(hits.stamp, found)
  <2>1. go = [count |-> 0, start |-> hits.stamp]
    BY <1>6 DEF Counted
  <2>2. ~WithinWindow(hits.stamp, found) /\ found # NoEntry => found.start + Window <= now
    BY <1>1, <1>2, <1>5, Assumptions DEF WithinWindow
  <2>3. Credit(found) <= 0
    BY <1>4, <1>6, <2>2
  <2>4. Beyond(0, hits.stamp) = IF InPastWindow(hits.stamp) THEN 0 - MaxAttempts ELSE 0
    BY DEF Beyond
  <2> QED
    BY <1>1, <1>2, <1>3, <1>4, <2>1, <2>3, <2>4, Assumptions DEF hits, u
<1>7. CASE ~(found = NoEntry \/ Expired(found) \/ ~WithinWindow(hits.stamp, found))
  <2>1. go = [count |-> found.count, start |-> found.start]
    BY <1>7 DEF Counted
  <2>2. Credit(found) = Beyond(found.count, found.start)
    BY <1>7 DEF Credit
  <2> QED
    <3>1. /\ go.count = found.count /\ go.start = found.start
          /\ found.count \in 1..MaxAttempts /\ found.start \in 0..MaxNow
          /\ found.start <= now
      BY <1>5, <1>7, <2>1
    <3>2. ~Overtaken(c) => admitted[u] <= Allowed(u) + Beyond(go.count, go.start)
      BY <1>2, <2>2, <3>1
    <3>3. go.count # 0 /\ go.count \in 0..MaxAttempts
      BY <3>1, Assumptions
    <3>4. /\ go.count \in 0..MaxAttempts /\ go.start \in 0..MaxNow /\ go.start <= now
          /\ hits.after <= admitted[u]
          /\ ~Overtaken(c) =>
               admitted[u] <= Allowed(u) + Beyond(go.count, go.start)
                 + IF go.count = 0 /\ InPastWindow(go.start) THEN MaxAttempts ELSE 0
      <4>1. Beyond(go.count, go.start) \in Int
        BY <3>3, Assumptions DEF Beyond
      <4> HIDE DEF go, found
      <4> QED
        BY <1>2, <1>3, <3>1, <3>2, <3>3, <4>1
    <3> QED
      BY <3>4 DEF hits, u
<1> QED
  BY <1>6, <1>7

LEMMA JudgeEntryInv ==
  ASSUME IInv, NEW c \in Clients, JudgeEntry(c)
  PROVE  IInv'
<1>1. /\ req[c] \in Request /\ pc[c] = "judge" /\ ~wrote[c] /\ req[c].user \in Users
  BY DEF IInv, TypeOK, WroteInv, JudgeEntry, Request
<1> PICK u \in Users : u = req[c].user
  BY <1>1
<1> PICK go : go = Counted(req[c].hits)
  OBVIOUS
<1> PICK opens \in BOOLEAN : opens = (go.count = 0 /\ InPastWindow(go.start))
  OBVIOUS
<1>2. /\ go.count \in 0..MaxAttempts /\ go.start \in 0..MaxNow /\ go.start <= now
      /\ req[c].hits.after <= admitted[u]
      /\ ~Overtaken(c) =>
           admitted[u] <= Allowed(u) + Beyond(go.count, go.start)
             + IF opens THEN MaxAttempts ELSE 0
  BY <1>1, CountedBudget
<1>3. UNCHANGED <<counter, admitted, late, lost, now>>
  BY DEF JudgeEntry, throttleVars
<1>4. CASE Exhausted(go.count)
  <2>1. Answer(c, "throttled") /\ "throttled" \in Statuses
    BY <1>4 DEF JudgeEntry, Statuses
  <2>2. wrote' = wrote
    BY DEF JudgeEntry
  <2> QED
    BY <1>1, <2>1, <2>2, AnswerInv DEF IInv, TypeOK, JudgeEntry
<1>5. CASE ~Exhausted(go.count)
  <2> DEFINE judged == [req[c].hits EXCEPT !.found = NoEntry, !.count = go.count,
                          !.start = go.start, !.since = now, !.late = opens]
  <2>0. judged \in Hits
    <3>1. now \in 0..MaxNow
      BY DEF IInv, TypeOK
    <3> QED
      BY <1>1, <1>2, <3>1 DEF Request, Hits
  <2> PICK hits \in Hits : hits = judged
    BY <2>0
  <2>1. /\ req' = [req EXCEPT ![c].hits = hits]
        /\ UNCHANGED reply
        /\ \E step \in {"purge", "record"} : Goto(c, step)
    BY <1>5 DEF JudgeEntry
  <2>2. /\ hits.count = go.count /\ hits.start = go.start
        /\ hits.since = now /\ hits.late = opens /\ hits.after = req[c].hits.after
    BY <1>1 DEF Request, Hits
  <2>3. /\ DOMAIN req' = Clients
        /\ req'[c] = [req[c] EXCEPT !.hits = hits]
        /\ \A d \in Clients \ {c} : req'[d] = req[d]
    BY <2>1 DEF IInv, TypeOK
  <2>4. req'[c] \in Request /\ req'[c].hits = hits /\ req'[c].user = u
    BY <1>1, <2>2, <2>3 DEF Request
  <2>5. RequestsType' /\ OthersStay(c) /\ pc'[c] \in {"purge", "record"}
    BY <2>1, <2>3, <2>4, GotoStep DEF IInv, JudgeEntry, Steps
  <2>6. TypeOK' /\ WroteInv' /\ NamedColumnsOnly' /\ ScopeInv'
    BY <1>1, <1>3, <2>5, ThrottleStep DEF IInv, TypeOK, JudgeEntry
  <2>7. CounterInv'
    BY <1>3, CounterStays DEF CounterInv
  <2>8. HitsOK(c)'
    <3>1. /\ Allowed(u)' = Allowed(u)
          /\ Beyond(hits.count, hits.start)' = Beyond(go.count, go.start)
      BY <1>3, <2>2 DEF Allowed, Budget, Beyond, InPastWindow
    <3>2. /\ hits.count < MaxAttempts /\ hits.start <= now /\ now \in Nat
      BY <1>2, <1>5, <2>2, Assumptions DEF Exhausted, IInv, TypeOK
    <3>3. Overtaken(c)' = Overtaken(c)
      BY <1>3, <2>2, <2>4 DEF Overtaken
    <3> QED
      BY <1>2, <1>3, <2>2, <2>4, <2>5, <3>1, <3>2, <3>3 DEF HitsOK
  <2>9. HitsInv'
    BY <1>3, <2>5, <2>8, OthersHits
  <2> QED
    BY <2>6, <2>7, <2>9 DEF IInv
<1> QED
  BY <1>4, <1>5

LEMMA PurgeExpiredInv ==
  ASSUME IInv, NEW c \in Clients, PurgeExpired(c)
  PROVE  IInv'
<1>1. req[c] \in Request /\ pc[c] = "purge" /\ req[c].user \in Users /\ HitsOK(c)
  BY DEF IInv, TypeOK, HitsInv, PurgeExpired, Request
<1> PICK u \in Users : u = req[c].user
  BY <1>1
<1>0. [req[c].hits EXCEPT !.since = now] \in Hits
  BY <1>1 DEF IInv, TypeOK, Request, Hits
<1> PICK hits \in Hits : hits = [req[c].hits EXCEPT !.since = now]
  BY <1>0
<1>2. /\ counter' \in [Users -> CounterEntry \cup {NoEntry}] /\ counter'[u] = NoEntry
      /\ \A v \in Users \ {u} : counter'[v] = counter[v]
  BY <1>1 DEF IInv, TypeOK, PurgeExpired
<1>3. /\ lost' \in [Users -> Nat]
      /\ lost'[u] = IF counter[u] # NoEntry /\ ~Expired(counter[u])
                      THEN lost[u] + 1 ELSE lost[u]
      /\ \A v \in Users \ {u} : lost'[v] = lost[v]
  BY <1>1 DEF IInv, TypeOK, PurgeExpired
<1>4. /\ DOMAIN req' = Clients
      /\ req'[c] = [req[c] EXCEPT !.hits = hits]
      /\ \A d \in Clients \ {c} : req'[d] = req[d]
  BY <1>1 DEF IInv, TypeOK, PurgeExpired
<1>5. /\ hits.since = now /\ hits.count = req[c].hits.count
      /\ hits.start = req[c].hits.start /\ hits.after = req[c].hits.after
      /\ hits.late = req[c].hits.late
  BY <1>1 DEF IInv, TypeOK, Request, Hits
<1>6. req'[c] \in Request /\ req'[c].hits = hits /\ req'[c].user = u
  BY <1>1, <1>4, <1>5 DEF Request
<1>7. RequestsType' /\ OthersStay(c) /\ pc'[c] = "record"
  BY <1>1, <1>4, <1>6, GotoStep DEF IInv, PurgeExpired, Steps
<1>8. TypeOK' /\ WroteInv' /\ NamedColumnsOnly' /\ ScopeInv'
  BY <1>1, <1>2, <1>3, <1>7, ThrottleStep DEF IInv, TypeOK, PurgeExpired
<1>9. UNCHANGED <<admitted, late, now>>
  BY DEF PurgeExpired
<1>10. /\ Allowed(u) \in Nat /\ Allowed(u)' \in Nat /\ Allowed(u) <= Allowed(u)'
       /\ lost'[u] # lost[u] => Allowed(u)' = Allowed(u) + 2 * MaxAttempts
       /\ now \in Nat /\ admitted[u] \in Nat
  BY <1>1, <1>3, <1>9, CounterNumbers, AllowedAfter, Assumptions
<1>11. CounterInv'
  <2> SUFFICES ASSUME NEW v \in Users
               PROVE  EntryOK(counter[v])' /\ admitted'[v] <= Allowed(v)' + Credit(counter[v])'
    BY DEF CounterInv
  <2>1. CASE v # u
    BY <1>2, <1>3, <1>9, <2>1, CounterStays
  <2>2. CASE v = u
    <3>1. admitted[u] <= Allowed(u)'
      <4>1. lost[u] \in Nat
        BY <1>1, CounterNumbers
      <4> QED
        BY <1>1, <1>3, <1>10, <4>1, PresentBudget, Assumptions
    <3>2. EntryOK(counter[u])' /\ Credit(counter[u])' = 0
      BY <1>2 DEF EntryOK, Credit
    <3> QED
      BY <1>9, <1>10, <2>2, <3>1, <3>2
  <2> QED
    BY <2>1, <2>2
<1>12. HitsOK(c)'
  <2>1. /\ hits.count < MaxAttempts /\ hits.start <= hits.since /\ hits.since <= now
        /\ hits.after <= admitted[u] /\ hits.count \in Nat
        /\ ~Overtaken(c) =>
             admitted[u] <= Allowed(u) + Beyond(hits.count, hits.start)
                              + IF hits.late THEN MaxAttempts ELSE 0
    <3>1. /\ hits.count \in Nat /\ hits.start \in Nat /\ hits.since \in Nat /\ now \in Nat
          /\ req[c].hits.since \in Nat
      BY <1>1, <1>5, <1>10, Assumptions DEF Request, Hits
    <3>2. /\ req[c].hits.count < MaxAttempts /\ req[c].hits.start <= req[c].hits.since
          /\ req[c].hits.since <= now /\ req[c].hits.after <= admitted[u]
          /\ ~Overtaken(c) =>
               admitted[u] <= Allowed(u) + Beyond(req[c].hits.count, req[c].hits.start)
                                + IF req[c].hits.late THEN MaxAttempts ELSE 0
      BY <1>1 DEF HitsOK
    <3> QED
      BY <1>5, <3>1, <3>2
  <2>2. Overtaken(c)' = Overtaken(c)
    BY <1>5, <1>6, <1>9 DEF Overtaken
  <2>3. /\ Beyond(hits.count, hits.start) \in Int
        /\ Beyond(hits.count, hits.start)' = Beyond(hits.count, hits.start)
    BY <1>5, <1>9, <2>1, Assumptions DEF Beyond, InPastWindow
  <2>4. ~Overtaken(c) =>
          admitted[u] <= Allowed(u)' + Beyond(hits.count, hits.start)
                           + IF hits.late THEN MaxAttempts ELSE 0
    BY <1>10, <2>1, <2>3, Assumptions
  <2>5. Beyond(req[c].hits.count, req[c].hits.start)' = Beyond(hits.count, hits.start)
    BY <1>6, <1>9 DEF Beyond, InPastWindow
  <2> QED
    BY <1>6, <1>7, <1>9, <2>1, <2>2, <2>4, <2>5 DEF HitsOK
<1>13. HitsInv'
  BY <1>1, <1>3, <1>7, <1>9, <1>12, OthersHits
<1> QED
  BY <1>8, <1>11, <1>13 DEF IInv

LEMMA RecordInv ==
  ASSUME IInv, NEW c \in Clients, Record(c)
  PROVE  IInv'
<1>1. req[c] \in Request /\ pc[c] = "record" /\ req[c].user \in Users
  BY DEF IInv, TypeOK, Record, Request
<1> PICK u \in Users : u = req[c].user
  BY <1>1
<1> PICK hits : hits = req[c].hits
  OBVIOUS
<1>2. /\ hits.count \in Nat /\ hits.count < MaxAttempts
      /\ hits.start \in 0..MaxNow /\ hits.since \in 0..MaxNow
      /\ hits.start <= hits.since /\ hits.since <= now /\ hits.late \in BOOLEAN
      /\ hits.after \in Nat /\ hits.after <= admitted[u]
      /\ ~Overtaken(c) =>
           admitted[u] <= Allowed(u) + Beyond(hits.count, hits.start)
                            + IF hits.late THEN MaxAttempts ELSE 0
  BY <1>1, Assumptions DEF IInv, HitsInv, HitsOK, Request, Hits
<1>3. PICK at \in hits.since..now : counter' = [counter EXCEPT ![u] = Recorded(hits, at)]
  BY DEF Record
<1> PICK entry : entry = Recorded(hits, at)
  OBVIOUS
<1>4. /\ entry.count = hits.count + 1 /\ entry.start = hits.start
      /\ entry.expires = at + Window
  BY DEF Recorded
<1>5. now \in Nat /\ at \in Nat /\ lost[u] \in Nat /\ late[u] \in Nat /\ admitted[u] \in Nat
  BY <1>1, <1>2, CounterNumbers
<1>6. entry \in CounterEntry /\ entry # NoEntry
  <2>1. entry \in CounterEntry
    BY <1>2, <1>5, Assumptions DEF Recorded, CounterEntry
  <2>2. CounterEntry \subseteq [count : Nat, start : Nat, expires : Nat]
    BY Assumptions DEF CounterEntry
  <2> QED
    BY <2>1, <2>2, CounterAssumption
<1>7. /\ counter' \in [Users -> CounterEntry \cup {NoEntry}] /\ counter'[u] = entry
      /\ \A v \in Users \ {u} : counter'[v] = counter[v]
  BY <1>1, <1>3, <1>6 DEF IInv, TypeOK
<1>8. /\ lost' \in [Users -> Nat]
      /\ lost'[u] = IF Overtaken(c) THEN lost[u] + 1 ELSE lost[u]
      /\ \A v \in Users \ {u} : lost'[v] = lost[v]
  BY <1>1 DEF IInv, TypeOK, Record
<1>9. /\ late' \in [Users -> Nat]
      /\ late'[u] = IF hits.late THEN late[u] + 1 ELSE late[u]
      /\ \A v \in Users \ {u} : late'[v] = late[v]
  BY <1>1 DEF IInv, TypeOK, Record
<1>10. /\ admitted' \in [Users -> Nat]
       /\ admitted'[u] = admitted[u] + 1
       /\ \A v \in Users \ {u} : admitted'[v] = admitted[v]
  BY <1>1 DEF IInv, TypeOK, Record
<1>11. /\ DOMAIN req' = Clients /\ req'[c] = [req[c] EXCEPT !.hits = NoHits]
       /\ \A d \in Clients \ {c} : req'[d] = req[d]
  BY <1>1 DEF IInv, TypeOK, Record
<1>12. req'[c] \in Request
  <2>1. NoHits \in Hits
    BY Assumptions DEF NoHits, Hits
  <2> QED
    BY <1>1, <1>11, <2>1 DEF Request
<1>13. RequestsType' /\ OthersStay(c) /\ pc'[c] = "handle"
  BY <1>1, <1>11, <1>12, GotoStep DEF IInv, Record, Steps
<1>14. now' = now
  BY DEF Record
<1>15. TypeOK' /\ WroteInv' /\ NamedColumnsOnly' /\ ScopeInv'
  BY <1>1, <1>7, <1>8, <1>9, <1>10, <1>13, ThrottleStep DEF IInv, TypeOK, Record
<1>16. CounterInv'
  <2> SUFFICES ASSUME NEW v \in Users
               PROVE  EntryOK(counter[v])' /\ admitted'[v] <= Allowed(v)' + Credit(counter[v])'
    BY DEF CounterInv
  <2>1. CASE v # u
    BY <1>7, <1>8, <1>9, <1>10, <1>14, <2>1, CounterStays
  <2>2. CASE v = u
    <3>1. Credit(counter[u])' = Beyond(hits.count, hits.start) + 1
      BY <1>2, <1>4, <1>6, <1>7, <1>14, Assumptions DEF Credit, Beyond, InPastWindow
    <3>2. /\ Beyond(hits.count, hits.start) \in Int
          /\ hits.count - MaxAttempts <= Beyond(hits.count, hits.start)
      BY <1>2, Assumptions DEF Beyond
    <3>3. /\ Allowed(u) \in Nat /\ admitted[u] <= Allowed(u) + MaxAttempts
          /\ Allowed(u)' = Allowed(u) + (IF late'[u] = late[u] THEN 0 ELSE MaxAttempts)
                                      + (IF lost'[u] = lost[u] THEN 0 ELSE 2 * MaxAttempts)
      BY <1>1, <1>8, <1>9, <1>14, CounterNumbers, PresentBudget, AllowedAfter
    <3>4. admitted[u] <= Allowed(u)' + Beyond(hits.count, hits.start)
      <4>1. CASE Overtaken(c)
        BY <1>2, <1>5, <1>8, <1>9, <3>2, <3>3, <4>1, Assumptions
      <4>2. CASE ~Overtaken(c)
        BY <1>2, <1>5, <1>8, <1>9, <3>2, <3>3, <4>2, Assumptions
      <4> QED
        BY <4>1, <4>2
    <3>5. admitted'[u] <= Allowed(u)' + Credit(counter[u])'
      <4>1. Allowed(u)' \in Nat
        BY <3>3, Assumptions
      <4> QED
        BY <1>5, <1>10, <3>1, <3>2, <3>4, <4>1
    <3>6. EntryOK(counter[u])'
      BY <1>2, <1>4, <1>5, <1>7, <1>14, Assumptions DEF EntryOK
    <3> QED
      BY <2>2, <3>5, <3>6
  <2> QED
    BY <2>1, <2>2
<1>17. HitsOK(c)'
  BY <1>13 DEF HitsOK
<1>18. HitsInv'
  BY <1>1, <1>8, <1>9, <1>10, <1>13, <1>14, <1>17, OthersHits
<1> QED
  BY <1>15, <1>16, <1>18 DEF IInv

(* Time passes: when a window ends, its budget joins those of the past.    *)
LEMMA TickAllowance ==
  ASSUME IInv, Tick, NEW u \in Users
  PROVE  /\ Allowed(u) \in Nat /\ Allowed(u)' \in Nat /\ Allowed(u) <= Allowed(u)'
         /\ \A count \in Int, start \in Nat :
              start <= now =>
                Allowed(u) + Beyond(count, start) <= Allowed(u)' + Beyond(count, start)'
<1> DEFINE n == now \div Window
           m == now' \div Window
<1>1. /\ now' = now + 1 /\ now \in Nat /\ late[u] \in Nat /\ lost[u] \in Nat
      /\ UNCHANGED <<late, lost>>
  BY CounterNumbers DEF Tick, throttleVars
<1>2. n \in Nat /\ m \in Nat /\ n <= m /\ m <= n + 1
  <2>1. now <= now' /\ now' < now + Window + 1 /\ now' \in Nat
    BY <1>1, Assumptions
  <2>2. n \in Nat /\ m \in Nat /\ n <= m
    BY <1>1, <2>1, WindowArith
  <2>3. m <= n + 1
    <3>1. CASE Window = 1
      BY <1>1, <3>1
    <3>2. CASE Window # 1
      <4>1. now' < now + Window
        BY <1>1, <3>2, Assumptions
      <4> QED
        BY <1>1, <2>1, <4>1, WindowArith
    <3> QED
      BY <3>1, <3>2
  <2> QED
    BY <2>2, <2>3
<1>3. /\ Allowed(u) = Budget(n + late[u], lost[u])
      /\ Allowed(u)' = Budget(m + late[u], lost[u])
  BY <1>1 DEF Allowed, Budget
<1>4. \A count, start :
        /\ Beyond(count, start) = IF start \div Window < n THEN count - MaxAttempts ELSE count
        /\ Beyond(count, start)' = IF start \div Window < m THEN count - MaxAttempts ELSE count
  BY DEF Beyond, InPastWindow
<1>5. \A start \in Nat : start \div Window \in Nat /\ (start <= now => start \div Window <= n)
  BY <1>1, WindowArith
<1> HIDE DEF n, m
<1>6. CASE m = n
  <2>1. Allowed(u) \in Nat /\ Allowed(u)' = Allowed(u)
    BY <1>3, <1>6, CounterNumbers
  <2>2. ASSUME NEW count \in Int, NEW start \in Nat
        PROVE  Beyond(count, start)' = Beyond(count, start) /\ Beyond(count, start) \in Int
    <3>1. Beyond(count, start)' = Beyond(count, start)
      BY <1>4, <1>6, Zenon
    <3>2. Beyond(count, start) \in {count, count - MaxAttempts} /\ count - MaxAttempts \in Int
      BY <1>4, Assumptions
    <3> QED
      BY <3>1, <3>2
  <2> QED
    BY <2>1, <2>2
<1>7. CASE m = n + 1
  <2>1. m + late[u] = (n + late[u]) + 1 /\ n + late[u] \in Nat
    BY <1>1, <1>2, <1>7
  <2>2. Allowed(u) \in Nat /\ Allowed(u)' = Allowed(u) + MaxAttempts
    <3> DEFINE k == n + late[u]
               undone == lost[u]
    <3>1. k \in Nat /\ undone \in Nat /\ m + late[u] = k + 1
      BY <1>1, <2>1
    <3>2. Allowed(u) = Budget(k, undone) /\ Allowed(u)' = Budget(k + 1, undone)
      BY <1>3, <3>1
    <3> HIDE DEF k, undone
    <3>3. Budget(k, undone) \in Nat /\ Budget(k + 1, undone) = Budget(k, undone) + MaxAttempts
      BY <3>1, BudgetArith
    <3> QED
      BY <3>2, <3>3
  <2>3. ASSUME NEW count \in Int, NEW start \in Nat, start <= now
        PROVE  Beyond(count, start) - MaxAttempts <= Beyond(count, start)'
               /\ Beyond(count, start) \in Int /\ Beyond(count, start)' \in Int
    BY <1>2, <1>4, <1>5, <1>7, <2>3, Assumptions
  <2> QED
    BY <2>2, <2>3, Assumptions
<1> QED
  BY <1>2, <1>6, <1>7

LEMMA TickInv ==
  ASSUME IInv, Tick
  PROVE  IInv'
<1>1. now' = now + 1 /\ now \in Nat /\ now' \in 0..MaxNow
  BY Assumptions DEF IInv, TypeOK, Tick
<1>2. TypeOK'
  BY <1>1
  DEF IInv, TypeOK, Tick, Request, Hits, Table, CounterEntry, WalkFields, NoWalk, requestVars,
      tableVars, throttleVars, Steps, Statuses, NoRequest
<1>3. WroteInv' /\ NamedColumnsOnly' /\ ScopeInv'
  BY DEF IInv, WroteInv, NamedColumnsOnly, ScopeInv, InScope, Refusals, Tick, requestVars,
         tableVars
<1>4. UNCHANGED <<counter, late, lost, admitted, pc, req>>
  BY DEF Tick, throttleVars, requestVars
<1>5. ASSUME NEW entry \in CounterEntry \cup {NoEntry}, EntryOK(entry), NEW u \in Users
      PROVE  /\ EntryOK(entry)' /\ Credit(entry) \in Int /\ Credit(entry)' \in Int
             /\ Allowed(u) + Credit(entry) <= Allowed(u)' + Credit(entry)'
  <2>1. CASE entry = NoEntry
    BY <2>1, TickAllowance DEF EntryOK, Credit
  <2>2. CASE entry # NoEntry
    <3>1. entry.count \in Int /\ entry.start \in Nat /\ entry.start <= now
      BY <1>5, <2>2, Assumptions DEF CounterEntry, EntryOK
    <3>2. EntryOK(entry)'
      BY <1>1, <1>5, <3>1 DEF EntryOK
    <3>3. /\ Credit(entry) = Beyond(entry.count, entry.start)
          /\ Credit(entry)' = Beyond(entry.count, entry.start)'
      BY <2>2 DEF Credit
    <3>4. Beyond(entry.count, entry.start) \in Int /\ Beyond(entry.count, entry.start)' \in Int
      BY <3>1, Assumptions DEF Beyond
    <3> QED
      BY <3>1, <3>2, <3>3, <3>4, TickAllowance
  <2> QED
    BY <2>1, <2>2
<1>6. CounterInv'
  <2> SUFFICES ASSUME NEW u \in Users
               PROVE  EntryOK(counter[u])' /\ admitted[u] <= Allowed(u)' + Credit(counter[u])'
    BY <1>4 DEF CounterInv, EntryOK, Credit, Beyond, InPastWindow
  <2>1. /\ counter[u] \in CounterEntry \cup {NoEntry} /\ EntryOK(counter[u])
        /\ admitted[u] \in Nat /\ admitted[u] <= Allowed(u) + Credit(counter[u])
    BY CounterNumbers
  <2> QED
    BY <1>4, <1>5, <2>1, TickAllowance
<1>7. ASSUME NEW d \in Clients
      PROVE  HitsOK(d)'
  <2>1. CASE pc[d] = "idle"
    BY <1>4, <2>1 DEF HitsOK
  <2>2. CASE pc[d] # "idle"
    <3> PICK hits : hits = req[d].hits
      OBVIOUS
    <3> PICK u : u = req[d].user
      OBVIOUS
    <3>1. /\ HitsOK(d) /\ hits \in Hits /\ u \in Users /\ hits.stamp \in Nat
          /\ hits.since \in Nat /\ hits.start \in Nat /\ hits.count \in Int
          /\ hits.found \in CounterEntry \cup {NoEntry}
      BY <2>2, Assumptions DEF IInv, HitsInv, TypeOK, Request, Hits
    <3>2. Overtaken(d)' = Overtaken(d) /\ admitted[u] \in Nat
      BY <1>4, <3>1, CounterNumbers DEF Overtaken
    <3>3. EntryOK(hits.found) =>
            /\ EntryOK(hits.found)' /\ Credit(hits.found) \in Int /\ Credit(hits.found)' \in Int
            /\ Allowed(u) + Credit(hits.found) <= Allowed(u)' + Credit(hits.found)'
      BY <1>5, <3>1
    <3> QED
      <4>1. /\ Allowed(u) \in Nat /\ Allowed(u)' \in Nat
            /\ Beyond(hits.count, hits.start) \in Int /\ Beyond(hits.count, hits.start)' \in Int
            /\ hits.start <= now =>
                 Allowed(u) + Beyond(hits.count, hits.start)
                   <= Allowed(u)' + Beyond(hits.count, hits.start)'
        <5>1. /\ Beyond(hits.count, hits.start) \in Int
              /\ Beyond(hits.count, hits.start)' \in Int
          BY <3>1, Assumptions DEF Beyond
        <5> QED
          BY <3>1, <5>1, TickAllowance
      <4>2. pc[d] \in {"limit", "judge"} => hits.stamp <= now'
        BY <1>1, <3>1 DEF HitsOK
      <4>3. pc[d] = "judge" =>
              /\ EntryOK(hits.found)' /\ hits.after <= admitted[u]
              /\ ~Overtaken(d) => admitted[u] <= Allowed(u)' + Credit(hits.found)'
        BY <3>1, <3>2, <3>3, <4>1 DEF HitsOK
      <4>4. pc[d] \in {"purge", "record"} =>
              /\ hits.count < MaxAttempts
              /\ hits.start <= hits.since /\ hits.since <= now'
              /\ hits.after <= admitted[u]
              /\ ~Overtaken(d) =>
                   admitted[u] <= Allowed(u)' + Beyond(hits.count, hits.start)'
                                    + IF hits.late THEN MaxAttempts ELSE 0
        <5>1. pc[d] \in {"purge", "record"} => hits.start <= now
          BY <1>1, <3>1 DEF HitsOK
        <5> QED
          BY <1>1, <3>1, <3>2, <4>1, <5>1, Assumptions DEF HitsOK
      <4> QED
        BY <1>4, <3>2, <4>2, <4>3, <4>4 DEF HitsOK
  <2> QED
    BY <2>1, <2>2
<1> QED
  BY <1>2, <1>3, <1>6, <1>7 DEF IInv, HitsInv

-----------------------------------------------------------------------------
(* The handlers.                                                           *)

LEMMA UnwrittenHandle ==
  ASSUME IInv, NEW c \in Clients, pc[c] \in {"limit", "judge", "purge", "record", "handle", "checked"}
  PROVE  ~wrote[c]
BY DEF IInv, WroteInv

(* Answers that write nothing.                                             *)
LEMMA AnsweredInv ==
  ASSUME IInv, NEW c \in Clients,
         Reject(c) \/ Retrieve(c) \/ UpdateNothing(c) \/ ReadBack(c) \/ DbError(c)
  PROVE  IInv'
<1>1. \E status \in Statuses :
        Answer(c, status) /\ (wrote[c] => status \notin Refusals)
  <2>1. CASE Reject(c)
    BY <2>1, UnwrittenHandle DEF Reject, Statuses
  <2>2. CASE Retrieve(c)
    BY <2>2, UnwrittenHandle DEF Retrieve, Handling, Statuses
  <2>3. CASE UpdateNothing(c)
    BY <2>3, UnwrittenHandle DEF UpdateNothing, Statuses
  <2>4. CASE ReadBack(c)
    BY <2>4 DEF ReadBack, ReadBackStatus, Statuses, Refusals
  <2>5. CASE DbError(c)
    BY <2>5, UnwrittenHandle DEF DbError, Handling, Statuses, Refusals
  <2> QED
    BY <2>1, <2>2, <2>3, <2>4, <2>5
<1>2. faults' \in 0..MaxFaults[endpoint] /\ requests' \in 0..MaxRequests[endpoint]
  BY Assumptions
  DEF IInv, TypeOK, Reject, Retrieve, UpdateNothing, ReadBack, DbError
<1>3. UNCHANGED <<endpoint, wrote, left, tableVars, throttleVars, now, walk>>
  BY DEF Reject, Retrieve, UpdateNothing, ReadBack, DbError
<1> QED
  BY <1>1, <1>2, <1>3, AnswerInv DEF IInv, TypeOK

LEMMA CheckScopeInv ==
  ASSUME IInv, NEW c \in Clients, CheckScope(c)
  PROVE  IInv'
<1>1. CASE Visible(c, req[c].pk)
  <2>1. req[c] \in Request /\ pc[c] = "handle"
    BY DEF IInv, TypeOK, CheckScope, Handling
  <2>2. Goto(c, "checked") /\ UNCHANGED <<req, reply>>
    BY <1>1 DEF CheckScope
  <2>3. RequestsType' /\ OthersStay(c) /\ pc'[c] = "checked"
    BY <2>1, <2>2, GotoStep DEF IInv, TypeOK, CheckScope, Steps
  <2>4. TypeOK'
    BY <2>3
    DEF IInv, TypeOK, RequestsType, CheckScope, Table, CounterEntry, WalkFields, NoWalk,
        tableVars, throttleVars
  <2>5. WroteInv' /\ NamedColumnsOnly'
    BY <2>1, <2>3
    DEF IInv, WroteInv, NamedColumnsOnly, CheckScope, OthersStay, Refusals, tableVars
  <2>6. ScopeInv'
    BY <1>1, <2>2, <2>3
    DEF IInv, ScopeInv, CheckScope, Visible, InScope, OthersStay, tableVars
  <2>7. CounterInv' /\ HitsInv'
    BY <2>3, ThrottleUntouched DEF IInv, OthersStay, CheckScope
  <2> QED
    BY <2>4, <2>5, <2>6, <2>7 DEF IInv
<1>2. CASE ~Visible(c, req[c].pk)
  <2>1. Answer(c, "notFound") /\ "notFound" \in Statuses /\ ~wrote[c]
    BY <1>2, UnwrittenHandle DEF CheckScope, Handling, Statuses
  <2> QED
    BY <2>1, AnswerInv DEF IInv, TypeOK, CheckScope
<1> QED
  BY <1>1, <1>2

(* A request that changes the table marks itself, and every lookup of      *)
(* another request that it makes out of date.                              *)
LEMMA ChangeTableStep ==
  ASSUME IInv, NEW c \in Clients, NEW table, DOMAIN table = Pks,
         \A p \in Pks : table[p] # Gone => DOMAIN table[p] = Columns,
         ChangeTable(c, table)
  PROVE  /\ DOMAIN rows' = Pks /\ \A p \in Table' : DOMAIN rows'[p] = Columns
         /\ wrote' \in [Clients -> BOOLEAN]
         /\ \A d \in Clients \ {c} : wrote'[d] = wrote[d]
         /\ left' \in [Clients -> BOOLEAN]
         /\ endpoint = "scoped" =>
              \A d \in Clients \ {c} :
                pc[d] = "checked" => InScope(req[d].user, rows'[req[d].pk]) \/ left'[d]
         /\ walk' # NoWalk => DOMAIN walk' = WalkFields /\ walk'.page \in Nat
<1>1. DOMAIN rows' = Pks /\ \A p \in Table' : DOMAIN rows'[p] = Columns
  BY DEF ChangeTable, Table
<1>2. /\ wrote' \in [Clients -> BOOLEAN]
      /\ \A d \in Clients \ {c} : wrote'[d] = wrote[d]
  BY DEF IInv, TypeOK, ChangeTable
<1>3. /\ left' \in [Clients -> BOOLEAN]
      /\ \A d \in Clients \ {c} :
           pc[d] = "checked" => InScope(req[d].user, rows'[req[d].pk]) \/ left'[d]
  BY DEF IInv, TypeOK, ChangeTable, InScope
<1>4. walk' # NoWalk => DOMAIN walk' = WalkFields /\ walk'.page \in Nat
  BY DEF IInv, TypeOK, ChangeTable, WalkFields
<1> QED
  BY <1>1, <1>2, <1>3, <1>4

(* What is common to the three writes, given the row each one writes.      *)
LEMMA WriteInv ==
  ASSUME IInv, NEW c \in Clients, NEW p \in Pks, NEW row, NEW asked,
         row # Gone => DOMAIN row = Columns,
         ChangeTable(c, [rows EXCEPT ![p] = row]),
         promised' = [promised EXCEPT ![p] = asked],
         endpoint # "scoped" => row = asked,
         RequestsType', OthersStay(c),
         \/ pc'[c] = "readBack"
         \/ pc'[c] = "idle" /\ reply'[c] \notin Refusals,
         UNCHANGED <<endpoint, requests, throttleVars, now, faults>>
  PROVE  IInv'
<1> DEFINE table == [rows EXCEPT ![p] = row]
<1>1. /\ DOMAIN table = Pks
      /\ \A q \in Pks : table[q] # Gone => DOMAIN table[q] = Columns
  BY DEF IInv, TypeOK, Table
<1> HIDE DEF table
<1>2. /\ DOMAIN rows' = Pks /\ \A q \in Table' : DOMAIN rows'[q] = Columns
      /\ wrote' \in [Clients -> BOOLEAN]
      /\ \A d \in Clients \ {c} : wrote'[d] = wrote[d]
      /\ left' \in [Clients -> BOOLEAN]
      /\ endpoint = "scoped" =>
           \A d \in Clients \ {c} :
             pc[d] = "checked" => InScope(req[d].user, rows'[req[d].pk]) \/ left'[d]
      /\ walk' # NoWalk => DOMAIN walk' = WalkFields /\ walk'.page \in Nat
  BY <1>1, ChangeTableStep DEF table
<1>3. DOMAIN promised' = Pks
  BY DEF IInv, TypeOK
<1>4. TypeOK'
  BY <1>2, <1>3
  DEF IInv, TypeOK, RequestsType, CounterEntry, WalkFields, NoWalk, throttleVars
<1>5. WroteInv'
  BY <1>2 DEF IInv, WroteInv, OthersStay, Refusals
<1>6. NamedColumnsOnly'
  <2>1. rows' = [rows EXCEPT ![p] = row]
    BY DEF ChangeTable
  <2> QED
    BY <2>1 DEF IInv, NamedColumnsOnly
<1>7. ScopeInv'
  BY <1>2 DEF ScopeInv, InScope, OthersStay
<1>8. CounterInv' /\ HitsInv'
  BY ThrottleUntouched DEF IInv, OthersStay
<1> QED
  BY <1>4, <1>5, <1>6, <1>7, <1>8 DEF IInv

LEMMA InsertInv ==
  ASSUME IInv, NEW c \in Clients, Insert(c)
  PROVE  IInv'
<1> DEFINE values == Parsed(c)
<1> DEFINE row == [col \in Columns |->
                     IF col \in DOMAIN values THEN values[col] ELSE NullValue]
<1>1. PICK p \in Keys[endpoint] \ Table :
        /\ ChangeTable(c, [rows EXCEPT ![p] = row])
        /\ promised' = [promised EXCEPT ![p] = row]
        /\ req' = [req EXCEPT ![c].pk = p]
  BY DEF Insert
<1> HIDE DEF values, row
<1>2. p \in Pks /\ DOMAIN row = Columns
  BY TableAssumption DEF IInv, TypeOK, row
<1>3. req[c] \in Request
  BY DEF IInv, TypeOK, Insert, Handling
<1>4. /\ DOMAIN req' = Clients /\ req'[c] \in Request
      /\ \A d \in Clients \ {c} : req'[d] = req[d]
  BY <1>1, <1>2, <1>3 DEF IInv, TypeOK, Request
<1>5. RequestsType' /\ OthersStay(c) /\ pc'[c] = "readBack"
  BY <1>4, GotoStep DEF IInv, Insert, Steps
<1> QED
  BY <1>1, <1>2, <1>5, WriteInv DEF Insert

(* The values that parsing makes of a body that is accepted, laid over a   *)
(* row, are what the request asked for.                                    *)
LEMMA AskedIsWritten ==
  ASSUME NEW c \in Clients, NEW old, endpoint # "scoped", ~Invalid(c)
  PROVE  Asked(c, old) =
           [col \in Columns |->
              IF col \in DOMAIN Parsed(c) THEN Parsed(c)[col] ELSE old[col]]
<1> DEFINE fs == FieldSets[endpoint]
<1> DEFINE body == req[c].body
<1> DEFINE default(col) == IF col \in Booleans \ Nullable THEN FalseValue ELSE NullValue
<1>1. \A col \in body.supplied : IsWritable(fs, col)
  BY DEF Invalid, ParseFails, SerializerErrors
<1>2. DOMAIN Parsed(c) =
        {col \in Columns : ~(Partial(c) /\ Absent(body, col)) /\ IsWritable(fs, col)}
  BY DEF Parsed, SerializerValues, DeserializedValues, Considered
<1>3. \A col \in DOMAIN Parsed(c) :
        Parsed(c)[col] = IF ~AbsentOrNull(body, col) THEN body.row[col] ELSE default(col)
  BY <1>2 DEF Parsed, SerializerValues, DeserializedValues, Considered
<1>4. ASSUME NEW col \in Columns
      PROVE  Asked(c, old)[col] =
               IF col \in DOMAIN Parsed(c) THEN Parsed(c)[col] ELSE old[col]
  <2>1. Asked(c, old)[col] =
          IF (IF Partial(c) THEN Absent(body, col) ELSE ~IsWritable(fs, col))
            THEN old[col]
          ELSE IF ~AbsentOrNull(body, col) THEN body.row[col]
          ELSE default(col)
    BY DEF Asked
  <2>2. Partial(c) /\ ~Absent(body, col) => IsWritable(fs, col)
    BY <1>1 DEF Absent
  <2> HIDE DEF fs, body, default
  <2> QED
    BY <1>2, <1>3, <2>1, <2>2
<1>5. Asked(c, old) = [col \in Columns |-> Asked(c, old)[col]]
  BY DEF Asked
<1> HIDE DEF fs, body, default
<1> QED
  BY <1>4, <1>5

LEMMA UpdateInv ==
  ASSUME IInv, NEW c \in Clients, Update(c)
  PROVE  IInv'
<1> DEFINE values == Parsed(c)
<1> DEFINE p == req[c].pk
<1> DEFINE row == [col \in Columns |->
                     IF col \in DOMAIN values THEN values[col] ELSE rows[p][col]]
<1>1. req[c] \in Request /\ p \in Pks
  BY DEF IInv, TypeOK, Request, Update
<1>2. [rows EXCEPT ![p] = row] =
        [rows EXCEPT ![p] = [col \in Columns |->
           IF col \in DOMAIN values THEN values[col] ELSE @[col]]]
  BY <1>1 DEF IInv, TypeOK
<1>3. ChangeTable(c, [rows EXCEPT ![p] = row])
  BY <1>2 DEF Update
<1>4. promised' = [promised EXCEPT ![p] = Asked(c, promised[p])]
  BY <1>1 DEF IInv, TypeOK, Update
<1>5. endpoint # "scoped" => row = Asked(c, promised[p])
  BY AskedIsWritten DEF IInv, NamedColumnsOnly, Update
<1>6. DOMAIN row = Columns
  OBVIOUS
<1> HIDE DEF values, p, row
<1>7. RequestsType' /\ OthersStay(c) /\ pc'[c] = "readBack"
  BY <1>1, GotoStep DEF IInv, TypeOK, Update, Steps
<1> QED
  BY <1>1, <1>3, <1>4, <1>5, <1>6, <1>7, WriteInv DEF Update

LEMMA DestroyInv ==
  ASSUME IInv, NEW c \in Clients, Destroy(c)
  PROVE  IInv'
<1>1. /\ pc[c] \in {"handle", "checked"} /\ req[c] \in Request
      /\ req[c].pk \in Pks /\ ~wrote[c]
  BY UnwrittenHandle DEF IInv, TypeOK, Request, Destroy, MayDestroy, Handling
<1>2. CASE rows[req[c].pk] = Gone
  BY <1>1, <1>2, AnswerInv DEF IInv, TypeOK, Destroy, Statuses
<1>3. CASE rows[req[c].pk] # Gone
  <2>1. /\ ChangeTable(c, [rows EXCEPT ![req[c].pk] = Gone])
        /\ promised' = [promised EXCEPT ![req[c].pk] = Gone]
        /\ Answer(c, "ok") /\ "ok" \in Statuses /\ "ok" \notin Refusals
    BY <1>3 DEF Destroy, Statuses, Refusals
  <2>2. RequestsType' /\ OthersStay(c) /\ pc'[c] = "idle" /\ reply'[c] = "ok"
    BY <2>1, AnswerStep DEF IInv, Destroy
  <2>3. reply'[c] \notin Refusals
    BY <2>2 DEF Refusals
  <2> QED
    BY <1>1, <2>1, <2>2, <2>3, WriteInv DEF Destroy
<1> QED
  BY <1>2, <1>3

-----------------------------------------------------------------------------
(* The paging client changes nothing but itself.                           *)
LEMMA WalkInv ==
  ASSUME IInv,
         \/ \E w \in Walks[endpoint] : StartWalk(w)
         \/ CountRows \/ RefuseCursor \/ FetchByCursor \/ FetchSlice
  PROVE  IInv'
<1>1. UNCHANGED <<endpoint, requestVars, tableVars, throttleVars, now, faults>>
  BY DEF StartWalk, CountRows, RefuseCursor, FetchByCursor, FetchSlice
<1>2. DOMAIN walk' = WalkFields /\ walk'.page \in Nat
  <2>1. CASE \E w \in Walks[endpoint] : StartWalk(w)
    BY <2>1 DEF StartWalk, WalkFields
  <2>2. CASE CountRows
    BY <2>2 DEF IInv, TypeOK, CountRows, WalkFields
  <2>3. CASE FetchByCursor
    BY <2>3 DEF IInv, TypeOK, FetchByCursor, WalkFields
  <2>4. CASE FetchSlice
    <3> DEFINE last == LastSlice(walk.req, walk.page, walk.total)
    <3>1. \E seen :
            walk' = [walk EXCEPT !.seen = seen,
                                 !.step = IF last THEN "done" ELSE "count",
                                 !.page = IF last THEN @ ELSE @ + 1]
      BY <2>4 DEF FetchSlice
    <3>2. DOMAIN walk = WalkFields /\ walk.page \in Nat
      BY <2>4 DEF IInv, TypeOK, FetchSlice
    <3> QED
      BY <3>1, <3>2 DEF WalkFields
  <2>5. CASE RefuseCursor
    BY <2>5 DEF IInv, TypeOK, RefuseCursor, WalkFields
  <2> QED
    BY <2>1, <2>2, <2>3, <2>4, <2>5
<1>3. TypeOK'
  BY <1>1, <1>2
  DEF IInv, TypeOK, Request, Hits, Table, CounterEntry, WalkFields, NoWalk, requestVars,
      tableVars, throttleVars, Steps, Statuses, NoRequest
<1>4. WroteInv' /\ NamedColumnsOnly' /\ ScopeInv'
  BY <1>1
  DEF IInv, WroteInv, NamedColumnsOnly, ScopeInv, InScope, Refusals, requestVars, tableVars
<1>5. CounterInv'
  BY <1>1
  DEF IInv, CounterInv, EntryOK, Allowed, Credit, Beyond, InPastWindow, Budget, throttleVars
<1>6. HitsInv'
  <2>1. UNCHANGED <<counter, admitted, late, lost, now, pc, req>>
    BY <1>1 DEF throttleVars, requestVars
  <2> QED
    BY <2>1
    DEF IInv, HitsInv, HitsOK, Overtaken, EntryOK, Allowed, Credit, Beyond, InPastWindow, Budget
<1> QED
  BY <1>3, <1>4, <1>5, <1>6 DEF IInv

-----------------------------------------------------------------------------
LEMMA InitInv == Init => IInv
<1> SUFFICES ASSUME Init PROVE IInv
  OBVIOUS
<1>1. TypeOK
  BY Assumptions, TableAssumption
  DEF Init, TypeOK, Table, Steps, Statuses, NoRequest, CounterEntry, NoWalk
<1>2. WroteInv /\ NamedColumnsOnly /\ ScopeInv /\ HitsInv
  BY DEF Init, WroteInv, NamedColumnsOnly, ScopeInv, HitsInv, HitsOK
<1>3. CounterInv
  <2>1. Budget(0 \div Window + 0, 0) \in Nat
    BY WindowArith, BudgetArith
  <2> QED
    BY <2>1 DEF Init, CounterInv, Allowed, Credit, EntryOK
<1> QED
  BY <1>1, <1>2, <1>3 DEF IInv

LEMMA StepInv == IInv /\ [Next]_vars => IInv'
<1> SUFFICES ASSUME IInv, [Next]_vars PROVE IInv'
  OBVIOUS
<1>1. ASSUME NEW c \in Clients,
             \/ Refuse(c) \/ SelectEntry(c) \/ JudgeEntry(c) \/ PurgeExpired(c) \/ Record(c)
             \/ Reject(c) \/ Retrieve(c) \/ Insert(c) \/ Update(c) \/ UpdateNothing(c)
             \/ ReadBack(c) \/ CheckScope(c) \/ Destroy(c) \/ DbError(c)
      PROVE  IInv'
  BY <1>1, RefuseInv, SelectEntryInv, JudgeEntryInv, PurgeExpiredInv, RecordInv, AnsweredInv,
     InsertInv, UpdateInv, CheckScopeInv, DestroyInv
<1>2. ASSUME NEW c \in Clients, NEW u \in Users, NEW m \in Methods, NEW p \in Pks,
             NEW b \in Bodies[endpoint], Arrive(c, u, m, p, b)
      PROVE  IInv'
  BY <1>2, ArriveInv
<1>3. CASE \/ \E w \in Walks[endpoint] : StartWalk(w)
           \/ CountRows \/ RefuseCursor \/ FetchByCursor \/ FetchSlice
  BY <1>3, WalkInv
<1>4. CASE Tick
  BY <1>4, TickInv
<1>5. CASE UNCHANGED vars
  <2>1. TypeOK'
    BY <1>5
    DEF IInv, TypeOK, Request, Table, CounterEntry, WalkFields, NoWalk, vars, requestVars,
        tableVars, throttleVars, Steps, Statuses, NoRequest
  <2>2. WroteInv' /\ NamedColumnsOnly' /\ ScopeInv'
    BY <1>5
    DEF IInv, WroteInv, NamedColumnsOnly, ScopeInv, InScope, Refusals, vars, requestVars,
        tableVars
  <2>3. CounterInv'
    BY <1>5
    DEF IInv, CounterInv, EntryOK, Allowed, Credit, Beyond, InPastWindow, Budget, vars,
        throttleVars
  <2>4. HitsInv'
    <3>1. UNCHANGED <<counter, admitted, late, lost, now, pc, req>>
      BY <1>5 DEF vars, throttleVars, requestVars
    <3> QED
      BY <3>1
      DEF IInv, HitsInv, HitsOK, Overtaken, EntryOK, Allowed, Credit, Beyond, InPastWindow,
          Budget
  <2> QED
    BY <2>1, <2>2, <2>3, <2>4 DEF IInv
<1> QED
  BY <1>1, <1>2, <1>3, <1>4, <1>5 DEF Next

(* Steps that change no row.                                               *)
LEMMA RowsStay ==
  ASSUME [Next]_vars, \A c \in Clients : ~Insert(c) /\ ~Update(c) /\ ~Destroy(c)
  PROVE  rows' = rows
<1>1. CASE UNCHANGED vars
  BY <1>1 DEF vars, tableVars
<1>2. ASSUME NEW c \in Clients,
             \/ Refuse(c) \/ SelectEntry(c) \/ JudgeEntry(c) \/ PurgeExpired(c) \/ Record(c)
             \/ Reject(c) \/ Retrieve(c) \/ UpdateNothing(c)
             \/ ReadBack(c) \/ CheckScope(c) \/ DbError(c)
      PROVE  rows' = rows
  BY <1>2
  DEF Refuse, SelectEntry, JudgeEntry, PurgeExpired, Record, Reject, Retrieve, UpdateNothing,
      ReadBack, CheckScope, DbError, tableVars
<1>3. ASSUME NEW c \in Clients, NEW u \in Users, NEW m \in Methods, NEW p \in Pks,
             NEW b \in Bodies[endpoint], Arrive(c, u, m, p, b)
      PROVE  rows' = rows
  BY <1>3 DEF Arrive, tableVars
<1>4. CASE \/ \E w \in Walks[endpoint] : StartWalk(w)
           \/ CountRows \/ RefuseCursor \/ FetchByCursor \/ FetchSlice
           \/ Tick
  BY <1>4 DEF StartWalk, CountRows, RefuseCursor, FetchByCursor, FetchSlice, Tick, tableVars
<1> QED
  BY <1>1, <1>2, <1>3, <1>4 DEF Next

LEMMA ScopedStep ==
  ASSUME IInv, [Next]_vars, endpoint = "scoped", NEW c \in Clients, NEW p \in Pks,
         pc'[c] # pc[c], rows[p] # Gone, rows'[p] # rows[p]
  PROVE  p = req[c].pk /\ (InScope(req[c].user, rows[p]) \/ left[c])
<1>1. PICK d \in Clients : Insert(d) \/ Update(d) \/ Destroy(d)
  BY RowsStay
<1>2. d = c
  BY <1>1 DEF IInv, TypeOK, Insert, Update, Destroy, Answer, Goto
<1>3. ~Insert(c)
  <2> SUFFICES ASSUME Insert(c) PROVE FALSE
    OBVIOUS
  <2>1. PICK q \in Keys[endpoint] \ Table :
          \E row : ChangeTable(c, [rows EXCEPT ![q] = row])
    BY DEF Insert
  <2>2. q \in Pks /\ rows[q] = Gone
    BY TableAssumption DEF IInv, TypeOK, Table
  <2> QED
    BY <2>1, <2>2 DEF IInv, TypeOK, ChangeTable
<1>4. CASE Update(c)
  <2>1. PICK row : rows' = [rows EXCEPT ![req[c].pk] = row]
    BY <1>4 DEF Update, ChangeTable
  <2> QED
    BY <1>4, <2>1 DEF IInv, TypeOK, Update, Visible
<1>5. CASE Destroy(c)
  <2>1. pc[c] = "checked"
    BY <1>5 DEF Destroy, MayDestroy
  <2>2. rows' = [rows EXCEPT ![req[c].pk] = Gone]
    BY <1>5 DEF Destroy, ChangeTable, tableVars
  <2> QED
    BY <2>1, <2>2 DEF IInv, TypeOK, ScopeInv
<1> QED
  BY <1>1, <1>2, <1>3, <1>4, <1>5

-----------------------------------------------------------------------------
(* Walks.  The size of a page.                                             *)
Limit(w) ==
  IF w.mode = "page" THEN SizeOf(w) ELSE LimitOffset(w.asked, 0, PageSize, MaxPageSize).limit

(* In an order of S, the position of p is the number of rows before it,    *)
(* when every other row is known to be before or after p.                  *)
LEMMA PositionCounts ==
  ASSUME NEW S, IsFiniteSet(S), NEW at \in [S -> 0..(Cardinality(S) - 1)],
         \A p, q \in S : p # q => at[p] # at[q],
         NEW p \in S, NEW Lower, NEW Upper, S = Lower \cup {p} \cup Upper,
         \A q \in Lower : at[q] < at[p], \A q \in Upper : at[p] < at[q]
  PROVE  at[p] = Cardinality(Lower)
<1> DEFINE n == Cardinality(S)
<1>0. n \in Nat
  BY FS_CardinalityType
<1>1. \A q \in S : at[q] \in 0..(n - 1)
  OBVIOUS
<1> HIDE DEF n
<1>2. /\ IsFiniteSet(Lower) /\ Cardinality(Lower) \in Nat
      /\ IsFiniteSet(Upper) /\ Cardinality(Upper) \in Nat
  BY FS_Subset, FS_CardinalityType
<1>3. n = Cardinality(Lower) + 1 + Cardinality(Upper)
  <2>1. p \notin Lower /\ p \notin Upper /\ Lower \cap (Upper \cup {p}) = {}
    BY <1>0, <1>1
  <2>2. IsFiniteSet(Upper \cup {p}) /\ Cardinality(Upper \cup {p}) = Cardinality(Upper) + 1
    BY <1>2, <2>1, FS_AddElement
  <2>3. Cardinality(Lower \cup (Upper \cup {p}))
          = Cardinality(Lower) + Cardinality(Upper \cup {p}) - Cardinality({})
    BY <1>2, <2>1, <2>2, FS_Union
  <2>4. S = Lower \cup (Upper \cup {p}) /\ Cardinality({}) = 0
    BY FS_EmptySet
  <2>5. n = Cardinality(Lower \cup (Upper \cup {p}))
    BY <2>4 DEF n
  <2> QED
    BY <1>2, <2>2, <2>3, <2>4, <2>5
<1>4. Cardinality(Lower) <= at[p]
  <2> DEFINE f == [q \in Lower |-> at[q]]
  <2>1. f \in Injection(Lower, 0..(at[p] - 1))
    <3>1. f \in [Lower -> 0..(at[p] - 1)]
      BY <1>0, <1>1
    <3> QED
      BY <3>1 DEF Injection, IsInjective
  <2>2. IsFiniteSet(0..(at[p] - 1)) /\ Cardinality(0..(at[p] - 1)) = at[p]
    <3>1. 0 \in Int /\ at[p] - 1 \in Int /\ at[p] \in Nat
      BY <1>0, <1>1
    <3> QED
      BY <3>1, FS_Interval
  <2> HIDE DEF f
  <2> QED
    BY <2>1, <2>2, FS_Injection
<1>5. Cardinality(Upper) <= n - 1 - at[p]
  <2> DEFINE f == [q \in Upper |-> at[q]]
  <2>1. f \in Injection(Upper, (at[p] + 1)..(n - 1))
    <3>1. f \in [Upper -> (at[p] + 1)..(n - 1)]
      BY <1>0, <1>1
    <3> QED
      BY <3>1 DEF Injection, IsInjective
  <2>2. /\ IsFiniteSet((at[p] + 1)..(n - 1))
        /\ Cardinality((at[p] + 1)..(n - 1)) = n - 1 - at[p]
    <3>1. at[p] + 1 \in Int /\ n - 1 \in Int /\ at[p] <= n - 1 /\ at[p] \in Int
      BY <1>0, <1>1
    <3> QED
      BY <3>1, FS_Interval
  <2> HIDE DEF f
  <2> QED
    BY <2>1, <2>2, FS_Injection
<1> QED
  BY <1>0, <1>1, <1>2, <1>3, <1>4, <1>5

(* A page has a positive size.                                             *)
LEMMA Sizes ==
  ASSUME NEW w, w.asked \in Int
  PROVE  SizeOf(w) \in Nat \ {0} /\ Limit(w) \in Nat \ {0}
<1>1. PageSize \in Nat /\ PageSize > 0 /\ MaxPageSize \in Nat
  BY BoundAssumption, ListAssumption
<1> QED
  BY <1>1 DEF SizeOf, ResolveSize, Clamp, Limit, LimitOffset

(* The pages before the last do not reach the total, the last one does.    *)
LEMMA PageArith ==
  ASSUME NEW total \in Nat, NEW size \in Nat \ {0}
  PROVE  /\ TotalPages(total, size) \in Nat \ {0}
         /\ TotalPages(total, size) * size >= total
         /\ \A n \in Nat \ {0} :
              n <= TotalPages(total, size) => Offset(n, size, total) = (n - 1) * size
<1>1. TotalPages(total, size) \in Nat \ {0} /\ TotalPages(total, size) * size >= total
  <2>1. CASE total = 0
    BY <2>1 DEF TotalPages
  <2>2. CASE total > 0
    <3> DEFINE k == (total + size - 1) \div size
    <3>1. k \in Nat /\ k * size + size > total + size - 1
      OBVIOUS
    <3>2. k > 0
      BY <2>2, <3>1
    <3>3. TotalPages(total, size) = k
      BY <2>2 DEF TotalPages
    <3>4. k * size \in Nat
      BY <3>1
    <3> HIDE DEF k
    <3> QED
      BY <3>1, <3>2, <3>3, <3>4
  <2> QED
    BY <2>1, <2>2
<1>2. ASSUME NEW n \in Nat \ {0}, n <= TotalPages(total, size)
      PROVE  Offset(n, size, total) = (n - 1) * size
  BY <1>1, <1>2 DEF Offset, Clamp
<1> QED
  BY <1>1, <1>2

-----------------------------------------------------------------------------
(* The rank of every row is a time or NULL.                                *)

RanksOK == \A p \in Table : rows[p]["rank"] \in Ranks

LEMMA RankParses ==
  ASSUME NEW e \in Endpoints, NEW b \in Bodies[e], NEW partial,
         DeserializeErrors(b, partial) = {}, "rank" \in Considered(b, partial)
  PROVE  DeserializedValues(b, partial)["rank"] \in Ranks
<1>1. "rank" \in Columns /\ "rank" \notin Booleans \cup Relations
  BY ListAssumption
<1>2. CASE AbsentOrNull(b, "rank")
  BY <1>1, <1>2 DEF DeserializedValues, Ranks
<1>3. CASE ~AbsentOrNull(b, "rank")
  <2>1. "rank" \notin b.malformed
    BY <1>1, <1>3 DEF DeserializeErrors
  <2>2. b.row["rank"] \in Int
    BY <2>1, ListAssumption
  <2> QED
    BY <1>3, <2>2 DEF DeserializedValues, Ranks
<1> QED
  BY <1>2, <1>3

LEMMA ParsedRank ==
  ASSUME TypeOK, NEW c \in Clients, pc[c] = "handle", ~Invalid(c), "rank" \in DOMAIN Parsed(c)
  PROVE  Parsed(c)["rank"] \in Ranks
<1>1. endpoint \in Endpoints /\ req[c].body \in Bodies[endpoint]
  BY DEF TypeOK, Request
<1>2. CASE endpoint = "scoped"
  <2>1. DeserializeErrors(req[c].body, FALSE) = {}
    BY <1>2 DEF Invalid
  <2>2. "rank" \in Considered(req[c].body, FALSE)
    BY <1>2 DEF Parsed, DeserializedValues
  <2> QED
    BY <1>1, <1>2, <2>1, <2>2, RankParses DEF Parsed
<1>3. CASE endpoint # "scoped"
  <2>1. DeserializeErrors(req[c].body, Partial(c)) = {}
    BY <1>3 DEF Invalid, ParseFails, SerializerErrors
  <2>2. /\ "rank" \in Considered(req[c].body, Partial(c))
        /\ Parsed(c)["rank"] = DeserializedValues(req[c].body, Partial(c))["rank"]
    <3> DEFINE values == DeserializedValues(req[c].body, Partial(c))
    <3>1. DOMAIN values = Considered(req[c].body, Partial(c))
      BY DEF DeserializedValues
    <3>2. Parsed(c) = [k \in {d \in DOMAIN values : IsWritable(FieldSets[endpoint], d)} |-> values[k]]
      BY <1>3 DEF Parsed, SerializerValues
    <3> HIDE DEF values
    <3>3. "rank" \in DOMAIN values /\ Parsed(c)["rank"] = values["rank"]
      BY <3>2
    <3> QED
      BY <3>1, <3>3 DEF values
  <2> QED
    BY <1>1, <2>1, <2>2, RankParses
<1> QED
  BY <1>2, <1>3

LEMMA RanksStep ==
  ASSUME IInv, RanksOK, [Next]_vars
  PROVE  RanksOK'
<1>0. TypeOK /\ "rank" \in Columns
  BY ListAssumption DEF IInv
<1>1. ASSUME NEW c \in Clients, Insert(c)
      PROVE  RanksOK'
  <2> DEFINE values == Parsed(c)
             row == [col \in Columns |-> IF col \in DOMAIN values THEN values[col] ELSE NullValue]
  <2>1. PICK p : rows' = [rows EXCEPT ![p] = row]
    BY <1>1 DEF Insert, ChangeTable
  <2>2. pc[c] = "handle" /\ ~Invalid(c)
    BY <1>1 DEF Insert, Handling
  <2>3. row["rank"] \in Ranks
    BY <1>0, <2>2, ParsedRank DEF Ranks
  <2> HIDE DEF row
  <2> QED
    BY <1>0, <2>1, <2>3 DEF RanksOK, Table, TypeOK
<1>2. ASSUME NEW c \in Clients, Update(c)
      PROVE  RanksOK'
  <2> DEFINE p == req[c].pk
             values == Parsed(c)
             row == [col \in Columns |-> IF col \in DOMAIN values THEN values[col] ELSE rows[p][col]]
  <2>1. rows' = [rows EXCEPT ![p] = row]
    BY <1>2 DEF Update, ChangeTable
  <2>2. pc[c] = "handle" /\ ~Invalid(c) /\ p \in Table
    BY <1>0, <1>2 DEF Update, Visible, InScope, Table, TypeOK, Request
  <2>3. row["rank"] \in Ranks
    BY <1>0, <2>2, ParsedRank DEF RanksOK
  <2> HIDE DEF row, p
  <2> QED
    BY <1>0, <2>1, <2>3 DEF RanksOK, Table, TypeOK
<1>3. ASSUME NEW c \in Clients, Destroy(c)
      PROVE  RanksOK'
  <2>1. UNCHANGED rows \/ \E p : rows' = [rows EXCEPT ![p] = Gone]
    BY <1>3 DEF Destroy, ChangeTable, tableVars
  <2> QED
    BY <1>0, <2>1 DEF RanksOK, Table, TypeOK
<1>4. CASE \A c \in Clients : ~Insert(c) /\ ~Update(c) /\ ~Destroy(c)
  <2>1. rows' = rows
    BY <1>4, RowsStay
  <2> QED
    BY <2>1 DEF RanksOK, Table
<1> QED
  BY <1>1, <1>2, <1>3, <1>4

-----------------------------------------------------------------------------
(* What a walk has seen.                                                   *)

(* The order of a list as far as rank tells rows apart.                    *)
Earlier(w, p, q) == RankSortsBefore(w, rows[p].rank, rows[q].rank)
Position(p) == Cardinality({q \in Listed : Earlier(walk.req, q, p)})
Twin(p) == \E q \in walk.stable \ {p} : rows[q]["rank"] = rows[p]["rank"]

CursorOK ==
  \/ walk.cursor = NoCursor /\ walk.ends = {}
  \/ walk.cursor.rank \in Int /\ walk.cursor.rank % 2 = 0 /\ walk.cursor.pk \in Pks
  \/ walk.cursor.rank = NullValue /\ walk.step # "done"

(* A row is still to come if it is after the cursor, and dropped if its    *)
(* rank is NULL and behind the pages so far.  Once the cursor is NULL the  *)
(* walk can only be refused.                                               *)
CursorWalk ==
  walk.req.mode = "cursor" =>
    /\ CursorOK
    /\ walk.cursor.rank # NullValue =>
         \A p \in walk.stable :
           \/ AtBoundary(p)
           \/ Dropped(p) /\ walk.seen[p] = 0
           \/ walk.seen[p] =
                IF walk.step # "done" /\ After(walk.cursor, rows[p], p, walk.req.descending)
                  THEN 0 ELSE 1

(* While nothing is written, a row is still to come if it is on a later    *)
(* page.                                                                   *)
SliceWalk ==
  walk.req.mode # "cursor" /\ walk.quiet =>
    /\ walk.stable = Listed
    /\ walk.page \in Nat \ {0}
    /\ walk.step = "fetch" => walk.total = Cardinality(Listed)
    /\ walk.req.mode = "page" => walk.page <= TotalPages(Cardinality(Listed), SizeOf(walk.req))
    /\ \A p \in walk.stable :
         \/ Twin(p)
         \/ walk.seen[p] =
              IF walk.step # "done" /\ Position(p) >= (walk.page - 1) * Limit(walk.req)
                THEN 0 ELSE 1

WalkOK ==
  /\ walk.req \in Walks[endpoint] /\ walk.step \in {"count", "fetch", "refused", "done"}
  /\ walk.stable \subseteq Listed /\ walk.ends \subseteq Ranks
  /\ walk.quiet \in BOOLEAN /\ walk.seen \in [Pks -> 0..2]

WalkSound == walk # NoWalk => WalkOK /\ CursorWalk /\ SliceWalk

(* WalkSound holds again after each kind of step: none of its own, a       *)
(* write, and the five of the paging client.                               *)
LEMMA WalkStays ==
  ASSUME WalkSound, UNCHANGED <<endpoint, rows, walk>>
  PROVE  WalkSound'
<1>1. Listed' = Listed /\ NoWalk' = NoWalk
  BY DEF Listed, ListedBy, ListedInScope, Table, InScope, NoWalk
<1>2. WalkOK' = WalkOK
  BY <1>1 DEF WalkOK
<1>3. CursorWalk' = CursorWalk
  BY DEF CursorWalk, CursorOK, AtBoundary, Dropped
<1>4. SliceWalk' = SliceWalk
  BY <1>1 DEF SliceWalk, Twin, Position, Earlier
<1> QED
  BY <1>1, <1>2, <1>3, <1>4 DEF WalkSound

LEMMA WalkSeesChange ==
  ASSUME TypeOK, WalkSound, NEW c, NEW table, ChangeTable(c, table), UNCHANGED endpoint
  PROVE  WalkSound'
<1>1. CASE walk = NoWalk
  BY <1>1 DEF ChangeTable, WalkSound, NoWalk
<1>2. CASE walk # NoWalk
  <2>1. /\ DOMAIN walk = WalkFields /\ WalkOK /\ CursorWalk
        /\ rows' = table
        /\ walk' = [walk EXCEPT !.quiet = FALSE, !.stable = {p \in @ : table[p] = rows[p]}]
    BY <1>2 DEF TypeOK, WalkSound, ChangeTable
  <2>2. /\ walk'.stable = {p \in walk.stable : rows'[p] = rows[p]}
        /\ walk'.quiet = FALSE
        /\ walk'.req = walk.req /\ walk'.step = walk.step /\ walk'.ends = walk.ends
        /\ walk'.seen = walk.seen /\ walk'.cursor = walk.cursor
    BY <2>1 DEF WalkFields
  <2>3. \A p \in walk'.stable : p \in walk.stable /\ rows'[p] = rows[p]
    BY <2>2
  <2>4. WalkOK'
    <3>1. walk'.stable \subseteq Listed'
      BY <2>1, <2>2, <2>3 DEF WalkOK, Listed, ListedBy, ListedInScope, Table, InScope
    <3> QED
      BY <2>1, <2>2, <3>1 DEF WalkOK
  <2>5. CursorWalk'
    BY <2>1, <2>2, <2>3 DEF CursorWalk, CursorOK, AtBoundary, Dropped
  <2>6. SliceWalk'
    BY <2>2 DEF SliceWalk
  <2> QED
    BY <2>4, <2>5, <2>6 DEF WalkSound
<1> QED
  BY <1>1, <1>2

LEMMA ListedFinite ==
  /\ Listed \subseteq Table /\ Table \subseteq Pks /\ IsFiniteSet(Listed)
  /\ Cardinality(Listed) \in Nat
  /\ \A p : Position(p) \in Nat
<1>1. Listed \subseteq Table /\ Table \subseteq Pks
  BY DEF Listed, ListedBy, ListedInScope, Table
<1>2. \A S : S \subseteq Listed => IsFiniteSet(S) /\ Cardinality(S) \in Nat
  BY <1>1, ListAssumption, FS_Subset, FS_CardinalityType
<1> QED
  BY <1>1, <1>2 DEF Position

LEMMA WalkStarts ==
  ASSUME TypeOK, NEW w \in Walks[endpoint], StartWalk(w)
  PROVE  WalkSound'
<1>1. /\ UNCHANGED <<endpoint, rows>>
      /\ walk'.req = w /\ walk'.step = "count" /\ walk'.page = 1 /\ walk'.cursor = NoCursor
      /\ walk'.ends = {} /\ walk'.seen = [p \in Pks |-> 0] /\ walk'.stable = ListedBy(w)
      /\ walk'.quiet = TRUE
  BY DEF StartWalk, tableVars
<1>2. Listed' = ListedBy(w)
  BY <1>1 DEF Listed, ListedBy, ListedInScope, Table, InScope
<1>3. Listed' \subseteq Pks
  BY <1>2 DEF ListedBy, ListedInScope, Table
<1>4. WalkOK'
  <2>1. walk'.seen \in [Pks -> 0..2]
    BY <1>1
  <2>2. walk'.req \in Walks[endpoint'] /\ walk'.stable \subseteq Listed'
    BY <1>1, <1>2
  <2> QED
    BY <1>1, <2>1, <2>2 DEF WalkOK
<1>5. CursorWalk'
  BY <1>1, <1>2, <1>3 DEF CursorWalk, CursorOK, After
<1>6. SliceWalk'
  <2>1. w.asked \in Int
    BY ListAssumption DEF TypeOK
  <2>2. Cardinality(Listed') \in Nat /\ \A p : Position(p)' \in Nat
    <3>1. \A S : S \subseteq Listed' => Cardinality(S) \in Nat
      BY <1>3, ListAssumption, FS_Subset, FS_CardinalityType
    <3> QED
      BY <3>1 DEF Position
  <2>3. 1 <= TotalPages(Cardinality(Listed'), SizeOf(w))
    <3>1. SizeOf(w) \in Nat \ {0}
      BY <2>1, Sizes
    <3>2. TotalPages(Cardinality(Listed'), SizeOf(w)) \in Nat \ {0}
      BY <2>2, <3>1, PageArith
    <3> QED
      BY <3>2
  <2>4. (1 - 1) * Limit(w) = 0
    BY <2>1, Sizes
  <2>5. \A p \in walk'.stable : walk'.seen[p] = 0 /\ Position(p)' >= (1 - 1) * Limit(w)
    BY <1>1, <1>2, <1>3, <2>2, <2>4
  <2> QED
    BY <1>1, <1>2, <2>3, <2>5 DEF SliceWalk
<1> QED
  BY <1>4, <1>5, <1>6 DEF WalkSound

LEMMA WalkCounts ==
  ASSUME TypeOK, WalkSound, CountRows
  PROVE  WalkSound'
<1>1. /\ UNCHANGED <<endpoint, rows>> /\ DOMAIN walk = WalkFields
      /\ WalkOK /\ CursorWalk /\ SliceWalk /\ walk.step = "count"
  BY DEF CountRows, tableVars, TypeOK, WalkSound
<1>2. /\ walk'.step = "fetch" /\ walk'.total = Cardinality(Listed)
      /\ walk'.req = walk.req /\ walk'.page = walk.page /\ walk'.cursor = walk.cursor
      /\ walk'.ends = walk.ends /\ walk'.seen = walk.seen /\ walk'.stable = walk.stable
      /\ walk'.quiet = walk.quiet
  BY <1>1 DEF CountRows, WalkFields
<1>3. Listed' = Listed
  BY <1>1, <1>2 DEF Listed, ListedBy, ListedInScope, Table, InScope
<1>4. WalkOK'
  BY <1>1, <1>2, <1>3 DEF WalkOK
<1>5. CursorWalk'
  BY <1>1, <1>2 DEF CursorWalk, CursorOK, AtBoundary, Dropped
<1>6. SliceWalk'
  <2>1. \A p : Position(p)' = Position(p) /\ Twin(p)' = Twin(p)
    BY <1>1, <1>2, <1>3 DEF Position, Earlier, Twin
  <2> QED
    BY <1>1, <1>2, <1>3, <2>1 DEF SliceWalk
<1> QED
  BY <1>4, <1>5, <1>6 DEF WalkSound

LEMMA WalkRefused ==
  ASSUME TypeOK, WalkSound, RefuseCursor
  PROVE  WalkSound'
<1>1. /\ UNCHANGED <<endpoint, rows>> /\ DOMAIN walk = WalkFields
      /\ WalkOK /\ CursorWalk /\ walk.req.mode = "cursor" /\ walk.cursor.rank = NullValue
  BY DEF RefuseCursor, tableVars, TypeOK, WalkSound
<1>2. /\ walk'.step = "refused" /\ walk'.req = walk.req /\ walk'.cursor = walk.cursor
      /\ walk'.ends = walk.ends /\ walk'.seen = walk.seen /\ walk'.stable = walk.stable
      /\ walk'.quiet = walk.quiet
  BY <1>1 DEF RefuseCursor, WalkFields
<1>3. Listed' = Listed
  BY <1>1, <1>2 DEF Listed, ListedBy, ListedInScope, Table, InScope
<1>4. WalkOK' /\ CursorWalk' /\ SliceWalk'
  BY <1>1, <1>2, <1>3 DEF WalkOK, CursorWalk, CursorOK, SliceWalk
<1> QED
  BY <1>4 DEF WalkSound

(* A cursor is written after the row z of key l, which was after the old   *)
(* one.  Away from boundaries, the rows after it are those that z sorts    *)
(* before.                                                                 *)
Moves(w, old, a, p, z, l) ==
  /\ old = NoCursor \/ (old.rank \in Int /\ old.rank % 2 = 0 /\ old.pk \in Int)
  /\ w.descending \in BOOLEAN /\ w.byFlag \in BOOLEAN /\ w.mode = "cursor"
  /\ a.rank \in Int /\ p \in Int /\ z.rank \in Int /\ l \in Int /\ NullValue \notin Int
  /\ After(old, z, l, w.descending)
  /\ ~(z.rank # WholeSecond(z.rank) /\ WholeSecond(a.rank) = WholeSecond(z.rank))
  /\ ~(w.byFlag /\ a.rank = z.rank)

LEMMA CursorMoves ==
  ASSUME NEW w, NEW old, NEW a, NEW p, NEW z, NEW l, Moves(w, old, a, p, z, l)
  PROVE  /\ After(Cursor(z, l), a, p, w.descending) => After(old, a, p, w.descending)
         /\ After(Cursor(z, l), a, p, w.descending) => SortsBefore(w, FlagRank, z, l, a, p)
         /\ ~After(Cursor(z, l), a, p, w.descending) =>
              p = l \/ SortsBefore(w, FlagRank, a, p, z, l)
<1> USE DEF Moves
<1> DEFINE new == Cursor(z, l)
<1> DEFINE e == z.rank
           s == WholeSecond(z.rank)
           r == a.rank
<1>1. s \in Int /\ s % 2 = 0 /\ (s = e \/ s = e - 1)
  BY DEF WholeSecond
<1>2. new.rank = s /\ new.pk = l
  BY DEF Cursor
<1> HIDE DEF new
<1>3. new # NoCursor
  BY <1>1, <1>2 DEF NoCursor
<1>4. s # e => r # s /\ r # e
  BY <1>1 DEF WholeSecond
<1>5. After(new, a, p, w.descending) <=>
        \/ IF w.descending THEN r < e ELSE r > e
        \/ r = e /\ (IF w.descending THEN p < l ELSE p > l)
  <2> HIDE DEF s
  <2> QED
    BY <1>1, <1>2, <1>3, <1>4 DEF After
<1>6. After(new, a, p, w.descending) => After(old, a, p, w.descending)
  <2>1. CASE old = NoCursor
    BY <2>1 DEF After
  <2>2. CASE old # NoCursor
    BY <1>5, <2>2 DEF After
  <2> QED
    BY <2>1, <2>2
<1>7. After(new, a, p, w.descending) => SortsBefore(w, FlagRank, z, l, a, p)
  BY <1>5 DEF SortsBefore, RankSortsBefore
<1>8. ~After(new, a, p, w.descending) => p = l \/ SortsBefore(w, FlagRank, a, p, z, l)
  BY <1>5 DEF SortsBefore, RankSortsBefore
<1> QED
  BY <1>6, <1>7, <1>8 DEF new

(* What a fetch adds.                                                      *)
LEMMA SeenOnce ==
  ASSUME walk.seen \in [Pks -> 0..2], NEW page, NEW p \in Pks
  PROVE  /\ SeenWith(page) \in [Pks -> 0..2]
         /\ p \notin page => SeenWith(page)[p] = walk.seen[p]
         /\ p \in page /\ walk.seen[p] = 0 => SeenWith(page)[p] = 1
<1>1. \A q \in Pks : walk.seen[q] \in 0..2
  OBVIOUS
<1>2. \A q \in Pks : (IF q \in page /\ walk.seen[q] < 2 THEN walk.seen[q] + 1 ELSE walk.seen[q]) \in 0..2
  BY <1>1
<1> QED
  BY <1>1, <1>2 DEF SeenWith

LEMMA WalkByCursor ==
  ASSUME TypeOK, RanksOK, WalkSound, FetchByCursor
  PROVE  WalkSound'
<1> DEFINE w == walk.req
           size == SizeOf(w)
           found == {p \in Listed : After(walk.cursor, rows[p], p, w.descending)}
<1>1. /\ UNCHANGED <<endpoint, rows>> /\ DOMAIN walk = WalkFields
      /\ WalkOK /\ CursorWalk /\ walk.step = "fetch" /\ w.mode = "cursor"
      /\ walk.cursor.rank # NullValue
  BY DEF FetchByCursor, tableVars, TypeOK, WalkSound
<1>2. /\ w \in Walks[endpoint] /\ w.asked \in Int /\ w.descending \in BOOLEAN
      /\ w.byFlag \in BOOLEAN /\ size \in Nat \ {0}
  <2>1. w \in Walks[endpoint] /\ w.asked \in Int /\ w.descending \in BOOLEAN /\ w.byFlag \in BOOLEAN
    BY <1>1, ListAssumption DEF WalkOK, TypeOK
  <2> QED
    BY <2>1, Sizes
<1>3. /\ found \subseteq Listed /\ found \subseteq Pks /\ IsFiniteSet(found)
      /\ Cardinality(found) \in Nat
  BY ListedFinite, FS_Subset, FS_CardinalityType
<1>4. \A p \in walk.stable : p \in Listed /\ p \in Pks /\ rows[p].rank \in Ranks
  BY <1>1, ListedFinite DEF WalkOK, RanksOK
<1>5. PICK at \in [found -> 0..(Cardinality(found) - 1)] :
        /\ \A p, q \in found : SortsBefore(w, FlagRank, rows[p], p, rows[q], q) => at[p] < at[q]
        /\ \A p, q \in found : p # q => at[p] # at[q]
        /\ LET page == {p \in found : at[p] < size} IN
           IF Cardinality(found) <= size
             THEN walk' = [walk EXCEPT !.seen = SeenWith(page), !.step = "done"]
             ELSE \E last \in page :
                    /\ at[last] = size - 1
                    /\ walk' = [walk EXCEPT !.seen = SeenWith(page), !.step = "count",
                         !.cursor = Cursor(rows[last], last), !.ends = @ \cup {rows[last].rank}]
  BY DEF FetchByCursor, Orders
<1> DEFINE page == {p \in found : at[p] < size}
<1>6. \A p \in found : at[p] \in 0..(Cardinality(found) - 1)
  OBVIOUS
<1>7. CASE Cardinality(found) <= size
  <2>1. /\ walk'.seen = SeenWith(page) /\ walk'.step = "done"
        /\ walk'.req = walk.req /\ walk'.ends = walk.ends /\ walk'.stable = walk.stable
        /\ walk'.quiet = walk.quiet /\ walk'.cursor = walk.cursor
    BY <1>1, <1>5, <1>7 DEF WalkFields
  <2>2. page = found
    BY <1>2, <1>3, <1>6, <1>7
  <2>3. Listed' = Listed
    BY <1>1, <2>1 DEF Listed, ListedBy, ListedInScope, Table, InScope
  <2>4. walk'.seen \in [Pks -> 0..2]
    BY <1>1, <2>1, SeenOnce DEF WalkOK, SeenWith
  <2>5. ASSUME NEW p \in walk.stable, ~AtBoundary(p)
        PROVE  (Dropped(p) /\ walk'.seen[p] = 0) \/ walk'.seen[p] = 1
    <3>1. \/ Dropped(p) /\ walk.seen[p] = 0
          \/ walk.seen[p] = IF After(walk.cursor, rows[p], p, w.descending) THEN 0 ELSE 1
      BY <1>1, <2>5 DEF CursorWalk
    <3>2. p \in found <=> After(walk.cursor, rows[p], p, w.descending)
      BY <1>4
    <3>3. Dropped(p) => p \notin found
      <4>1. Dropped(p) => walk.cursor # NoCursor /\ rows[p].rank = NullValue
        BY <1>1, ListAssumption DEF CursorWalk, CursorOK, Dropped, NoCursor
      <4> HIDE DEF found
      <4> QED
        BY <3>2, <4>1 DEF After
    <3> HIDE DEF page, found
    <3> QED
      BY <1>1, <1>4, <2>1, <2>2, <3>1, <3>2, <3>3, SeenOnce DEF WalkOK
  <2>6. WalkOK'
    BY <1>1, <2>1, <2>3, <2>4 DEF WalkOK
  <2>7. CursorWalk'
    <3>1. \A p : AtBoundary(p)' = AtBoundary(p) /\ Dropped(p)' = Dropped(p)
      BY <1>1, <2>1 DEF AtBoundary, Dropped
    <3> QED
      BY <1>1, <2>1, <2>5, <3>1 DEF CursorWalk, CursorOK
  <2>8. SliceWalk'
    BY <1>1, <2>1 DEF SliceWalk
  <2> QED
    BY <2>6, <2>7, <2>8 DEF WalkSound
<1>8. CASE ~(Cardinality(found) <= size)
  <2>1. PICK last \in page :
          /\ at[last] = size - 1
          /\ walk' = [walk EXCEPT !.seen = SeenWith(page), !.step = "count",
               !.cursor = Cursor(rows[last], last), !.ends = @ \cup {rows[last].rank}]
    BY <1>5, <1>8
  <2> DEFINE new == Cursor(rows[last], last)
  <2>2. /\ walk'.seen = SeenWith(page) /\ walk'.step = "count" /\ walk'.cursor = new
        /\ walk'.req = walk.req /\ walk'.ends = walk.ends \cup {rows[last].rank}
        /\ walk'.stable = walk.stable /\ walk'.quiet = walk.quiet
    BY <1>1, <2>1 DEF WalkFields
  <2>3. Listed' = Listed
    BY <1>1, <2>2 DEF Listed, ListedBy, ListedInScope, Table, InScope
  <2>4. walk'.seen \in [Pks -> 0..2]
    BY <1>1, <2>2, SeenOnce DEF WalkOK, SeenWith
  <2>5. /\ last \in found /\ last \in Pks /\ last \in Int /\ rows[last].rank \in Ranks
        /\ After(walk.cursor, rows[last], last, w.descending)
    BY <1>3, <2>1, ListedFinite, ListAssumption DEF RanksOK
  <2>6. /\ rows[last].rank \in Int =>
             new.rank \in Int /\ new.rank % 2 = 0 /\ new.pk \in Pks /\ new # NoCursor
        /\ rows[last].rank = NullValue => new.rank = NullValue
    <3>1. CASE rows[last].rank = NullValue
      BY <3>1, ListAssumption DEF Cursor
    <3>2. CASE rows[last].rank \in Int
      <4> DEFINE s == WholeSecond(rows[last].rank)
      <4>1. s \in Int /\ s % 2 = 0
        BY <3>2 DEF WholeSecond
      <4>2. new = [rank |-> s, pk |-> last]
        BY <3>2, ListAssumption DEF Cursor
      <4> HIDE DEF s
      <4> QED
        BY <2>5, <3>2, <4>1, <4>2, ListAssumption DEF NoCursor
    <3> QED
      BY <2>5, <3>1, <3>2 DEF Ranks
  <2>7. ASSUME rows[last].rank \in Int, NEW p \in walk.stable, ~AtBoundary(p)',
               rows[p].rank # NullValue
        PROVE  walk'.seen[p] = IF After(new, rows[p], p, w.descending) THEN 0 ELSE 1
    <3>1. /\ ~AtBoundary(p)
          /\ ~(rows[last].rank # WholeSecond(rows[last].rank)
               /\ WholeSecond(rows[p].rank) = WholeSecond(rows[last].rank))
          /\ ~(w.byFlag /\ rows[p].rank = rows[last].rank)
      BY <1>1, <2>2, <2>7, ListAssumption DEF AtBoundary
    <3>2. walk.seen[p] = IF After(walk.cursor, rows[p], p, w.descending) THEN 0 ELSE 1
      BY <1>1, <2>7, <3>1 DEF CursorWalk, Dropped
    <3>3. p \in found <=> After(walk.cursor, rows[p], p, w.descending)
      BY <1>4
    <3>4. p \in Pks /\ p \in Int /\ rows[p].rank \in Int
      BY <1>4, <2>7, ListAssumption DEF Ranks
    <3>5. \/ walk.cursor = NoCursor
          \/ walk.cursor.rank \in Int /\ walk.cursor.rank % 2 = 0 /\ walk.cursor.pk \in Int
      BY <1>1, ListAssumption DEF CursorWalk, CursorOK
    <3>6. /\ After(new, rows[p], p, w.descending) =>
               /\ After(walk.cursor, rows[p], p, w.descending)
               /\ SortsBefore(w, FlagRank, rows[last], last, rows[p], p)
          /\ ~After(new, rows[p], p, w.descending) =>
               p = last \/ SortsBefore(w, FlagRank, rows[p], p, rows[last], last)
      <4>1. Moves(w, walk.cursor, rows[p], p, rows[last], last)
        BY <1>1, <1>2, <2>5, <2>7, <3>1, <3>4, <3>5, ListAssumption DEF Moves
      <4> HIDE DEF w
      <4> QED
        BY <4>1, CursorMoves
    <3>7. CASE p \notin found
      <4>1. ~After(new, rows[p], p, w.descending) /\ p \notin page /\ walk.seen[p] = 1
        BY <3>2, <3>3, <3>6, <3>7
      <4> HIDE DEF page, new
      <4> QED
        BY <1>1, <2>2, <3>4, <4>1, SeenOnce DEF WalkOK
    <3>8. CASE p \in found
      <4>1. walk.seen[p] = 0
        BY <3>2, <3>3, <3>8
      <4>2. CASE After(new, rows[p], p, w.descending)
        <5>1. SortsBefore(w, FlagRank, rows[last], last, rows[p], p)
          BY <3>6, <4>2
        <5>2. p \notin page
          <6>1. at[last] < at[p] /\ at[last] = size - 1
            <7> HIDE DEF found, w, size
            <7> QED
              BY <1>5, <2>1, <2>5, <3>8, <5>1
          <6> QED
            BY <1>2, <1>6, <3>8, <6>1
        <5> HIDE DEF page, new
        <5> QED
          BY <1>1, <2>2, <3>4, <4>1, <4>2, <5>2, SeenOnce DEF WalkOK
      <4>3. CASE ~After(new, rows[p], p, w.descending)
        <5>1. p = last \/ at[p] < at[last]
          <6>1. p = last \/ SortsBefore(w, FlagRank, rows[p], p, rows[last], last)
            BY <3>6, <4>3
          <6> HIDE DEF found, w
          <6> QED
            BY <1>5, <2>5, <3>8, <6>1
        <5>2. p \in page
          BY <1>2, <1>6, <2>1, <3>8, <5>1
        <5> HIDE DEF page, new
        <5> QED
          BY <1>1, <2>2, <3>4, <4>1, <4>3, <5>2, SeenOnce DEF WalkOK
      <4> QED
        BY <4>2, <4>3
    <3> QED
      BY <3>7, <3>8
  <2>8. ASSUME rows[last].rank \in Int, NEW p \in walk.stable, rows[p].rank = NullValue
         PROVE  \/ Dropped(p)' /\ walk'.seen[p] = 0
                \/ walk'.seen[p] = 1
    <3>1. ~AtBoundary(p) /\ p \in Pks
      BY <1>4, <2>8 DEF AtBoundary
    <3>2. \/ Dropped(p) /\ walk.seen[p] = 0
          \/ walk.seen[p] = IF After(walk.cursor, rows[p], p, w.descending) THEN 0 ELSE 1
      BY <1>1, <2>8, <3>1 DEF CursorWalk
    <3>3. p \in found <=> After(walk.cursor, rows[p], p, w.descending)
      BY <1>4
    <3>4. p \in found <=> walk.cursor = NoCursor
      BY <2>8, <3>3 DEF After
    <3>5. Dropped(p)' <=> ~NullsFirst(w)
      BY <1>1, <2>2, <2>8 DEF Dropped
    <3>6. CASE p \notin found
      <4>1. walk'.seen[p] = walk.seen[p]
        <5>1. p \notin page
          BY <3>6
        <5> HIDE DEF page
        <5> QED
          BY <1>1, <2>2, <3>1, <5>1, SeenOnce DEF WalkOK
      <4> HIDE DEF found
      <4> QED
        BY <3>2, <3>3, <3>5, <3>6, <4>1 DEF Dropped
    <3>7. CASE p \in found
      <4>1. walk.seen[p] = 0
        BY <1>1, <3>2, <3>3, <3>4, <3>7, ListAssumption DEF CursorWalk, CursorOK, Dropped, NoCursor
      <4>2. IF NullsFirst(w) THEN SortsBefore(w, FlagRank, rows[p], p, rows[last], last)
                             ELSE SortsBefore(w, FlagRank, rows[last], last, rows[p], p)
        BY <2>8, ListAssumption DEF SortsBefore, RankSortsBefore
      <4>3. p \in page <=> NullsFirst(w)
        <5>1. IF NullsFirst(w) THEN at[p] < at[last] ELSE at[last] < at[p]
          <6> HIDE DEF found, w
          <6> QED
            BY <1>5, <2>5, <3>7, <4>2
        <5> QED
          BY <1>2, <1>6, <2>1, <3>7, <5>1
      <4> HIDE DEF page, new
      <4> QED
        BY <1>1, <2>2, <3>1, <3>5, <4>1, <4>3, SeenOnce DEF WalkOK
    <3> QED
      BY <3>6, <3>7
  <2>9. WalkOK'
    BY <1>1, <2>2, <2>3, <2>4, <2>5 DEF WalkOK
  <2>10. CursorWalk'
    <3> HIDE DEF new, page
    <3> QED
      BY <1>1, <2>2, <2>5, <2>6, <2>7, <2>8, ListAssumption
      DEF CursorWalk, CursorOK, After, Ranks
  <2>11. SliceWalk'
    BY <1>1, <2>2 DEF SliceWalk
  <2> QED
    BY <2>9, <2>10, <2>11 DEF WalkSound
<1> QED
  BY <1>7, <1>8

(* The window of page n, and what follows from being the last or not.      *)
LEMMA SliceIs ==
  ASSUME NEW w, w.asked \in Int, w.mode \in {"page", "offset"},
         NEW n \in Nat \ {0}, NEW total \in Nat,
         w.mode = "page" => n <= TotalPages(total, SizeOf(w))
  PROVE  /\ Slice(w, n, total).limit = Limit(w)
         /\ Slice(w, n, total).offset = (n - 1) * Limit(w)
         /\ LastSlice(w, n, total) => n * Limit(w) >= total
         /\ ~LastSlice(w, n, total) /\ w.mode = "page" =>
              n + 1 <= TotalPages(total, SizeOf(w))
         /\ n * Limit(w) = (n - 1) * Limit(w) + Limit(w)
         /\ (n - 1) * Limit(w) \in Nat
<1> DEFINE limit == Limit(w)
           pages == TotalPages(total, SizeOf(w))
<1>1. limit \in Nat \ {0} /\ SizeOf(w) \in Nat \ {0}
  BY Sizes
<1>2. pages \in Nat \ {0} /\ pages * SizeOf(w) >= total
  BY <1>1, PageArith
<1>3. n * limit = (n - 1) * limit + limit /\ (n - 1) * limit \in Nat
  <2> HIDE DEF limit
  <2> QED
    BY <1>1
<1>4. CASE w.mode = "page"
  <2>1. limit = SizeOf(w) /\ n <= pages
    BY <1>4 DEF Limit
  <2>2. Offset(n, SizeOf(w), total) = (n - 1) * SizeOf(w)
    BY <1>1, <2>1, PageArith
  <2>3. /\ Slice(w, n, total).limit = limit
        /\ Slice(w, n, total).offset = (n - 1) * limit
    BY <1>4, <2>1, <2>2 DEF Slice
  <2>4. LastSlice(w, n, total) <=> n >= pages
    BY <1>4 DEF LastSlice
  <2> HIDE DEF limit, pages
  <2>5. ~LastSlice(w, n, total) => n + 1 <= pages
    BY <1>2, <2>4
  <2>6. LastSlice(w, n, total) => n = pages
    BY <1>2, <2>1, <2>4
  <2> QED
    BY <1>2, <1>3, <2>1, <2>3, <2>5, <2>6 DEF limit, pages
<1>5. CASE w.mode = "offset"
  <2>1. limit = LimitOffset(w.asked, 0, PageSize, MaxPageSize).limit
    BY <1>5 DEF Limit
  <2>2. Slice(w, n, total) = LimitOffset(w.asked, (n - 1) * limit, PageSize, MaxPageSize)
    BY <1>5, <2>1 DEF Slice
  <2>3. /\ Slice(w, n, total).limit = limit
        /\ Slice(w, n, total).offset = (n - 1) * limit
    <3> HIDE DEF limit
    <3> QED
      BY <1>3, <2>1, <2>2 DEF LimitOffset
  <2>4. LastSlice(w, n, total) <=> (n - 1) * limit + limit >= total
    BY <1>5, <2>3 DEF LastSlice
  <2> HIDE DEF limit
  <2> QED
    BY <1>3, <1>5, <2>3, <2>4 DEF limit
<1> QED
  BY <1>4, <1>5

LEMMA WalkBySlice ==
  ASSUME TypeOK, RanksOK, WalkSound, FetchSlice
  PROVE  WalkSound'
<1> DEFINE w == walk.req
           n == walk.page
           slice == Slice(w, n, walk.total)
           last == LastSlice(w, n, walk.total)
           limit == Limit(w)
<1>1. /\ UNCHANGED <<endpoint, rows>> /\ DOMAIN walk = WalkFields
      /\ WalkOK /\ SliceWalk /\ walk.step = "fetch" /\ w.mode \in {"page", "offset"}
  BY DEF FetchSlice, tableVars, TypeOK, WalkSound
<1>2. PICK at \in [Listed -> 0..(Cardinality(Listed) - 1)] :
        /\ \A p, q \in Listed : SortsBefore(w, FlagRank, rows[p], p, rows[q], q) => at[p] < at[q]
        /\ \A p, q \in Listed : p # q => at[p] # at[q]
        /\ LET page == {p \in Listed : at[p] >= slice.offset /\ at[p] < slice.offset + slice.limit} IN
           walk' = [walk EXCEPT !.seen = SeenWith(page),
                                !.step = IF last THEN "done" ELSE "count",
                                !.page = IF last THEN @ ELSE @ + 1]
  BY DEF FetchSlice, Orders
<1> DEFINE page == {p \in Listed : at[p] >= slice.offset /\ at[p] < slice.offset + slice.limit}
<1>3. /\ walk'.seen = SeenWith(page) /\ walk'.step = (IF last THEN "done" ELSE "count")
      /\ walk'.page = (IF last THEN n ELSE n + 1)
      /\ walk'.req = w /\ walk'.ends = walk.ends /\ walk'.stable = walk.stable
      /\ walk'.quiet = walk.quiet
  <2> HIDE DEF page, last
  <2> QED
    BY <1>1, <1>2 DEF WalkFields, page, last
<1>4. Listed' = Listed
  BY <1>1, <1>3 DEF Listed, ListedBy, ListedInScope, Table, InScope
<1>5. WalkOK'
  <2>1. walk'.seen \in [Pks -> 0..2]
    BY <1>1, <1>3, SeenOnce DEF WalkOK, SeenWith
  <2> HIDE DEF last
  <2> QED
    BY <1>1, <1>3, <1>4, <2>1 DEF WalkOK
<1>6. CursorWalk'
  BY <1>1, <1>3 DEF CursorWalk
<1>7. ASSUME walk.quiet
      PROVE  SliceWalk'
  <2> DEFINE total == Cardinality(Listed)
  <2>1. /\ walk.stable = Listed /\ n \in Nat \ {0} /\ walk.total = total
        /\ w.mode = "page" => n <= TotalPages(total, SizeOf(w))
    BY <1>1, <1>7 DEF SliceWalk
  <2>2. total \in Nat /\ IsFiniteSet(Listed) /\ Listed \subseteq Pks /\ Listed \subseteq Table
    BY ListedFinite
  <2>3. w.asked \in Int /\ w.descending \in BOOLEAN
    BY <1>1, ListAssumption DEF WalkOK, TypeOK
  <2>4. limit \in Nat \ {0}
    BY <2>3, Sizes
  <2>5. /\ slice.limit = limit /\ slice.offset = (n - 1) * limit
        /\ last => n * limit >= total
        /\ ~last /\ w.mode = "page" => n + 1 <= TotalPages(total, SizeOf(w))
        /\ n * limit = (n - 1) * limit + limit /\ (n - 1) * limit \in Nat
    <3> HIDE DEF total, w, n
    <3> QED
      BY <1>1, <2>1, <2>2, <2>3, SliceIs DEF total, w, n
  <2>6. ASSUME NEW p \in Listed, ~Twin(p)
        PROVE  at[p] = Position(p)
    <3> DEFINE Lower == {q \in Listed : Earlier(w, q, p)}
               Upper == {q \in Listed : Earlier(w, p, q)}
    <3>1. \A q \in Listed : rows[q].rank \in Ranks
      BY <2>2 DEF RanksOK
    <3>2. \A q \in Listed \ {p} : rows[q].rank # rows[p].rank
      BY <2>1, <2>6 DEF Twin
    <3>3. Listed = Lower \cup {p} \cup Upper
      BY <2>3, <2>6, <3>1, <3>2, ListAssumption DEF Earlier, RankSortsBefore, Ranks
    <3>4. \A q \in Lower : at[q] < at[p]
      BY <1>2, <2>6 DEF Earlier, SortsBefore
    <3>5. \A q \in Upper : at[p] < at[q]
      BY <1>2, <2>6 DEF Earlier, SortsBefore
    <3>6. at[p] = Cardinality(Lower)
      <4> HIDE DEF Lower, Upper
      <4> QED
        BY <1>2, <2>2, <2>6, <3>3, <3>4, <3>5, PositionCounts
    <3> QED
      BY <3>6 DEF Position
  <2>7. ASSUME NEW p \in Listed, ~Twin(p)
        PROVE  walk'.seen[p] =
                 IF walk'.step # "done" /\ Position(p) >= (walk'.page - 1) * limit THEN 0 ELSE 1
    <3>1. /\ at[p] = Position(p) /\ at[p] \in 0..(total - 1) /\ p \in Pks
          /\ at[p] \in Nat /\ at[p] < total
      BY <1>2, <2>2, <2>6, <2>7
    <3>2. walk.seen[p] = IF at[p] >= (n - 1) * limit THEN 0 ELSE 1
      BY <1>1, <1>7, <2>1, <2>7, <3>1 DEF SliceWalk
    <3>3. p \in page <=> (at[p] >= (n - 1) * limit /\ at[p] < n * limit)
      BY <2>5
    <3>4. n * limit \in Nat
      BY <2>4, <2>5
    <3>5. /\ p \in page => walk'.seen[p] = 1
          /\ p \notin page => walk'.seen[p] = walk.seen[p]
      <4> HIDE DEF page, slice, limit, n
      <4> QED
        BY <1>1, <1>3, <2>4, <2>5, <3>1, <3>2, <3>3, SeenOnce DEF WalkOK
    <3>6. /\ last => walk'.step = "done"
          /\ ~last => walk'.step = "count" /\ (walk'.page - 1) * limit = n * limit
      <4>1. walk'.page = n + 1 => walk'.page - 1 = n
        BY <2>1
      <4> HIDE DEF last, limit
      <4> QED
        BY <1>3, <4>1
    <3> HIDE DEF page, slice, last, limit, n, total
    <3>7. CASE last
      BY <2>2, <2>5, <3>1, <3>2, <3>3, <3>4, <3>5, <3>6, <3>7 DEF total
    <3>8. CASE ~last
      BY <2>2, <2>4, <2>5, <3>1, <3>2, <3>3, <3>4, <3>5, <3>6, <3>8 DEF total
    <3> QED
      BY <3>7, <3>8
  <2>8. \A p : Position(p)' = Position(p) /\ Twin(p)' = Twin(p)
    BY <1>1, <1>3, <1>4 DEF Position, Earlier, Twin
  <2>9. /\ walk'.page \in Nat \ {0} /\ walk'.step # "fetch"
        /\ w.mode = "page" => walk'.page <= TotalPages(total, SizeOf(w))
    <3> HIDE DEF last, total
    <3> QED
      BY <1>3, <2>1, <2>5
  <2> HIDE DEF page, slice, last
  <2> QED
    BY <1>3, <1>4, <2>1, <2>7, <2>8, <2>9 DEF SliceWalk
<1>8. ASSUME ~walk.quiet
      PROVE  SliceWalk'
  BY <1>3, <1>8 DEF SliceWalk
<1> QED
  BY <1>5, <1>6, <1>7, <1>8 DEF WalkSound

-----------------------------------------------------------------------------
(* Every step of the endpoint keeps what is known of the walk.             *)
LEMMA WalkStep ==
  ASSUME IInv, RanksOK, WalkSound, [Next]_vars
  PROVE  WalkSound'
<1>0. TypeOK
  BY DEF IInv
<1>1. ASSUME NEW c \in Clients, Insert(c) \/ Update(c)
      PROVE  WalkSound'
  <2>1. UNCHANGED endpoint /\ \E table : ChangeTable(c, table)
    BY <1>1 DEF Insert, Update
  <2> QED
    BY <1>0, <2>1, WalkSeesChange
<1>2. ASSUME NEW c \in Clients, Destroy(c)
      PROVE  WalkSound'
  <2>1. /\ UNCHANGED endpoint
        /\ UNCHANGED <<rows, walk>> \/ \E table : ChangeTable(c, table)
    BY <1>2 DEF Destroy, tableVars
  <2> QED
    BY <1>0, <2>1, WalkSeesChange, WalkStays
<1>3. ASSUME NEW c \in Clients,
             \/ Refuse(c) \/ SelectEntry(c) \/ JudgeEntry(c) \/ PurgeExpired(c) \/ Record(c)
             \/ Reject(c) \/ Retrieve(c) \/ UpdateNothing(c)
             \/ ReadBack(c) \/ CheckScope(c) \/ DbError(c)
      PROVE  WalkSound'
  <2>1. UNCHANGED <<endpoint, rows, walk>>
    BY <1>3
    DEF Refuse, SelectEntry, JudgeEntry, PurgeExpired, Record, Reject, Retrieve, UpdateNothing,
        ReadBack, CheckScope, DbError, tableVars
  <2> QED
    BY <2>1, WalkStays
<1>4. ASSUME NEW c \in Clients, NEW u \in Users, NEW m \in Methods, NEW p \in Pks,
             NEW b \in Bodies[endpoint], Arrive(c, u, m, p, b)
      PROVE  WalkSound'
  <2>1. UNCHANGED <<endpoint, rows, walk>>
    BY <1>4 DEF Arrive, tableVars
  <2> QED
    BY <2>1, WalkStays
<1>5. CASE Tick \/ UNCHANGED vars
  <2>1. UNCHANGED <<endpoint, rows, walk>>
    BY <1>5 DEF Tick, tableVars, vars
  <2> QED
    BY <2>1, WalkStays
<1>6. CASE \/ \E w \in Walks[endpoint] : StartWalk(w)
           \/ CountRows \/ RefuseCursor \/ FetchByCursor \/ FetchSlice
  BY <1>0, <1>6, WalkStarts, WalkCounts, WalkRefused, WalkByCursor, WalkBySlice
<1> QED
  BY <1>1, <1>2, <1>3, <1>4, <1>5, <1>6 DEF Next

LEMMA WalkInit == Init => RanksOK /\ WalkSound
<1> SUFFICES ASSUME Init PROVE RanksOK /\ WalkSound
  OBVIOUS
<1>1. RanksOK
  BY ListAssumption DEF Init, RanksOK, Table
<1> QED
  BY <1>1 DEF Init, WalkSound

-----------------------------------------------------------------------------
(* The invariant the theorems below are read off: the types, and what is   *)
(* known of requests under way and of the throttle's counters.             *)
THEOREM InductiveInvariant == Spec => []IInv
BY InitInv, StepInv, PTL DEF Spec

(* A request answered with a 4xx has not changed the table, whatever the   *)
(* others did between its steps.                                           *)
THEOREM RefusalsAreClean == Spec => []RefusedMeansUntouched
<1>1. IInv => RefusedMeansUntouched
  BY DEF IInv, WroteInv, RefusedMeansUntouched
<1> QED
  BY <1>1, InductiveInvariant, PTL

(* Through a ViewSet with any FieldSet, and any bodies, PATCH changes the  *)
(* columns it supplies and PUT the writable ones, to what was asked.       *)
THEOREM WritesAreAsked == Spec => []NamedColumnsOnly
<1>1. IInv => NamedColumnsOnly
  BY DEF IInv
<1> QED
  BY <1>1, InductiveInvariant, PTL

(* RateLimiter::check, for any number of concurrent requests: what a user  *)
(* is admitted beyond a budget per window was paid for by windows opened   *)
(* late and records undone.                                                *)
THEOREM BudgetPerWindow == Spec => []WindowBudget
<1>1. IInv => WindowBudget
  <2> SUFFICES ASSUME IInv, NEW u \in Users
               PROVE  admitted[u] <= Budget(1 + now \div Window + late[u], lost[u])
    BY DEF WindowBudget
  <2>1. now \div Window \in Nat /\ late[u] \in Nat /\ lost[u] \in Nat
    BY CounterNumbers, WindowArith
  <2>2. /\ now \div Window + late[u] \in Nat
        /\ 1 + now \div Window + late[u] = (now \div Window + late[u]) + 1
    BY <2>1
  <2>3. Budget(1 + now \div Window + late[u], lost[u]) = Allowed(u) + MaxAttempts
    <3> DEFINE k == now \div Window + late[u]
               undone == lost[u]
    <3>1. k \in Nat /\ undone \in Nat /\ 1 + now \div Window + late[u] = k + 1
      BY <2>1, <2>2
    <3>2. Allowed(u) = Budget(k, undone)
      BY DEF Allowed
    <3>3. Budget(1 + now \div Window + late[u], lost[u]) = Budget(k + 1, undone)
      BY <3>1
    <3> HIDE DEF k, undone
    <3>4. Budget(k + 1, undone) = Budget(k, undone) + MaxAttempts
      BY <3>1, BudgetArith
    <3> QED
      BY <3>2, <3>3, <3>4
  <2>4. admitted[u] <= Allowed(u) + MaxAttempts
    BY PresentBudget, Zenon
  <2> QED
    BY <2>3, <2>4
<1> QED
  BY <1>1, InductiveInvariant, PTL

(* update and destroy of a ScopedViewSet change the row that was asked     *)
(* for, and only one of the caller's, save for the row that left the scope *)
(* between the lookup of destroy and its DELETE.                           *)
THEOREM ScopeIsKept == Spec => ScopedWritesStayInScope
<1> DEFINE Kept ==
      endpoint = "scoped" =>
        \A c \in Clients, p \in Pks :
          (pc'[c] # pc[c] /\ rows[p] # Gone /\ rows'[p] # rows[p]) =>
            p = req[c].pk /\ (InScope(req[c].user, rows[p]) \/ left[c])
<1>1. IInv /\ [Next]_vars => [Kept]_vars
  BY ScopedStep
<1> QED
  BY <1>1, InductiveInvariant, PTL DEF Spec, ScopedWritesStayInScope

(* A walk that has finished has shown each row that stayed as it was       *)
(* exactly once: by cursor except the rows at a boundary, which a cursor   *)
(* of whole seconds cannot place, and those whose rank is NULL, behind a   *)
(* first page that had no room for them, which it does not show; by page   *)
(* or offset when nothing was written meanwhile and no other row has the   *)
(* same rank.                                                              *)
THEOREM WalksAreComplete == Spec => []WalkIsComplete
<1>1. Spec => [](RanksOK /\ WalkSound)
  BY WalkInit, RanksStep, WalkStep, InductiveInvariant, PTL DEF Spec
<1>2. WalkSound => WalkIsComplete
  <2> SUFFICES ASSUME WalkSound, Finished, NEW p \in walk.stable
               PROVE  \/ walk.seen[p] = 1
                      \/ walk.req.mode = "cursor" /\ AtBoundary(p)
                      \/ walk.req.mode = "cursor" /\ Dropped(p) /\ walk.seen[p] = 0
                      \/ /\ walk.req.mode # "cursor"
                         /\ \/ ~walk.quiet
                            \/ \E q \in walk.stable \ {p} : rows[q].rank = rows[p].rank
    BY DEF WalkIsComplete
  <2>1. CursorWalk /\ SliceWalk /\ walk.step = "done"
    BY DEF WalkSound, Finished
  <2> QED
    BY <2>1, ListAssumption DEF CursorWalk, CursorOK, NoCursor, SliceWalk, Twin
<1> QED
  BY <1>1, <1>2, PTL

=============================================================================
