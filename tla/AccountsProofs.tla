--------------------------- MODULE AccountsProofs ---------------------------
(***************************************************************************)
(* Why the properties of Accounts hold for any tabs, browsers, settings    *)
(* and calls.  Replies are right when made (ReplyInv), for these reasons:  *)
(*   - an attempt that overlaps no other writes back the row it read       *)
(*     (AttemptInv), so the row of a name tells its failures in a row;     *)
(*     and no row, in the table or read by an attempt, counts a failure    *)
(*     there was not, however attempts overlap (LockoutInv, Counted);      *)
(*   - a cookie that is still good holds the user who owns the browser, or *)
(*     one of those whose responses crossed, and expires with that         *)
(*     ownership (SessionInv), and a browser whose first pages did not     *)
(*     cross has one CSRF token (CsrfInv);                                 *)
(*   - a row of an account holds what was last set, or what a row written  *)
(*     whole put back (StandingInv);                                       *)
(*   - a permission for an object is granted exactly when it has a row     *)
(*     (GrantInv).                                                         *)
(* First what a step leaves alone, then one lemma per action.              *)
(***************************************************************************)
EXTENDS Accounts, TLAPS, FiniteSetTheorems

LEMMA Bounds ==
  ASSUME NEW s \in Scenes
  PROVE  /\ s.attempts \in Nat /\ s.duration \in Nat /\ s.age \in Nat
         /\ \A u \in DOMAIN s.users : UserRow(s.users[u])
         /\ DOMAIN s.users \subseteq People
BY SceneAssumption DEF People

LEMMA NoOneYet == UserOf(NewSession) = None
BY DEF UserOf, Get, NewSession

LEMMA NoCookieDecodes ==
  ASSUME key \in Nat \ {0}, now \in Nat
  PROVE  SessionOf(NoCookie) = NewSession /\ NoCookie.mac.key = 0 /\ NoCookie.expires = 0
BY DEF SessionOf, Decode, NoCookie, Sign

LEMMA LoginName ==
  ASSUME NEW c \in Calls, c.call = "login"
  PROVE  c.name \in Names
BY DEF Names

LEMMA GrantKey ==
  ASSUME NEW c \in Calls, c.call \in {"grant", "revoke", "check"}
  PROVE  KeyOf(c) \in Keys
BY DEF Keys, KeyOf

LEMMA InitInv == Init => IInv
<1> SUFFICES ASSUME Init PROVE IInv
  OBVIOUS
<1>0. /\ scene.attempts \in Nat /\ scene.duration \in Nat
      /\ \A u \in DOMAIN scene.users : UserRow(scene.users[u])
      /\ DOMAIN scene.users \subseteq People
  BY Bounds DEF Init
<1>1. TypeOK
  BY <1>0 DEF Init, TypeOK, NoLockout, Clean, Steps, Views
<1>2. WorkInv /\ AttemptInv
  BY DEF Init, WorkInv, WorkOf, AttemptInv, Attempting, Views
<1>3. LockoutInv
  BY DEF Init, LockoutInv, RowTells, Counted, NoLockout, Clean
<1>4. SessionInv
  <2>1. SessionOf(NoCookie) = NewSession /\ NoCookie.mac.key = 0 /\ NoCookie.expires = 0
    BY NoCookieDecodes DEF Init
  <2> QED
    BY <2>1, NoOneYet DEF Init, SessionInv, SessionOfWork
<1>5. CsrfInv
  BY DEF Init, CsrfInv, Browsers
<1>6. StandingInv
  <2>1. \A u \in DOMAIN scene.users : scene.users[u].active \in BOOLEAN
    BY <1>0 DEF UserRow
  <2> QED
    BY <1>0, <2>1 DEF Init, StandingInv, Closed
<1>7. GrantInv
  BY DEF Init, GrantInv
<1>8. ReplyInv
  BY DEF Init, ReplyInv, ReplyOf, Right, LockedAsDue, AnsweredAsDue,
     CheckedAsDue, NoResult
<1> QED
  BY <1>1, <1>2, <1>3, <1>4, <1>5, <1>6, <1>7, <1>8 DEF IInv

-----------------------------------------------------------------------------
(* What a step leaves alone.                                               *)

OthersStay(t) == \A o \in Tabs \ {t} : pc'[o] = pc[o] /\ work'[o] = work[o]

(* Apart from the flags that other requests raise in it.                   *)
Like(v, w) ==
  /\ DOMAIN v = DOMAIN w
  /\ \A f \in DOMAIN w : f \notin {"stale", "alone"} => v[f] = w[f]

LEMMA LikeFields ==
  ASSUME WorkInv, NEW o \in Tabs, NEW v, Like(v, work[o]), pc[o] # "idle"
  PROVE  /\ DOMAIN v = DOMAIN work[o]
         /\ v.call = work[o].call /\ v.session = work[o].session /\ v.token = work[o].token
         /\ v.fresh = work[o].fresh /\ v.owner = work[o].owner /\ v.reply = work[o].reply
         /\ Attempting(o) => v.row = work[o].row /\ v.began = work[o].began
         /\ pc[o] = "update" => v.row = work[o].row
<1>1. RequestFields \subseteq DOMAIN work[o]
  BY DEF WorkInv, WorkOf
<1>2. \A f \in RequestFields \ {"stale"} : v[f] = work[o][f]
  BY <1>1 DEF Like, RequestFields
<1>3. Attempting(o) => {"row", "began"} \subseteq DOMAIN work[o]
  BY DEF WorkInv, WorkOf
<1>4. pc[o] = "update" => "row" \in DOMAIN work[o]
  BY DEF WorkInv, WorkOf
<1> QED
  BY <1>2, <1>3, <1>4 DEF Like, RequestFields

LEMMA GoStep ==
  ASSUME TypeOK, NEW t \in Tabs, NEW step \in Steps, NEW w, Go(t, step, w)
  PROVE  /\ pc' \in [Tabs -> Steps] /\ DOMAIN work' = Tabs
         /\ pc'[t] = step /\ work'[t] = w /\ OthersStay(t)
BY DEF Go, TypeOK, OthersStay

LEMMA TypeStep ==
  ASSUME TypeOK, pc' \in [Tabs -> Steps], DOMAIN work' = Tabs, DOMAIN form' = Tabs,
         UNCHANGED <<scene, now, key, lastid, lockouts, streak, jar, owner>>, requests' \in Nat
  PROVE  TypeOK'
BY DEF TypeOK, Browsers, Steps

(* Requests that stay where they are keep their shape.                     *)
LEMMA WorkStays ==
  ASSUME WorkInv, now \in Nat, now' \in Nat, now <= now', NEW o \in Tabs, pc'[o] = pc[o],
         Like(work'[o], work[o]), Attempting(o) => work'[o].alone \in BOOLEAN
  PROVE  WorkOf(o)'
<1>0. pc[o] # "idle" =>
        /\ DOMAIN work'[o] = DOMAIN work[o] /\ work'[o].call = work[o].call
        /\ work'[o].reply = work[o].reply
        /\ Attempting(o) => work'[o].row = work[o].row /\ work'[o].began = work[o].began
  BY LikeFields
<1> USE DEF WorkInv, WorkOf
<1>1. pc[o] # "idle" => RequestFields \subseteq DOMAIN work'[o] /\ work'[o].call \in Calls
  BY <1>0
<1>2. pc[o] \in Views => work'[o].call.call = pc[o] /\ DOMAIN work'[o] = RequestFields
  BY <1>0 DEF Views
<1>3. Attempting(o) =>
        /\ work'[o].call.call = "login"
        /\ DOMAIN work'[o] = RequestFields \cup {"row", "began", "alone"}
        /\ work'[o].row \in [id : Nat, failed : Nat, until : Nat] /\ work'[o].began \in 1 .. now'
        /\ {work'[o].alone, work'[o].reply.held} \subseteq BOOLEAN
        /\ DOMAIN work'[o].reply = LoginFields
        /\ work'[o].reply.call = "login"
  BY <1>0 DEF Attempting
<1>4. /\ pc[o] = "insert" => work'[o].call.call = "grant"
      /\ pc[o] = "update" => work'[o].call.call = "confirm"
                             /\ {"user", "row"} \subseteq DOMAIN work'[o]
  BY <1>0
<1> QED
  BY <1>1, <1>2, <1>3, <1>4 DEF Attempting

(* The lockout: no attempt begins, and none writes.                        *)
LEMMA AttemptsStay ==
  ASSUME AttemptInv, LockoutInv, WorkInv, TypeOK, UNCHANGED <<scene, lockouts, streak>>, now <= now',
         now' \in Nat,
         \A o \in Tabs : Attempting(o)' =>
           /\ pc'[o] = pc[o] /\ Like(work'[o], work[o]) /\ work'[o].alone = work[o].alone
  PROVE  AttemptInv' /\ LockoutInv'
<1>0. \A t \in Tabs : Attempting(t)' => Attempting(t)
  BY DEF Attempting
<1>1. \A t \in Tabs : Attempting(t)' =>
        /\ Attempting(t) /\ work'[t].call = work[t].call /\ work'[t].reply = work[t].reply
        /\ work'[t].row = work[t].row /\ work'[t].began = work[t].began
        /\ work'[t].alone = work[t].alone
  BY <1>0, LikeFields DEF Attempting
<1>2. ASSUME NEW t \in Tabs, Attempting(t)'
      PROVE  Rivals(t)' \subseteq Rivals(t)
  BY <1>1, <1>2 DEF Rivals, Attempting
<1>3. AttemptInv'
  <2>1. ASSUME NEW t \in Tabs, Attempting(t), scene.attempts > 0,
               work'[t].row = work[t].row, work'[t].call = work[t].call
        PROVE  Counted(work[t].row, work[t].call.name)'
    BY <2>1 DEF AttemptInv, Counted
  <2> QED
    BY <1>1, <1>2, <2>1 DEF AttemptInv
<1>4. \A name \in Names : RowTells(name) => RowTells(name)'
  <2> QED
    BY DEF RowTells, TypeOK
<1>5. \A name \in Names : Counted(lockouts[name], name) => Counted(lockouts[name], name)'
  BY DEF Counted
<1>6. LockoutInv'
  BY <1>4, <1>5 DEF LockoutInv
<1> QED
  BY <1>3, <1>6

(* The session of a request and its owner.                                 *)
LEMMA SessionStays ==
  ASSUME SessionInv, WorkInv, NEW o \in Tabs, pc'[o] = pc[o], Like(work'[o], work[o])
  PROVE  SessionOfWork(o)'
BY LikeFields DEF SessionInv, SessionOfWork, LogsIn, LogsOut, UserOf, Get, ShouldSave

LEMMA PageStays ==
  ASSUME SessionInv, CsrfInv, UNCHANGED <<scene, jar, form, owner, key, now>>,
         \A o \in Tabs : SessionOfWork(o)',
         \A o \in Tabs : pc'[o] # "idle" =>
           /\ pc[o] # "idle" /\ work'[o].token = work[o].token /\ work'[o].fresh = work[o].fresh
  PROVE  SessionInv' /\ CsrfInv'
<1>1. SessionInv'
  BY DEF SessionInv, SessionOfWork, SessionOf, Browsers
<1>2. CsrfInv'
  BY DEF CsrfInv
<1> QED
  BY <1>1, <1>2

LEMMA AccountsStay ==
  ASSUME StandingInv, UNCHANGED <<users, standing, desk>>,
         \A o \in Tabs : pc'[o] = "update" => UserRow(work'[o].row)
  PROVE  StandingInv'
BY DEF StandingInv

LEMMA GrantsStay ==
  ASSUME GrantInv, UNCHANGED <<grants, allowed>>
  PROVE  GrantInv'
BY DEF GrantInv

(* Replies.                                                                *)
LEMMA ReplyStays ==
  ASSUME ReplyInv, WorkInv, scene' = scene, NEW o \in Tabs, pc'[o] = pc[o],
         Like(work'[o], work[o])
  PROVE  ReplyOf(o)'
BY LikeFields DEF ReplyInv, ReplyOf, Right, LockedAsDue, AnsweredAsDue, CheckedAsDue

LEMMA ResultStays ==
  ASSUME ReplyInv, UNCHANGED <<scene, result>>, \A o \in Tabs : ReplyOf(o)'
  PROVE  ReplyInv'
BY DEF ReplyInv, Right, LockedAsDue, AnsweredAsDue, CheckedAsDue

-----------------------------------------------------------------------------
(* A step of one request that is not an attempt to log in and does not     *)
(* arrive at the browser.                                                  *)
Quiet == UNCHANGED <<lockouts, lastid, page, limits, streak>>

LEMMA QuietStep ==
  ASSUME IInv, NEW t \in Tabs, NEW step \in {"respond", "insert", "update"}, NEW w,
         pc[t] # "idle", ~Attempting(t), Go(t, step, w), Quiet,
         RequestFields \subseteq DOMAIN w, WorkOf(t)', SessionOfWork(t)', ReplyOf(t)',
         w.token = work[t].token, w.fresh = work[t].fresh
  PROVE  /\ TypeOK' /\ WorkInv' /\ AttemptInv' /\ LockoutInv' /\ SessionInv' /\ CsrfInv' /\ ReplyInv'
         /\ OthersStay(t) /\ pc'[t] = step /\ work'[t] = w
<1> USE DEF Quiet, page, limits
<1>0. TypeOK /\ WorkInv /\ AttemptInv /\ LockoutInv /\ SessionInv /\ CsrfInv /\ ReplyInv
  BY DEF IInv
<1>1. /\ pc' \in [Tabs -> Steps] /\ DOMAIN work' = Tabs
      /\ pc'[t] = step /\ work'[t] = w /\ OthersStay(t)
  BY <1>0, GoStep DEF Steps
<1>2. \A o \in Tabs \ {t} : pc'[o] = pc[o] /\ Like(work'[o], work[o]) /\ work'[o] = work[o]
  BY <1>1 DEF OthersStay, Like
<1>3. TypeOK'
  <2>1. requests' \in Nat /\ DOMAIN form' = Tabs
    BY <1>0 DEF TypeOK
  <2> QED
    BY <1>0, <1>1, <2>1, TypeStep
<1>4. WorkInv'
  <2>1. now \in Nat /\ now' \in Nat /\ now <= now'
    BY <1>0 DEF TypeOK
  <2>2. ASSUME NEW o \in Tabs \ {t} PROVE WorkOf(o)'
    <3>1. Attempting(o) => work'[o].alone \in BOOLEAN
      BY <1>0, <1>2 DEF WorkInv, WorkOf
    <3> QED
      BY <1>0, <1>2, <2>1, <3>1, WorkStays
  <2> QED
    BY <2>2 DEF WorkInv
<1>5. AttemptInv' /\ LockoutInv'
  <2>1. \A o \in Tabs : Attempting(o)' =>
           /\ pc'[o] = pc[o] /\ Like(work'[o], work[o]) /\ work'[o].alone = work[o].alone
    BY <1>1, <1>2 DEF Attempting
  <2>2. now <= now' /\ now' \in Nat
    BY <1>0 DEF TypeOK
  <2> QED
    BY <1>0, <2>1, <2>2, AttemptsStay
<1>6. SessionInv' /\ CsrfInv'
  <2>1. \A o \in Tabs : SessionOfWork(o)'
    BY <1>0, <1>2, SessionStays
  <2>2. \A o \in Tabs : pc'[o] # "idle" =>
           /\ pc[o] # "idle" /\ work'[o].token = work[o].token /\ work'[o].fresh = work[o].fresh
    BY <1>1, <1>2
  <2> QED
    BY <1>0, <2>1, <2>2, PageStays
<1>7. ReplyInv'
  <2>1. \A o \in Tabs : ReplyOf(o)'
    BY <1>0, <1>2, ReplyStays
  <2> QED
    BY <1>0, <2>1, ResultStays
<1> QED
  BY <1>1, <1>3, <1>4, <1>5, <1>6, <1>7

(* The same, when it ends in a reply that says who or whether.             *)
LEMMA QuietReply ==
  ASSUME IInv, NEW t \in Tabs, NEW w, NEW r, pc[t] \in Steps \ {"idle", "login", "logout", "respond"},
         ~Attempting(t), Reply(t, w, r), Quiet,
         DOMAIN w = DOMAIN work[t], \A f \in RequestFields : w[f] = work[t][f],
         r.call = work[t].call.call, r.status # "forbidden",
         r.call \in {"visit", "check"} => Right(r)
  PROVE  /\ TypeOK' /\ WorkInv' /\ AttemptInv' /\ LockoutInv' /\ SessionInv' /\ CsrfInv' /\ ReplyInv'
         /\ OthersStay(t) /\ pc'[t] = "respond"
  <1> DEFINE v == [w EXCEPT !.reply = r]
  <1>0. WorkOf(t) /\ SessionOfWork(t) /\ TypeOK
    BY DEF IInv, WorkInv, SessionInv
  <1>1. RequestFields \subseteq DOMAIN work[t] /\ work[t].call \in Calls
    BY <1>0 DEF WorkOf
  <1>2. /\ DOMAIN v = DOMAIN w /\ v.reply = r
        /\ \A f \in RequestFields \ {"reply"} : v[f] = work[t][f]
    BY <1>1 DEF RequestFields
  <1>3. pc'[t] = "respond" /\ work'[t] = v
    BY <1>0, GoStep DEF Reply, Steps
  <1>4. r.call \notin {"login", "logout"}
    BY <1>0 DEF WorkOf, Views, Steps, Attempting
  <1>5. WorkOf(t)'
    BY <1>1, <1>2, <1>3 DEF WorkOf, Attempting, RequestFields, Views
  <1>6. SessionOfWork(t)'
    BY <1>0, <1>2, <1>3, <1>4 DEF SessionOfWork, LogsIn, LogsOut, RequestFields
  <1>7. Right(r)
    BY <1>4 DEF Right, LockedAsDue, AnsweredAsDue, CheckedAsDue
  <1>8. ReplyOf(t)'
    BY <1>2, <1>3, <1>7
    DEF ReplyOf, Quiet, limits, Right, LockedAsDue, AnsweredAsDue, CheckedAsDue
  <1>9. Go(t, "respond", v) /\ RequestFields \subseteq DOMAIN v
        /\ v.token = work[t].token /\ v.fresh = work[t].fresh
    BY <1>1, <1>2 DEF Reply, RequestFields
  <1> HIDE DEF v
  <1> QED
    BY <1>5, <1>6, <1>8, <1>9, QuietStep

-----------------------------------------------------------------------------
(* The steps of requests, one by one.                                      *)

LEMMA ServeStep ==
  ASSUME IInv, NEW t \in Tabs, NEW view \in {"logout", "note", "forget"}, NEW session,
         Serve(t, view, session),
         DOMAIN session = {"data", "modified", "new"},
         IF view = "logout" THEN UserOf(session) = None /\ ShouldSave(session)
         ELSE UserOf(session) = UserOf(work[t].session)
  PROVE  IInv'
<1> DEFINE w == [work[t] EXCEPT !.session = session]
           r == Says(work[t], "ok")
           v == [w EXCEPT !.reply = r]
<1>0. /\ WorkOf(t) /\ SessionOfWork(t) /\ TypeOK
      /\ pc[t] = view /\ Quiet /\ UNCHANGED tables
      /\ pc' = [pc EXCEPT ![t] = "respond"] /\ work' = [work EXCEPT ![t] = v]
  <2>1. WorkOf(t) /\ SessionOfWork(t) /\ TypeOK
    BY DEF IInv, WorkInv, SessionInv
  <2>2. pc[t] = view /\ Quiet /\ UNCHANGED tables
    BY DEF Serve, Quiet, tables
  <2>3. pc' = [pc EXCEPT ![t] = "respond"] /\ work' = [work EXCEPT ![t] = v]
    BY DEF Serve, Reply, Go
  <2> QED
    BY <2>1, <2>2, <2>3
<1>1. DOMAIN work[t] = RequestFields /\ work[t].call \in Calls /\ work[t].call.call = pc[t]
  BY <1>0 DEF WorkOf, Views
<1>2. /\ DOMAIN v = RequestFields /\ v.reply = r /\ v.session = session
      /\ \A f \in RequestFields \ {"reply", "session"} : v[f] = work[t][f]
  BY <1>1 DEF RequestFields
<1>3. r.call = pc[t] /\ r.status = "ok"
  BY <1>1 DEF Says
<1>4. pc'[t] = "respond" /\ work'[t] = v
  BY <1>0 DEF TypeOK
<1> HIDE DEF v, w, r
<1>6. WorkOf(t)'
  BY <1>1, <1>2, <1>4 DEF WorkOf, Attempting, RequestFields, Views
<1>7. SessionOfWork(t)'
  BY <1>0, <1>2, <1>3, <1>4 DEF SessionOfWork, LogsIn, LogsOut, RequestFields
<1>8. ReplyOf(t)'
  <2>1. Right(r)
    BY <1>0, <1>3 DEF Right, LockedAsDue, AnsweredAsDue, CheckedAsDue
  <2> QED
    BY <1>0, <1>2, <1>4, <2>1
    DEF ReplyOf, Quiet, limits, Right, LockedAsDue, AnsweredAsDue, CheckedAsDue
<1>9. Go(t, "respond", v) /\ RequestFields \subseteq DOMAIN v
      /\ v.token = work[t].token /\ v.fresh = work[t].fresh
  BY <1>0, <1>1, <1>2 DEF Go, RequestFields
<1>10. /\ TypeOK' /\ WorkInv' /\ AttemptInv' /\ LockoutInv' /\ SessionInv' /\ CsrfInv' /\ ReplyInv'
       /\ OthersStay(t) /\ pc'[t] = "respond"
  BY <1>0, <1>6, <1>7, <1>8, <1>9, QuietStep DEF Attempting
<1>11. StandingInv' /\ GrantInv'
  <2>1. \A o \in Tabs : pc'[o] = "update" => UserRow(work'[o].row)
    BY <1>10 DEF IInv, StandingInv, OthersStay
  <2> QED
    BY <1>0, <2>1, AccountsStay, GrantsStay DEF IInv, tables, Serve
<1> QED
  BY <1>10, <1>11 DEF IInv

LEMMA HandleStep ==
  ASSUME IInv, NEW t \in Tabs, Handle(t)
  PROVE  IInv'
<1> DEFINE session == work[t].session
<1>1. pc[t] # "idle" => DOMAIN session = {"data", "modified", "new"}
  BY DEF IInv, SessionInv, SessionOfWork
<1>2. CASE Serve(t, "logout", Logout(session))
  <2>1. /\ DOMAIN Logout(session) = {"data", "modified", "new"}
        /\ UserOf(Logout(session)) = None /\ ShouldSave(Logout(session))
    BY <1>1, <1>2 DEF Serve, Logout, Cleared, UserOf, Get, ShouldSave
  <2> QED
    BY <1>2, <2>1, ServeStep
<1>3. CASE Serve(t, "note", Put(session, "note", "read"))
  <2>1. /\ DOMAIN Put(session, "note", "read") = {"data", "modified", "new"}
        /\ UserOf(Put(session, "note", "read")) = UserOf(session)
    BY <1>1, <1>3 DEF Serve, Put, With, UserOf, Get
  <2> QED
    BY <1>3, <2>1, ServeStep
<1>4. CASE Serve(t, "forget", Taken(session, "note"))
  <2>1. /\ DOMAIN Taken(session, "note") = {"data", "modified", "new"}
        /\ UserOf(Taken(session, "note")) = UserOf(session)
    BY <1>1, <1>4 DEF Serve, Taken, UserOf, Get
  <2> QED
    BY <1>4, <2>1, ServeStep
<1> QED
  BY <1>2, <1>3, <1>4 DEF Handle

(* What a page is made for, against who it is due to.                      *)
LEMMA VisitRight ==
  ASSUME IInv, NEW t \in Tabs, pc[t] = "visit",
         NEW by, NEW due,
         \A o \in work[t].owner \ {None} : TRUE \in Stands(o) => o \in due,
         \A o \in work[t].owner : o = None \/ FALSE \in Stands(o) => by \in due
  PROVE  First(Auth(work[t].session, users), by) \in due
<1> DEFINE u == UserOf(work[t].session)
<1>1. u \in work[t].owner
  BY DEF IInv, SessionInv, SessionOfWork
<1>2. Auth(work[t].session, users) = IfActive(u, users)
  BY DEF Auth, UserOf
<1>3. /\ u \in DOMAIN users => Stands(u) = standing[u].active
      /\ u \notin DOMAIN users => Stands(u) = {FALSE}
  BY DEF Stands
<1>4. u \in DOMAIN users =>
        u # None /\ users[u].active \in BOOLEAN /\ users[u].active \in standing[u].active
  BY IdAssumption DEF IInv, StandingInv, UserRow
<1> HIDE DEF u
<1>5. CASE u \in DOMAIN users /\ users[u].active
  <2>1. IfActive(u, users) = u /\ u # None
    BY <1>4, <1>5 DEF IfActive
  <2>2. TRUE \in Stands(u)
    BY <1>3, <1>4, <1>5
  <2> QED
    BY <1>1, <1>2, <2>1, <2>2 DEF First
<1>6. CASE ~(u \in DOMAIN users /\ users[u].active)
  <2>1. IfActive(u, users) = None
    BY <1>6 DEF IfActive
  <2>2. FALSE \in Stands(u)
    BY <1>3, <1>4, <1>6
  <2> QED
    BY <1>1, <1>2, <2>1, <2>2 DEF First
<1> QED
  BY <1>5, <1>6

LEMMA VisitStep ==
  ASSUME IInv, NEW t \in Tabs, Visit(t)
  PROVE  IInv'
<1> DEFINE w == work[t]
           header == w.call.header
           by == First(TokenAuth(header, scene.tokens, users), JwtAuth(header, key, now, users))
           who == CurrentUser(w.session, header, scene.tokens, key, now, users)
           due == {o \in w.owner \ {None} : TRUE \in Stands(o)} \cup
                  (IF \E o \in w.owner : o = None \/ FALSE \in Stands(o) THEN {by} ELSE {})
           r == With(Says(w, IF who = None THEN "unauthorized" ELSE "ok"), [who |-> who, due |-> due])
<1>1. /\ pc[t] = "visit" /\ Quiet /\ UNCHANGED <<users, standing, desk, grants, allowed>>
      /\ Reply(t, w, r)
  BY DEF Visit, Quiet, tables
<1>2. who = First(Auth(w.session, users), by)
  BY DEF CurrentUser
<1> HIDE DEF who, by
<1>3. who \in due
  <2>1. /\ \A o \in work[t].owner \ {None} : TRUE \in Stands(o) => o \in due
        /\ \A o \in work[t].owner : o = None \/ FALSE \in Stands(o) => by \in due
    OBVIOUS
  <2> HIDE DEF due
  <2> QED
    BY <1>1, <1>2, <2>1, VisitRight
<1> HIDE DEF due
<1>4. w.call.call = "visit"
  BY <1>1 DEF IInv, WorkInv, WorkOf, Views
<1>5. /\ r.call = "visit" /\ r.status \in {"unauthorized", "ok"} /\ r.who = who /\ r.due = due
  BY <1>4 DEF Says, With
<1> HIDE DEF r
<1>6. Right(r)
  BY <1>3, <1>5 DEF Right, LockedAsDue, AnsweredAsDue, CheckedAsDue
<1>7. /\ TypeOK' /\ WorkInv' /\ AttemptInv' /\ LockoutInv' /\ SessionInv' /\ CsrfInv' /\ ReplyInv'
      /\ OthersStay(t) /\ pc'[t] = "respond"
  BY <1>1, <1>4, <1>5, <1>6, QuietReply DEF Steps, Views, Attempting
<1>8. StandingInv' /\ GrantInv'
  <2>1. \A o \in Tabs : pc'[o] = "update" => UserRow(work'[o].row)
    BY <1>7 DEF IInv, StandingInv, OthersStay
  <2> QED
    BY <1>1, <2>1, AccountsStay, GrantsStay DEF IInv
<1> QED
  BY <1>7, <1>8 DEF IInv

LEMMA CheckStep ==
  ASSUME IInv, NEW t \in Tabs, CheckObject(t)
  PROVE  IInv'
<1> DEFINE w == work[t]
           k == KeyOf(w.call)
           general == HasPerm(scene.tables, k[1], k[2])
           status == IF HasPermForObject(scene.tables, grants, k[1], k[2], k[3]) THEN "yes" ELSE "no"
           r == With(Says(w, status), [due |-> k \in allowed, general |-> general])
<1>1. /\ pc[t] = "check" /\ Quiet /\ UNCHANGED <<users, standing, desk, grants, allowed>>
      /\ Reply(t, w, r)
  BY DEF CheckObject, Quiet, tables
<1>2. w.call \in Calls /\ w.call.call = "check"
  BY <1>1 DEF IInv, WorkInv, WorkOf, Views
<1>3. k \in Keys /\ k = <<k[1], k[2], k[3]>>
  BY <1>2, GrantKey DEF KeyOf
<1> HIDE DEF k
<1>4. (status = "yes") = (general \/ k \in allowed)
  <2>1. (k \in allowed) = (grants[k] > 0)
    BY <1>3 DEF IInv, GrantInv
  <2>2. HasPermForObject(scene.tables, grants, k[1], k[2], k[3]) <=> general \/ grants[k] > 0
    BY <1>3 DEF HasPermForObject
  <2> HIDE DEF general
  <2> QED
    BY <2>1, <2>2
<1>5. status \in {"yes", "no"}
  OBVIOUS
<1> HIDE DEF status, general
<1>6. /\ r.call = "check" /\ r.status = status /\ r.due = (k \in allowed) /\ r.general = general
  BY <1>2 DEF Says, With
<1> HIDE DEF r
<1>7. Right(r)
  BY <1>4, <1>5, <1>6 DEF Right, LockedAsDue, AnsweredAsDue, CheckedAsDue
<1>8. /\ TypeOK' /\ WorkInv' /\ AttemptInv' /\ LockoutInv' /\ SessionInv' /\ CsrfInv' /\ ReplyInv'
      /\ OthersStay(t) /\ pc'[t] = "respond"
  BY <1>1, <1>2, <1>5, <1>6, <1>7, QuietReply DEF Steps, Views, Attempting
<1>9. StandingInv' /\ GrantInv'
  <2>1. \A o \in Tabs : pc'[o] = "update" => UserRow(work'[o].row)
    BY <1>8 DEF IInv, StandingInv, OthersStay
  <2> QED
    BY <1>1, <2>1, AccountsStay, GrantsStay DEF IInv
<1> QED
  BY <1>8, <1>9 DEF IInv

(* A reply that only says how it went.                                     *)
LEMMA PlainReply ==
  ASSUME IInv, NEW t \in Tabs, NEW status, Reply(t, work[t], Says(work[t], status)), Quiet,
         pc[t] \in {"request", "confirm", "update", "grant", "insert", "revoke"},
         status # "forbidden"
  PROVE  /\ TypeOK' /\ WorkInv' /\ AttemptInv' /\ LockoutInv' /\ SessionInv' /\ CsrfInv' /\ ReplyInv'
         /\ OthersStay(t) /\ pc'[t] = "respond"
         /\ \A o \in Tabs : pc'[o] = "update" => UserRow(work'[o].row)
<1> DEFINE r == Says(work[t], status)
<1>1. r.call = work[t].call.call /\ r.status = status
  BY DEF Says
<1>2. r.call \in {"request", "confirm", "grant", "revoke"}
  BY <1>1 DEF IInv, WorkInv, WorkOf, Views
<1>3. Reply(t, work[t], r)
  OBVIOUS
<1> HIDE DEF r
<1>4. /\ TypeOK' /\ WorkInv' /\ AttemptInv' /\ LockoutInv' /\ SessionInv' /\ CsrfInv' /\ ReplyInv'
      /\ OthersStay(t) /\ pc'[t] = "respond"
  BY <1>1, <1>2, <1>3, QuietReply DEF Steps, Views, Attempting
<1>5. \A o \in Tabs : pc'[o] = "update" => UserRow(work'[o].row)
  BY <1>4 DEF IInv, StandingInv, OthersStay
<1> QED
  BY <1>4, <1>5

LEMMA RequestResetStep ==
  ASSUME IInv, NEW t \in Tabs, NEW delivered \in BOOLEAN, RequestReset(t, delivered)
  PROVE  IInv'
<1>1. /\ pc[t] = "request" /\ Quiet /\ UNCHANGED <<users, standing, desk, grants, allowed>>
  BY DEF RequestReset, Quiet
<1>2. \E status \in {"ok", "error"} : Reply(t, work[t], Says(work[t], status))
  BY DEF RequestReset
<1>3. /\ TypeOK' /\ WorkInv' /\ AttemptInv' /\ LockoutInv' /\ SessionInv' /\ CsrfInv' /\ ReplyInv'
      /\ \A o \in Tabs : pc'[o] = "update" => UserRow(work'[o].row)
  BY <1>1, <1>2, PlainReply
<1>4. StandingInv' /\ GrantInv'
  BY <1>1, <1>3, AccountsStay, GrantsStay DEF IInv
<1> QED
  BY <1>3, <1>4 DEF IInv

(* A request goes on to write what it found.                               *)
LEMMA GoesOn ==
  ASSUME IInv, NEW t \in Tabs, NEW step \in {"insert", "update"}, NEW w, Go(t, step, w), Quiet,
         pc[t] = IF step = "insert" THEN "grant" ELSE "confirm",
         RequestFields \subseteq DOMAIN w, \A f \in RequestFields : w[f] = work[t][f],
         step = "update" => {"user", "row"} \subseteq DOMAIN w
  PROVE  /\ TypeOK' /\ WorkInv' /\ AttemptInv' /\ LockoutInv' /\ SessionInv' /\ CsrfInv' /\ ReplyInv'
         /\ OthersStay(t) /\ pc'[t] = step /\ work'[t] = w
<1>0. TypeOK /\ WorkOf(t) /\ SessionOfWork(t)
  BY DEF IInv, WorkInv, SessionInv
<1>1. pc'[t] = step /\ work'[t] = w
  BY <1>0, GoStep DEF Steps
<1>2. w.call \in Calls /\ w.call.call = pc[t]
  BY <1>0 DEF WorkOf, RequestFields, Views
<1>3. WorkOf(t)'
  BY <1>1, <1>2 DEF WorkOf, Attempting, Views
<1>4. SessionOfWork(t)'
  BY <1>0, <1>1 DEF SessionOfWork, RequestFields
<1>5. ReplyOf(t)'
  BY <1>1 DEF ReplyOf
<1>6. pc[t] # "idle" /\ ~Attempting(t) /\ w.token = work[t].token /\ w.fresh = work[t].fresh
  BY DEF Attempting, RequestFields
<1> QED
  BY <1>3, <1>4, <1>5, <1>6, QuietStep

LEMMA ReadResetStep ==
  ASSUME IInv, NEW t \in Tabs, ReadReset(t)
  PROVE  IInv'
<1>1. /\ pc[t] = "confirm" /\ Quiet /\ UNCHANGED <<users, standing, desk, grants, allowed>>
  BY DEF ReadReset, Quiet, tables
<1>2. CASE Reply(t, work[t], Says(work[t], "invalid"))
  <2>1. /\ TypeOK' /\ WorkInv' /\ AttemptInv' /\ LockoutInv' /\ SessionInv' /\ CsrfInv'
        /\ ReplyInv' /\ \A o \in Tabs : pc'[o] = "update" => UserRow(work'[o].row)
    BY <1>1, <1>2, PlainReply
  <2>2. StandingInv' /\ GrantInv'
    BY <1>1, <2>1, AccountsStay, GrantsStay DEF IInv
  <2> QED
    BY <2>1, <2>2 DEF IInv
<1>3. ASSUME NEW u \in DOMAIN users, Go(t, "update", With(work[t], [user |-> u, row |-> users[u]]))
      PROVE  IInv'
  <2> DEFINE w == With(work[t], [user |-> u, row |-> users[u]])
  <2>1. RequestFields \subseteq DOMAIN work[t]
    BY <1>1 DEF IInv, WorkInv, WorkOf
  <2>2. /\ RequestFields \cup {"user", "row"} \subseteq DOMAIN w
        /\ \A f \in RequestFields : w[f] = work[t][f]
        /\ w.row = users[u]
    BY <2>1 DEF With, RequestFields
  <2>3. Go(t, "update", w)
    BY <1>3
  <2> HIDE DEF w
  <2>4. /\ TypeOK' /\ WorkInv' /\ AttemptInv' /\ LockoutInv' /\ SessionInv' /\ CsrfInv' /\ ReplyInv'
        /\ OthersStay(t) /\ pc'[t] = "update" /\ work'[t] = w
    BY <1>1, <2>2, <2>3, GoesOn
  <2>5. StandingInv' /\ GrantInv'
    <3>1. \A o \in Tabs : pc'[o] = "update" => UserRow(work'[o].row)
      BY <2>2, <2>4 DEF IInv, StandingInv, OthersStay
    <3> QED
      BY <1>1, <3>1, AccountsStay, GrantsStay DEF IInv
  <2> QED
    BY <2>4, <2>5 DEF IInv
<1> QED
  BY <1>2, <1>3 DEF ReadReset

LEMMA WriteStanding ==
  ASSUME StandingInv, NEW u \in DOMAIN users, NEW row, NEW active \in SUBSET BOOLEAN,
         NEW password, Write(u, row, [active |-> active, password |-> password]), UserRow(row),
         row.active \in active, row.hash.password \in password,
         desk' \in {desk, Closed},
         \A o \in Tabs : pc'[o] = "update" => UserRow(work'[o].row)
  PROVE  StandingInv'
<1>1. DOMAIN users' = DOMAIN users /\ DOMAIN standing' = DOMAIN standing
  BY DEF Write
<1>2. /\ u \in DOMAIN standing' /\ users'[u] = row
      /\ standing'[u] = [active |-> active, password |-> password]
  BY DEF Write, StandingInv
<1>3. \A v \in DOMAIN users \ {u} : users'[v] = users[v] /\ standing'[v] = standing[v]
  BY DEF Write, StandingInv
<1>4. ASSUME NEW v \in DOMAIN users'
      PROVE  /\ v \in DOMAIN standing' /\ UserRow(users'[v])
             /\ users'[v].active \in standing'[v].active /\ standing'[v].active \subseteq BOOLEAN
             /\ users'[v].hash.password \in standing'[v].password
  <2>1. CASE v = u
    BY <1>2, <2>1
  <2>2. CASE v # u
    BY <1>1, <1>3, <2>2 DEF StandingInv
  <2> QED
    BY <2>1, <2>2
<1>5. desk' # Closed' => UserRow(desk'.row)
  BY DEF StandingInv, Closed
<1>6. DOMAIN users' \subseteq People'
  BY <1>1 DEF StandingInv, People
<1> QED
  BY <1>4, <1>5, <1>6 DEF StandingInv

LEMMA UpdateUserStep ==
  ASSUME IInv, NEW t \in Tabs, UpdateUser(t)
  PROVE  IInv'
<1> DEFINE w == work[t]
           u == w.user
<1>1. /\ pc[t] = "update" /\ Quiet /\ UNCHANGED <<desk, grants, allowed>>
      /\ \E status \in {"ok", "error"} : Reply(t, work[t], Says(work[t], status))
  BY DEF UpdateUser, Quiet
<1>2. /\ TypeOK' /\ WorkInv' /\ AttemptInv' /\ LockoutInv' /\ SessionInv' /\ CsrfInv' /\ ReplyInv'
      /\ \A o \in Tabs : pc'[o] = "update" => UserRow(work'[o].row)
  BY <1>1, PlainReply
<1>3. StandingInv'
  <2>1. CASE u \notin DOMAIN users
    <3>1. UNCHANGED <<users, standing, desk>>
      BY <1>1, <2>1 DEF UpdateUser
    <3> QED
      BY <1>2, <3>1, AccountsStay DEF IInv
  <2>2. CASE u \in DOMAIN users
    <3> DEFINE password == w.call.password
               row == [w.row EXCEPT !.hash = HashPassword(password)]
               active == standing[u].active \cup {w.row.active}
    <3>1. Write(u, row, [active |-> active, password |-> {password}])
      BY <2>2 DEF UpdateUser
    <3>2. UserRow(w.row)
      BY <1>1 DEF IInv, StandingInv
    <3>3. UserRow(row) /\ row.active = w.row.active /\ row.hash.password = password
      BY <3>2 DEF UserRow, HashPassword
    <3>4. active \in SUBSET BOOLEAN /\ row.active \in active
      BY <2>2, <3>2, <3>3 DEF IInv, StandingInv, UserRow
    <3> HIDE DEF row, active, password, u
    <3> QED
      BY <1>1, <1>2, <2>2, <3>1, <3>3, <3>4, WriteStanding DEF IInv
  <2> QED
    BY <2>1, <2>2
<1>4. GrantInv'
  BY <1>1, GrantsStay DEF IInv
<1> QED
  BY <1>2, <1>3, <1>4 DEF IInv

-----------------------------------------------------------------------------
(* Steps of the staff, and of the permissions.                             *)

LEMMA BesidesRequests ==
  ASSUME IInv, UNCHANGED <<lockouts, lastid, page, limits, streak, pc, work>>
  PROVE  TypeOK' /\ WorkInv' /\ AttemptInv' /\ LockoutInv' /\ SessionInv' /\ CsrfInv' /\ ReplyInv'
<1> USE DEF IInv, page, limits
<1>1. TypeOK'
  BY DEF TypeOK, Browsers, Steps
<1>2. WorkInv'
  BY DEF WorkInv, WorkOf, Attempting
<1>3. AttemptInv' /\ LockoutInv'
  BY DEF AttemptInv, LockoutInv, Attempting, Rivals, RowTells, Counted
<1>4. SessionInv'
  BY DEF SessionInv, SessionOfWork, SessionOf, Browsers
<1>5. CsrfInv'
  BY DEF CsrfInv
<1>6. ReplyInv'
  BY DEF ReplyInv, ReplyOf, Right, LockedAsDue, AnsweredAsDue, CheckedAsDue
<1> QED
  BY <1>1, <1>2, <1>3, <1>4, <1>5, <1>6

LEMMA StaffStep ==
  ASSUME IInv,
         \/ \E u \in People : StaffOpens(u) \/ StaffDeletes(u)
         \/ \E active \in BOOLEAN : StaffSaves(active)
         \/ SyncPermissions
  PROVE  IInv'
<1>1. /\ UNCHANGED <<lockouts, lastid, page, limits, streak, pc, work, grants, allowed>>
  BY DEF StaffOpens, StaffSaves, StaffDeletes, SyncPermissions, tables
<1>2. TypeOK' /\ WorkInv' /\ AttemptInv' /\ LockoutInv' /\ SessionInv' /\ CsrfInv' /\ ReplyInv'
  BY <1>1, BesidesRequests
<1>3. GrantInv'
  BY <1>1, GrantsStay DEF IInv
<1>4. \A o \in Tabs : pc'[o] = "update" => UserRow(work'[o].row)
  BY <1>1 DEF IInv, StandingInv
<1>5. StandingInv'
  <2>1. ASSUME NEW u \in People, StaffOpens(u)
        PROVE  StandingInv'
    <3>1. desk' = [user |-> u, row |-> users[u]] /\ u \in DOMAIN users /\ UNCHANGED <<users, standing>>
      BY <2>1 DEF StaffOpens, tables
    <3> QED
      BY <1>4, <3>1 DEF IInv, StandingInv
  <2>2. ASSUME NEW u \in People, StaffDeletes(u)
        PROVE  StandingInv'
    <3>1. users' = [v \in DOMAIN users \ {u} |-> users[v]] /\ UNCHANGED <<desk, standing>>
      BY <2>2 DEF StaffDeletes
    <3>2. /\ DOMAIN users' \subseteq DOMAIN users
          /\ \A v \in DOMAIN users' : users'[v] = users[v]
      BY <3>1
    <3> QED
      BY <1>4, <3>1, <3>2 DEF IInv, StandingInv
  <2>3. ASSUME NEW active \in BOOLEAN, StaffSaves(active)
        PROVE  StandingInv'
    <3> DEFINE u == desk.user
               row == [desk.row EXCEPT !.active = active]
               password == standing[u].password \cup {desk.row.hash.password}
    <3>1. desk # Closed /\ desk' = Closed
      BY <2>3 DEF StaffSaves
    <3>2. CASE u \notin DOMAIN users
      <4>1. UNCHANGED <<users, standing>>
        BY <2>3, <3>2 DEF StaffSaves
      <4> QED
        BY <1>4, <3>1, <4>1 DEF IInv, StandingInv, Closed
    <3>3. CASE u \in DOMAIN users
      <4>1. Write(u, row, [active |-> {active}, password |-> password])
        BY <2>3, <3>3 DEF StaffSaves
      <4>2. UserRow(desk.row)
        BY <3>1 DEF IInv, StandingInv
      <4>3. UserRow(row) /\ row.active = active /\ row.hash = desk.row.hash
        BY <4>2 DEF UserRow
      <4>4. {active} \in SUBSET BOOLEAN /\ row.active \in {active}
        BY <4>3
      <4>5. row.hash.password \in password
        BY <4>3
      <4> HIDE DEF u, row, password
      <4> QED
        BY <1>4, <3>1, <3>3, <4>1, <4>3, <4>4, <4>5, WriteStanding DEF IInv
    <3> QED
      BY <3>2, <3>3
  <2>4. CASE SyncPermissions
    <3>1. UNCHANGED <<users, standing, desk>>
      BY <2>4 DEF SyncPermissions
    <3> QED
      BY <1>4, <3>1, AccountsStay DEF IInv
  <2> QED
    BY <2>1, <2>2, <2>3, <2>4
<1> QED
  BY <1>2, <1>3, <1>5 DEF IInv

LEMMA GrantStep ==
  ASSUME IInv, NEW t \in Tabs, ReadGrant(t) \/ InsertGrant(t) \/ Revoke(t)
  PROVE  IInv'
<1> DEFINE k == KeyOf(work[t].call)
<1>1. Quiet /\ UNCHANGED <<users, standing, desk>>
  BY DEF ReadGrant, InsertGrant, Revoke, Quiet
<1>2. pc[t] \in {"grant", "insert", "revoke"}
  BY DEF ReadGrant, InsertGrant, Revoke
<1>3. work[t].call \in Calls /\ work[t].call.call \in {"grant", "revoke"}
  BY <1>2 DEF IInv, WorkInv, WorkOf, Views
<1>4. k \in Keys
  BY <1>3, GrantKey
<1>5. GrantInv'
  <2>1. CASE ReadGrant(t)
    <3>1. grants' = grants /\ (allowed' = allowed \/ (grants[k] > 0 /\ allowed' = allowed \cup {k}))
      BY <2>1 DEF ReadGrant
    <3> QED
      BY <1>4, <3>1 DEF IInv, GrantInv
  <2>2. CASE InsertGrant(t)
    <3>1. grants' = [grants EXCEPT ![k] = @ + 1] /\ allowed' = allowed \cup {k}
      BY <2>2 DEF InsertGrant
    <3> HIDE DEF k
    <3> QED
      BY <1>4, <3>1 DEF IInv, GrantInv
  <2>3. CASE Revoke(t)
    <3>1. grants' = [grants EXCEPT ![k] = 0] /\ allowed' = allowed \ {k}
      BY <2>3 DEF Revoke, RowsAfterRevoke
    <3> HIDE DEF k
    <3> QED
      BY <1>4, <3>1 DEF IInv, GrantInv
  <2> QED
    BY <2>1, <2>2, <2>3
<1>6. CASE \E status \in {"ok", "error", "no"} : Reply(t, work[t], Says(work[t], status))
  <2>1. /\ TypeOK' /\ WorkInv' /\ AttemptInv' /\ LockoutInv' /\ SessionInv' /\ CsrfInv'
        /\ ReplyInv' /\ \A o \in Tabs : pc'[o] = "update" => UserRow(work'[o].row)
    BY <1>1, <1>2, <1>6, PlainReply
  <2> QED
    BY <1>1, <1>5, <2>1, AccountsStay DEF IInv
<1>7. CASE pc[t] = "grant" /\ Go(t, "insert", work[t])
  <2>1. RequestFields \subseteq DOMAIN work[t]
    BY <1>2 DEF IInv, WorkInv, WorkOf
  <2>2. /\ TypeOK' /\ WorkInv' /\ AttemptInv' /\ LockoutInv' /\ SessionInv' /\ CsrfInv'
        /\ ReplyInv' /\ OthersStay(t) /\ pc'[t] = "insert"
    BY <1>1, <1>7, <2>1, GoesOn
  <2>3. \A o \in Tabs : pc'[o] = "update" => UserRow(work'[o].row)
    BY <2>2 DEF IInv, StandingInv, OthersStay
  <2> QED
    BY <1>1, <1>5, <2>2, <2>3, AccountsStay DEF IInv
<1> QED
  BY <1>6, <1>7 DEF ReadGrant, InsertGrant, Revoke

-----------------------------------------------------------------------------
(* A request arrives.                                                      *)

LEMMA RefusedRight ==
  ASSUME IInv, NEW t \in Tabs, NEW call \in Calls, NEW sent, NEW token,
         scene.csrf, sent = IF call.via = "header" THEN jar[scene.browser[t]].csrf ELSE form[t],
         token = CsrfToken(jar[scene.browser[t]].csrf, requests + 1), ~Accepted(call, sent, token)
  PROVE  call.via = "json" \/ sent = 0 \/ owner[scene.browser[t]].raced
<1> DEFINE cookie == jar[scene.browser[t]].csrf
<1>1. ~owner[scene.browser[t]].raced => form[t] = 0 \/ form[t] = cookie
  BY DEF IInv, CsrfInv
<1>2. call.method # "GET" /\ call.via \in {"form", "header", "json"}
  BY CallAssumption DEF Accepted
<1>3. cookie # 0 => token = cookie
  BY DEF CsrfToken
<1>4. call.via \in {"form", "header"} => sent # token
  BY DEF Accepted, HeaderMatches, FormMatches
<1> HIDE DEF cookie
<1> QED
  BY <1>1, <1>2, <1>3, <1>4 DEF cookie

LEMMA SendStep ==
  ASSUME IInv, NEW t \in Tabs, NEW call \in Calls, Send(t, call)
  PROVE  IInv'
<1> DEFINE b == scene.browser[t]
           token == IF scene.csrf THEN CsrfToken(jar[b].csrf, requests + 1) ELSE 0
           sent == IF call.via = "header" THEN jar[b].csrf ELSE form[t]
           w == [call |-> call, session |-> SessionOf(jar[b].session),
                 token |-> token, fresh |-> scene.csrf /\ jar[b].csrf = 0,
                 owner |-> owner[b].users, since |-> now, stale |-> FALSE, reply |-> NoResult]
           r == With(Says(w, "forbidden"), [via |-> call.via, sent |-> sent, raced |-> owner[b].raced])
           refused == scene.csrf /\ ~Accepted(call, sent, token)
           step == IF refused THEN "respond" ELSE call.call
           v == IF refused THEN [w EXCEPT !.reply = r] ELSE w
<1>0. /\ TypeOK /\ WorkInv /\ AttemptInv /\ LockoutInv /\ SessionInv /\ CsrfInv /\ ReplyInv
      /\ StandingInv /\ GrantInv
  BY DEF IInv
<1>1. /\ pc[t] = "idle" /\ requests' = requests + 1
      /\ Go(t, step, v)
      /\ UNCHANGED <<lockouts, lastid, streak, scene, now, key, jar, form, owner, result>>
      /\ UNCHANGED <<users, standing, desk, grants, allowed>>
  BY DEF Send, Reply, tables, page
<1>2. b \in Browsers
  BY DEF Browsers
<1>3. r.call = call.call /\ r.status = "forbidden" /\ r.via = call.via /\ r.sent = sent
      /\ r.raced = owner[b].raced
  BY DEF Says, With
<1>4. refused => Right(r)
  <2>1. refused => token = CsrfToken(jar[b].csrf, requests + 1)
    OBVIOUS
  <2>2. refused => call.via = "json" \/ sent = 0 \/ owner[b].raced
    <3> HIDE DEF token, sent
    <3> QED
      BY <2>1, RefusedRight DEF sent
  <2> HIDE DEF r, refused
  <2> QED
    BY <1>3, <2>2 DEF Right, LockedAsDue, AnsweredAsDue, CheckedAsDue
<1>5. /\ DOMAIN v = RequestFields /\ v.call = call /\ v.session = SessionOf(jar[b].session)
      /\ v.token = token /\ v.fresh = (scene.csrf /\ jar[b].csrf = 0) /\ v.owner = owner[b].users
      /\ refused => v.reply = r
  BY DEF RequestFields
<1>6. /\ step \in Views \cup {"respond"} /\ step # "idle" /\ step \in Steps
      /\ refused => step = "respond"
      /\ ~refused => step = call.call /\ step \in Views /\ step # "respond"
  BY CallAssumption DEF Views, Steps
<1> HIDE DEF step, v, w, r, refused
<1>7. /\ pc' \in [Tabs -> Steps] /\ DOMAIN work' = Tabs
      /\ pc'[t] = step /\ work'[t] = v /\ OthersStay(t)
  BY <1>0, <1>1, <1>6, GoStep
<1>8. \A o \in Tabs \ {t} : pc'[o] = pc[o] /\ Like(work'[o], work[o]) /\ work'[o] = work[o]
  BY <1>7 DEF OthersStay, Like
<1>9. ~Attempting(t)' /\ step \notin {"authenticate", "record", "update", "insert"}
  BY <1>6, <1>7 DEF Attempting, Views
<1>10. TypeOK'
  <2>1. requests' \in Nat /\ DOMAIN form' = Tabs
    BY <1>0, <1>1 DEF TypeOK
  <2> QED
    BY <1>0, <1>1, <1>7, <2>1, TypeStep
<1>11. WorkInv'
  <2>1. now \in Nat /\ now' \in Nat /\ now <= now'
    BY <1>0, <1>1 DEF TypeOK
  <2>2. ASSUME NEW o \in Tabs \ {t} PROVE WorkOf(o)'
    <3>1. Attempting(o) => work'[o].alone \in BOOLEAN
      BY <1>0, <1>8 DEF WorkInv, WorkOf
    <3> QED
      BY <1>0, <1>8, <2>1, <3>1, WorkStays
  <2>3. WorkOf(t)'
    <3>1. step \in Views => step = call.call
      BY <1>6 DEF Views
    <3> HIDE DEF token
    <3> QED
      BY <1>5, <1>7, <1>9, <3>1 DEF WorkOf
  <2> QED
    BY <2>2, <2>3 DEF WorkInv
<1>12. AttemptInv' /\ LockoutInv'
  <2>1. \A o \in Tabs : Attempting(o)' =>
           /\ pc'[o] = pc[o] /\ Like(work'[o], work[o]) /\ work'[o].alone = work[o].alone
    BY <1>8, <1>9
  <2>2. now <= now' /\ now' \in Nat
    BY <1>0, <1>1 DEF TypeOK
  <2> QED
    BY <1>0, <1>1, <2>1, <2>2, AttemptsStay
<1>13. SessionInv'
  <2>1. \A o \in Tabs \ {t} : SessionOfWork(o)'
    BY <1>0, <1>8, SessionStays
  <2>2. DOMAIN v.session = {"data", "modified", "new"}
    BY <1>5 DEF SessionOf, Decode, NewSession
  <2>3. UserOf(v.session) \in v.owner
    BY <1>0, <1>2, <1>5 DEF SessionInv
  <2>4. step = "respond" => v.reply.status = "forbidden"
    BY <1>3, <1>5, <1>6
  <2>5. SessionOfWork(t)'
    BY <1>7, <2>2, <2>3, <2>4 DEF SessionOfWork, LogsIn, LogsOut
  <2> QED
    BY <1>0, <1>1, <2>1, <2>5 DEF SessionInv, SessionOf, Browsers
<1>14. CsrfInv'
  <2>1. scene.csrf => token # 0 /\ (v.fresh \/ token = jar[b].csrf)
    <3>1. requests + 1 # 0
      BY <1>0 DEF TypeOK
    <3> QED
      BY <1>5, <3>1 DEF CsrfToken
  <2> HIDE DEF token
  <2> QED
    BY <1>0, <1>1, <1>5, <1>7, <1>8, <2>1 DEF CsrfInv
<1>15. ReplyInv'
  <2>1. ReplyOf(t)'
    <3>1. step = "respond" => refused /\ v.reply = r
      BY <1>5, <1>6
    <3>2. step = "respond" => Right(v.reply)
      BY <1>4, <3>1
    <3>3. scene' = scene
      BY <1>1
    <3> HIDE DEF token, sent
    <3> QED
      BY <1>7, <1>9, <3>2, <3>3 DEF ReplyOf, Right, LockedAsDue, AnsweredAsDue, CheckedAsDue
  <2>2. \A o \in Tabs : ReplyOf(o)'
    BY <1>0, <1>1, <1>8, <2>1, ReplyStays
  <2> QED
    BY <1>0, <1>1, <2>2, ResultStays
<1>16. StandingInv' /\ GrantInv'
  <2>1. \A o \in Tabs : pc'[o] = "update" => UserRow(work'[o].row)
    BY <1>0, <1>7, <1>8, <1>9 DEF StandingInv
  <2> QED
    BY <1>0, <1>1, <2>1, AccountsStay, GrantsStay
<1> QED
  BY <1>10, <1>11, <1>12, <1>13, <1>14, <1>15, <1>16 DEF IInv

-----------------------------------------------------------------------------
(* Attempts to log in.                                                     *)

LEMMA LoginFrame ==
  ASSUME IInv, NEW t \in Tabs, pc[t] # "idle",
         pc' \in [Tabs -> Steps], DOMAIN work' = Tabs,
         \A o \in Tabs \ {t} : /\ pc'[o] = pc[o] /\ Like(work'[o], work[o])
                               /\ Attempting(o) => work'[o].alone \in BOOLEAN,
         UNCHANGED <<page, limits, users, grants, standing, allowed, desk>>,
         pc'[t] \in {"authenticate", "record", "respond"},
         WorkOf(t)', SessionOfWork(t)', ReplyOf(t)',
         work'[t].token = work[t].token, work'[t].fresh = work[t].fresh
  PROVE  WorkInv' /\ SessionInv' /\ CsrfInv' /\ StandingInv' /\ GrantInv' /\ ReplyInv'
<1> USE DEF page, limits
<1>0. /\ TypeOK /\ WorkInv /\ SessionInv /\ CsrfInv /\ StandingInv /\ GrantInv /\ ReplyInv
  BY DEF IInv
<1>1. WorkInv'
  <2>1. now \in Nat /\ now' \in Nat /\ now <= now'
    BY <1>0 DEF TypeOK
  <2>2. \A o \in Tabs \ {t} : WorkOf(o)'
    BY <1>0, <2>1, WorkStays
  <2> QED
    BY <2>2 DEF WorkInv
<1>2. SessionInv' /\ CsrfInv'
  <2>1. \A o \in Tabs : SessionOfWork(o)'
    BY <1>0, SessionStays
  <2>2. \A o \in Tabs : pc'[o] # "idle" =>
           /\ pc[o] # "idle" /\ work'[o].token = work[o].token /\ work'[o].fresh = work[o].fresh
    BY <1>0, LikeFields
  <2> QED
    BY <1>0, <2>1, <2>2, PageStays
<1>3. StandingInv' /\ GrantInv'
  <2>1. \A o \in Tabs : pc'[o] = "update" => UserRow(work'[o].row)
    BY <1>0, LikeFields DEF StandingInv
  <2> QED
    BY <1>0, <2>1, AccountsStay, GrantsStay
<1>4. ReplyInv'
  <2>1. \A o \in Tabs : ReplyOf(o)'
    BY <1>0, ReplyStays
  <2> QED
    BY <1>0, <2>1, ResultStays
<1> QED
  BY <1>1, <1>2, <1>3, <1>4

(* What the row of a name says is what its failures in a row say, and      *)
(* never more than there were.                                             *)
LEMMA HeldOrNot ==
  ASSUME IInv, NEW name \in Names, scene.attempts > 0, NEW at \in Nat
  PROVE  /\ ~streak[name].muddled => (lockouts[name].until > at <=> Held(name, at))
         /\ lockouts[name].until > at => Earned(name, at)
<1>1. Counted(lockouts[name], name) /\ (streak[name].muddled \/ RowTells(name))
  BY DEF IInv, LockoutInv
<1>2. scene.attempts \in Nat /\ scene.duration \in Nat
  BY Bounds DEF IInv, TypeOK
<1>3. /\ lockouts[name] \in [id : Nat, failed : Nat, until : Nat]
      /\ streak[name] \in [failed : Nat, last : 0 .. now, muddled : BOOLEAN,
                           tally : Nat, latest : 0 .. now]
  BY DEF IInv, TypeOK
<1>4. now \in Nat
  BY DEF IInv, TypeOK
<1> QED
  BY <1>1, <1>2, <1>3, <1>4 DEF RowTells, Held, Earned, Counted, NoLockout

LEMMA ReadLockoutStep ==
  ASSUME IInv, NEW t \in Tabs, NEW at \in 1 .. now, ReadLockout(t, at)
  PROVE  IInv'
<1> DEFINE w == work[t]
           name == w.call.name
           row == lockouts[name]
           sure == ~streak[name].muddled /\ Rivals(t) = {}
           reply == [call |-> "login", status |-> "none", who |-> None,
                     sure |-> sure, held |-> Held(name, at), earned |-> Earned(name, at),
                     due |-> {None}]
           s == With(w, [reply |-> reply, row |-> row, began |-> at, alone |-> Rivals(t) = {}])
           locked == scene.attempts > 0 /\ row.until > at
           r == [reply EXCEPT !.status = "locked"]
<1>0. /\ TypeOK /\ WorkInv /\ AttemptInv /\ LockoutInv /\ SessionInv /\ CsrfInv /\ ReplyInv
      /\ StandingInv /\ GrantInv
  BY DEF IInv
<1>1. /\ pc[t] = "login"
      /\ UNCHANGED <<page, limits, users, grants, standing, allowed, desk, lockouts, lastid>>
  BY DEF ReadLockout, tables
<1>2. w.call \in Calls /\ w.call.call = "login" /\ DOMAIN w = RequestFields
  BY <1>0, <1>1 DEF WorkInv, WorkOf, Views
<1>3. name \in Names
  BY <1>2, LoginName
<1>4. /\ scene.attempts \in Nat /\ now \in Nat /\ at \in Nat /\ at <= now
      /\ row \in [id : Nat, failed : Nat, until : Nat]
      /\ streak[name] \in [failed : Nat, last : 0 .. now, muddled : BOOLEAN, tally : Nat, latest : 0 .. now]
  BY <1>0, <1>3, Bounds DEF TypeOK
<1>5. scene.attempts > 0 => /\ sure => (row.until > at <=> Held(name, at))
                            /\ row.until > at => Earned(name, at)
  BY <1>3, <1>4, HeldOrNot
<1>6. /\ DOMAIN s = RequestFields \cup {"row", "began", "alone"}
      /\ s.row = row /\ s.began = at /\ s.alone = (Rivals(t) = {})
      /\ \A f \in RequestFields \ {"reply"} : s[f] = w[f]
  BY <1>2 DEF With, RequestFields
<1>7. s.reply = reply
  BY DEF With
<1>8. /\ DOMAIN reply = LoginFields /\ reply.call = "login" /\ reply.status = "none"
      /\ reply.sure = sure /\ reply.held = Held(name, at) /\ reply.held \in BOOLEAN
  BY DEF LoginFields, Held
<1>9. /\ r.call = "login" /\ r.status = "locked" /\ r.sure = sure /\ r.held = Held(name, at)
      /\ r.earned = Earned(name, at)
  OBVIOUS
<1>10. CASE locked
  <2> DEFINE v == [s EXCEPT !.reply = r]
  <2>1. pc' = [pc EXCEPT ![t] = "respond"] /\ work' = [work EXCEPT ![t] = v] /\ streak' = streak
    BY ZenonT(60), <1>10 DEF ReadLockout, Reply, Go
  <2>2. /\ DOMAIN v = DOMAIN s /\ v.reply = r
        /\ \A f \in RequestFields \ {"reply"} : v[f] = w[f]
    BY <1>6 DEF RequestFields
  <2>3. Right(r)
    <3> HIDE DEF r, sure
    <3> QED
      BY <1>5, <1>9, <1>10 DEF Right, LockedAsDue, AnsweredAsDue, CheckedAsDue
  <2> HIDE DEF v, r, s, reply
  <2>4. /\ pc' \in [Tabs -> Steps] /\ DOMAIN work' = Tabs
        /\ pc'[t] = "respond" /\ work'[t] = v
        /\ \A o \in Tabs \ {t} : pc'[o] = pc[o] /\ work'[o] = work[o] /\ Like(work'[o], work[o])
    BY <1>0, <2>1 DEF TypeOK, Like, Steps
  <2>5. WorkInv' /\ SessionInv' /\ CsrfInv' /\ StandingInv' /\ GrantInv' /\ ReplyInv'
    <3>1. WorkOf(t)'
      BY <1>2, <1>6, <2>2, <2>4 DEF WorkOf, Attempting, Views, RequestFields
    <3>2. SessionOfWork(t)'
      BY <1>0, <1>1, <1>9, <2>2, <2>4 DEF SessionInv, SessionOfWork, LogsIn, LogsOut, RequestFields
    <3>3. ReplyOf(t)'
      BY <1>1, <2>2, <2>3, <2>4 DEF ReplyOf, Right, LockedAsDue, AnsweredAsDue, CheckedAsDue, limits
    <3>4. \A o \in Tabs \ {t} : Attempting(o) => work'[o].alone \in BOOLEAN
      BY <1>0, <2>4 DEF WorkInv, WorkOf
    <3>5. work'[t].token = work[t].token /\ work'[t].fresh = work[t].fresh
      BY <2>2, <2>4 DEF RequestFields
    <3> QED
      BY <1>1, <2>4, <3>1, <3>2, <3>3, <3>4, <3>5, LoginFrame
  <2>6. TypeOK'
    <3>1. requests' \in Nat /\ DOMAIN form' = Tabs
      BY <1>0, <1>1 DEF TypeOK, limits, page
    <3> QED
      BY <1>0, <1>1, <2>1, <2>4, <3>1, TypeStep DEF limits, page
  <2>7. AttemptInv' /\ LockoutInv'
    <3>1. \A o \in Tabs : Attempting(o)' =>
             /\ pc'[o] = pc[o] /\ Like(work'[o], work[o]) /\ work'[o].alone = work[o].alone
      BY <2>4 DEF Attempting
    <3>2. now <= now' /\ now' \in Nat
      BY <1>0, <1>1 DEF TypeOK, limits
    <3> QED
      BY <1>0, <1>1, <2>1, <3>1, <3>2, AttemptsStay DEF limits
  <2> QED
    BY <2>5, <2>6, <2>7 DEF IInv
<1>11. CASE ~locked
  <2>1. /\ pc' = [pc EXCEPT ![t] = "authenticate"]
        /\ work' = [o \in Tabs |-> IF o = t THEN s
                                   ELSE IF o \in Rivals(t) THEN [work[o] EXCEPT !.alone = FALSE]
                                   ELSE work[o]]
        /\ streak' = [streak EXCEPT ![name].muddled = @ \/ Rivals(t) # {}]
    BY <1>11 DEF ReadLockout
  <2>2. scene.attempts > 0 => row.until <= at /\ (reply.sure => ~reply.held)
    <3> HIDE DEF reply, sure
    <3> QED
      BY <1>4, <1>5, <1>8, <1>11
  <2> HIDE DEF s, reply
  <2>3. /\ pc' \in [Tabs -> Steps] /\ DOMAIN work' = Tabs
        /\ pc'[t] = "authenticate" /\ work'[t] = s
        /\ \A o \in Tabs \ {t} :
             /\ pc'[o] = pc[o]
             /\ o \notin Rivals(t) => work'[o] = work[o]
             /\ o \in Rivals(t) => work'[o] = [work[o] EXCEPT !.alone = FALSE]
    BY <1>0, <2>1 DEF TypeOK, Steps
  <2>4. \A o \in Tabs \ {t} :
          /\ Like(work'[o], work[o])
          /\ Attempting(o) => work'[o].alone = (o \notin Rivals(t) /\ work[o].alone)
          /\ Attempting(o) => work'[o].alone \in BOOLEAN /\ work'[o].reply = work[o].reply
    <3> SUFFICES ASSUME NEW o \in Tabs \ {t}
                 PROVE  /\ Like(work'[o], work[o])
                        /\ Attempting(o) => work'[o].alone = (o \notin Rivals(t) /\ work[o].alone)
                        /\ Attempting(o) => work'[o].alone \in BOOLEAN
                                            /\ work'[o].reply = work[o].reply
      OBVIOUS
    <3>1. Attempting(o) => "alone" \in DOMAIN work[o] /\ work[o].alone \in BOOLEAN
      BY <1>0 DEF WorkInv, WorkOf
    <3>2. o \in Rivals(t) => Attempting(o)
      BY DEF Rivals, Attempting
    <3>3. CASE o \in Rivals(t)
      <4>1. work'[o] = [work[o] EXCEPT !.alone = FALSE] /\ "alone" \in DOMAIN work[o]
        BY <2>3, <3>1, <3>2, <3>3
      <4>2. Like(work'[o], work[o]) /\ work'[o].alone = FALSE /\ work'[o].reply = work[o].reply
        BY <4>1 DEF Like
      <4> QED
        BY <3>3, <4>2
    <3>4. CASE o \notin Rivals(t)
      <4>1. work'[o] = work[o]
        BY <2>3, <3>4
      <4> QED
        BY <3>1, <3>4, <4>1 DEF Like
    <3> QED
      BY <3>3, <3>4
  <2>5. WorkInv' /\ SessionInv' /\ CsrfInv' /\ StandingInv' /\ GrantInv' /\ ReplyInv'
    <3>1. WorkOf(t)'
      <4>1. now' = now
        BY <1>1 DEF limits
      <4>2. s.call = w.call /\ s.alone \in BOOLEAN /\ s.began \in 1 .. now'
        BY <1>4, <1>6, <4>1 DEF RequestFields
      <4>3. s.row \in [id : Nat, failed : Nat, until : Nat]
        BY <1>4, <1>6
      <4>4. RequestFields \subseteq DOMAIN s /\ DOMAIN s = RequestFields \cup {"row", "began", "alone"}
        BY <1>6
      <4> HIDE DEF row, w
      <4> QED
        BY <1>2, <1>7, <1>8, <2>3, <4>2, <4>3, <4>4 DEF WorkOf, Attempting, Views
    <3>2. SessionOfWork(t)'
      BY <1>0, <1>1, <1>6, <2>3 DEF SessionInv, SessionOfWork, RequestFields
    <3>3. ReplyOf(t)'
      BY <2>3 DEF ReplyOf
    <3>4. work'[t].token = work[t].token /\ work'[t].fresh = work[t].fresh
      BY <1>6, <2>3 DEF RequestFields
    <3> QED
      BY <1>1, <2>3, <2>4, <3>1, <3>2, <3>3, <3>4, LoginFrame
  <2>6. /\ \A n \in Names : streak'[n].failed = streak[n].failed /\ streak'[n].last = streak[n].last
        /\ \A n \in Names : streak'[n].tally = streak[n].tally /\ streak'[n].latest = streak[n].latest
        /\ streak' \in [Names -> [failed : Nat, last : 0 .. now, muddled : BOOLEAN, tally : Nat, latest : 0 .. now]]
        /\ \A n \in Names : streak[n].muddled => streak'[n].muddled
        /\ Rivals(t) # {} => streak'[name].muddled
    BY ZenonT(60), <1>0, <1>3, <2>1 DEF TypeOK
  <2>7. TypeOK'
    <3>1. UNCHANGED <<scene, now, key, requests, jar, form, owner, lastid, lockouts>>
      BY <1>1 DEF limits, page
    <3> QED
      BY <1>0, <2>3, <2>6, <3>1 DEF TypeOK, Browsers, Steps
  <2>8. AttemptInv'
    <3>1. scene' = scene /\ lockouts' = lockouts
      BY <1>1 DEF limits
    <3>2. \A o \in Tabs \ {t} :
            /\ Attempting(o)' = Attempting(o)
            /\ Attempting(o) => work'[o].call = work[o].call
      BY <1>0, <2>3, <2>4, LikeFields DEF Attempting
    <3>3. work'[t].call = work[t].call
      BY <1>6, <2>3 DEF RequestFields
    <3>4. Rivals(t)' = Rivals(t)
      BY <3>2, <3>3 DEF Rivals, Attempting
    <3>5. ASSUME NEW o \in Tabs, Attempting(o)', o # t
          PROVE  LET v == work'[o] IN
                 /\ IF v.alone THEN Rivals(o)' = {} /\ v.row = lockouts'[v.call.name]
                    ELSE streak'[v.call.name].muddled
                 /\ scene'.attempts > 0 => /\ v.row.until <= v.began
                                           /\ v.reply.sure => ~v.reply.held
                                           /\ Counted(work[o].row, work[o].call.name)'
                 /\ v.reply.status # "locked"
      <4>1. Attempting(o) /\ Like(work'[o], work[o])
        BY <2>4, <3>2, <3>5
      <4>2. work[o].call.name \in Names
        BY <1>0, <4>1, LoginName DEF WorkInv, WorkOf, Attempting
      <4>0. scene.attempts > 0 => Counted(work[o].row, work[o].call.name)'
        <5>1. work'[o].call = work[o].call /\ work'[o].row = work[o].row
          BY <1>0, <4>1, LikeFields DEF Attempting
        <5>2. scene.attempts > 0 => Counted(work[o].row, work[o].call.name)
          BY <1>0, <4>1 DEF AttemptInv
        <5> QED
          BY <2>6, <3>1, <4>2, <5>1, <5>2 DEF Counted
      <4>3. CASE o \in Rivals(t)
        <5>0. /\ work'[o].call = work[o].call /\ work'[o].reply = work[o].reply
              /\ work'[o].row = work[o].row /\ work'[o].began = work[o].began
          BY <1>0, <4>1, LikeFields DEF Attempting
        <5>1. ~work'[o].alone /\ work'[o].call.name = name
          BY <2>4, <3>5, <4>1, <4>3, <5>0 DEF Rivals
        <5>2. streak'[name].muddled
          BY <2>6, <4>3
        <5> QED
          BY <1>0, <3>1, <4>0, <4>1, <5>0, <5>1, <5>2 DEF AttemptInv
      <4>4. CASE o \notin Rivals(t)
        <5>1. work'[o] = work[o] /\ work[o].call.name # name
          BY <2>3, <3>5, <4>1, <4>4 DEF Rivals, Attempting
        <5>2. Rivals(o)' = Rivals(o)
          BY <3>2, <3>3, <5>1 DEF Rivals, Attempting
        <5> QED
          BY <1>0, <2>6, <3>1, <4>0, <4>1, <4>2, <5>1, <5>2 DEF AttemptInv
      <4> QED
        BY <4>3, <4>4
    <3>6. LET v == work'[t] IN
          /\ IF v.alone THEN Rivals(t)' = {} /\ v.row = lockouts'[v.call.name]
             ELSE streak'[v.call.name].muddled
          /\ scene'.attempts > 0 => /\ v.row.until <= v.began
                                    /\ v.reply.sure => ~v.reply.held
                                    /\ Counted(work[t].row, work[t].call.name)'
          /\ v.reply.status # "locked"
      <4>1. scene.attempts > 0 => Counted(work[t].row, work[t].call.name)'
        <5>1. scene.attempts > 0 => Counted(row, name)
          BY <1>0, <1>3 DEF LockoutInv
        <5>2. work'[t].row = row /\ work'[t].call.name = name
          BY <1>6, <2>3, <3>3
        <5> QED
          BY <1>3, <2>6, <3>1, <5>1, <5>2 DEF Counted
      <4> QED
        BY ZenonT(60), <1>6, <1>7, <1>8, <2>2, <2>3, <2>6, <3>1, <3>3, <3>4, <4>1
    <3> QED
      BY <3>5, <3>6 DEF AttemptInv
  <2>9. LockoutInv'
    <3>1. UNCHANGED <<scene, now, lockouts>>
      BY <1>1 DEF limits
    <3>2. \A n \in Names : RowTells(n) => RowTells(n)'
      BY <2>6, <3>1 DEF RowTells
    <3>3. \A n \in Names : Counted(lockouts[n], n) => Counted(lockouts[n], n)'
      BY <2>6, <3>1 DEF Counted
    <3> QED
      BY <1>0, <2>6, <3>1, <3>2, <3>3 DEF LockoutInv
  <2> QED
    BY <2>5, <2>7, <2>8, <2>9 DEF IInv
<1> QED
  BY <1>10, <1>11

(* Who a login takes, against who it is due to.                            *)
LEMMA VerifiedRight ==
  ASSUME StandingInv, NEW name, NEW password
  PROVE  /\ Verified(name, password) \in {"error", "in", "no"}
         /\ Verified(name, password) = "in" =>
              (CHOOSE u \in Match(name) : TRUE) \in Due(name, password)
         /\ Verified(name, password) = "no" => None \in Due(name, password)
<1> DEFINE one == Cardinality(Match(name)) = 1
           u == CHOOSE x \in Match(name) : TRUE
           may == TRUE \in standing[u].active /\ password \in standing[u].password
           must == standing[u].active = {TRUE} /\ standing[u].password = {password}
<1>1. one => u \in DOMAIN users
  <2>1. one => Match(name) # {}
    BY FS_EmptySet
  <2> QED
    BY <2>1 DEF Match
<1>2. one => /\ users[u].active \in BOOLEAN /\ users[u].active \in standing[u].active
             /\ users[u].hash.password \in standing[u].password
  BY <1>1 DEF StandingInv, UserRow
<1>3. Verified(name, password) =
        IF ~Readable(IF one THEN users[u].hash ELSE DummyHash) THEN "error"
        ELSE IF one /\ VerifyPassword(password, IF one THEN users[u].hash ELSE DummyHash)
                    /\ users[u].active THEN "in" ELSE "no"
  BY DEF Verified
<1>4. Due(name, password) =
        IF ~one THEN {None}
        ELSE (IF may THEN {u} ELSE {}) \cup (IF must THEN {} ELSE {None})
  BY DEF Due
<1> HIDE DEF one, u
<1>5. CASE ~one
  BY <1>3, <1>4, <1>5
<1>6. CASE one
  <2>1. Verified(name, password) =
          IF ~Readable(users[u].hash) THEN "error"
          ELSE IF users[u].hash.password = password /\ users[u].active THEN "in" ELSE "no"
    BY <1>3, <1>6 DEF VerifyPassword
  <2>2. CASE users[u].hash.password = password /\ users[u].active
    <3>1. may
      BY <1>2, <1>6, <2>2
    <3> QED
      BY <1>4, <1>6, <2>1, <2>2, <3>1 DEF u
  <2>3. CASE ~(users[u].hash.password = password /\ users[u].active)
    <3>1. ~must
      BY <1>2, <1>6, <2>3
    <3> QED
      BY <1>4, <1>6, <2>1, <2>3, <3>1
  <2> QED
    BY <2>2, <2>3
<1> QED
  BY <1>5, <1>6 DEF u

LEMMA AuthenticateStep ==
  ASSUME IInv, NEW t \in Tabs, Authenticate(t)
  PROVE  IInv'
<1> DEFINE w == work[t]
           name == w.call.name
           limited == scene.throttle > 0 /\ Len(Recent(name)) >= scene.throttle
           status == IF limited THEN "limited" ELSE Verified(name, w.call.password)
           who == IF status = "in" THEN CHOOSE u \in Match(name) : TRUE ELSE None
           due == Due(name, w.call.password)
           r == [w.reply EXCEPT !.status = status, !.who = who, !.due = due]
           v == [w EXCEPT !.reply = r]
<1>0. /\ TypeOK /\ WorkInv /\ AttemptInv /\ LockoutInv /\ SessionInv /\ CsrfInv /\ ReplyInv
      /\ StandingInv /\ GrantInv
  BY DEF IInv
<1>1. /\ pc[t] = "authenticate"
      /\ UNCHANGED <<page, limits, users, grants, standing, allowed, desk, lockouts, lastid, streak>>
  BY DEF Authenticate, tables
<1>2. pc' = [pc EXCEPT ![t] = "record"] /\ work' = [work EXCEPT ![t] = v]
  BY DEF Authenticate, Go
<1>3. /\ status \in {"limited", "error", "in", "no"}
      /\ status # "in" => who = None
      /\ status \in {"in", "no"} => who \in due
  <2> DEFINE verified == Verified(name, w.call.password)
  <2>1. /\ verified \in {"error", "in", "no"}
        /\ verified = "in" => (CHOOSE u \in Match(name) : TRUE) \in due
        /\ verified = "no" => None \in due
    BY <1>0, VerifiedRight
  <2>2. status = "limited" \/ status = verified
    OBVIOUS
  <2> HIDE DEF verified, due, status
  <2> QED
    BY <2>1, <2>2
<1>4. /\ RequestFields \cup {"row", "began", "alone"} = DOMAIN w /\ w.call \in Calls
      /\ w.call.call = "login" /\ w.alone \in BOOLEAN /\ w.reply.held \in BOOLEAN
      /\ DOMAIN w.reply = LoginFields /\ w.reply.call = "login"
  BY <1>0, <1>1 DEF WorkInv, WorkOf, Attempting
<1> HIDE DEF status, who, due
<1>5. /\ DOMAIN r = LoginFields /\ r.call = "login" /\ r.status = status /\ r.who = who
      /\ r.due = due /\ r.sure = w.reply.sure /\ r.held = w.reply.held
  BY <1>4 DEF LoginFields
<1> HIDE DEF r
<1>6. /\ DOMAIN v = DOMAIN w /\ v.reply = r
      /\ \A f \in RequestFields \cup {"row", "began", "alone"} : f # "reply" => v[f] = w[f]
  BY <1>4 DEF RequestFields
<1> HIDE DEF v
<1>7. /\ pc' \in [Tabs -> Steps] /\ DOMAIN work' = Tabs
      /\ pc'[t] = "record" /\ work'[t] = v
      /\ \A o \in Tabs \ {t} : pc'[o] = pc[o] /\ work'[o] = work[o] /\ Like(work'[o], work[o])
  BY <1>0, <1>2 DEF TypeOK, Like, Steps
<1>8. /\ v.call = w.call /\ v.session = w.session /\ v.token = w.token /\ v.fresh = w.fresh
      /\ v.owner = w.owner /\ v.row = w.row /\ v.began = w.began /\ v.alone = w.alone
  BY <1>6 DEF RequestFields
<1>9. WorkInv' /\ SessionInv' /\ CsrfInv' /\ StandingInv' /\ GrantInv' /\ ReplyInv'
  <2>1. WorkOf(t)'
    <3>1. now' = now
      BY <1>1 DEF limits
    <3> QED
      BY <1>0, <1>1, <1>4, <1>5, <1>6, <1>7, <1>8, <3>1
      DEF WorkInv, WorkOf, Attempting, Views
  <2>2. SessionOfWork(t)'
    BY <1>0, <1>1, <1>7, <1>8 DEF SessionInv, SessionOfWork
  <2>3. ReplyOf(t)'
    BY <1>3, <1>5, <1>6, <1>7 DEF ReplyOf, AnsweredAsDue
  <2>4. \A o \in Tabs \ {t} : Attempting(o) => work'[o].alone \in BOOLEAN
    BY <1>0, <1>7 DEF WorkInv, WorkOf
  <2>5. work'[t].token = work[t].token /\ work'[t].fresh = work[t].fresh
    BY <1>7, <1>8
  <2> QED
    BY <1>1, <1>7, <2>1, <2>2, <2>3, <2>4, <2>5, LoginFrame
<1>10. TypeOK'
  <2>1. requests' \in Nat /\ DOMAIN form' = Tabs
    BY <1>0, <1>1 DEF TypeOK, limits, page
  <2> QED
    BY <1>0, <1>1, <1>7, <2>1, TypeStep DEF limits, page
<1>11. LockoutInv'
  BY <1>0, <1>1 DEF LockoutInv, RowTells, Counted, limits
<1>12. AttemptInv'
  <2>1. /\ scene' = scene /\ lockouts' = lockouts /\ streak' = streak
    BY <1>1 DEF limits
  <2>2. \A o \in Tabs : Attempting(o)' = Attempting(o) /\ work'[o].call = work[o].call
    BY <1>1, <1>7, <1>8 DEF Attempting
  <2>3. \A o \in Tabs : Rivals(o)' = Rivals(o)
    BY <2>2 DEF Rivals, Attempting
  <2>4. \A o \in Tabs \ {t} : work'[o] = work[o]
    BY <1>7
  <2>5. \A o \in Tabs : Attempting(o) =>
          /\ work'[o].alone = work[o].alone /\ work'[o].row = work[o].row
          /\ work'[o].began = work[o].began /\ work'[o].reply.sure = work[o].reply.sure
          /\ work'[o].reply.held = work[o].reply.held /\ work'[o].reply.status # "locked"
    <3>1. v.reply.sure = w.reply.sure /\ v.reply.held = w.reply.held /\ v.reply.status # "locked"
      BY <1>3, <1>5, <1>6
    <3> QED
      BY <1>0, <1>7, <1>8, <2>4, <3>1 DEF AttemptInv
  <2>6. ASSUME NEW o \in Tabs, Attempting(o), scene.attempts > 0
        PROVE  Counted(work[o].row, work[o].call.name)'
    <3>1. work'[o].row = work[o].row /\ work'[o].call = work[o].call
      BY <2>2, <2>5, <2>6
    <3> QED
      BY <1>0, <2>1, <2>6, <3>1 DEF AttemptInv, Counted
  <2> QED
    BY <1>0, <2>1, <2>2, <2>3, <2>5, <2>6 DEF AttemptInv
<1> QED
  BY <1>9, <1>10, <1>11, <1>12 DEF IInv

(* A failure adds to the row what it adds to the failures in a row.        *)
LEMMA FailureTells ==
  ASSUME scene.attempts \in Nat, scene.duration \in Nat, scene.attempts > 0,
         NEW row \in [id : Nat, failed : Nat, until : Nat], NEW failed \in Nat, NEW last \in Nat,
         NEW began \in Nat, row.until <= began,
         \/ row = NoLockout /\ failed = 0
         \/ /\ row.id # 0 /\ row.failed = failed /\ last > 0
            /\ row.until = IF failed >= scene.attempts THEN last + scene.duration ELSE 0
  PROVE  LET more == IF failed >= scene.attempts THEN 1 ELSE failed + 1 IN
         /\ Failure(row, began).failed = more
         /\ Failure(row, began).until =
              IF more >= scene.attempts THEN began + scene.duration ELSE 0
<1>1. CASE row = NoLockout /\ failed = 0
  BY <1>1 DEF Failure, ActiveStreak, NoLockout
<1>2. CASE row.id # 0 /\ row.failed = failed /\ failed >= scene.attempts
           /\ row.until = last + scene.duration /\ last > 0
  <2>1. ~ActiveStreak(row, began)
    BY <1>2 DEF ActiveStreak
  <2> QED
    BY <1>2, <2>1 DEF Failure
<1>3. CASE row.id # 0 /\ row.failed = failed /\ ~(failed >= scene.attempts) /\ row.until = 0
  <2>1. ActiveStreak(row, began)
    BY <1>3 DEF ActiveStreak
  <2> QED
    BY <1>3, <2>1 DEF Failure
<1> QED
  BY <1>1, <1>2, <1>3

LEMMA FailureType ==
  ASSUME scene.attempts \in Nat, scene.duration \in Nat,
         NEW row \in [id : Nat, failed : Nat, until : Nat], NEW began \in Nat
  PROVE  /\ Failure(row, began) \in [id : Nat, failed : Nat, until : Nat]
         /\ Failure(row, began).id = row.id
BY DEF Failure, ActiveStreak

(* Whatever the row it was read from, it counts no failure there was not.  *)
LEMMA FailureCounted ==
  ASSUME scene.attempts \in Nat, scene.duration \in Nat, scene.attempts > 0,
         NEW row \in [id : Nat, failed : Nat, until : Nat], NEW tally \in Nat, NEW latest \in Nat,
         NEW began \in Nat, row.until <= began,
         row.failed <= tally \/ tally >= scene.attempts
  PROVE  LET more == IF tally >= scene.attempts THEN tally ELSE tally + 1
             late == IF latest >= began THEN latest ELSE began IN
         /\ Failure(row, began).failed <= more \/ more >= scene.attempts
         /\ Failure(row, began).until > 0 =>
              more >= scene.attempts /\ Failure(row, began).until <= late + scene.duration
<1> DEFINE failed == IF ActiveStreak(row, began) THEN row.failed + 1 ELSE 1
           more == IF tally >= scene.attempts THEN tally ELSE tally + 1
<1>1. failed \in Nat /\ more \in Nat /\ (failed <= more \/ more >= scene.attempts)
  OBVIOUS
<1>2. Failure(row, began).failed = failed
  BY DEF Failure
<1>3. CASE failed >= scene.attempts
  <2>1. Failure(row, began).until = began + scene.duration
    BY <1>3 DEF Failure
  <2> HIDE DEF failed
  <2> QED
    BY <1>1, <1>2, <1>3, <2>1
<1>4. CASE ~(failed >= scene.attempts)
  <2>1. Failure(row, began).until = 0
    BY <1>4 DEF Failure, ActiveStreak
  <2> HIDE DEF failed
  <2> QED
    BY <1>1, <1>2, <2>1
<1> QED
  BY <1>3, <1>4

LEMMA RecordAttemptStep ==
  ASSUME IInv, NEW t \in Tabs, RecordAttempt(t)
  PROVE  IInv'
<1> DEFINE w == work[t]
           name == w.call.name
           row == w.row
           was == w.reply.status
           there == lockouts[name].id = row.id
           written == scene.attempts > 0 /\ (was = "no" \/ (was = "in" /\ row.id # 0))
           status == IF written /\ ~there THEN "error" ELSE was
           clean == w.alone /\ Rivals(t) = {}
           who == IF status = "in" THEN w.reply.who ELSE None
           r == [w.reply EXCEPT !.status = status, !.who = IF status = "in" THEN @ ELSE None]
           x == IF status = "in" THEN [w EXCEPT !.session = Login(@, r.who)] ELSE w
           v == [x EXCEPT !.reply = r]
           failure == [Failure(row, w.began) EXCEPT !.id = IF @ = 0 THEN lastid + 1 ELSE @]
<1>0. /\ TypeOK /\ WorkInv /\ AttemptInv /\ LockoutInv /\ SessionInv /\ CsrfInv /\ ReplyInv
      /\ StandingInv /\ GrantInv
  BY DEF IInv
<1>1. /\ pc[t] = "record"
      /\ UNCHANGED <<page, limits, users, grants, standing, allowed, desk>>
  BY ZenonT(60) DEF RecordAttempt
<1>2. /\ pc' = [pc EXCEPT ![t] = "respond"] /\ work' = [work EXCEPT ![t] = v]
  BY ZenonT(60) DEF RecordAttempt, Reply, Go
<1>3. lockouts' = IF written /\ there
                    THEN [lockouts EXCEPT ![name] = IF status = "in" THEN NoLockout ELSE failure]
                    ELSE lockouts
  BY ZenonT(60) DEF RecordAttempt
<1>4. lastid' = IF status = "no" /\ written /\ row.id = 0 THEN lastid + 1 ELSE lastid
  BY ZenonT(60) DEF RecordAttempt
<1>5. /\ status = "in" /\ clean =>
           streak' = [streak EXCEPT ![name] = Clean]
      /\ status = "no" =>
           streak' = [streak EXCEPT ![name].failed = IF @ >= scene.attempts THEN 1 ELSE @ + 1,
                                    ![name].last = w.began,
                                    ![name].tally = IF @ >= scene.attempts THEN @ ELSE @ + 1,
                                    ![name].latest = IF @ >= w.began THEN @ ELSE w.began]
      /\ ~(status = "in" /\ clean) /\ status # "no" => streak' = streak
  <2> HIDE DEF status, clean
  <2> QED
    BY DEF RecordAttempt, status, clean
<1>6. /\ RequestFields \cup {"row", "began", "alone"} = DOMAIN w /\ w.call \in Calls
      /\ w.call.call = "login" /\ w.alone \in BOOLEAN /\ w.reply.held \in BOOLEAN
      /\ DOMAIN w.reply = LoginFields /\ w.reply.call = "login"
      /\ row \in [id : Nat, failed : Nat, until : Nat] /\ w.began \in 1 .. now
  BY <1>0, <1>1 DEF WorkInv, WorkOf, Attempting
<1>7. /\ scene.attempts \in Nat /\ scene.duration \in Nat /\ now \in Nat /\ lastid \in Nat
      /\ name \in Names
  BY <1>0, <1>6, Bounds, LoginName DEF TypeOK
<1>8. /\ was # "locked" /\ was # "forbidden" /\ AnsweredAsDue(w.reply) /\ (was # "in" => w.reply.who = None)
      /\ scene.attempts > 0 => row.until <= w.began /\ (w.reply.sure => ~w.reply.held) /\ Counted(row, name)
      /\ IF w.alone THEN Rivals(t) = {} /\ row = lockouts[name] ELSE streak[name].muddled
  BY <1>0, <1>1 DEF AttemptInv, Attempting, ReplyInv, ReplyOf
<1>9. /\ status \in {was, "error"} /\ (clean <=> w.alone)
      /\ status # "in" => who = None
      /\ status = "in" => was = "in" /\ who = w.reply.who
      /\ w.alone => there /\ status = was
  BY <1>8
<1>10. failure \in [id : Nat, failed : Nat, until : Nat] /\ failure.id # 0
       /\ failure.failed = Failure(row, w.began).failed
       /\ failure.until = Failure(row, w.began).until
  <2>1. /\ Failure(row, w.began) \in [id : Nat, failed : Nat, until : Nat]
        /\ w.began \in Nat
    BY <1>6, <1>7, FailureType
  <2> QED
    BY <1>7, <2>1
<1> HIDE DEF failure
<1>11. lockouts' \in [Names -> [id : Nat, failed : Nat, until : Nat]] /\ lastid' \in Nat
  BY <1>0, <1>3, <1>4, <1>7, <1>10 DEF TypeOK, NoLockout
<1> DEFINE run == streak[name]
           counted == [failed |-> IF run.failed >= scene.attempts THEN 1 ELSE run.failed + 1,
                       last |-> w.began, muddled |-> run.muddled,
                       tally |-> IF run.tally >= scene.attempts THEN run.tally ELSE run.tally + 1,
                       latest |-> IF run.latest >= w.began THEN run.latest ELSE w.began]
           Runs == [failed : Nat, last : 0 .. now, muddled : BOOLEAN, tally : Nat, latest : 0 .. now]
<1>30. streak \in [Names -> Runs] /\ run \in Runs
  BY <1>0, <1>7 DEF TypeOK
<1>31. counted \in Runs
  <2>1. /\ run.failed \in Nat /\ run.tally \in Nat /\ run.muddled \in BOOLEAN
        /\ run.latest \in 0 .. now /\ w.began \in 0 .. now
    BY <1>6, <1>7, <1>30
  <2> HIDE DEF run, w
  <2> QED
    BY <1>7, <2>1
<1>32. /\ status = "in" /\ clean => streak' = [streak EXCEPT ![name] = Clean]
       /\ status = "no" => streak' = [streak EXCEPT ![name] = counted]
       /\ ~(status = "in" /\ clean) /\ status # "no" => streak' = streak
  <2> HIDE DEF status, clean, w
  <2> DEFINE more == IF run.failed >= scene.attempts THEN 1 ELSE run.failed + 1
             tally == IF run.tally >= scene.attempts THEN run.tally ELSE run.tally + 1
             latest == IF run.latest >= w.began THEN run.latest ELSE w.began
             set == [run EXCEPT !.failed = more, !.last = w.began, !.tally = tally, !.latest = latest]
  <2>1. run \in [failed : Nat, last : Nat, muddled : BOOLEAN, tally : Nat, latest : Nat]
    BY <1>7, <1>30
  <2>2. [streak EXCEPT ![name].failed = IF @ >= scene.attempts THEN 1 ELSE @ + 1,
                       ![name].last = w.began,
                       ![name].tally = IF @ >= scene.attempts THEN @ ELSE @ + 1,
                       ![name].latest = IF @ >= w.began THEN @ ELSE w.began]
        = [streak EXCEPT ![name] = set]
    BY <1>7, <1>30
  <2>3. set = counted
    <3> HIDE DEF run, more, tally, latest
    <3>1. set = [failed |-> more, last |-> w.began, muddled |-> run.muddled,
                 tally |-> tally, latest |-> latest]
      <4> DEFINE r1 == [run EXCEPT !.failed = more]
                 r2 == [r1 EXCEPT !.last = w.began]
                 r3 == [r2 EXCEPT !.tally = tally]
      <4>1. r1 = [failed |-> more, last |-> run.last, muddled |-> run.muddled,
                  tally |-> run.tally, latest |-> run.latest]
        BY <2>1
      <4> HIDE DEF r1
      <4>2. r2 = [failed |-> more, last |-> w.began, muddled |-> run.muddled,
                  tally |-> run.tally, latest |-> run.latest]
        BY <4>1
      <4> HIDE DEF r2
      <4>3. r3 = [failed |-> more, last |-> w.began, muddled |-> run.muddled,
                  tally |-> tally, latest |-> run.latest]
        BY <4>2
      <4> HIDE DEF r3
      <4>4. [r3 EXCEPT !.latest = latest]
            = [failed |-> more, last |-> w.began, muddled |-> run.muddled,
               tally |-> tally, latest |-> latest]
        BY <4>3
      <4> QED
        BY <4>4 DEF r1, r2, r3
    <3> QED
      BY <3>1 DEF more, tally, latest
  <2> HIDE DEF counted, set, name
  <2> QED
    BY <1>5, <2>2, <2>3
<1>33. Clean \in Runs
  BY <1>7 DEF Clean
<1> HIDE DEF Runs, counted, status, clean, run
<1>34. /\ streak' \in [Names -> Runs]
       /\ \A n \in Names \ {name} : streak'[n] = streak[n]
       /\ status = "in" /\ clean => streak'[name] = Clean
       /\ status = "no" => streak'[name] = counted
  BY <1>7, <1>30, <1>31, <1>32, <1>33
<1>35. /\ counted.failed = IF run.failed >= scene.attempts THEN 1 ELSE run.failed + 1
       /\ counted.last = w.began /\ counted.muddled = run.muddled
       /\ counted.tally = IF run.tally >= scene.attempts THEN run.tally ELSE run.tally + 1
       /\ counted.latest = IF run.latest >= w.began THEN run.latest ELSE w.began
  BY DEF counted
<1> USE DEF status, clean, run
<1>12. streak' \in [Names -> [failed : Nat, last : 0 .. now, muddled : BOOLEAN, tally : Nat, latest : 0 .. now]]
  BY <1>34 DEF Runs
<1>13. \A n \in Names \ {name} : lockouts'[n] = lockouts[n] /\ streak'[n] = streak[n]
  <2> HIDE DEF status, clean
  <2> QED
    BY <1>0, <1>3, <1>7, <1>34 DEF TypeOK
<1>14. ~w.alone => streak'[name].muddled
  <2> HIDE DEF status, clean
  <2>1. ~w.alone => ~clean /\ run.muddled
    BY <1>8, <1>9
  <2> QED
    BY <1>32, <1>34, <1>35, <2>1
<1>15. lockouts'[name].id = 0 => lockouts'[name] = NoLockout
  <2>1. lockouts[name].id = 0 => lockouts[name] = NoLockout
    BY <1>0, <1>7 DEF LockoutInv
  <2> HIDE DEF status
  <2> QED
    BY <1>0, <1>3, <1>7, <1>10, <2>1 DEF TypeOK
<1>16. ASSUME scene.attempts > 0, w.alone, NEW n \in Names, n = name
       PROVE  streak'[n].muddled \/ RowTells(n)'
  <2>0. /\ scene' = scene /\ now' = now
    BY <1>1 DEF limits
  <2>1. row = lockouts[name] /\ there /\ status = was /\ row.until <= w.began
    BY <1>8, <1>9, <1>16
  <2>2. run \in [failed : Nat, last : 0 .. now, muddled : BOOLEAN, tally : Nat, latest : 0 .. now] /\ row.until <= now
    BY <1>6, <1>7, <1>30, <2>1 DEF Runs
  <2>3. run.muddled \/ RowTells(name)
    BY <1>0, <1>7, <1>16 DEF LockoutInv
  <2>4. CASE status = "in"
    <3>1. streak'[name] = Clean
      BY <1>9, <1>16, <1>34, <2>4
    <3>2. row.id = 0 => row = NoLockout
      BY <1>0, <1>7, <2>1 DEF LockoutInv
    <3>3. lockouts'[name] = NoLockout
      BY <1>0, <1>3, <1>7, <1>16, <2>1, <2>4, <3>2 DEF TypeOK
    <3> QED
      BY <1>16, <3>1, <3>3 DEF RowTells, Clean
  <2>5. CASE status = "no"
    <3>1. /\ streak'[name].failed = IF run.failed >= scene.attempts THEN 1 ELSE run.failed + 1
          /\ streak'[name].last = w.began /\ streak'[name].muddled = run.muddled
      BY <1>34, <1>35, <2>5
    <3>2. lockouts'[name] = failure
      BY <1>0, <1>3, <1>7, <1>16, <2>1, <2>5 DEF TypeOK
    <3>3. CASE ~run.muddled
      <4>1. \/ row = NoLockout /\ run.failed = 0
            \/ /\ row.id # 0 /\ row.failed = run.failed /\ run.last > 0
               /\ row.until = IF run.failed >= scene.attempts THEN run.last + scene.duration ELSE 0
        BY <2>1, <2>3, <3>3 DEF RowTells
      <4> DEFINE more == IF run.failed >= scene.attempts THEN 1 ELSE run.failed + 1
      <4>2. /\ Failure(row, w.began).failed = more
            /\ Failure(row, w.began).until =
                 IF more >= scene.attempts THEN w.began + scene.duration ELSE 0
        <5> DEFINE failed == run.failed
                   last == run.last
        <5>1. failed \in Nat /\ last \in Nat /\ w.began \in Nat
          BY <1>6, <1>7, <2>2
        <5>2. \/ row = NoLockout /\ failed = 0
              \/ /\ row.id # 0 /\ row.failed = failed /\ last > 0
                 /\ row.until = IF failed >= scene.attempts THEN last + scene.duration ELSE 0
          BY <4>1
        <5> HIDE DEF failed, last, row
        <5>3. LET m == IF failed >= scene.attempts THEN 1 ELSE failed + 1 IN
              /\ Failure(row, w.began).failed = m
              /\ Failure(row, w.began).until =
                   IF m >= scene.attempts THEN w.began + scene.duration ELSE 0
          BY <1>6, <1>7, <1>16, <2>1, <5>1, <5>2, FailureTells
        <5> QED
          BY <5>3 DEF failed
      <4> HIDE DEF more
      <4>3. streak'[name].failed = more
        BY <3>1 DEF more
      <4> QED
        BY <1>6, <1>10, <1>16, <2>0, <3>1, <3>2, <4>2, <4>3 DEF RowTells
    <3>4. CASE run.muddled
      BY <1>16, <3>1, <3>4
    <3> QED
      BY <3>3, <3>4
  <2>6. CASE status \notin {"in", "no"}
    <3>1. streak' = streak
      BY <1>5, <2>6
    <3>2. lockouts' = lockouts
      BY <1>3, <2>1, <2>6
    <3> QED
      BY <1>16, <2>0, <2>3, <3>1, <3>2 DEF RowTells
  <2> QED
    BY <2>4, <2>5, <2>6
<1>17. ASSUME ~(status = "in" /\ clean)
       PROVE  /\ streak'[name].tally >= streak[name].tally
              /\ streak'[name].latest >= streak[name].latest
              /\ status = "no" =>
                   /\ streak'[name].tally = IF streak[name].tally >= scene.attempts
                                             THEN streak[name].tally ELSE streak[name].tally + 1
                   /\ streak'[name].latest = IF streak[name].latest >= w.began
                                             THEN streak[name].latest ELSE w.began
  <2>1. streak[name] \in [failed : Nat, last : 0 .. now, muddled : BOOLEAN,
                          tally : Nat, latest : 0 .. now]
    BY <1>30 DEF Runs
  <2>2. status = "no" =>
          /\ streak'[name].tally = IF streak[name].tally >= scene.attempts
                                    THEN streak[name].tally ELSE streak[name].tally + 1
          /\ streak'[name].latest = IF streak[name].latest >= w.began
                                     THEN streak[name].latest ELSE w.began
    BY <1>34, <1>35
  <2>3. status # "no" => streak' = streak
    BY <1>5, <1>17
  <2> HIDE DEF status, clean
  <2> QED
    BY <1>6, <1>7, <2>1, <2>2, <2>3
<1>18. ASSUME scene.attempts > 0, NEW n \in Names, n = name
       PROVE  Counted(lockouts[n], n)'
  <2> DEFINE next == streak'[n]
  <2>1. /\ scene' = scene
        /\ lockouts[name] \in [id : Nat, failed : Nat, until : Nat]
        /\ run \in [failed : Nat, last : 0 .. now, muddled : BOOLEAN, tally : Nat, latest : 0 .. now]
        /\ next \in [failed : Nat, last : 0 .. now, muddled : BOOLEAN, tally : Nat, latest : 0 .. now]
    BY <1>0, <1>1, <1>7, <1>12 DEF TypeOK, limits
  <2>2. lockouts'[n] = NoLockout => Counted(lockouts[n], n)'
    BY <1>7, <2>1 DEF Counted, NoLockout
  <2>3. CASE status = "in"
    <3>1. written /\ there => lockouts'[n] = NoLockout
      BY <1>0, <1>3, <1>7, <1>18, <2>3 DEF TypeOK
    <3>2. row.id = 0 /\ there => lockouts[name] = NoLockout
      BY <1>0, <1>7 DEF LockoutInv
    <3>3. ~(written /\ there) => lockouts'[n] = lockouts[name]
      BY <1>3, <1>18
    <3>4. clean => there /\ (written \/ row.id = 0)
      BY <1>9, <1>18, <2>3
    <3>5. CASE clean
      BY <2>2, <3>1, <3>2, <3>3, <3>4, <3>5
    <3>6. CASE ~clean
      <4>1. next.tally >= run.tally /\ next.latest >= run.latest
        BY <1>17, <1>18, <3>6
      <4>2. Counted(lockouts[name], name)
        BY <1>0, <1>7, <1>18 DEF LockoutInv
      <4>3. CASE written /\ there
        BY <2>2, <3>1, <4>3
      <4>4. CASE ~(written /\ there)
        BY <1>7, <1>18, <2>1, <3>3, <4>1, <4>2, <4>4 DEF Counted
      <4> QED
        BY <4>3, <4>4
    <3> QED
      BY <3>5, <3>6
  <2>4. CASE status # "in"
    <3>1. next.tally >= run.tally /\ next.latest >= run.latest
      BY <1>17, <1>18, <2>4
    <3>2. CASE ~(written /\ there)
      <4>1. lockouts'[n] = lockouts[name] /\ Counted(lockouts[name], name)
        BY <1>0, <1>3, <1>7, <1>18, <3>2 DEF LockoutInv
      <4> QED
        BY <1>7, <1>18, <2>1, <3>1, <4>1 DEF Counted
    <3>3. CASE written /\ there
      <4>1. status = "no"
        BY <2>4, <3>3
      <4>2. lockouts'[n] = failure
        BY <1>0, <1>3, <1>7, <1>18, <2>4, <3>3 DEF TypeOK
      <4>3. /\ next.tally = IF run.tally >= scene.attempts THEN run.tally ELSE run.tally + 1
            /\ next.latest = IF run.latest >= w.began THEN run.latest ELSE w.began
        BY <1>17, <1>18, <2>4, <4>1
      <4>4. /\ Failure(row, w.began).failed <= next.tally \/ next.tally >= scene.attempts
            /\ Failure(row, w.began).until > 0 =>
                 /\ next.tally >= scene.attempts
                 /\ Failure(row, w.began).until <= next.latest + scene.duration
        <5> DEFINE tally == run.tally
                   latest == run.latest
                   began == w.began
        <5>1. tally \in Nat /\ latest \in Nat /\ began \in Nat /\ row.until <= began
          BY <1>6, <1>7, <1>8, <1>18, <2>1
        <5>2. row.failed <= tally \/ tally >= scene.attempts
          BY <1>8, <1>18 DEF Counted
        <5>3. /\ next.tally = IF tally >= scene.attempts THEN tally ELSE tally + 1
              /\ next.latest = IF latest >= began THEN latest ELSE began
          BY <4>3
        <5> HIDE DEF tally, latest, began, row, next
        <5>4. LET more == IF tally >= scene.attempts THEN tally ELSE tally + 1
                  late == IF latest >= began THEN latest ELSE began IN
              /\ Failure(row, began).failed <= more \/ more >= scene.attempts
              /\ Failure(row, began).until > 0 =>
                   more >= scene.attempts /\ Failure(row, began).until <= late + scene.duration
          BY <1>6, <1>7, <1>18, <5>1, <5>2, FailureCounted
        <5> QED
          BY <5>3, <5>4 DEF began
      <4> QED
        BY <1>10, <1>18, <2>1, <4>2, <4>4 DEF Counted
    <3> QED
      BY <3>2, <3>3
  <2> QED
    BY <2>3, <2>4
<1>19. LockoutInv'
  <2>0. /\ scene' = scene /\ now' = now
    BY <1>1 DEF limits
  <2>1. \A n \in Names : lockouts'[n].id = 0 => lockouts'[n] = NoLockout
    BY <1>0, <1>13, <1>15 DEF LockoutInv
  <2>2. ASSUME scene.attempts > 0, NEW n \in Names
        PROVE  streak'[n].muddled \/ RowTells(n)'
    <3>1. CASE n = name
      BY <1>6, <1>14, <1>16, <2>2, <3>1
    <3>2. CASE n # name
      BY <1>0, <1>13, <2>0, <2>2, <3>2 DEF LockoutInv, RowTells
    <3> QED
      BY <3>1, <3>2
  <2>3. ASSUME scene.attempts > 0, NEW n \in Names
        PROVE  Counted(lockouts[n], n)'
    <3>1. CASE n = name
      BY <1>18, <2>3, <3>1
    <3>2. CASE n # name
      BY <1>0, <1>13, <2>0, <2>3, <3>2 DEF LockoutInv, Counted
    <3> QED
      BY <3>1, <3>2
  <2> QED
    BY <2>0, <2>1, <2>2, <2>3 DEF LockoutInv, NoLockout
<1>20. /\ DOMAIN r = LoginFields /\ r.call = "login" /\ r.status = status /\ r.who = who
       /\ r.due = w.reply.due /\ r.sure = w.reply.sure /\ r.held = w.reply.held
  <2> HIDE DEF status
  <2> QED
    BY SMTT(30), <1>6, <1>9 DEF LoginFields
<1>21. Right(r)
  <2>1. status # "locked" /\ status # "forbidden"
    BY <1>8, <1>9
  <2>2. LockedAsDue(r)
    <3> HIDE DEF r, status
    <3> QED
      BY <1>6, <1>8, <1>20, <2>1 DEF LockedAsDue
  <2>3. AnsweredAsDue(r)
    <3>1. ASSUME status \in {"in", "no"} PROVE who \in w.reply.due
      <4>1. was = status
        BY <1>9, <3>1
      <4>2. w.reply.who \in w.reply.due
        BY <1>6, <1>8, <3>1, <4>1 DEF AnsweredAsDue
      <4> HIDE DEF status, who, was
      <4> QED
        BY <1>8, <1>9, <3>1, <4>1, <4>2
    <3> HIDE DEF r, status, who
    <3> QED
      BY <1>20, <2>1, <3>1 DEF AnsweredAsDue
  <2>4. CheckedAsDue(r)
    <3> HIDE DEF r
    <3> QED
      BY <1>20 DEF CheckedAsDue
  <2> QED
    BY <2>2, <2>3, <2>4 DEF Right
<1>22. /\ DOMAIN x = DOMAIN w
       /\ \A f \in RequestFields \ {"session"} : x[f] = w[f]
       /\ status = "in" => UserOf(x.session) = who /\ ShouldSave(x.session)
       /\ status # "in" => x.session = w.session
       /\ DOMAIN x.session = {"data", "modified", "new"}
  <2> HIDE DEF r, status, who
  <2>1. DOMAIN w.session = {"data", "modified", "new"}
    BY <1>0, <1>1 DEF SessionInv, SessionOfWork
  <2>2. CASE status = "in"
    <3> DEFINE session == Login(w.session, r.who)
    <3>1. DOMAIN session = {"data", "modified", "new"} /\ UserOf(session) = r.who /\ ShouldSave(session)
      BY <2>1 DEF Login, CycleKey, Put, With, UserOf, Get, ShouldSave
    <3>2. x = [w EXCEPT !.session = session]
      BY <2>2
    <3> HIDE DEF session
    <3> QED
      BY <1>6, <1>20, <2>2, <3>1, <3>2 DEF RequestFields
  <2>3. CASE status # "in"
    BY <2>1, <2>3
  <2> QED
    BY <2>2, <2>3
<1> HIDE DEF x
<1>23. /\ DOMAIN v = DOMAIN w /\ v.reply = r /\ v.session = x.session
       /\ \A f \in RequestFields \ {"session", "reply"} : v[f] = w[f]
  <2> HIDE DEF r
  <2> QED
    BY <1>6, <1>22 DEF RequestFields
<1> HIDE DEF v, r
<1>24. /\ pc' \in [Tabs -> Steps] /\ DOMAIN work' = Tabs
       /\ pc'[t] = "respond" /\ work'[t] = v
       /\ \A o \in Tabs \ {t} : pc'[o] = pc[o] /\ work'[o] = work[o] /\ Like(work'[o], work[o])
  BY <1>0, <1>2 DEF TypeOK, Like, Steps
<1>25. WorkInv' /\ SessionInv' /\ CsrfInv' /\ StandingInv' /\ GrantInv' /\ ReplyInv'
  <2> HIDE DEF status, who
  <2>1. WorkOf(t)'
    BY <1>6, <1>23, <1>24 DEF WorkOf, Attempting, Views, RequestFields
  <2>2. SessionOfWork(t)'
    <3>1. UserOf(w.session) \in w.owner
      BY <1>0, <1>1 DEF SessionInv, SessionOfWork
    <3>2. v.owner = w.owner
      BY <1>23 DEF RequestFields
    <3> QED
      BY <1>20, <1>22, <1>23, <1>24, <3>1, <3>2 DEF SessionOfWork, LogsIn, LogsOut
  <2>3. ReplyOf(t)'
    BY <1>1, <1>21, <1>23, <1>24
    DEF ReplyOf, Right, LockedAsDue, AnsweredAsDue, CheckedAsDue, limits
  <2>4. \A o \in Tabs \ {t} : Attempting(o) => work'[o].alone \in BOOLEAN
    BY <1>0, <1>24 DEF WorkInv, WorkOf
  <2>5. work'[t].token = work[t].token /\ work'[t].fresh = work[t].fresh
    BY <1>23, <1>24 DEF RequestFields
  <2> QED
    BY <1>1, <1>24, <2>1, <2>2, <2>3, <2>4, <2>5, LoginFrame
<1>26. TypeOK'
  <2>1. UNCHANGED <<scene, now, key, requests, jar, form, owner>>
    BY <1>1 DEF limits, page
  <2> QED
    BY <1>0, <1>11, <1>12, <1>24, <2>1 DEF TypeOK, Browsers, Steps
<1>27. AttemptInv'
  <2>1. scene' = scene
    BY <1>1 DEF limits
  <2>2. ASSUME NEW o \in Tabs, Attempting(o)'
        PROVE  LET u == work'[o] IN
               /\ IF u.alone THEN Rivals(o)' = {} /\ u.row = lockouts'[u.call.name]
                  ELSE streak'[u.call.name].muddled
               /\ scene'.attempts > 0 => /\ u.row.until <= u.began
                                         /\ u.reply.sure => ~u.reply.held
                                         /\ Counted(work[o].row, work[o].call.name)'
               /\ u.reply.status # "locked"
    <3>1. o # t /\ Attempting(o) /\ work'[o] = work[o]
      BY <1>24, <2>2 DEF Attempting
    <3>2. Rivals(o)' \subseteq Rivals(o)
      BY <1>24, <3>1 DEF Rivals
    <3>3. work[o].call.name \in Names
      BY <1>0, <3>1, LoginName DEF WorkInv, WorkOf, Attempting
    <3>4. CASE work[o].call.name = name
      <4>1. t \in Rivals(o) /\ o \in Rivals(t)
        BY <1>1, <3>1, <3>4 DEF Rivals, Attempting
      <4>2. ~work[o].alone /\ ~w.alone
        BY <1>0, <1>8, <3>1, <4>1 DEF AttemptInv
      <4>3. streak'[name].muddled
        BY <1>14, <4>2
      <4>4. ASSUME scene.attempts > 0 PROVE Counted(work[o].row, work[o].call.name)'
        <5>1. /\ streak'[name].tally >= streak[name].tally
              /\ streak'[name].latest >= streak[name].latest
          BY <1>9, <1>17, <4>2
        <5>2. Counted(work[o].row, name)
          BY <1>0, <3>1, <3>4, <4>4 DEF AttemptInv
        <5>3. /\ work[o].row \in [id : Nat, failed : Nat, until : Nat]
              /\ streak[name] \in [failed : Nat, last : 0 .. now, muddled : BOOLEAN,
                                   tally : Nat, latest : 0 .. now]
              /\ streak'[name] \in [failed : Nat, last : 0 .. now, muddled : BOOLEAN,
                                    tally : Nat, latest : 0 .. now]
          BY <1>0, <1>7, <1>12, <3>1 DEF WorkInv, WorkOf, TypeOK
        <5> QED
          BY <1>7, <2>1, <3>1, <3>4, <5>1, <5>2, <5>3 DEF Counted
      <4> QED
        BY <1>0, <2>1, <3>1, <3>4, <4>2, <4>3, <4>4 DEF AttemptInv
    <3>5. CASE work[o].call.name # name
      <4>1. scene.attempts > 0 => Counted(work[o].row, work[o].call.name)'
        BY <1>0, <1>13, <2>1, <3>1, <3>3, <3>5 DEF AttemptInv, Counted
      <4> QED
        BY <1>0, <1>13, <2>1, <3>1, <3>2, <3>3, <3>5, <4>1 DEF AttemptInv
    <3> QED
      BY <3>4, <3>5
  <2> QED
    BY <2>2 DEF AttemptInv
<1> QED
  BY SMTT(30), <1>19, <1>25, <1>26, <1>27 DEF IInv

-----------------------------------------------------------------------------
(* A response arrives, time passes, the process starts again.              *)

(* What the browser has of the session that a response saves.              *)
LEMMA CookieSaved ==
  ASSUME key \in Nat \ {0}, now \in Nat, scene.age \in Nat, NEW session
  PROVE  LET cookie == CookieSet(session) IN
         /\ cookie.mac.key \in 0 .. key /\ cookie.expires \in Nat
         /\ cookie.expires > now => cookie.expires = now + scene.age
         /\ UserOf(SessionOf(cookie)) = IF scene.age = 0 THEN None ELSE UserOf(session)
<1>1. CASE scene.age = 0
  <2>1. CookieSet(session) = NoCookie
    BY <1>1 DEF CookieSet, Kept, Encode
  <2> QED
    BY <1>1, <2>1, NoCookieDecodes, NoOneYet
<1>2. CASE scene.age > 0
  <2> DEFINE cookie == Encode(session, key, now + scene.age)
  <2>1. /\ cookie.data = session.data /\ cookie.expires = now + scene.age
        /\ cookie.mac = Sign(key, <<cookie.data, cookie.expires>>) /\ cookie.mac.key = key
    BY DEF Encode, Sign
  <2> HIDE DEF cookie
  <2>2. CookieSet(session) = cookie
    BY <1>2, <2>1 DEF CookieSet, Kept, cookie
  <2>3. SessionOf(cookie).data = session.data
    BY <1>2, <2>1 DEF SessionOf, Decode
  <2> QED
    BY <1>2, <2>1, <2>2, <2>3 DEF UserOf, Get
<1> QED
  BY <1>1, <1>2

LEMMA RespondStep ==
  ASSUME IInv, NEW t \in Tabs, Respond(t)
  PROVE  IInv'
<1> DEFINE w == work[t]
           b == scene.browser[t]
           saved == ShouldSave(w.session)
           cookie == IF saved THEN CookieSet(w.session) ELSE jar[b].session
           csrf == CsrfCookieAfter(w, jar[b].csrf)
           user == OwnerAfter(w, owner[b].users)
           until == IF saved THEN now + scene.age ELSE owner[b].until
           raced == owner[b].raced \/ (w.fresh /\ jar[b].csrf # 0)
<1>0. /\ TypeOK /\ WorkInv /\ AttemptInv /\ LockoutInv /\ SessionInv /\ CsrfInv /\ ReplyInv
      /\ StandingInv /\ GrantInv
  BY DEF IInv
<1>1. /\ pc[t] = "respond" /\ result' = w.reply
      /\ UNCHANGED <<tables, limiter, desk, streak, now, key, requests, restarts, scene>>
      /\ UNCHANGED <<users, lockouts, lastid, grants, standing, allowed>>
  BY DEF Respond, tables
<1>2. b \in Browsers /\ Browsers' = Browsers
  BY <1>1 DEF Browsers
<1>3. /\ DOMAIN jar' = Browsers
      /\ \A c \in Browsers : DOMAIN jar'[c] = {"session", "csrf"}
      /\ \A c \in Browsers \ {b} : jar'[c] = jar[c]
      /\ jar'[b].session = cookie /\ jar'[b].csrf = csrf
  <2>1. jar' = [jar EXCEPT ![b].session = IF saved THEN CookieSet(w.session) ELSE @,
                           ![b].csrf = CsrfCookieAfter(w, @)]
    BY DEF Respond
  <2>2. DOMAIN jar[b] = {"session", "csrf"}
    BY <1>0, <1>2 DEF TypeOK
  <2> HIDE DEF saved, w, b
  <2> QED
    BY <1>0, <1>2, <2>1, <2>2 DEF TypeOK
<1>4. /\ DOMAIN owner' = Browsers
      /\ \A c \in Browsers : DOMAIN owner'[c] = {"users", "until", "raced"}
      /\ \A c \in Browsers \ {b} : owner'[c] = owner[c]
      /\ owner'[b].users = user /\ owner'[b].until = until /\ owner'[b].raced = raced
  <2>1. owner' = [owner EXCEPT ![b].users = OwnerAfter(w, @),
                               ![b].until = IF saved THEN now + scene.age ELSE @,
                               ![b].raced = @ \/ (w.fresh /\ jar[b].csrf # 0)]
    BY DEF Respond
  <2>2. DOMAIN owner[b] = {"users", "until", "raced"}
    BY <1>0, <1>2 DEF TypeOK
  <2> HIDE DEF saved, w, b
  <2> QED
    BY <1>0, <1>2, <2>1, <2>2 DEF TypeOK
<1>5. form' = [form EXCEPT ![t] = w.token]
  BY DEF Respond
<1>6. /\ pc' = [pc EXCEPT ![t] = "idle"] /\ DOMAIN work' = Tabs
      /\ \A o \in Tabs \ {t} : work'[o] = work[o] \/ work'[o] = [work[o] EXCEPT !.stale = TRUE]
  BY DEF Respond
<1>7. /\ pc' \in [Tabs -> Steps] /\ pc'[t] = "idle"
      /\ \A o \in Tabs \ {t} : /\ pc'[o] = pc[o] /\ Like(work'[o], work[o])
                               /\ Attempting(o) => work'[o].alone = work[o].alone
  <2>1. pc' \in [Tabs -> Steps] /\ pc'[t] = "idle" /\ \A o \in Tabs \ {t} : pc'[o] = pc[o]
    BY <1>0, <1>6 DEF TypeOK, Steps
  <2>2. ASSUME NEW o \in Tabs \ {t}
        PROVE  Like(work'[o], work[o]) /\ (Attempting(o) => work'[o].alone = work[o].alone)
    <3>1. Attempting(o) => "alone" \in DOMAIN work[o]
      BY <1>0 DEF WorkInv, WorkOf
    <3>2. CASE work'[o] = work[o]
      BY <3>2 DEF Like
    <3>3. CASE work'[o] = [work[o] EXCEPT !.stale = TRUE]
      BY <3>1, <3>3 DEF Like
    <3> QED
      BY <1>6, <3>2, <3>3
  <2> QED
    BY <2>1, <2>2
<1> HIDE DEF saved
<1>8. TypeOK'
  <2>1. DOMAIN form' = Tabs
    BY <1>0, <1>5 DEF TypeOK
  <2> QED
    BY <1>0, <1>1, <1>2, <1>3, <1>4, <1>6, <1>7, <2>1 DEF TypeOK, Steps
<1>9. WorkInv'
  <2>1. now \in Nat /\ now' \in Nat /\ now <= now'
    BY <1>0, <1>1 DEF TypeOK
  <2>2. ASSUME NEW o \in Tabs \ {t} PROVE WorkOf(o)'
    <3>1. Attempting(o) => work'[o].alone \in BOOLEAN
      BY <1>0, <1>7 DEF WorkInv, WorkOf
    <3> QED
      BY <1>0, <1>7, <2>1, <3>1, WorkStays
  <2>3. WorkOf(t)'
    BY <1>7 DEF WorkOf, Attempting, Views
  <2> QED
    BY <2>2, <2>3 DEF WorkInv
<1>10. AttemptInv' /\ LockoutInv'
  <2>1. \A o \in Tabs : Attempting(o)' =>
           /\ pc'[o] = pc[o] /\ Like(work'[o], work[o]) /\ work'[o].alone = work[o].alone
    BY <1>7 DEF Attempting
  <2>2. now <= now' /\ now' \in Nat
    BY <1>0, <1>1 DEF TypeOK
  <2> QED
    BY <1>0, <1>1, <2>1, <2>2, AttemptsStay
<1>11. SessionInv'
  <2>1. \A o \in Tabs : SessionOfWork(o)'
    <3>1. SessionOfWork(t)'
      BY <1>7 DEF SessionOfWork
    <3> QED
      BY <1>0, <1>7, <3>1, SessionStays
  <2>2. scene.age \in Nat /\ now \in Nat /\ key \in Nat \ {0}
    BY <1>0, Bounds DEF TypeOK
  <2>3. /\ jar[b].session.mac.key \in 0 .. key /\ jar[b].session.expires \in Nat
        /\ jar[b].session.expires > now => jar[b].session.expires = owner[b].until
        /\ UserOf(SessionOf(jar[b].session)) \in owner[b].users
        /\ scene.age = 0 => owner[b].users = {None}
    BY <1>0, <1>2 DEF SessionInv
  <2>4. /\ LogsIn(w.reply) => UserOf(w.session) = w.reply.who /\ saved
        /\ ~LogsIn(w.reply) /\ LogsOut(w.reply) => UserOf(w.session) = None /\ saved
        /\ ~LogsIn(w.reply) /\ ~LogsOut(w.reply) => UserOf(w.session) \in w.owner
    BY <1>0, <1>1 DEF SessionInv, SessionOfWork, saved
  <2>5. /\ cookie.mac.key \in 0 .. key /\ cookie.expires \in Nat
        /\ cookie.expires > now => cookie.expires = until
        /\ UserOf(SessionOf(cookie)) \in user
        /\ scene.age = 0 => user = {None}
    <3>1. CASE ~saved
      <4>1. user = owner[b].users
        BY <2>4, <3>1 DEF OwnerAfter, saved
      <4> QED
        BY <2>3, <3>1, <4>1
    <3>2. CASE saved /\ scene.age = 0
      <4>1. user = owner[b].users
        BY <3>2 DEF OwnerAfter
      <4>2. cookie = CookieSet(w.session) /\ until = now + scene.age
        BY <3>2
      <4> HIDE DEF cookie, until, user
      <4> QED
        BY <2>2, <2>3, <3>2, <4>1, <4>2, CookieSaved
    <3>3. CASE saved /\ scene.age # 0
      <4>1. user = IF LogsIn(w.reply) THEN {w.reply.who} ELSE IF LogsOut(w.reply) THEN {None}
                   ELSE IF w.stale THEN owner[b].users \cup w.owner ELSE w.owner
        BY <3>3 DEF OwnerAfter, saved
      <4>2. cookie = CookieSet(w.session) /\ until = now + scene.age
        BY <3>3
      <4>3. UserOf(w.session) \in user
        BY <2>4, <4>1
      <4> HIDE DEF cookie, until, user
      <4> QED
        BY <2>2, <3>3, <4>2, <4>3, CookieSaved
    <3> QED
      BY <3>1, <3>2, <3>3
  <2>6. UNCHANGED <<scene, key, now>>
    BY <1>1
  <2> HIDE DEF cookie, until, user
  <2>7. ASSUME NEW c \in Browsers
        PROVE  /\ jar'[c].session.mac.key \in 0 .. key /\ jar'[c].session.expires \in Nat
               /\ jar'[c].session.expires > now => jar'[c].session.expires = owner'[c].until
               /\ UserOf(SessionOf(jar'[c].session)) \in owner'[c].users
               /\ scene.age = 0 => owner'[c].users = {None}
    BY <1>0, <1>3, <1>4, <2>5 DEF SessionInv
  <2> QED
    BY <1>2, <2>1, <2>6, <2>7 DEF SessionInv, SessionOf
<1>12. CsrfInv'
  <2> SUFFICES ASSUME scene.csrf, NEW o \in Tabs, ~owner'[scene.browser[o]].raced
               PROVE  /\ form'[o] = 0 \/ form'[o] = jar'[scene.browser[o]].csrf
                      /\ pc'[o] # "idle" =>
                           /\ work'[o].token # 0
                           /\ work'[o].fresh \/ work'[o].token = jar'[scene.browser[o]].csrf
    BY <1>1 DEF CsrfInv
  <2>1. CASE scene.browser[o] # b
    <3>1. o # t /\ scene.browser[o] \in Browsers \ {b}
      BY <2>1 DEF Browsers
    <3>2. /\ jar'[scene.browser[o]] = jar[scene.browser[o]]
          /\ owner'[scene.browser[o]] = owner[scene.browser[o]]
      BY <1>3, <1>4, <3>1
    <3>3. /\ form'[o] = form[o] /\ pc'[o] = pc[o]
          /\ pc[o] # "idle" => work'[o].token = work[o].token /\ work'[o].fresh = work[o].fresh
      BY <1>0, <1>5, <1>7, <3>1, LikeFields DEF TypeOK
    <3> QED
      BY <1>0, <3>2, <3>3 DEF CsrfInv
  <2>2. CASE scene.browser[o] = b
    <3>1. ~owner[b].raced /\ ~(w.fresh /\ jar[b].csrf # 0)
      BY <1>4, <2>2
    <3>2. /\ w.token # 0 /\ (w.fresh \/ w.token = jar[b].csrf)
          /\ form[o] = 0 \/ form[o] = jar[b].csrf
          /\ pc[o] # "idle" =>
               work[o].token # 0 /\ (work[o].fresh \/ work[o].token = jar[b].csrf)
      BY <1>0, <1>1, <2>2, <3>1 DEF CsrfInv
    <3>3. csrf = w.token
      BY <3>2 DEF CsrfCookieAfter
    <3>4. CASE o = t
      BY <1>0, <1>3, <1>5, <1>7, <2>2, <3>3, <3>4 DEF TypeOK
    <3>5. CASE o # t
      <4>1. /\ form'[o] = form[o] /\ pc'[o] = pc[o]
            /\ pc[o] # "idle" => work'[o].token = work[o].token /\ work'[o].fresh = work[o].fresh
        BY <1>0, <1>5, <1>7, <3>5, LikeFields DEF TypeOK
      <4>2. jar[b].csrf = 0 \/ csrf = jar[b].csrf
        BY <3>1, <3>2, <3>3
      <4> QED
        BY <1>3, <2>2, <3>2, <4>1, <4>2
    <3> QED
      BY <3>4, <3>5
  <2> QED
    BY <2>1, <2>2
<1>13. ReplyInv'
  <2>1. ReplyOf(t)'
    BY <1>7 DEF ReplyOf
  <2>2. \A o \in Tabs : ReplyOf(o)'
    BY <1>0, <1>1, <1>7, <2>1, ReplyStays
  <2>3. Right(result)'
    BY <1>0, <1>1 DEF ReplyInv, ReplyOf, Right, LockedAsDue, AnsweredAsDue, CheckedAsDue
  <2> QED
    BY <2>2, <2>3 DEF ReplyInv
<1>14. StandingInv' /\ GrantInv'
  <2>1. \A o \in Tabs : pc'[o] = "update" => UserRow(work'[o].row)
    BY <1>0, <1>7, LikeFields DEF StandingInv
  <2> QED
    BY <1>0, <1>1, <2>1, AccountsStay, GrantsStay
<1> QED
  BY <1>8, <1>9, <1>10, <1>11, <1>12, <1>13, <1>14 DEF IInv

(* A cookie the browser keeps tells the same as before.                    *)
LEMMA CookieAges ==
  ASSUME NEW k \in Nat \ {0}, NEW m \in Nat, NEW cookie, cookie.expires \in Nat,
         cookie.mac.key \in 0 .. k
  PROVE  LET kept == Kept(cookie, m + 1) IN
         /\ kept.mac.key \in 0 .. k /\ kept.expires \in Nat
         /\ kept.expires > m + 1 => kept = cookie /\ cookie.expires > m
         /\ cookie.expires > m + 1 => kept = cookie
         /\ Decode(kept, k, m + 1) =
              IF cookie.expires > m + 1 THEN Decode(cookie, k, m) ELSE NewSession
<1>1. CASE cookie.expires > m + 1
  <2>1. Kept(cookie, m + 1) = cookie /\ cookie.expires > m
    BY <1>1 DEF Kept
  <2> QED
    BY <1>1, <2>1 DEF Decode
<1>2. CASE ~(cookie.expires > m + 1)
  <2>1. Kept(cookie, m + 1) = NoCookie
    BY <1>2 DEF Kept
  <2>2. NoCookie.mac.key = 0 /\ NoCookie.expires = 0
    BY DEF NoCookie, Sign
  <2>3. Decode(NoCookie, k, m + 1) = NewSession
    BY <2>2 DEF Decode
  <2> QED
    BY <1>2, <2>1, <2>2, <2>3
<1> QED
  BY <1>1, <1>2

LEMMA TickStep ==
  ASSUME IInv, Tick
  PROVE  IInv'
<1>0. /\ TypeOK /\ WorkInv /\ AttemptInv /\ LockoutInv /\ SessionInv /\ CsrfInv /\ ReplyInv
      /\ StandingInv /\ GrantInv
  BY DEF IInv
<1>1. /\ now' = now + 1 /\ Browsers' = Browsers
      /\ UNCHANGED <<form, desk, pc, work, result, streak, key, requests, scene>>
      /\ UNCHANGED <<users, lockouts, lastid, grants, standing, allowed>>
  BY DEF Tick, tables, Browsers
<1>2. now \in Nat /\ now' \in Nat /\ now <= now' /\ key \in Nat \ {0}
  BY <1>0, <1>1 DEF TypeOK
<1>3. /\ DOMAIN jar' = Browsers
      /\ \A b \in Browsers : /\ DOMAIN jar'[b] = {"session", "csrf"}
                             /\ jar'[b].session = Kept(jar[b].session, now + 1)
                             /\ jar'[b].csrf = jar[b].csrf
  <2>1. jar' = [b \in Browsers |-> [jar[b] EXCEPT !.session = Kept(@, now + 1)]]
    BY <1>1 DEF Tick
  <2> QED
    BY <1>0, <2>1 DEF TypeOK
<1>4. /\ DOMAIN owner' = Browsers
      /\ \A b \in Browsers :
           /\ DOMAIN owner'[b] = {"users", "until", "raced"}
           /\ owner'[b].raced = owner[b].raced
           /\ owner[b].until > now' => owner'[b] = owner[b]
           /\ ~(owner[b].until > now') => owner'[b].users = {None}
  <2>1. owner' = [b \in Browsers |-> IF owner[b].until > now' THEN owner[b]
                                     ELSE [owner[b] EXCEPT !.users = {None}, !.until = 0]]
    BY DEF Tick
  <2> QED
    BY <1>0, <2>1 DEF TypeOK
<1>5. TypeOK'
  BY <1>0, <1>1, <1>2, <1>3, <1>4 DEF TypeOK, Steps
<1>6. \A o \in Tabs : /\ pc'[o] = pc[o] /\ Like(work'[o], work[o])
                      /\ Attempting(o) => work'[o].alone = work[o].alone
  BY <1>1 DEF Like
<1>7. WorkInv'
  <2>1. ASSUME NEW o \in Tabs PROVE WorkOf(o)'
    <3>1. Attempting(o) => work'[o].alone \in BOOLEAN
      BY <1>0, <1>6 DEF WorkInv, WorkOf
    <3> QED
      BY <1>0, <1>2, <1>6, <3>1, WorkStays
  <2> QED
    BY <2>1 DEF WorkInv
<1>8. AttemptInv' /\ LockoutInv'
  <2>1. \A o \in Tabs : Attempting(o)' =>
           /\ pc'[o] = pc[o] /\ Like(work'[o], work[o]) /\ work'[o].alone = work[o].alone
    BY <1>6 DEF Attempting
  <2> QED
    BY <1>0, <1>1, <1>2, <2>1, AttemptsStay
<1>9. SessionInv'
  <2>1. \A o \in Tabs : SessionOfWork(o)'
    BY <1>0, <1>6, SessionStays
  <2>2. ASSUME NEW b \in Browsers
        PROVE  /\ jar'[b].session.mac.key \in 0 .. key /\ jar'[b].session.expires \in Nat
               /\ jar'[b].session.expires > now' => jar'[b].session.expires = owner'[b].until
               /\ UserOf(Decode(jar'[b].session, key, now')) \in owner'[b].users
               /\ scene.age = 0 => owner'[b].users = {None}
    <3> DEFINE cookie == jar[b].session
               kept == jar'[b].session
    <3>1. /\ cookie.mac.key \in 0 .. key /\ cookie.expires \in Nat
          /\ cookie.expires > now => cookie.expires = owner[b].until
          /\ UserOf(Decode(cookie, key, now)) \in owner[b].users
          /\ scene.age = 0 => owner[b].users = {None}
      BY <1>0 DEF SessionInv, SessionOf
    <3>2. kept = Kept(cookie, now + 1)
      BY <1>3
    <3> HIDE DEF cookie, kept
    <3>3. /\ kept.mac.key \in 0 .. key /\ kept.expires \in Nat
          /\ kept.expires > now' => kept = cookie /\ cookie.expires > now
          /\ cookie.expires > now' => kept = cookie
          /\ Decode(kept, key, now') =
               IF cookie.expires > now' THEN Decode(cookie, key, now) ELSE NewSession
      <4>1. /\ now' = now + 1 /\ now \in Nat /\ key \in Nat \ {0}
            /\ cookie.expires \in Nat /\ cookie.mac.key \in 0 .. key
        BY <1>1, <1>2, <3>1
      <4> DEFINE next == Kept(cookie, now + 1)
      <4>2. /\ next.mac.key \in 0 .. key /\ next.expires \in Nat
            /\ next.expires > now + 1 => next = cookie /\ cookie.expires > now
            /\ cookie.expires > now + 1 => next = cookie
            /\ Decode(next, key, now + 1) =
                 IF cookie.expires > now + 1 THEN Decode(cookie, key, now) ELSE NewSession
        BY <4>1, CookieAges, Zenon
      <4>3. kept = next
        BY <3>2
      <4> HIDE DEF next
      <4> QED
        BY <4>1, <4>2, <4>3
    <3>4. kept.expires > now' => owner'[b] = owner[b] /\ kept.expires = owner[b].until
      BY <1>4, <3>1, <3>3
    <3>5. CASE cookie.expires > now'
      <4>1. kept = cookie /\ owner'[b] = owner[b]
        BY <3>3, <3>4, <3>5
      <4>2. Decode(kept, key, now') = Decode(cookie, key, now)
        BY <3>3, <3>5
      <4>3. UserOf(Decode(kept, key, now')) \in owner'[b].users
        BY <3>1, <4>1, <4>2
      <4>4. scene.age = 0 => owner'[b].users = {None}
        BY <3>1, <4>1
      <4> QED
        BY <3>3, <3>4, <4>3, <4>4 DEF kept
    <3>6. CASE ~(cookie.expires > now')
      <4>1. UserOf(Decode(kept, key, now')) = None
        BY <3>3, <3>6, NoOneYet
      <4>2. None \in owner'[b].users
        <5>1. CASE owner[b].until > now'
          <6>1. ~(cookie.expires > now)
            BY <3>1, <3>6, <5>1
          <6>2. UserOf(Decode(cookie, key, now)) = None
            BY <6>1, NoOneYet DEF Decode
          <6> QED
            BY <1>4, <3>1, <5>1, <6>2
        <5> QED
          BY <1>4, <5>1
      <4>3. scene.age = 0 => owner'[b].users = {None}
        BY <1>4, <3>1
      <4> QED
        BY <3>3, <3>4, <4>1, <4>2, <4>3 DEF kept
    <3> QED
      BY <3>5, <3>6
  <2> QED
    BY <1>1, <2>1, <2>2 DEF SessionInv, SessionOf
<1>10. CsrfInv'
  <2>1. \A t \in Tabs : scene.browser[t] \in Browsers
    BY DEF Browsers
  <2> QED
    BY <1>0, <1>1, <1>3, <1>4, <2>1 DEF CsrfInv
<1>11. StandingInv' /\ GrantInv'
  <2>1. \A o \in Tabs : pc'[o] = "update" => UserRow(work'[o].row)
    BY <1>0, <1>1 DEF StandingInv
  <2> QED
    BY <1>0, <1>1, <2>1, AccountsStay, GrantsStay
<1>12. ReplyInv'
  <2>1. \A o \in Tabs : ReplyOf(o)'
    BY <1>0, <1>1, <1>6, ReplyStays
  <2> QED
    BY <1>0, <1>1, <2>1, ResultStays
<1> QED
  BY <1>5, <1>7, <1>8, <1>9, <1>10, <1>11, <1>12 DEF IInv

(* With another key no cookie is good, and with the same every one is.     *)
LEMMA RestartStep ==
  ASSUME IInv, NEW rotated \in BOOLEAN, Restart(rotated)
  PROVE  IInv'
<1>0. /\ TypeOK /\ WorkInv /\ AttemptInv /\ LockoutInv /\ SessionInv /\ CsrfInv /\ ReplyInv
      /\ StandingInv /\ GrantInv
  BY DEF IInv
<1>1. /\ key' = IF rotated THEN key + 1 ELSE key
      /\ pc' = [t \in Tabs |-> "idle"] /\ work' = [t \in Tabs |-> NoWork]
      /\ owner' = [b \in Browsers |-> IF rotated THEN [owner[b] EXCEPT !.users = {None}] ELSE owner[b]]
      /\ UNCHANGED <<jar, form, desk, result, streak, now, requests, scene>>
      /\ UNCHANGED <<users, lockouts, lastid, grants, standing, allowed>>
      /\ Browsers' = Browsers
  BY DEF Restart, tables, Browsers
<1>2. now \in Nat /\ key \in Nat \ {0} /\ key' \in Nat \ {0} /\ key <= key'
      /\ (rotated => key' = key + 1)
  BY <1>0, <1>1 DEF TypeOK
<1>3. /\ DOMAIN owner' = Browsers
      /\ \A b \in Browsers :
           /\ DOMAIN owner'[b] = {"users", "until", "raced"}
           /\ owner'[b].raced = owner[b].raced /\ owner'[b].until = owner[b].until
           /\ owner'[b].users = IF rotated THEN {None} ELSE owner[b].users
  BY <1>0, <1>1 DEF TypeOK
<1>4. \A t \in Tabs : pc'[t] = "idle" /\ ~Attempting(t)'
  BY <1>1 DEF Attempting
<1>5. TypeOK'
  BY <1>0, <1>1, <1>2, <1>3 DEF TypeOK, Steps
<1>6. WorkInv' /\ (\A t \in Tabs : SessionOfWork(t)' /\ ReplyOf(t)')
  BY <1>4 DEF WorkInv, WorkOf, SessionOfWork, ReplyOf, Views
<1>7. AttemptInv' /\ LockoutInv'
  <2>1. now <= now' /\ now' \in Nat
    BY <1>1, <1>2
  <2> QED
    BY <1>0, <1>1, <1>4, <2>1, AttemptsStay
<1>8. SessionInv'
  <2>1. ASSUME NEW b \in Browsers
        PROVE  /\ jar[b].session.mac.key \in 0 .. key' /\ jar[b].session.expires \in Nat
               /\ jar[b].session.expires > now => jar[b].session.expires = owner'[b].until
               /\ UserOf(Decode(jar[b].session, key', now)) \in owner'[b].users
               /\ scene.age = 0 => owner'[b].users = {None}
    <3> DEFINE cookie == jar[b].session
    <3>1. /\ cookie.mac.key \in 0 .. key /\ cookie.expires \in Nat
          /\ cookie.expires > now => cookie.expires = owner[b].until
          /\ UserOf(Decode(cookie, key, now)) \in owner[b].users
          /\ scene.age = 0 => owner[b].users = {None}
      BY <1>0 DEF SessionInv, SessionOf
    <3> HIDE DEF cookie
    <3>2. CASE rotated
      <4>1. cookie.mac.key # key' /\ cookie.mac.key \in 0 .. key'
        BY <1>2, <3>1, <3>2
      <4>2. Decode(cookie, key', now) = NewSession
        BY <4>1 DEF Decode, Sign
      <4> QED
        BY <1>3, <3>1, <3>2, <4>1, <4>2, NoOneYet DEF cookie
    <3>3. CASE ~rotated
      BY <1>1, <1>3, <3>1, <3>3 DEF cookie
    <3> QED
      BY <3>2, <3>3
  <2> QED
    BY <1>1, <1>6, <2>1 DEF SessionInv, SessionOf
<1>9. CsrfInv'
  <2>1. \A t \in Tabs : scene.browser[t] \in Browsers
    BY DEF Browsers
  <2> QED
    BY <1>0, <1>1, <1>3, <1>4, <2>1 DEF CsrfInv
<1>10. StandingInv' /\ GrantInv'
  <2>1. \A o \in Tabs : pc'[o] = "update" => UserRow(work'[o].row)
    BY <1>4
  <2> QED
    BY <1>0, <1>1, <2>1, AccountsStay, GrantsStay
<1>11. ReplyInv'
  BY <1>0, <1>1, <1>6, ResultStays
<1> QED
  BY <1>5, <1>6, <1>7, <1>8, <1>9, <1>10, <1>11 DEF IInv

-----------------------------------------------------------------------------
LEMMA StepInv ==
  ASSUME IInv, [Next]_vars
  PROVE  IInv'
<1>1. ASSUME NEW t \in Tabs, NEW call \in Calls, Send(t, call)
      PROVE  IInv'
  BY <1>1, SendStep
<1>2. ASSUME NEW t \in Tabs, Respond(t)
      PROVE  IInv'
  BY <1>2, RespondStep
<1>3. ASSUME NEW t \in Tabs,
             (\E at \in 1 .. now : ReadLockout(t, at)) \/ Authenticate(t) \/ RecordAttempt(t)
      PROVE  IInv'
  BY <1>3, ReadLockoutStep, AuthenticateStep, RecordAttemptStep
<1>4. ASSUME NEW t \in Tabs, Handle(t) \/ Visit(t)
      PROVE  IInv'
  BY <1>4, HandleStep, VisitStep
<1>5. ASSUME NEW t \in Tabs, NEW delivered \in BOOLEAN,
             RequestReset(t, delivered) \/ ReadReset(t) \/ UpdateUser(t)
      PROVE  IInv'
  BY <1>5, RequestResetStep, ReadResetStep, UpdateUserStep
<1>6. ASSUME NEW t \in Tabs, ReadGrant(t) \/ InsertGrant(t) \/ Revoke(t)
      PROVE  IInv'
  BY <1>6, GrantStep
<1>7. ASSUME NEW t \in Tabs, CheckObject(t)
      PROVE  IInv'
  BY <1>7, CheckStep
<1>8. CASE \/ \E u \in People : StaffOpens(u) \/ StaffDeletes(u)
           \/ \E active \in BOOLEAN : StaffSaves(active)
           \/ SyncPermissions
  BY <1>8, StaffStep
<1>9. CASE Tick
  BY <1>9, TickStep
<1>10. ASSUME NEW rotated \in BOOLEAN, Restart(rotated)
       PROVE  IInv'
  BY <1>10, RestartStep
<1>11. CASE UNCHANGED vars
  <2>1. UNCHANGED <<lockouts, lastid, page, limits, streak, pc, work>>
        /\ UNCHANGED <<users, standing, desk, grants, allowed>>
    BY <1>11 DEF vars, page, limits
  <2>2. TypeOK' /\ WorkInv' /\ AttemptInv' /\ LockoutInv' /\ SessionInv' /\ CsrfInv' /\ ReplyInv'
    BY <2>1, BesidesRequests
  <2>3. StandingInv' /\ GrantInv'
    BY <2>1, AccountsStay, GrantsStay DEF IInv, StandingInv
  <2> QED
    BY <2>2, <2>3 DEF IInv
<1> QED
  BY <1>1, <1>2, <1>3, <1>4, <1>5, <1>6, <1>7, <1>8, <1>9, <1>10, <1>11 DEF Next

(* The inductive invariant: requests of several tabs, staff, ticks and     *)
(* restarts keep every part of it, in whatever order their steps come.     *)
THEOREM InductiveInvariant == Spec => []IInv
<1> QED
  BY InitInv, StepInv, PTL DEF Spec

(* PersistentLockoutBackend: however attempts on a name overlap, it never  *)
(* answers "locked" without so many failures since a login that overlapped *)
(* none, the latest within the duration; and as long as they do not, it    *)
(* answers so exactly within the duration after so many failures in a row, *)
(* for any attempts and duration: a restart, the limiter in memory and the *)
(* right password change nothing.                                          *)
THEOREM LockoutHolds == Spec => []LockoutStands
<1>1. IInv => LockoutStands
  BY DEF IInv, ReplyInv, Right, LockoutStands
<1> QED
  BY <1>1, InductiveInvariant, PTL

(* SessionLayer, Auth and CsrfLayer: a page is for whoever logged in last  *)
(* with a key still in use, or when responses of this browser crossed for  *)
(* one of those; a login takes the password and the standing set last, or  *)
(* what a row written whole put back; a form with a token is refused only  *)
(* after first pages crossed.                                              *)
THEOREM AnswersAreDue == Spec => []AnswersFor
<1>1. IInv => AnswersFor
  BY DEF IInv, ReplyInv, Right, AnswersFor
<1> QED
  BY <1>1, InductiveInvariant, PTL

(* revoke_object_permission: it deletes every row, so that however many    *)
(* grants overlapped before it, no later check finds the permission.       *)
THEOREM GrantsEndWithRevoke == Spec => []RevokeIsFinal
<1>1. IInv => RevokeIsFinal
  BY DEF IInv, ReplyInv, Right, RevokeIsFinal
<1> QED
  BY <1>1, InductiveInvariant, PTL

=============================================================================
