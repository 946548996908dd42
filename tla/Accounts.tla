------------------------------ MODULE Accounts ------------------------------
(***************************************************************************)
(* Browsers with several tabs ask a site for logins, pages, password       *)
(* resets and permissions while staff edit the same accounts.  A request   *)
(* takes its session from the cookie it brings and gives it back with the  *)
(* response; logging in reads the lockout of the name, then the account,   *)
(* then writes the lockout; the process may restart at any time.           *)
(***************************************************************************)
EXTENDS Credentials, Integers, Sequences, FiniteSets

CONSTANTS
  Tabs,
  Scenes          \* [browser, calls, csrf, users, tables, models, tokens, attempts, duration,
                  \* throttle, window, age, ttl, staff, requests, clock, restarts]: the browser
                  \* of a tab and what it may ask for, the rows, the settings, bounds

UserRow(u) == DOMAIN u = {"name", "email", "hash", "active"} /\ u.active \in BOOLEAN

(* Permissions of users, members of groups, permissions of groups.         *)
AuthTables(t) ==
  /\ DOMAIN t = {"direct", "member", "group"}
  /\ \A pair \in t.direct \cup t.member \cup t.group : DOMAIN pair = {1, 2}

ASSUME SceneAssumption ==
  \A s \in Scenes :
    /\ {s.attempts, s.duration, s.throttle, s.age, s.requests, s.clock, s.restarts} \subseteq Nat
    /\ AuthTables(s.tables) /\ \A u \in DOMAIN s.users : UserRow(s.users[u])

VARIABLES
  scene,
  now, key,       \* the time, from 1 on; which of its secret keys the process runs with
  users,          \* auth_user: [id -> [name, email, hash, active]]
  lockouts,       \* auth_login_lockout: [name -> [id, failed, until]], id 0 for no row
  lastid,         \* the highest id it ever had
  limiter,        \* [name -> times of attempts], in the memory of the process
  permissions,    \* auth_permission
  grants,         \* the rows of djangors_object_permission, counted
  mailed,         \* the reset links sent
  jar,            \* [browser -> [session, csrf]]: its cookies
  form,           \* [tab -> the CSRF token in the page it shows, 0 for none]
  desk,           \* the account a member of staff has open, as it was when opened
  pc, work, result,
  requests, restarts,
  streak,         \* history: [name -> [failed, last, muddled, tally, latest]]: failures in a row,
                  \* the start of the last one, whether attempts overlapped since the last clean
                  \* login; failures since then as far as they count, and the latest start of one
  owner,          \* history: [browser -> [users, until, raced]]: who logged in last; of
                  \* responses that crossed, either may have been the last
  standing,       \* history: [id -> [active, password]]: what was last set, by anybody, and
                  \* what a row written whole put back
  allowed         \* history: the object permissions granted and not revoked

vars == <<scene, now, key, users, lockouts, lastid, limiter, permissions, grants, mailed, jar,
          form, desk, pc, work, result, requests, restarts, streak, owner, standing, allowed>>

NoLockout == [id |-> 0, failed |-> 0, until |-> 0]
Clean == [failed |-> 0, last |-> 0, muddled |-> FALSE, tally |-> 0, latest |-> 0]
NoWork == [call |-> [call |-> "none"]]
NoResult == [call |-> "none", status |-> "none"]
Closed == [user |-> None, row |-> <<>>]
Calls == UNION {UNION {s.calls[t] : t \in Tabs} : s \in Scenes}
Names == {c.name : c \in {d \in Calls : d.call = "login"}}
People == UNION {DOMAIN s.users : s \in Scenes}
Browsers == {scene.browser[t] : t \in Tabs}
Keys == {<<c.user, c.perm, c.object>> : c \in {d \in Calls :
                                              d.call \in {"grant", "revoke", "check"}}}

(* What a tab may ask for; a form or a script posts, and a page is asked   *)
(* for with GET.                                                           *)
Views == {"login", "logout", "note", "forget", "visit", "request", "confirm", "grant", "revoke",
          "check"}

ASSUME CallAssumption ==
  \A c \in Calls : c.call \in Views /\ (c.method = "GET" \/ c.via \in {"form", "header", "json"})

ASSUME IdAssumption == None \notin People

Init ==
  /\ scene \in Scenes
  /\ now = 1 /\ key = 1 /\ users = scene.users
  /\ lockouts = [n \in Names |-> NoLockout] /\ lastid = 0
  /\ limiter = [n \in Names |-> <<>>]
  /\ permissions = {p[2] : p \in scene.tables.direct \cup scene.tables.group}
  /\ grants = [k \in Keys |-> 0] /\ mailed = {}
  /\ jar = [b \in Browsers |-> [session |-> NoCookie, csrf |-> 0]]
  /\ form = [t \in Tabs |-> 0] /\ desk = Closed
  /\ pc = [t \in Tabs |-> "idle"] /\ work = [t \in Tabs |-> NoWork] /\ result = NoResult
  /\ requests = 0 /\ restarts = 0
  /\ streak = [n \in Names |-> Clean]
  /\ owner = [b \in Browsers |-> [users |-> {None}, until |-> 0, raced |-> FALSE]]
  /\ standing = [u \in DOMAIN scene.users |->
                   [active |-> {scene.users[u].active},
                    password |-> {scene.users[u].hash.password}]]
  /\ allowed = {}

-----------------------------------------------------------------------------
Kept(cookie, time) == IF cookie.expires > time THEN cookie ELSE NoCookie

Go(t, step, w) == pc' = [pc EXCEPT ![t] = step] /\ work' = [work EXCEPT ![t] = w]
Reply(t, w, r) == Go(t, "respond", [w EXCEPT !.reply = r])
Says(w, status) == [call |-> w.call.call, status |-> status]

tables == <<users, lockouts, lastid, permissions, grants, mailed, standing, allowed>>
page == <<jar, form, owner>>
limits == <<now, key, requests, restarts, result, scene>>

(* SessionLayer: the session the cookie holds, or an empty one; and the    *)
(* cookie the response sets.                                               *)
SessionOf(cookie) == Decode(cookie, key, now)
CookieSet(session) == Kept(Encode(session, key, now + scene.age), now)

(* CsrfLayer sets its cookie when the request had none.                    *)
CsrfCookieAfter(w, cookie) == IF w.fresh THEN w.token ELSE cookie

(* A request arrives.  CsrfLayer and SessionLayer read its cookies, and    *)
(* the router refuses it when neither header nor form has the token.       *)
Send(t, call) ==
  LET b == scene.browser[t]
      token == IF scene.csrf THEN CsrfToken(jar[b].csrf, requests + 1) ELSE 0
      sent == IF call.via = "header" THEN jar[b].csrf ELSE form[t]
      w == [call |-> call, session |-> SessionOf(jar[b].session),
            token |-> token, fresh |-> scene.csrf /\ jar[b].csrf = 0,
            owner |-> owner[b].users, since |-> now, stale |-> FALSE, reply |-> NoResult] IN
  /\ pc[t] = "idle" /\ call \in scene.calls[t] /\ requests < scene.requests
  /\ requests' = requests + 1
  /\ IF scene.csrf /\ ~Accepted(call, sent, token)
       THEN Reply(t, w, With(Says(w, "forbidden"), [via |-> call.via, sent |-> sent, raced |-> owner[b].raced]))
       ELSE Go(t, call.call, w)
  /\ UNCHANGED <<tables, page, limiter, desk, streak, now, key, restarts, result, scene>>

LogsIn(reply) == reply.call = "login" /\ reply.status = "in"
LogsOut(reply) == reply.call = "logout" /\ reply.status = "ok"

(* Who the cookie then stands for.                                         *)
OwnerAfter(w, before) ==
  IF scene.age = 0 THEN before
  ELSE IF LogsIn(w.reply) THEN {w.reply.who}
  ELSE IF LogsOut(w.reply) THEN {None}
  ELSE IF ~ShouldSave(w.session) THEN before
  ELSE IF w.stale THEN before \cup w.owner ELSE w.owner

(* The response arrives, with a cookie when the session was written or is  *)
(* new, and with the CSRF token when the request had none.                 *)
Respond(t) ==
  LET w == work[t]
      b == scene.browser[t]
      saved == ShouldSave(w.session) IN
  /\ pc[t] = "respond"
  /\ result' = w.reply
  /\ jar' = [jar EXCEPT
               ![b].session = IF saved THEN CookieSet(w.session) ELSE @,
               ![b].csrf = CsrfCookieAfter(w, @)]
  /\ form' = [form EXCEPT ![t] = w.token]
  /\ owner' = [owner EXCEPT
       ![b].users = OwnerAfter(w, @),
       ![b].until = IF saved THEN now + scene.age ELSE @,
       ![b].raced = @ \/ (w.fresh /\ jar[b].csrf # 0)]
  /\ pc' = [pc EXCEPT ![t] = "idle"]
  /\ work' = [o \in Tabs |->
                IF o = t THEN NoWork
                ELSE IF saved /\ pc[o] # "idle" /\ scene.browser[o] = b
                  THEN [work[o] EXCEPT !.stale = TRUE] ELSE work[o]]
  /\ UNCHANGED <<tables, limiter, desk, streak, now, key, requests, restarts, scene>>

-----------------------------------------------------------------------------
(* PersistentLockoutBackend around RateLimitedBackend around ModelBackend, *)
(* the first two where the settings have them.                             *)
Rivals(t) ==
  {o \in Tabs \ {t} : pc[o] \in {"authenticate", "record"} /\ work[o].call.name = work[t].call.name}

Held(name, at) ==
  /\ streak[name].failed >= scene.attempts
  /\ at < streak[name].last + scene.duration

(* So many failures there were, and the latest not long ago.               *)
Earned(name, at) ==
  /\ streak[name].tally >= scene.attempts
  /\ at < streak[name].latest + scene.duration

(* The clock is read before the row is.                                    *)
ReadLockout(t, at) ==
  LET w == work[t]
      name == w.call.name
      row == lockouts[name]
      reply == [call |-> "login", status |-> "none", who |-> None,
                sure |-> ~streak[name].muddled /\ Rivals(t) = {},
                held |-> Held(name, at), earned |-> Earned(name, at), due |-> {None}]
      s == With(w, [reply |-> reply, row |-> row, began |-> at, alone |-> Rivals(t) = {}]) IN
  /\ pc[t] = "login" /\ at >= w.since
  /\ IF scene.attempts > 0 /\ row.until > at
       THEN Reply(t, s, [reply EXCEPT !.status = "locked"]) /\ UNCHANGED streak
       ELSE /\ pc' = [pc EXCEPT ![t] = "authenticate"]
            /\ work' = [o \in Tabs |-> IF o = t THEN s
                                       ELSE IF o \in Rivals(t) THEN [work[o] EXCEPT !.alone = FALSE]
                                       ELSE work[o]]
            /\ streak' = [streak EXCEPT ![name].muddled = @ \/ Rivals(t) # {}]
  /\ UNCHANGED <<tables, page, limits, limiter, desk>>

(* The one account of the name is the one to log in.                       *)
Match(name) == {u \in DOMAIN users : users[u].name = name}

(* What the login may come to, going by what was set.                      *)
Due(name, password) ==
  LET u == CHOOSE x \in Match(name) : TRUE
      may == TRUE \in standing[u].active /\ password \in standing[u].password
      must == standing[u].active = {TRUE} /\ standing[u].password = {password} IN
  IF Cardinality(Match(name)) # 1 THEN {None}
  ELSE (IF may THEN {u} ELSE {}) \cup (IF must THEN {} ELSE {None})

(* authenticate of the model: "error" when the stored hash is no hash.     *)
Verified(name, password) ==
  LET one == Cardinality(Match(name)) = 1
      user == users[CHOOSE x \in Match(name) : TRUE]
      hash == IF one THEN user.hash ELSE DummyHash IN
  IF ~Readable(hash) THEN "error"
  ELSE IF one /\ VerifyPassword(password, hash) /\ user.active THEN "in" ELSE "no"

Recent(name) == SelectSeq(limiter[name], LAMBDA time : now - time < scene.window)

Authenticate(t) ==
  LET w == work[t]
      name == w.call.name
      limited == scene.throttle > 0 /\ Len(Recent(name)) >= scene.throttle
      status == IF limited THEN "limited" ELSE Verified(name, w.call.password)
      who == IF status = "in" THEN CHOOSE u \in Match(name) : TRUE ELSE None
      r == [w.reply EXCEPT !.status = status, !.who = who, !.due = Due(name, w.call.password)] IN
  /\ pc[t] = "authenticate"
  /\ limiter' = IF scene.throttle = 0 THEN limiter
                ELSE [limiter EXCEPT ![name] = IF limited THEN Recent(name) ELSE Append(Recent(name), now)]
  /\ Go(t, "record", [w EXCEPT !.reply = r])
  /\ UNCHANGED <<tables, page, limits, desk, streak>>

(* Variant: a failure that finds an old lockout counts on from it.         *)
StreakGoesOn(row, began) == row.id # 0

(* Whether a failure adds to those before it: a row whose lockout has      *)
(* expired is no active streak.                                            *)
ActiveStreak(row, began) == row.id # 0 /\ (row.until = 0 \/ row.until > began)

(* The row a failure leaves.                                               *)
Failure(row, began) ==
  LET failed == IF ActiveStreak(row, began) THEN row.failed + 1 ELSE 1
      reached == failed >= scene.attempts IN
  [id |-> row.id, failed |-> failed,
   until |-> IF reached THEN began + scene.duration
             ELSE IF ActiveStreak(row, began) THEN row.until ELSE 0]

(* update() and delete() go by the id read before, and fail without a row; *)
(* save() inserts, and fails when the name has a row.                      *)
RecordAttempt(t) ==
  LET w == work[t]
      name == w.call.name
      there == lockouts[name].id = w.row.id
      written == scene.attempts > 0 /\ (w.reply.status = "no" \/ (w.reply.status = "in" /\ w.row.id # 0))
      status == IF written /\ ~there THEN "error" ELSE w.reply.status
      clean == w.alone /\ Rivals(t) = {}
      r == [w.reply EXCEPT !.status = status,
                           !.who = IF status = "in" THEN @ ELSE None] IN
  /\ pc[t] = "record"
  /\ IF written /\ there
       THEN lockouts' = [lockouts EXCEPT ![name] =
                           IF status = "in" THEN NoLockout
                           ELSE [Failure(w.row, w.began) EXCEPT !.id = IF @ = 0 THEN lastid + 1 ELSE @]]
       ELSE UNCHANGED lockouts
  /\ lastid' = IF status = "no" /\ written /\ w.row.id = 0 THEN lastid + 1 ELSE lastid
  /\ streak' = CASE status = "in" /\ clean ->
                      [streak EXCEPT ![name] = Clean]
                 [] status = "no" ->
                      [streak EXCEPT ![name].failed = IF @ >= scene.attempts THEN 1 ELSE @ + 1,
                                     ![name].last = w.began,
                                     ![name].tally = IF @ >= scene.attempts THEN @ ELSE @ + 1,
                                     ![name].latest = IF @ >= w.began THEN @ ELSE w.began]
                 [] OTHER -> streak
  /\ Reply(t, IF status = "in" THEN [w EXCEPT !.session = Login(@, r.who)] ELSE w, r)
  /\ UNCHANGED <<users, permissions, grants, mailed, standing, allowed, page, limits, limiter, desk>>

-----------------------------------------------------------------------------
(* Views that only use the session.                                        *)
Serve(t, view, session) ==
  LET w == work[t] IN
  /\ pc[t] = view
  /\ Reply(t, [w EXCEPT !.session = session], Says(w, "ok"))
  /\ UNCHANGED <<tables, page, limits, limiter, desk, streak>>

Handle(t) ==
  LET session == work[t].session IN
  \/ Serve(t, "logout", Logout(session))
  \/ Serve(t, "note", Put(session, "note", "read"))
  \/ Serve(t, "forget", Taken(session, "note"))

(* In good standing, going by what was set.                                *)
Stands(u) == IF u \notin DOMAIN users THEN {FALSE} ELSE standing[u].active

(* A page for a user, found by the session, or else by the header.         *)
Visit(t) ==
  LET w == work[t]
      header == w.call.header
      by == First(TokenAuth(header, scene.tokens, users), JwtAuth(header, key, now, users))
      who == CurrentUser(w.session, header, scene.tokens, key, now, users)
      due == {u \in w.owner \ {None} : TRUE \in Stands(u)} \cup
             (IF \E u \in w.owner : u = None \/ FALSE \in Stands(u) THEN {by} ELSE {}) IN
  /\ pc[t] = "visit"
  /\ Reply(t, w, With(Says(w, IF who = None THEN "unauthorized" ELSE "ok"), [who |-> who, due |-> due]))
  /\ UNCHANGED <<tables, page, limits, limiter, desk, streak>>

-----------------------------------------------------------------------------
(* request_password_reset: one active account of the address gets a link;  *)
(* the mail may fail.                                                      *)
RequestReset(t, delivered) ==
  LET w == work[t]
      found == {u \in DOMAIN users : users[u].email = w.call.email}
      u == CHOOSE x \in found : TRUE IN
  /\ pc[t] = "request"
  /\ IF Cardinality(found) = 1 /\ users[u].active
       THEN /\ mailed' = IF delivered
                           THEN mailed \cup {ResetToken(u, users[u].hash, key, now + scene.ttl)}
                           ELSE mailed
            /\ Reply(t, w, Says(w, IF delivered THEN "ok" ELSE "error"))
       ELSE Reply(t, w, Says(w, "ok")) /\ UNCHANGED mailed
  /\ UNCHANGED <<users, lockouts, lastid, permissions, grants, standing, allowed, page, limits,
                 limiter, desk, streak>>

ReadReset(t) ==
  LET w == work[t] IN
  /\ pc[t] = "confirm"
  /\ \/ /\ mailed = {}
        /\ Reply(t, w, Says(w, "invalid"))
     \/ \E token \in mailed :
          LET u == token.user IN
          IF u \in DOMAIN users /\ ValidReset(token, u, users[u].hash, key, now)
            THEN Go(t, "update", With(w, [user |-> u, row |-> users[u]]))
            ELSE Reply(t, w, Says(w, "invalid"))
  /\ UNCHANGED <<tables, page, limits, limiter, desk, streak>>

(* A row is written whole: what changed since it was read is put back.     *)
Write(u, row, set) ==
  /\ users' = [users EXCEPT ![u] = row]
  /\ standing' = [standing EXCEPT ![u] = set]

UpdateUser(t) ==
  LET w == work[t]
      u == w.user IN
  /\ pc[t] = "update"
  /\ IF u \in DOMAIN users
       THEN /\ Write(u, [w.row EXCEPT !.hash = HashPassword(w.call.password)],
                     [active |-> standing[u].active \cup {w.row.active},
                      password |-> {w.call.password}])
            /\ Reply(t, w, Says(w, "ok"))
       ELSE Reply(t, w, Says(w, "error")) /\ UNCHANGED <<users, standing>>
  /\ UNCHANGED <<lockouts, lastid, permissions, grants, mailed, allowed, page, limits, limiter,
                 desk, streak>>

-----------------------------------------------------------------------------
(* The form of an account in the admin: opened, and saved with all fields. *)
StaffOpens(u) ==
  /\ "edit" \in scene.staff /\ desk = Closed /\ u \in DOMAIN users
  /\ desk' = [user |-> u, row |-> users[u]]
  /\ UNCHANGED <<tables, page, limits, limiter, pc, work, streak>>

StaffSaves(active) ==
  LET u == desk.user IN
  /\ desk # Closed /\ desk' = Closed
  /\ IF u \in DOMAIN users
       THEN Write(u, [desk.row EXCEPT !.active = active],
                  [active |-> {active},
                   password |-> standing[u].password \cup {desk.row.hash.password}])
       ELSE UNCHANGED <<users, standing>>
  /\ UNCHANGED <<lockouts, lastid, permissions, grants, mailed, allowed, page, limits, limiter,
                 pc, work, streak>>

StaffDeletes(u) ==
  /\ "delete" \in scene.staff /\ u \in DOMAIN users
  /\ users' = [v \in DOMAIN users \ {u} |-> users[v]]
  /\ UNCHANGED <<lockouts, lastid, permissions, grants, mailed, standing, allowed, page, limits,
                 limiter, desk, pc, work, streak>>

(* Idempotent: ON CONFLICT DO NOTHING.                                     *)
SyncPermissions ==
  /\ permissions # Codenames(scene.models)
  /\ permissions' = permissions \cup Codenames(scene.models)
  /\ UNCHANGED <<users, lockouts, lastid, grants, mailed, standing, allowed, page, limits, limiter,
                 desk, pc, work, streak>>

-----------------------------------------------------------------------------
KeyOf(call) == <<call.user, call.perm, call.object>>

(* grant_object_permission looks for the permission and for the row, and   *)
(* inserts the row when there is none.                                     *)
ReadGrant(t) ==
  LET w == work[t]
      k == KeyOf(w.call) IN
  /\ pc[t] = "grant"
  /\ IF w.call.perm \notin permissions THEN Reply(t, w, Says(w, "error")) /\ UNCHANGED allowed
     ELSE IF grants[k] > 0 THEN Reply(t, w, Says(w, "ok")) /\ allowed' = allowed \cup {k}
     ELSE Go(t, "insert", w) /\ UNCHANGED allowed
  /\ UNCHANGED <<users, lockouts, lastid, permissions, grants, mailed, standing, page, limits,
                 limiter, desk, streak>>

InsertGrant(t) ==
  LET w == work[t]
      k == KeyOf(w.call) IN
  /\ pc[t] = "insert"
  /\ grants' = [grants EXCEPT ![k] = @ + 1]
  /\ allowed' = allowed \cup {k}
  /\ Reply(t, w, Says(w, "ok"))
  /\ UNCHANGED <<users, lockouts, lastid, permissions, mailed, standing, page, limits, limiter,
                 desk, streak>>

(* Variant: the row that was found is deleted, by its id.                  *)
RowsAfterOne(n) == IF n = 0 THEN 0 ELSE n - 1

(* DELETE ... WHERE user, permission and object: every row.                *)
RowsAfterRevoke(n) == 0

Revoke(t) ==
  LET w == work[t]
      k == KeyOf(w.call) IN
  /\ pc[t] = "revoke"
  /\ grants' = [grants EXCEPT ![k] = RowsAfterRevoke(@)]
  /\ allowed' = allowed \ {k}
  /\ Reply(t, w, Says(w, IF w.call.perm \in permissions /\ grants[k] > 0 THEN "ok" ELSE "no"))
  /\ UNCHANGED <<users, lockouts, lastid, permissions, mailed, standing, page, limits, limiter,
                 desk, streak>>

CheckObject(t) ==
  LET w == work[t]
      k == KeyOf(w.call) IN
  /\ pc[t] = "check"
  /\ Reply(t, w,
       With(Says(w, IF HasPermForObject(scene.tables, grants, k[1], k[2], k[3]) THEN "yes" ELSE "no"),
            [due |-> k \in allowed, general |-> HasPerm(scene.tables, k[1], k[2])]))
  /\ UNCHANGED <<tables, page, limits, limiter, desk, streak>>

-----------------------------------------------------------------------------
(* A browser drops a cookie when its Max-Age is over.                      *)
Tick ==
  /\ now <= scene.clock
  /\ now' = now + 1
  /\ jar' = [b \in Browsers |-> [jar[b] EXCEPT !.session = Kept(@, now')]]
  /\ owner' = [b \in Browsers |-> IF owner[b].until > now' THEN owner[b]
                                  ELSE [owner[b] EXCEPT !.users = {None}, !.until = 0]]
  /\ UNCHANGED <<tables, form, limiter, desk, pc, work, result, streak, key, requests, restarts, scene>>

(* The process starts again, perhaps with a new secret key: what it was    *)
(* doing is lost, and the counts of RateLimitedBackend with it.            *)
Restart(rotated) ==
  /\ restarts < scene.restarts /\ restarts' = restarts + 1
  /\ key' = IF rotated THEN key + 1 ELSE key
  /\ limiter' = [n \in Names |-> <<>>]
  /\ pc' = [t \in Tabs |-> "idle"] /\ work' = [t \in Tabs |-> NoWork]
  /\ owner' = [b \in Browsers |-> IF rotated THEN [owner[b] EXCEPT !.users = {None}] ELSE owner[b]]
  /\ UNCHANGED <<tables, jar, form, desk, result, streak, now, requests, scene>>

Next ==
  \/ \E t \in Tabs :
       \/ \E call \in Calls : Send(t, call)
       \/ Respond(t) \/ Authenticate(t) \/ RecordAttempt(t)
       \/ \E at \in 1 .. now : ReadLockout(t, at)
       \/ Handle(t) \/ Visit(t)
       \/ \E delivered \in BOOLEAN : RequestReset(t, delivered)
       \/ ReadReset(t) \/ UpdateUser(t)
       \/ ReadGrant(t) \/ InsertGrant(t) \/ Revoke(t) \/ CheckObject(t)
  \/ \E u \in People : StaffOpens(u) \/ StaffDeletes(u)
  \/ \E active \in BOOLEAN : StaffSaves(active)
  \/ SyncPermissions \/ Tick
  \/ \E rotated \in BOOLEAN : Restart(rotated)

Spec == Init /\ [][Next]_vars

-----------------------------------------------------------------------------
(* PersistentLockoutBackend: however attempts on a name overlap, nobody is *)
(* told of a lockout without so many failures since the last login that    *)
(* overlapped none, and the latest within the duration.  With attempts     *)
(* that do not overlap, whoever tries within the duration after so many    *)
(* failures in a row is told of it, the right password, a restart and the  *)
(* limiter in memory notwithstanding, and nobody else is.                  *)
LockedAsDue(r) ==
  r.call = "login" /\ scene.attempts > 0 /\ r.status # "forbidden" =>
    /\ r.status = "locked" => r.earned
    /\ r.sure => (r.status = "locked") = r.held

LockoutStands == LockedAsDue(result)

(* Auth, login, logout and SessionLayer: a page is made for the one who    *)
(* logged in last, or when responses of this browser crossed for one of    *)
(* the two; a login takes the password set last for an account in good     *)
(* standing, or when rows written whole crossed what one of the two wrote; *)
(* a form is refused only if first pages crossed.                          *)
AnsweredAsDue(r) ==
  /\ r.call = "visit" /\ r.status # "forbidden" => r.who \in r.due
  /\ r.call = "login" /\ r.status \in {"in", "no"} => r.who \in r.due
  /\ r.status = "forbidden" => r.via = "json" \/ r.sent = 0 \/ r.raced

AnswersFor == AnsweredAsDue(result)

(* grant_object_permission, revoke_object_permission: a permission for an  *)
(* object holds from a grant to the next revoke, however grants overlap.   *)
CheckedAsDue(r) ==
  r.call = "check" /\ r.status # "forbidden" => (r.status = "yes") = (r.due \/ r.general)

RevokeIsFinal == CheckedAsDue(result)

-----------------------------------------------------------------------------
(* The reasons, as invariants the steps preserve.  First the shapes.       *)
Attempting(t) == pc[t] \in {"authenticate", "record"}
Steps == Views \cup {"idle", "authenticate", "record", "update", "insert", "respond"}

TypeOK ==
  /\ scene \in Scenes /\ {lastid, requests} \subseteq Nat /\ {now, key} \subseteq Nat \ {0}
  /\ lockouts \in [Names -> [id : Nat, failed : Nat, until : Nat]]
  /\ streak \in [Names -> [failed : Nat, last : 0 .. now, muddled : BOOLEAN,
                          tally : Nat, latest : 0 .. now]]
  /\ pc \in [Tabs -> Steps] /\ DOMAIN work = Tabs /\ DOMAIN form = Tabs
  /\ DOMAIN jar = Browsers /\ \A b \in Browsers : DOMAIN jar[b] = {"session", "csrf"}
  /\ DOMAIN owner = Browsers /\ \A b \in Browsers : DOMAIN owner[b] = {"users", "until", "raced"}

RequestFields == {"call", "session", "token", "fresh", "owner", "since", "stale", "reply"}
LoginFields == {"call", "status", "who", "sure", "held", "earned", "due"}

(* A request is at a step of what it asked for.                            *)
WorkOf(t) ==
  LET w == work[t] IN
    /\ pc[t] # "idle" => RequestFields \subseteq DOMAIN w /\ w.call \in Calls
    /\ pc[t] \in Views => w.call.call = pc[t] /\ DOMAIN w = RequestFields
    /\ Attempting(t) =>
         /\ w.call.call = "login" /\ DOMAIN w = RequestFields \cup {"row", "began", "alone"}
         /\ w.row \in [id : Nat, failed : Nat, until : Nat] /\ w.began \in 1 .. now
         /\ {w.alone, w.reply.held} \subseteq BOOLEAN
         /\ DOMAIN w.reply = LoginFields /\ w.reply.call = "login"
    /\ pc[t] = "insert" => w.call.call = "grant"
    /\ pc[t] = "update" => w.call.call = "confirm" /\ {"user", "row"} \subseteq DOMAIN w

WorkInv == \A t \in Tabs : WorkOf(t)

(* A row counts no failure there was not.                                  *)
Counted(row, name) ==
  LET run == streak[name] IN
  /\ row.failed <= run.tally \/ run.tally >= scene.attempts
  /\ row.until > 0 => run.tally >= scene.attempts /\ row.until <= run.latest + scene.duration

(* An attempt that is alone acts on the row as it is, and none that is not *)
(* is overlooked; so the row of a name tells its failures in a row.        *)
AttemptInv ==
  \A t \in Tabs : Attempting(t) =>
    LET w == work[t] IN
    /\ IF w.alone THEN Rivals(t) = {} /\ w.row = lockouts[w.call.name]
       ELSE streak[w.call.name].muddled
    /\ scene.attempts > 0 => /\ w.row.until <= w.began /\ (w.reply.sure => ~w.reply.held)
                             /\ Counted(w.row, w.call.name)
    /\ w.reply.status # "locked"

RowTells(name) ==
  LET row == lockouts[name]
      run == streak[name] IN
  \/ row = NoLockout /\ run.failed = 0
  \/ /\ row.id # 0 /\ row.failed = run.failed /\ run.last > 0
     /\ row.until = IF run.failed >= scene.attempts THEN run.last + scene.duration ELSE 0

LockoutInv ==
  /\ \A name \in Names : lockouts[name].id = 0 => lockouts[name] = NoLockout
  /\ scene.attempts > 0 => \A name \in Names :
       Counted(lockouts[name], name) /\ (streak[name].muddled \/ RowTells(name))

(* A cookie that is still good names an owner of the browser, and expires  *)
(* with the ownership; no cookie is of a key to come.                      *)
UserOf(session) == Get(session, "user")

SessionOfWork(t) ==
  LET w == work[t] IN
  pc[t] # "idle" =>
    /\ DOMAIN w.session = {"data", "modified", "new"}
    /\ IF pc[t] = "respond" /\ LogsIn(w.reply)
         THEN UserOf(w.session) = w.reply.who /\ ShouldSave(w.session)
       ELSE IF pc[t] = "respond" /\ LogsOut(w.reply)
         THEN UserOf(w.session) = None /\ ShouldSave(w.session)
       ELSE UserOf(w.session) \in w.owner

SessionInv ==
  /\ \A b \in Browsers :
       LET cookie == jar[b].session IN
       /\ cookie.mac.key \in 0 .. key
       /\ cookie.expires \in Nat /\ (cookie.expires > now => cookie.expires = owner[b].until)
       /\ UserOf(SessionOf(cookie)) \in owner[b].users
       /\ scene.age = 0 => owner[b].users = {None}
  /\ \A t \in Tabs : SessionOfWork(t)

(* Unless its first pages crossed, a browser has one CSRF token.           *)
CsrfInv ==
  scene.csrf => \A t \in Tabs :
    LET b == scene.browser[t]
        w == work[t] IN
    ~owner[b].raced =>
      /\ form[t] = 0 \/ form[t] = jar[b].csrf
      /\ pc[t] # "idle" => w.token # 0 /\ (w.fresh \/ w.token = jar[b].csrf)

(* A row is as it was set.                                                 *)
StandingInv ==
  /\ DOMAIN users \subseteq People
  /\ \A u \in DOMAIN users :
       /\ u \in DOMAIN standing /\ UserRow(users[u])
       /\ users[u].active \in standing[u].active /\ standing[u].active \subseteq BOOLEAN
       /\ users[u].hash.password \in standing[u].password
  /\ desk # Closed => UserRow(desk.row)
  /\ \A t \in Tabs : pc[t] = "update" => UserRow(work[t].row)

(* Who has a permission for an object has a row for it.                    *)
GrantInv ==
  /\ DOMAIN grants = Keys
  /\ \A k \in Keys : grants[k] \in Nat /\ (k \in allowed) = (grants[k] > 0)

(* Replies are right when made, and stay so on the way.                    *)
Right(r) == LockedAsDue(r) /\ AnsweredAsDue(r) /\ CheckedAsDue(r)

ReplyOf(t) ==
  LET r == work[t].reply IN
  /\ pc[t] = "respond" => Right(r)
  /\ pc[t] = "record" =>
       r.status # "forbidden" /\ AnsweredAsDue(r) /\ (r.status # "in" => r.who = None)

ReplyInv == Right(result) /\ \A t \in Tabs : ReplyOf(t)

IInv == /\ TypeOK /\ WorkInv /\ AttemptInv /\ LockoutInv /\ SessionInv
        /\ CsrfInv /\ StandingInv /\ GrantInv /\ ReplyInv

=============================================================================
