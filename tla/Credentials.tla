---------------------------- MODULE Credentials ----------------------------
(***************************************************************************)
(* What a request presents to say who sends it, and how the server checks  *)
(* it: password hashes, links to reset a password, session cookies, JSON   *)
(* web tokens, CSRF tokens and permissions.  A message authentication code *)
(* is the pair of the key and what was signed.  The random key of a        *)
(* session is left out: it is stored in the cookie and nothing reads it.   *)
(***************************************************************************)
EXTENDS Naturals

None == "none"

(* f with the values of g.                                                 *)
With(f, g) == [x \in DOMAIN f \cup DOMAIN g |-> IF x \in DOMAIN g THEN g[x] ELSE f[x]]

-----------------------------------------------------------------------------
(* Passwords.  A PHC string begins with the algorithm and its parameters,  *)
(* 30 characters of them for Argon2's defaults; the salt comes after.      *)
HashPassword(p) == [scheme |-> "argon2id", password |-> p]
DummyHash == HashPassword(None)
Readable(hash) == hash.scheme = "argon2id"
VerifyPassword(p, hash) == hash.password = p
Prefix(hash) == hash.scheme

Sign(key, message) == [key |-> key, message |-> message]

(* generate_password_reset_token, and what confirm asks of the link.       *)
ResetToken(id, hash, key, expiry) ==
  [user |-> id, expiry |-> expiry, mac |-> Sign(key, <<id, expiry, Prefix(hash)>>)]

ValidReset(token, id, hash, key, now) ==
  /\ token.user = id
  /\ token.expiry > now
  /\ token.mac = Sign(key, <<id, token.expiry, Prefix(hash)>>)

-----------------------------------------------------------------------------
(* Session: the values, whether any was written, whether it is a new one.  *)
NewSession == [data |-> <<>>, modified |-> FALSE, new |-> TRUE]

Get(session, k) == IF k \in DOMAIN session.data THEN session.data[k] ELSE None
Put(session, k, v) == [session EXCEPT !.data = With(@, [j \in {k} |-> v]), !.modified = TRUE]

(* Variant: clearing does not count as a change, and no cookie is sent.    *)
ClearedUnnoticed(session) == [session EXCEPT !.data = <<>>]

Cleared(session) == [session EXCEPT !.data = <<>>, !.modified = TRUE]
CycleKey(session) == [session EXCEPT !.modified = TRUE]

Taken(session, k) ==
  IF k \notin DOMAIN session.data THEN session
  ELSE [session EXCEPT !.data = [j \in DOMAIN @ \ {k} |-> @[j]], !.modified = TRUE]

NoCookie == [data |-> <<>>, expires |-> 0, mac |-> Sign(0, <<>>)]

Encode(session, key, expires) ==
  [data |-> session.data, expires |-> expires, mac |-> Sign(key, <<session.data, expires>>)]

Decode(cookie, key, now) ==
  IF cookie.mac = Sign(key, <<cookie.data, cookie.expires>>) /\ cookie.expires > now
    THEN [data |-> cookie.data, modified |-> FALSE, new |-> FALSE]
    ELSE NewSession

ShouldSave(session) == session.modified \/ session.new

(* login and logout, for the session of the request.                       *)
Login(session, id) == Put(CycleKey(session), "user", id)
Logout(session) == Cleared(session)

-----------------------------------------------------------------------------
(* The Authorization header: nothing, "Token <key>" or "Bearer <jwt>".     *)
NoHeader == [scheme |-> "none"]
TokenHeader(key) == [scheme |-> "token", key |-> key]
EncodeJwt(id, key, expires) ==
  [scheme |-> "bearer", user |-> id, expires |-> expires, mac |-> Sign(key, <<id, expires>>)]

DecodeJwt(header, key, now) ==
  IF header.mac = Sign(key, <<header.user, header.expires>>) /\ header.expires > now
    THEN header.user ELSE None

(* users: [id -> [name, email, hash, active]], the rows of auth_user.      *)
IfActive(id, users) ==
  IF id \in DOMAIN users /\ users[id].active THEN id ELSE None

Auth(session, users) == IfActive(Get(session, "user"), users)

TokenAuth(header, tokens, users) ==
  IF header.scheme = "token" /\ header.key \in DOMAIN tokens
    THEN IfActive(tokens[header.key], users) ELSE None

JwtAuth(header, key, now, users) ==
  IF header.scheme = "bearer" THEN IfActive(DecodeJwt(header, key, now), users) ELSE None

First(a, b) == IF a # None THEN a ELSE b

CurrentUser(session, header, tokens, key, now, users) ==
  First(Auth(session, users),
        First(TokenAuth(header, tokens, users), JwtAuth(header, key, now, users)))

-----------------------------------------------------------------------------
(* The CSRF cookie's token, 0 for none, against the header or the field of *)
(* a form; of two fields that are both missing none is accepted.           *)
CsrfToken(cookie, fresh) == IF cookie # 0 THEN cookie ELSE fresh
HeaderMatches(call, sent, token) == call.via = "header" /\ sent = token
FormMatches(call, sent, token) == call.via = "form" /\ sent = token
Accepted(call, sent, token) ==
  call.method = "GET" \/ HeaderMatches(call, sent, token) \/ FormMatches(call, sent, token)

-----------------------------------------------------------------------------
(* t: [direct, member, group], sets of pairs, the join tables of auth.     *)
HasPerm(t, id, perm) ==
  \/ <<id, perm>> \in t.direct
  \/ \E m \in t.member : m[1] = id /\ <<m[2], perm>> \in t.group

(* grants: [<<user, permission, object>> -> number of rows].               *)
HasPermForObject(t, grants, id, perm, object) ==
  HasPerm(t, id, perm) \/ grants[<<id, perm, object>>] > 0

Codenames(models) ==
  {<<m, action>> : m \in models, action \in {"view", "add", "change", "delete"}}

=============================================================================
