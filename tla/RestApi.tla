------------------------------- MODULE RestApi -------------------------------
(***************************************************************************)
(* The generic endpoints of djangors-rest under concurrent requests: the   *)
(* permission and throttle in front of a ViewSet, its five actions, those  *)
(* of a ScopedViewSet, and a client that pages through a list while the    *)
(* others write.  Every await is a step of its own: a request that reads   *)
(* the throttle's counter, or checks a row, acts on it later.              *)
(*                                                                         *)
(* A behaviour is about one mounted endpoint: "plain" is a ViewSet with    *)
(* options (throttle, serializer), "scoped" a ScopedViewSet, "feed" a      *)
(* ViewSet whose list is paged through.  rank stands for a DateTime column *)
(* counted in half seconds, or NULL.                                       *)
(***************************************************************************)
EXTENDS Listing

CONSTANTS
  Clients,        \* connections that send requests
  Users,          \* authenticated users
  Callers,        \* those who call an endpoint: [Endpoints -> sets of users]
  Pks,            \* primary keys
  Keys,           \* bound on those of an endpoint's table: [Endpoints -> sets of Pks]
  Endpoints,      \* the endpoints considered
  InitialRows,    \* tables an endpoint starts with: [Endpoints -> set of tables]
  Bodies,         \* request bodies sent to an endpoint: [Endpoints -> set]
  FieldSets,      \* the FieldSet of an endpoint's serializer
  Gone,           \* no row under that primary key
  NoEntry,        \* the throttle has no counter under that key
  MaxAttempts,    \* requests the throttle admits per window
  Window,         \* its window
  PageSize,       \* rows per page the server chose
  MaxPageSize,    \* the most a client may ask for
  FlagRank,       \* how the database orders the values of flag
  Walks,          \* walks over an endpoint's list: [Endpoints -> sets of requests]
  MaxNow,         \* bound on the clock
  MaxRequests,    \* bound on requests of an endpoint's clients
  MaxFaults       \* bound on database errors there

ASSUME BoundAssumption ==
  /\ MaxAttempts \in Nat /\ Window \in Nat \ {0} /\ PageSize \in Nat \ {0}
  /\ MaxNow \in Nat
  /\ MaxRequests \in [Endpoints -> Nat] /\ MaxFaults \in [Endpoints -> Nat]
ASSUME TableAssumption ==
  /\ Keys \in [Endpoints -> SUBSET Pks]
  /\ \A e \in Endpoints : \A table \in InitialRows[e] :
       /\ DOMAIN table = Pks
       /\ \A p \in Pks : table[p] # Gone => DOMAIN table[p] = Columns
(* rank is a DateTime column, nullable or not: a body whose rank parses    *)
(* gives it a time.                                                        *)
ASSUME ListAssumption ==
  /\ IsFiniteSet(Pks) /\ Pks \subseteq Int /\ MaxPageSize \in Nat
  /\ "rank" \in Columns \ (Booleans \cup Relations) /\ NullValue \notin Int
  /\ \A e \in Endpoints :
       /\ \A table \in InitialRows[e], p \in Pks : table[p] # Gone => table[p]["rank"] \in Ranks
       /\ \A b \in Bodies[e] : "rank" \notin b.malformed => b.row["rank"] \in Int
       /\ \A w \in Walks[e] : /\ w.mode \in {"cursor", "page", "offset"} /\ w.asked \in Int
                              /\ w.descending \in BOOLEAN /\ w.byFlag \in BOOLEAN
                              /\ w.nullsLow \in BOOLEAN
ASSUME CounterAssumption == NoEntry \notin [count : Nat, start : Nat, expires : Nat]

VARIABLES
  endpoint,       \* what this behaviour's requests go to
  rows,           \* the table
  pc,             \* where each client's request is
  req,            \* the request
  reply,          \* what the client's last request was answered
  counter,        \* the throttle's cache entry of each user
  now,            \* the clock
  requests, faults,
  walk,           \* the paging client
  wrote,          \* history: this request changed the table
  promised,       \* history: what each row should be, from what was asked
  left,           \* history: the row checked left the caller's scope since
  admitted,       \* history: requests of a user the throttle let through
  late,           \* history: windows a request opened in a window that was over
  lost            \* history: records of the counter another request undid

requestVars == <<pc, req, reply, requests, wrote, left>>
tableVars == <<rows, promised>>
throttleVars == <<counter, admitted, late, lost>>
vars == <<endpoint, requestVars, tableVars, throttleVars, now, faults, walk>>

Methods == {"GET", "POST", "PUT", "PATCH", "DELETE"}
Steps == {"idle", "limit", "judge", "purge", "record", "handle", "checked", "readBack"}
Statuses == {"none", "ok", "unauthorized", "throttled", "invalid", "notFound", "error"}
Refusals == {"unauthorized", "throttled", "invalid", "notFound"}
Table == {p \in Pks : rows[p] # Gone}

CounterEntry == [count : 1..MaxAttempts, start : 0..MaxNow, expires : Nat]

(* What a check of the throttle holds between its awaits.                  *)
Hits == [stamp : 0..MaxNow,                       \* the clock as it came in
         found : CounterEntry \cup {NoEntry},     \* the entry the SELECT returned
         after : Nat,                             \* history: admitted when it did
         count : 0..MaxAttempts, start : 0..MaxNow,   \* what it goes on with
         since : 0..MaxNow,                       \* when the cache answered
         late : BOOLEAN]                          \* history: start is in a past window
NoHits == [stamp |-> 0, found |-> NoEntry, after |-> 0, count |-> 0, start |-> 0,
           since |-> 0, late |-> FALSE]

NoRequest == [pk |-> 0]
Request == [user : Users, method : Methods, pk : Pks, body : Bodies[endpoint], hits : Hits]
NoWalk == [active |-> FALSE]

WalkFields == {"active", "req", "step", "page", "total", "cursor", "ends", "seen",
               "stable", "quiet"}

TypeOK ==
  /\ endpoint \in Endpoints
  /\ DOMAIN rows = Pks /\ \A p \in Table : DOMAIN rows[p] = Columns
  /\ DOMAIN promised = Pks
  /\ pc \in [Clients -> Steps]
  /\ DOMAIN req = Clients
  /\ \A c \in Clients : IF pc[c] = "idle" THEN req[c] = NoRequest ELSE req[c] \in Request
  /\ reply \in [Clients -> Statuses]
  /\ counter \in [Users -> CounterEntry \cup {NoEntry}]
  /\ now \in 0..MaxNow
  /\ requests \in 0..MaxRequests[endpoint]
  /\ faults \in 0..MaxFaults[endpoint]
  /\ wrote \in [Clients -> BOOLEAN]
  /\ left \in [Clients -> BOOLEAN]
  /\ admitted \in [Users -> Nat] /\ late \in [Users -> Nat] /\ lost \in [Users -> Nat]
  /\ walk # NoWalk => DOMAIN walk = WalkFields /\ walk.page \in Nat

AnyOf(S) == CHOOSE x \in S : TRUE

Init ==
  /\ endpoint \in Endpoints
  /\ rows \in InitialRows[endpoint]
  /\ promised = rows
  /\ pc = [c \in Clients |-> "idle"]
  /\ req = [c \in Clients |-> NoRequest]
  /\ reply = [c \in Clients |-> "none"]
  /\ counter = [u \in Users |-> NoEntry]
  /\ now = 0
  /\ requests = 0
  /\ faults = 0
  /\ walk = NoWalk
  /\ wrote = [c \in Clients |-> FALSE]
  /\ left = [c \in Clients |-> FALSE]
  /\ admitted = [u \in Users |-> 0]
  /\ late = [u \in Users |-> 0]
  /\ lost = [u \in Users |-> 0]

-----------------------------------------------------------------------------
Goto(c, step) == pc' = [pc EXCEPT ![c] = step]

Answer(c, status) ==
  /\ Goto(c, "idle")
  /\ req' = [req EXCEPT ![c] = NoRequest]
  /\ reply' = [reply EXCEPT ![c] = status]

(* Scoped::scope of the model under test: its owner's rows.                *)
InScope(u, row) == row # Gone /\ row["owner"] = u

(* The rows a handler's queries see: a ScopedViewSet filters by scope.     *)
Visible(c, p) ==
  IF endpoint = "scoped" THEN InScope(req[c].user, rows[p]) ELSE rows[p] # Gone

(* What a change of the table means for the clients between two steps.     *)
ChangeTable(c, table) ==
  /\ rows' = table
  /\ wrote' = [wrote EXCEPT ![c] = TRUE]
  /\ left' = [d \in Clients |->
       left[d] \/ (d # c /\ pc[d] = "checked" /\ ~InScope(req[d].user, table[req[d].pk]))]
  /\ walk' = IF walk = NoWalk THEN walk
             ELSE [walk EXCEPT !.quiet = FALSE,
                     !.stable = {p \in @ : table[p] = rows[p]}]

(* A ViewSet's DELETE is mounted without the throttle.                     *)
Throttled(m) == endpoint = "plain" /\ m # "DELETE"

(* guarded: the permission is asked before the handler runs.               *)
Refuse(c) ==
  /\ pc[c] = "idle" /\ requests < MaxRequests[endpoint]
  /\ Answer(c, "unauthorized")
  /\ requests' = requests + 1
  /\ wrote' = [wrote EXCEPT ![c] = FALSE]
  /\ UNCHANGED <<endpoint, left, tableVars, throttleVars, now, faults, walk>>

(* The handler begins; a throttled one reads the clock before its first    *)
(* await.                                                                  *)
Arrive(c, u, m, p, b) ==
  /\ u \in Callers[endpoint] /\ p \in Keys[endpoint]
  /\ pc[c] = "idle" /\ requests < MaxRequests[endpoint]
  /\ m \in {"GET", "DELETE"} => b = AnyOf(Bodies[endpoint])
  /\ m = "POST" => p = AnyOf(Keys[endpoint])
  /\ Goto(c, IF Throttled(m) THEN "limit" ELSE "handle")
  /\ req' = [req EXCEPT ![c] =
       [user |-> u, method |-> m, pk |-> p, body |-> b,
        hits |-> [NoHits EXCEPT !.stamp = IF Throttled(m) THEN now ELSE 0]]]
  /\ reply' = [reply EXCEPT ![c] = "none"]
  /\ requests' = requests + 1
  /\ wrote' = [wrote EXCEPT ![c] = FALSE]
  /\ left' = [left EXCEPT ![c] = FALSE]
  /\ UNCHANGED <<endpoint, tableVars, throttleVars, now, faults, walk>>

-----------------------------------------------------------------------------
(* RateLimiter::check over a DatabaseCache.  DatabaseCache::get SELECTs    *)
(* the entry, compares its expiry with the clock once it has the row, and  *)
(* deletes it, by key, if it is over; check then counts by the clock it    *)
(* read at first.                                                          *)

SelectEntry(c) ==
  /\ pc[c] = "limit"
  /\ Goto(c, "judge")
  /\ req' = [req EXCEPT ![c].hits.found = counter[req[c].user],
                        ![c].hits.after = admitted[req[c].user]]
  /\ UNCHANGED <<endpoint, reply, requests, wrote, left, tableVars, throttleVars, now, faults,
                 walk>>

Expired(entry) == entry.expires <= now

(* saturating_sub: an entry that began after the clock was read counts.    *)
WithinWindow(stamp, entry) == stamp - entry.start < Window

(* The count and window start a caller goes on with.                       *)
Counted(hits) ==
  IF \/ hits.found = NoEntry
     \/ Expired(hits.found)
     \/ ~WithinWindow(hits.stamp, hits.found)
    THEN [count |-> 0, start |-> hits.stamp]
    ELSE [count |-> hits.found.count, start |-> hits.found.start]

InPastWindow(time) == time \div Window < now \div Window

(* Variant: one request more than the limit is let through.                *)
ExhaustedLate(count) == count > MaxAttempts

Exhausted(count) == count >= MaxAttempts

JudgeEntry(c) ==
  LET hits == req[c].hits
      go == Counted(hits) IN
  /\ pc[c] = "judge"
  /\ IF Exhausted(go.count)
       THEN Answer(c, "throttled")
       ELSE /\ Goto(c, IF hits.found # NoEntry /\ Expired(hits.found)
                         THEN "purge" ELSE "record")
            /\ req' = [req EXCEPT ![c].hits =
                 [@ EXCEPT !.found = NoEntry, !.count = go.count, !.start = go.start,
                           !.since = now, !.late = go.count = 0 /\ InPastWindow(go.start)]]
            /\ UNCHANGED reply
  /\ UNCHANGED <<endpoint, requests, wrote, left, tableVars, throttleVars, now, faults,
                 walk>>

(* The DELETE, whatever stands under the key by then.                      *)
PurgeExpired(c) ==
  LET u == req[c].user IN
  /\ pc[c] = "purge"
  /\ counter' = [counter EXCEPT ![u] = NoEntry]
  /\ lost' = [lost EXCEPT ![u] =
       IF counter[u] # NoEntry /\ ~Expired(counter[u]) THEN @ + 1 ELSE @]
  /\ Goto(c, "record")
  /\ req' = [req EXCEPT ![c].hits.since = now]
  /\ UNCHANGED <<endpoint, reply, requests, wrote, left, admitted, late, tableVars, now,
                 faults, walk>>

(* Other requests were recorded since c's SELECT.                          *)
Overtaken(c) == admitted[req[c].user] > req[c].hits.after

(* Variant: the count is stored as it was read.                            *)
RecordedAsRead(hits, at) ==
  [count |-> hits.count, start |-> hits.start, expires |-> at + Window]

Recorded(hits, at) ==
  [count |-> hits.count + 1, start |-> hits.start, expires |-> at + Window]

(* set computes the expiry before it awaits its INSERT.                    *)
Record(c) ==
  LET u == req[c].user
      hits == req[c].hits IN
  /\ pc[c] = "record"
  /\ \E at \in hits.since..now : counter' = [counter EXCEPT ![u] = Recorded(hits, at)]
  /\ lost' = [lost EXCEPT ![u] = IF Overtaken(c) THEN @ + 1 ELSE @]
  /\ late' = [late EXCEPT ![u] = IF hits.late THEN @ + 1 ELSE @]
  /\ admitted' = [admitted EXCEPT ![u] = @ + 1]
  /\ Goto(c, "handle")
  /\ req' = [req EXCEPT ![c].hits = NoHits]
  /\ UNCHANGED <<endpoint, reply, requests, wrote, left, tableVars, now, faults, walk>>

-----------------------------------------------------------------------------
(* The actions of the ViewSet.  A body is parsed before the first query.   *)

Partial(c) == req[c].method = "PATCH"
HasBody(c) == req[c].method \in {"POST", "PUT", "PATCH"}

(* A ScopedViewSet uses neither the serializer nor partial parsing.        *)
Invalid(c) ==
  IF endpoint = "scoped"
    THEN DeserializeErrors(req[c].body, FALSE) # {}
    ELSE ParseFails(FieldSets[endpoint], req[c].body, Partial(c))

Parsed(c) ==
  IF endpoint = "scoped"
    THEN DeserializedValues(req[c].body, FALSE)
    ELSE SerializerValues(FieldSets[endpoint], req[c].body, Partial(c))

Handling(c, m) == pc[c] = "handle" /\ req[c].method = m

Reject(c) ==
  /\ pc[c] = "handle" /\ HasBody(c) /\ Invalid(c)
  /\ Answer(c, "invalid")
  /\ UNCHANGED <<endpoint, requests, wrote, left, tableVars,
                 throttleVars, now, faults, walk>>

Retrieve(c) ==
  /\ Handling(c, "GET")
  /\ Answer(c, IF Visible(c, req[c].pk) THEN "ok" ELSE "notFound")
  /\ UNCHANGED <<endpoint, requests, wrote, left, tableVars,
                 throttleVars, now, faults, walk>>

(* insert_raw: columns without a value are NULL, or the database refuses.  *)
Insert(c) ==
  LET values == Parsed(c)
      row == [col \in Columns |->
                IF col \in DOMAIN values THEN values[col] ELSE NullValue] IN
  /\ Handling(c, "POST") /\ ~Invalid(c)
  /\ Columns \ DOMAIN values \subseteq Nullable
  /\ \E p \in Keys[endpoint] \ Table :
       /\ \A q \in Table : q < p
       /\ ChangeTable(c, [rows EXCEPT ![p] = row])
       /\ promised' = [promised EXCEPT ![p] = row]
       /\ req' = [req EXCEPT ![c].pk = p]
  /\ Goto(c, "readBack")
  /\ UNCHANGED <<endpoint, reply, requests, throttleVars, now,
                 faults>>

(* What an update asks for: PATCH names the columns it supplies, PUT every *)
(* column that may be written.                                             *)
Asked(c, old) ==
  [col \in Columns |->
     IF IF Partial(c) THEN Absent(req[c].body, col)
        ELSE endpoint # "scoped" /\ ~IsWritable(FieldSets[endpoint], col)
     THEN old[col]
     ELSE IF ~AbsentOrNull(req[c].body, col) THEN req[c].body.row[col]
     ELSE IF col \in Booleans \ Nullable THEN FalseValue ELSE NullValue]

Update(c) ==
  LET values == Parsed(c)
      p == req[c].pk IN
  /\ pc[c] = "handle" /\ req[c].method \in {"PUT", "PATCH"} /\ ~Invalid(c)
  /\ DOMAIN values # {} /\ Visible(c, p)
  /\ ChangeTable(c, [rows EXCEPT ![p] = [col \in Columns |->
       IF col \in DOMAIN values THEN values[col] ELSE @[col]]])
  /\ promised' = [promised EXCEPT ![p] = Asked(c, @)]
  /\ Goto(c, "readBack")
  /\ UNCHANGED <<endpoint, req, reply, requests, throttleVars, now,
                 faults>>

(* No row updated is a 404; an UPDATE without columns is not valid SQL.    *)
UpdateNothing(c) ==
  /\ pc[c] = "handle" /\ req[c].method \in {"PUT", "PATCH"} /\ ~Invalid(c)
  /\ \/ DOMAIN Parsed(c) = {} /\ Answer(c, "error")
     \/ DOMAIN Parsed(c) # {} /\ ~Visible(c, req[c].pk) /\ Answer(c, "notFound")
  /\ UNCHANGED <<endpoint, requests, wrote, left, tableVars,
                 throttleVars, now, faults, walk>>

(* Variant: a row that cannot be read back is reported as not found.       *)
ReadBackNotFound(c) == IF Visible(c, req[c].pk) THEN "ok" ELSE "notFound"

(* The row written is read back, in scope: it may be out of it, or gone.   *)
ReadBackStatus(c) == IF Visible(c, req[c].pk) THEN "ok" ELSE "error"

ReadBack(c) ==
  /\ pc[c] = "readBack"
  /\ Answer(c, ReadBackStatus(c))
  /\ UNCHANGED <<endpoint, requests, wrote, left, tableVars, throttleVars, now, faults,
                 walk>>

(* A ScopedViewSet looks the row up in scope and then deletes by key.      *)
CheckScope(c) ==
  /\ endpoint = "scoped" /\ Handling(c, "DELETE")
  /\ IF Visible(c, req[c].pk) THEN Goto(c, "checked") /\ UNCHANGED <<req, reply>>
                          ELSE Answer(c, "notFound")
  /\ UNCHANGED <<endpoint, requests, wrote, left, tableVars,
                 throttleVars, now, faults, walk>>

(* Variant: a ScopedViewSet deletes by key without looking the row up.     *)
MayDestroyUnchecked(c) == Handling(c, "DELETE")

MayDestroy(c) == IF endpoint = "scoped" THEN pc[c] = "checked" ELSE Handling(c, "DELETE")

Destroy(c) ==
  /\ MayDestroy(c)
  /\ IF rows[req[c].pk] = Gone
       THEN Answer(c, "notFound") /\ UNCHANGED <<tableVars, wrote, left, walk>>
       ELSE /\ ChangeTable(c, [rows EXCEPT ![req[c].pk] = Gone])
            /\ promised' = [promised EXCEPT ![req[c].pk] = Gone]
            /\ Answer(c, "ok")
  /\ UNCHANGED <<endpoint, requests, throttleVars, now, faults>>

(* A query fails: 500, except that CheckScope takes any error for a 404.   *)
DbError(c) ==
  /\ pc[c] \notin {"idle"} /\ faults < MaxFaults[endpoint]
  /\ faults' = faults + 1
  /\ Answer(c, IF endpoint = "scoped" /\ Handling(c, "DELETE") THEN "notFound" ELSE "error")
  /\ UNCHANGED <<endpoint, requests, wrote, left, tableVars,
                 throttleVars, now, walk>>

-----------------------------------------------------------------------------
(* The paging client.                                                      *)

ListedInScope(w) == {p \in Table : InScope(w.user, rows[p]) /\ Holds(w.filters, rows[p])}

ListedBy(w) ==
  IF endpoint = "scoped" THEN ListedInScope(w)
  ELSE {p \in Table : Holds(w.filters, rows[p])}

Listed == ListedBy(walk.req)

StartWalk(w) ==
  /\ walk = NoWalk
  /\ walk' = [active |-> TRUE, req |-> w, step |-> "count", page |-> 1, total |-> 0,
              cursor |-> NoCursor, ends |-> {}, seen |-> [p \in Pks |-> 0],
              stable |-> ListedBy(w), quiet |-> TRUE]
  /\ UNCHANGED <<endpoint, requestVars, tableVars, throttleVars, now, faults>>

(* COUNT and the page are two queries.                                     *)
CountRows ==
  /\ walk # NoWalk /\ walk.step = "count"
  /\ walk' = [walk EXCEPT !.step = "fetch", !.total = Cardinality(Listed)]
  /\ UNCHANGED <<endpoint, requestVars, tableVars, throttleVars, now, faults>>

SizeOf(w) == ResolveSize(w.asked, PageSize, MaxPageSize)

(* Pagination::slice: the window of page number n, for a client that takes *)
(* offsets in steps of the limit.                                          *)
Slice(w, n, total) ==
  IF w.mode = "page" THEN [limit |-> SizeOf(w), offset |-> Offset(n, SizeOf(w), total)]
  ELSE LET limit == LimitOffset(w.asked, 0, PageSize, MaxPageSize).limit
       IN  LimitOffset(w.asked, (n - 1) * limit, PageSize, MaxPageSize)

LastSlice(w, n, total) ==
  IF w.mode = "page" THEN n >= TotalPages(total, SizeOf(w))
  ELSE LET slice == Slice(w, n, total) IN slice.offset + slice.limit >= total

SeenWith(page) ==
  [p \in Pks |-> IF p \in page /\ walk.seen[p] < 2 THEN walk.seen[p] + 1 ELSE walk.seen[p]]

(* The cursor written after a row whose rank is NULL does not parse: 400.  *)
RefuseCursor ==
  /\ walk # NoWalk /\ walk.step = "fetch" /\ walk.req.mode = "cursor"
  /\ walk.cursor.rank = NullValue
  /\ walk' = [walk EXCEPT !.step = "refused"]
  /\ UNCHANGED <<endpoint, requestVars, tableVars, throttleVars, now, faults>>

FetchByCursor ==
  /\ walk # NoWalk /\ walk.step = "fetch" /\ walk.req.mode = "cursor"
  /\ walk.cursor.rank # NullValue
  /\ LET size == SizeOf(walk.req)
         found == {p \in Listed : After(walk.cursor, rows[p], p, walk.req.descending)} IN
     \E at \in Orders(found, LAMBDA p, q :
                        SortsBefore(walk.req, FlagRank, rows[p], p, rows[q], q)) :
       LET page == {p \in found : at[p] < size} IN
       IF Cardinality(found) <= size
         THEN walk' = [walk EXCEPT !.seen = SeenWith(page), !.step = "done"]
         ELSE \E last \in page :
                /\ at[last] = size - 1
                /\ walk' = [walk EXCEPT !.seen = SeenWith(page), !.step = "count",
                     !.cursor = Cursor(rows[last], last), !.ends = @ \cup {rows[last].rank}]
  /\ UNCHANGED <<endpoint, requestVars, tableVars, throttleVars, now, faults>>

(* The client asks for window after window up to the total it was told.    *)
FetchSlice ==
  /\ walk # NoWalk /\ walk.step = "fetch" /\ walk.req.mode \in {"page", "offset"}
  /\ LET slice == Slice(walk.req, walk.page, walk.total) IN
     \E at \in Orders(Listed, LAMBDA p, q :
                        SortsBefore(walk.req, FlagRank, rows[p], p, rows[q], q)) :
       LET page == {p \in Listed : at[p] >= slice.offset /\ at[p] < slice.offset + slice.limit}
           last == LastSlice(walk.req, walk.page, walk.total) IN
       walk' = [walk EXCEPT !.seen = SeenWith(page),
                            !.step = IF last THEN "done" ELSE "count",
                            !.page = IF last THEN @ ELSE @ + 1]
  /\ UNCHANGED <<endpoint, requestVars, tableVars, throttleVars, now, faults>>

-----------------------------------------------------------------------------
(* Only the throttle looks at the clock.                                   *)
Tick ==
  /\ now < MaxNow /\ endpoint = "plain"
  /\ now' = now + 1
  /\ UNCHANGED <<endpoint, requestVars, tableVars, throttleVars, faults, walk>>

Next ==
  \/ \E c \in Clients :
       \/ Refuse(c) \/ SelectEntry(c) \/ JudgeEntry(c) \/ PurgeExpired(c) \/ Record(c)
       \/ Reject(c) \/ Retrieve(c) \/ Insert(c) \/ Update(c) \/ UpdateNothing(c)
       \/ ReadBack(c) \/ CheckScope(c) \/ Destroy(c) \/ DbError(c)
  \/ \E c \in Clients, u \in Users, m \in Methods, p \in Pks, b \in Bodies[endpoint] :
       Arrive(c, u, m, p, b)
  \/ \E w \in Walks[endpoint] : StartWalk(w)
  \/ CountRows \/ RefuseCursor \/ FetchByCursor \/ FetchSlice
  \/ Tick

Spec == Init /\ [][Next]_vars

-----------------------------------------------------------------------------
(* A 4xx answer means the request left the table alone, whatever the       *)
(* others did meanwhile: a client may repeat or drop it.                   *)
RefusedMeansUntouched ==
  \A c \in Clients : pc[c] = "idle" /\ reply[c] \in Refusals => ~wrote[c]

(* "PATCH is treated as a partial write, so omitted fields are left alone; *)
(* PUT requires every writable column": each column of a row has the value *)
(* the last request that named it gave it.  (A ScopedViewSet parses PATCH  *)
(* as a whole object and resets the columns it omits.)                     *)
NamedColumnsOnly == endpoint # "scoped" => rows = promised

(* "Updates (deletes) a record only if it is in scope": a row changed or   *)
(* deleted through a ScopedViewSet is one of the caller's, except that a   *)
(* row which leaves the scope after destroy has looked it up is deleted.   *)
ScopedWritesStayInScope ==
  [][endpoint = "scoped" =>
       \A c \in Clients, p \in Pks :
         (pc'[c] # pc[c] /\ rows[p] # Gone /\ rows'[p] # rows[p]) =>
           p = req[c].pk /\ (InScope(req[c].user, rows[p]) \/ left[c])]_vars

(* "It is best effort under concurrency [...] but cannot allow an          *)
(* unbounded stream by repeatedly treating every request as a fresh zero": *)
(* requests beyond one budget per window cost a window opened late, or a   *)
(* record undone.  A check that read the clock before a window turned and  *)
(* was answered after opens one that is over, so that the next request     *)
(* opens another: one budget.  A record that a slower request overwrote or *)
(* purged is worth two at most: it leaves room for requests it does not    *)
(* count, and may bring back a window that is over.                        *)
Budget(windows, undone) == MaxAttempts * (windows + 2 * undone)

WindowBudget ==
  \A u \in Users : admitted[u] <= Budget(1 + now \div Window + late[u], lost[u])

Finished == walk # NoWalk /\ walk.step = "done"

(* Rows that a page boundary can lose or repeat: those that share their    *)
(* second with a boundary whose value is not a whole second, and with two  *)
(* ordering fields those that share a boundary's value.                    *)
AtBoundary(p) ==
  rows[p].rank # NullValue /\
  \E end \in walk.ends \ {NullValue} :
    \/ end # WholeSecond(end) /\ WholeSecond(rows[p].rank) = WholeSecond(end)
    \/ walk.req.byFlag /\ rows[p].rank = end

(* Rows a walk by cursor never comes to: those whose rank is NULL, when    *)
(* NULL comes last and the first page had no room for all: no value        *)
(* compares with NULL, so `after` drops them from every later page.        *)
Dropped(p) ==
  rows[p].rank = NullValue /\ ~NullsFirst(walk.req) /\ walk.ends # {}

(* "Stable under concurrent inserts, unlike offset paging": a finished     *)
(* cursor walk returned every row that was there all along exactly once,   *)
(* except at the boundaries above, and the rows above that it drops; any   *)
(* other walk did when nothing was written meanwhile and the ordering      *)
(* tells the rows apart.                                                   *)
WalkIsComplete ==
  Finished =>
    \A p \in walk.stable :
      \/ walk.seen[p] = 1
      \/ walk.req.mode = "cursor" /\ AtBoundary(p)
      \/ walk.req.mode = "cursor" /\ Dropped(p) /\ walk.seen[p] = 0
      \/ /\ walk.req.mode # "cursor"
         /\ \/ ~walk.quiet
            \/ \E q \in walk.stable \ {p} : rows[q].rank = rows[p].rank

-----------------------------------------------------------------------------
(* The inductive invariant.                                                *)

(* A request that has written is still reading back, or was not refused.   *)
WroteInv ==
  \A c \in Clients :
    wrote[c] => \/ pc[c] = "readBack"
                \/ pc[c] = "idle" /\ reply[c] \notin Refusals

(* The row a scoped destroy has looked up was in scope, and has only left  *)
(* it by another request's write.                                          *)
ScopeInv ==
  endpoint = "scoped" =>
    \A c \in Clients :
      pc[c] = "checked" => InScope(req[c].user, rows[req[c].pk]) \/ left[c]

(* One budget for each window before this one, and the extra ones.         *)
Allowed(u) == Budget(now \div Window + late[u], lost[u])

(* What an entry (or what a check goes on with) says of the requests       *)
(* admitted: its count beyond the above when it began in this window; one  *)
(* that began earlier has left part of its own budget unused.              *)
Beyond(count, start) == IF InPastWindow(start) THEN count - MaxAttempts ELSE count

Credit(entry) == IF entry = NoEntry THEN 0 ELSE Beyond(entry.count, entry.start)

EntryOK(entry) ==
  entry # NoEntry => entry.start <= now /\ entry.start + Window <= entry.expires

CounterInv ==
  \A u \in Users :
    EntryOK(counter[u]) /\ admitted[u] <= Allowed(u) + Credit(counter[u])

(* What c has read of the counter is right while nobody has overtaken it.  *)
HitsOK(c) ==
  LET hits == req[c].hits
      u == req[c].user IN
  /\ pc[c] \in {"limit", "judge"} => hits.stamp <= now
  /\ pc[c] = "judge" =>
       /\ EntryOK(hits.found) /\ hits.after <= admitted[u]
       /\ ~Overtaken(c) => admitted[u] <= Allowed(u) + Credit(hits.found)
  /\ pc[c] \in {"purge", "record"} =>
       /\ hits.count < MaxAttempts
       /\ hits.start <= hits.since /\ hits.since <= now
       /\ hits.after <= admitted[u]
       /\ ~Overtaken(c) =>
            admitted[u] <= Allowed(u) + Beyond(hits.count, hits.start)
                             + IF hits.late THEN MaxAttempts ELSE 0

HitsInv == \A c \in Clients : HitsOK(c)

IInv == TypeOK /\ WroteInv /\ NamedColumnsOnly /\ ScopeInv /\ CounterInv /\ HitsInv

=============================================================================
