-------------------------------- MODULE Admin --------------------------------
(***************************************************************************)
(* The admin site over one registered model: staff open a change form,     *)
(* edit it while the row changes underneath, edit lists in place, add,     *)
(* delete and run bulk actions; every write is followed by an entry in the *)
(* log, in a statement of its own.  The rows also belong to the program,   *)
(* such as the workers of the task queue, which writes them at any time.   *)
(***************************************************************************)
EXTENDS Changelist, Functions

CONSTANTS
  Staff,
  Access,         \* [Staff -> [staff, superuser: BOOLEAN, perms: actions, tenant]]
  Scenes,         \* what a behaviour is about: [name, calls, rows, edits, scoped, ...],
                  \* and its bounds: how many writes, POST requests and faults
  Pks,
  Kind,           \* [field -> "text", "int", "bool", "datetime" or "relation"]
  Nullable,       \* fields that may be NULL
  ReadOnly,       \* readonly_fields
  Editable,       \* list_editable
  Null,
  Dash,           \* the text "-"
  Empty,          \* an empty input
  Bad,            \* input that is not a number
  NoTenant        \* no restriction to a tenant

Fields == DOMAIN Kind

ASSUME AdminBounds ==
  /\ \A s \in Scenes : s.bounds \in Nat \X Nat \X Nat
  /\ PerPage \in Nat \ {0}
  /\ IsFiniteSet(Staff) /\ Null \notin Staff
  /\ Pks \subseteq Nat \ {0} /\ IsFiniteSet(Pks)

(* What register_with asserts of a configuration: the searched column is a *)
(* text, filters are boolean or have choices, the date hierarchy is a      *)
(* datetime, and only texts and numbers are edited in the list.            *)
(* The program counts in a column that is not NULL.                        *)
Registered ==
  /\ {"note", "due", "team", "count"} \subseteq Fields
  /\ Kind["note"] = "text" /\ Kind["due"] = "datetime" /\ Kind["team"] = "relation"
  /\ Kind["count"] = "int" /\ "count" \notin Nullable
  /\ \A f \in Fields : Kind[f] \in {"text", "int", "bool", "datetime", "relation"}
  /\ \A f \in ListFilter : f \in Fields /\ (Kind[f] = "bool" \/ f \in Choices)
  /\ \A f \in Choices : f \in ListFilter /\ Kind[f] # "bool"
  /\ \A f \in Editable : f \in Fields /\ Kind[f] \in {"text", "int"}

ASSUME RegisteredAssumption == Registered

ASSUME TextAssumption ==
  /\ \A t \in {Null, Dash, Empty, Bad} : t \notin Int \cup BOOLEAN /\ ~IsDay(t)
  /\ Null \notin {Dash, Empty, Bad} /\ Dash \notin {Empty, Bad} /\ Empty # Bad
  /\ NoDate = Null

(* What a column holds, and what can be entered for it.                    *)
Fits(f, value) ==
  IF value = Null THEN f \in Nullable
  ELSE /\ Kind[f] \in {"int", "relation"} => value \in Int
       /\ Kind[f] = "bool" => value \in BOOLEAN
       /\ Kind[f] = "datetime" => IsDay(value)

Enterable(f, raw) ==
  /\ raw # Null
  /\ Kind[f] \in {"int", "relation"} => raw \in Int \cup {Dash, Empty, Bad}
  /\ Kind[f] = "datetime" => raw \in {Dash, Empty, Bad} \/ (IsDay(raw) /\ raw[4] = 0)

IsRow(row) == DOMAIN row = Fields /\ \A f \in Fields : Fits(f, row[f])

ASSUME SceneAssumption == \A s \in Scenes :
  /\ DOMAIN s.rows \subseteq Pks /\ \A p \in DOMAIN s.rows : IsRow(s.rows[p])
  /\ \A k \in DOMAIN s.children : s.children[k] \in DOMAIN s.rows
  /\ \A edits \in s.edits : \A f \in DOMAIN edits : f \in Fields /\ Enterable(f, edits[f])
  /\ \A pks \in s.selections : pks \in Seq(Pks)
  /\ \A v \in s.views : /\ DOMAIN v = DOMAIN NoView /\ v.order \in {"none", "count", "-count"}
                         /\ {v.year, v.month, v.day, v.page} \subseteq Int

VARIABLES
  scene,
  rows,           \* the model's table
  children,       \* rows whose foreign key is Protect: [pk -> parent]
  log,            \* djangors_admin_log
  pc, work,       \* the request each of the staff has under way
  form,           \* the change form each has open
  result,         \* what the last request that ended answered
  last,           \* history: the last UPDATE of a form, before and after
  deleted,        \* history: [pk -> rows deleted by the delete views]
  lost,           \* history: requests that failed between their write and its entry
  writes, requests, faults

vars == <<scene, rows, children, log, pc, work, form, result, last, deleted, lost,
          writes, requests, faults>>

Flags == {"added", "changed", "deleted"}
Steps == {"idle", "fetch", "check", "old", "update", "scope", "erase", "act", "log"}
NoForm == [pk |-> 0]
NoWork == [call |-> "none", pks |-> <<>>]
NoUpdate == [call |-> "none"]
NoResult == [call |-> "none"]
Entry == [pk : Pks, flag : Flags, user : Staff, diff : SUBSET Fields,
          exact : BOOLEAN, changed : SUBSET Fields]
Plain(p, flag, c) ==
  [pk |-> p, flag |-> flag, user |-> c, diff |-> {}, exact |-> FALSE, changed |-> {}]

TypeOK ==
  /\ scene \in Scenes
  /\ DOMAIN rows \subseteq Pks /\ \A p \in DOMAIN rows : IsRow(rows[p])
  /\ \A k \in DOMAIN children : children[k] \in DOMAIN rows
  /\ log \in Seq(Entry)
  /\ pc \in [Staff -> Steps] /\ DOMAIN work = Staff /\ DOMAIN form = Staff
  /\ \A c \in Staff : (pc[c] = "idle") = (work[c] = NoWork)
  /\ \A c \in Staff : pc[c] \in {"check", "scope", "erase", "act", "old", "update"} =>
                        work[c].pks \in Seq(Pks) \ {<<>>}
  /\ deleted \in [Pks -> Nat] /\ lost \in Nat
  /\ writes \in 0..scene.bounds[1]
  /\ requests \in 0..scene.bounds[2] /\ faults \in 0..scene.bounds[3]

Init ==
  /\ scene \in Scenes
  /\ rows = scene.rows /\ children = scene.children
  /\ log = <<>>
  /\ pc = [c \in Staff |-> "idle"] /\ work = [c \in Staff |-> NoWork]
  /\ form = [c \in Staff |-> NoForm]
  /\ result = NoResult /\ last = NoUpdate
  /\ deleted = [p \in Pks |-> 0] /\ lost = 0
  /\ writes = 0 /\ requests = 0 /\ faults = 0

-----------------------------------------------------------------------------
(* require_perm and resolve_tenant.                                        *)
Forbidden(c, action) ==
  \/ ~Access[c].staff
  \/ ~Access[c].superuser /\ (action \notin Access[c].perms
                              \/ (scene.scoped /\ Access[c].tenant = NoTenant))

Tenant(c) == IF Access[c].superuser \/ ~scene.scoped THEN NoTenant ELSE Access[c].tenant

(* scoped_pk_queryset.                                                     *)
Visible(c, p) == p \in DOMAIN rows /\ (Tenant(c) = NoTenant \/ rows[p].team = Tenant(c))

(* One request of each of the staff is under way at a time.                *)
Idle(c, call) == c \in scene.staff /\ call \in scene.calls /\ pc[c] = "idle"

Posting(c, call) ==
  /\ Idle(c, call) /\ requests < scene.bounds[2]
  /\ requests' = requests + 1

Start(c, step, w) == pc' = [pc EXCEPT ![c] = step] /\ work' = [work EXCEPT ![c] = w]

Answer(c, call, status) ==
  /\ Start(c, "idle", NoWork)
  /\ result' = [call |-> call, status |-> status]

(* A write to the rows S: the forms and requests that have read one of     *)
(* them are out of date.                                                   *)
Write(new, S) ==
  /\ writes < scene.bounds[1]
  /\ rows' = new /\ writes' = writes + 1
  /\ form' = [d \in Staff |->
       IF form[d].pk \in S THEN [form[d] EXCEPT !.stale = TRUE] ELSE form[d]]

Overtake(c, S, w) ==
  [d \in Staff |-> IF d # c /\ pc[d] \in {"old", "update"} /\ w[d].call # "save"
                      /\ Head(w[d].pks) \in S
                     THEN [w[d] EXCEPT !.overtaken = TRUE] ELSE w[d]]

NoWrite == UNCHANGED <<rows, writes, form>>
history == <<last, deleted, lost>>
counters == <<requests, faults>>

-----------------------------------------------------------------------------
(* Forms: what a control shows, what a browser submits, what is parsed.    *)

(* Value::fmt: NULL is shown as "-", in an input too, and an instant with  *)
(* its whole seconds only.                                                 *)
WholeSeconds(date) == <<date[1], date[2], date[3], 0>>
Display(f, value) ==
  IF value = Null THEN Dash ELSE IF Kind[f] = "datetime" THEN WholeSeconds(value) ELSE value

(* A checkbox is submitted when it is checked, a read-only field never;    *)
(* an input of type number holds no "-".                                   *)
Submitted(shown, edits) ==
  LET entered(f) == IF f \in DOMAIN edits THEN edits[f] ELSE shown[f]
      absent(f) == f \in ReadOnly \/ (Kind[f] = "bool" /\ entered(f) # TRUE) IN
  [f \in {g \in Fields : ~absent(g)} |->
     IF Kind[f] \in {"int", "relation"} /\ entered(f) = Dash THEN Empty ELSE entered(f)]

Raw(body, f) == IF f \in DOMAIN body THEN body[f] ELSE Empty

(* parse_field_value and parse_relation_value: their errors.               *)
Rejected(f, raw) ==
  \/ raw = Empty /\ f \notin Nullable /\ Kind[f] \notin {"bool", "relation"}
  \/ Kind[f] = "datetime" /\ raw \in {Dash, Bad}
  \/ Kind[f] \in {"int", "relation"} /\ raw \in {Dash, Bad}

(* ... and what they return.  A checkbox counts as soon as it is sent.     *)
Parsed(f, raw) ==
  IF raw = Empty THEN IF Kind[f] = "bool" /\ f \notin Nullable THEN FALSE ELSE Null
  ELSE IF Kind[f] = "bool" THEN TRUE ELSE raw

Errors(body) == {f \in Fields : Rejected(f, Raw(body, f))}
RowOf(body) == [f \in Fields |-> Parsed(f, Raw(body, f))]

(* A relation may be left empty in a form; a NOT NULL column refuses that. *)
NotNullFails(row) == \E f \in Fields : row[f] = Null /\ f \notin Nullable

-----------------------------------------------------------------------------
(* The change form.                                                        *)

ChangeGet(c, p) ==
  /\ Idle(c, "change") /\ form[c] = NoForm
  /\ IF Forbidden(c, "change") \/ ~Visible(c, p)
       THEN /\ result' = [call |-> "form", status |-> IF Forbidden(c, "change") THEN 403 ELSE 404]
            /\ UNCHANGED form
       ELSE /\ form' = [form EXCEPT ![c] =
                 [pk |-> p, edited |-> {}, stale |-> FALSE, opened |-> rows[p],
                  shown |-> [f \in Fields |-> Display(f, rows[p][f])]]]
            /\ UNCHANGED result
  /\ UNCHANGED <<scene, rows, children, log, pc, work, history, writes, counters>>

ChangePost(c, edits) ==
  /\ Posting(c, "change") /\ form[c] # NoForm
  /\ IF Forbidden(c, "change")
       THEN Answer(c, "change", 403)
       ELSE /\ Start(c, "old", [call |-> "change", pks |-> <<form[c].pk>>, overtaken |-> FALSE,
                                body |-> Submitted(form[c].shown, edits),
                                edited |-> form[c].edited \cup DOMAIN edits])
            /\ UNCHANGED result
  /\ UNCHANGED <<scene, rows, children, log, form, history, writes, faults>>

(* The row is read for the log's diff.                                     *)
ReadOld(c) ==
  LET p == Head(work[c].pks) IN
  /\ pc[c] = "old"
  /\ Start(c, "update", [call |-> "change", pks |-> <<p>>, overtaken |-> FALSE,
                         body |-> work[c].body, edited |-> work[c].edited,
                         old |-> IF Visible(c, p) THEN rows[p] ELSE <<>>])
  /\ NoWrite /\ UNCHANGED <<scene, children, log, result, history, counters>>

(* The fields that differ, read-only ones included; their texts are left   *)
(* out here.  Nothing differs from a row that was not there.               *)
Diff(old, new) == {f \in DOMAIN old : old[f] # new[f]}

(* A form with errors is shown again, with what was submitted.             *)
Redisplay(c) ==
  [form EXCEPT ![c] = [pk |-> @.pk, edited |-> work[c].edited, stale |-> @.stale, opened |-> @.opened,
                       shown |-> [f \in Fields |-> Raw(work[c].body, f)]]]

(* Every column is set, if the row is still there and the tenant's.        *)
UpdateFromForm(c) ==
  LET p == Head(work[c].pks)
      new == RowOf(work[c].body)
      entry == [pk |-> p, flag |-> "changed", user |-> c, diff |-> Diff(work[c].old, new),
                exact |-> ~work[c].overtaken,
                changed |-> IF Visible(c, p) THEN {f \in Fields : rows[p][f] # new[f]} ELSE {}] IN
  /\ pc[c] = "update" /\ work[c].call = "change"
  /\ IF Errors(work[c].body) # {}
       THEN /\ Answer(c, "change", IF Visible(c, p) THEN "errors" ELSE 404)
            /\ form' = IF Visible(c, p) THEN Redisplay(c) ELSE [form EXCEPT ![c] = NoForm]
            /\ UNCHANGED <<rows, writes, last>>
     ELSE IF Visible(c, p) /\ NotNullFails(new)
       THEN Answer(c, "change", 500) /\ NoWrite /\ UNCHANGED last
       ELSE /\ IF Visible(c, p)
                 THEN /\ Write([rows EXCEPT ![p] = new], {p})
                      /\ last' = [call |-> "change", user |-> c, before |-> rows[p], after |-> new,
                                  opened |-> form[c].opened, edited |-> work[c].edited,
                                  stale |-> form[c].stale, body |-> work[c].body]
                 ELSE NoWrite /\ UNCHANGED last
            /\ pc' = [pc EXCEPT ![c] = "log"]
            /\ work' = Overtake(c, {p}, [work EXCEPT ![c] =
                 [call |-> "change", pks |-> <<>>, entries |-> <<entry>>]])
            /\ UNCHANGED result
  /\ UNCHANGED <<scene, children, log, deleted, lost, counters>>

(* log_action for the entries of this request, one INSERT after another;   *)
(* a log table that does not exist is no error.  Then come its other rows. *)
Log(c) ==
  LET w == work[c] IN
  /\ pc[c] = "log"
  /\ log' = IF scene.logged THEN Append(log, Head(w.entries)) ELSE log
  /\ \/ /\ Len(w.entries) > 1
        /\ Start(c, "log", [w EXCEPT !.entries = Tail(@)])
        /\ UNCHANGED <<result, form>>
     \/ /\ Len(w.entries) = 1 /\ w.pks # <<>>
        /\ Start(c, IF w.call = "save" THEN "update" ELSE "check", [w EXCEPT !.entries = <<>>])
        /\ UNCHANGED <<result, form>>
     \/ /\ Len(w.entries) = 1 /\ w.pks = <<>>
        /\ Answer(c, w.call, "redirect")
        /\ form' = IF w.call = "change" THEN [form EXCEPT ![c] = NoForm] ELSE form
  /\ UNCHANGED <<scene, rows, children, history, writes, counters>>

-----------------------------------------------------------------------------
(* Editing the list in place: only what was submitted is set, row by row,  *)
(* in any order; a row with errors is reported, the others are saved.      *)

SavePost(c, order, edits) ==
  LET fields == DOMAIN edits \cap Editable IN
  /\ Posting(c, "save") /\ order # <<>>
  /\ IF Forbidden(c, "change") \/ fields = {}
       THEN Answer(c, "save", IF Forbidden(c, "change") THEN 403 ELSE "redirect")
       ELSE /\ Start(c, "update", [call |-> "save", pks |-> order, entries |-> <<>>,
                                   body |-> [f \in fields |-> edits[f]]])
            /\ UNCHANGED result
  /\ NoWrite /\ UNCHANGED <<scene, children, log, history, faults>>

(* Variant: what was not submitted is set too.                             *)
SetByList(body) == Fields

SetByForm(body) == DOMAIN body

UpdateFields(c) ==
  LET p == Head(work[c].pks)
      rest == [work[c] EXCEPT !.pks = Tail(@)]
      body == work[c].body
      entry == Plain(p, "changed", c)
      new == [f \in Fields |-> IF f \in SetByForm(body) THEN Parsed(f, Raw(body, f))
                                                        ELSE rows[p][f]] IN
  /\ pc[c] = "update" /\ work[c].call = "save"
  /\ IF \E f \in DOMAIN body : Rejected(f, body[f])
       THEN /\ IF rest.pks = <<>> THEN Answer(c, "save", "errors")
                 ELSE Start(c, "update", rest) /\ UNCHANGED result
            /\ NoWrite /\ UNCHANGED last
       ELSE /\ IF Visible(c, p)
                 THEN /\ Write([rows EXCEPT ![p] = new], {p})
                      /\ last' = [call |-> "save", user |-> c, before |-> rows[p], after |-> new,
                                  opened |-> rows[p], edited |-> DOMAIN body, stale |-> FALSE,
                                  body |-> body]
                 ELSE NoWrite /\ UNCHANGED last
            /\ pc' = [pc EXCEPT ![c] = "log"]
            /\ work' = Overtake(c, {p}, [work EXCEPT ![c] = [rest EXCEPT !.entries = <<entry>>]])
            /\ UNCHANGED result
  /\ UNCHANGED <<scene, children, log, deleted, lost, counters>>

-----------------------------------------------------------------------------
(* Adding a row.  A tenant's staff send its column twice, once from the    *)
(* form: Postgres refuses the statement, Sqlite takes the first.           *)

AddPost(c, edits) ==
  LET body == Submitted([f \in Fields |-> Empty], edits)
      fails == (Tenant(c) # NoTenant /\ scene.postgres) \/ NotNullFails(RowOf(body)) IN
  /\ Posting(c, "add")
  /\ IF Forbidden(c, "add") \/ Errors(body) # {} \/ fails
       THEN /\ Answer(c, "add", IF Forbidden(c, "add") THEN 403
                               ELSE IF Errors(body) # {} THEN "errors" ELSE 500)
            /\ NoWrite
       ELSE \E p \in Pks \ DOMAIN rows :
              /\ \A q \in Pks \ DOMAIN rows : p <= q
              /\ Write([q \in DOMAIN rows \cup {p} |->
                         IF q = p THEN RowOf(body) ELSE rows[q]], {})
              /\ pc' = [pc EXCEPT ![c] = "log"]
              /\ work' = Overtake(c, {p}, [work EXCEPT ![c] =
                   [call |-> "add", pks |-> <<>>, entries |-> <<Plain(p, "added", c)>>]])
              /\ UNCHANGED result
  /\ UNCHANGED <<scene, children, log, history, faults>>

-----------------------------------------------------------------------------
(* Deleting: one row, a confirmed selection, or the delete_selected action.*)

DeletePost(c, p) ==
  /\ Posting(c, "delete")
  /\ IF Forbidden(c, "delete")
       THEN Answer(c, "delete", 403)
       ELSE Start(c, "check", [call |-> "delete", pks |-> <<p>>, entries |-> <<>>])
            /\ UNCHANGED result
  /\ NoWrite /\ UNCHANGED <<scene, children, log, history, faults>>

(* Without confirm=1 the selection is only listed.                         *)
BulkDeletePost(c, pks, confirmed) ==
  /\ Posting(c, "bulk")
  /\ IF Forbidden(c, "delete") \/ pks = <<>> \/ ~confirmed
       THEN Answer(c, "bulk", IF Forbidden(c, "delete") THEN 403
                              ELSE IF pks = <<>> THEN "redirect" ELSE "confirm")
       ELSE Start(c, "check", [call |-> "bulk", pks |-> pks, entries |-> <<>>])
            /\ UNCHANGED result
  /\ NoWrite /\ UNCHANGED <<scene, children, log, history, faults>>

(* Variant: on to a row after the last one.                                *)
ContinuePast(c, status) ==
  Start(c, "check", [work[c] EXCEPT !.pks = Tail(@)]) /\ UNCHANGED result

(* On to the next row of a selection, or done.                             *)
Continue(c, status) ==
  IF Len(work[c].pks) > 1
    THEN Start(c, "check", [work[c] EXCEPT !.pks = Tail(@)]) /\ UNCHANGED result
    ELSE Answer(c, work[c].call, IF work[c].call = "bulk" THEN "redirect" ELSE status)

(* collect_related_objects: Protect forbids it while a child refers to it. *)
CheckRelated(c) ==
  LET p == Head(work[c].pks) IN
  /\ pc[c] = "check"
  /\ IF \E k \in DOMAIN children : children[k] = p
       THEN Continue(c, 400)
       ELSE Start(c, IF Tenant(c) = NoTenant THEN "erase" ELSE "scope", work[c])
            /\ UNCHANGED result
  /\ NoWrite /\ UNCHANGED <<scene, children, log, history, counters>>

(* delete_by_pk of the ModelAdmin: is the row the tenant's?                *)
CheckScope(c) ==
  /\ pc[c] = "scope"
  /\ IF Visible(c, Head(work[c].pks))
       THEN Start(c, "erase", work[c]) /\ UNCHANGED result
       ELSE Continue(c, 404)
  /\ NoWrite /\ UNCHANGED <<scene, children, log, history, counters>>

(* Variant: the number of rows deleted is not looked at.                   *)
ErasedOne(p) == TRUE

Erased(p) == p \in DOMAIN rows

(* ... and the DELETE, by key alone.  A child there by now makes it fail.  *)
Erase(c) ==
  LET p == Head(work[c].pks)
      referred == \E k \in DOMAIN children : children[k] = p IN
  /\ pc[c] = "erase"
  /\ \/ referred /\ Answer(c, work[c].call, 500) /\ NoWrite /\ UNCHANGED deleted
     \/ ~referred /\ ~Erased(p) /\ Continue(c, 404) /\ NoWrite /\ UNCHANGED deleted
     \/ /\ ~referred /\ Erased(p)
        /\ Write(Restrict(rows, DOMAIN rows \ {p}), {p})
        /\ deleted' = [deleted EXCEPT ![p] = IF p \in DOMAIN rows THEN @ + 1 ELSE @]
        /\ pc' = [pc EXCEPT ![c] = "log"]
        /\ work' = Overtake(c, {p}, [work EXCEPT ![c] =
             [call |-> @.call, pks |-> Tail(@.pks), entries |-> <<Plain(p, "deleted", c)>>]])
        /\ UNCHANGED result
  /\ UNCHANGED <<scene, children, log, last, lost, counters>>

(* The action: confirmed, its handler runs over the keys, whatever tenant  *)
(* or relations they have, and every key is logged as changed.             *)
ActionPost(c, pks, known, confirmed) ==
  /\ Posting(c, "action")
  /\ IF Forbidden(c, "change") \/ ~known \/ ~confirmed \/ pks = <<>>
       THEN Answer(c, "action", IF Forbidden(c, "change") THEN 403 ELSE IF ~known THEN 400
                                ELSE IF ~confirmed THEN "confirm" ELSE "redirect")
       ELSE Start(c, "act", [call |-> "action", pks |-> pks, entries |->
              [i \in DOMAIN pks |-> Plain(pks[i], "changed", c)]])
            /\ UNCHANGED result
  /\ NoWrite /\ UNCHANGED <<scene, children, log, history, faults>>

(* delete_selected ignores the errors of its deletes.                      *)
Act(c) ==
  LET p == Head(work[c].pks)
      rest == [work[c] EXCEPT !.pks = Tail(@)] IN
  /\ pc[c] = "act"
  /\ IF p \in DOMAIN rows /\ ~\E k \in DOMAIN children : children[k] = p
       THEN Write(Restrict(rows, DOMAIN rows \ {p}), {p})
       ELSE NoWrite
  /\ pc' = [pc EXCEPT ![c] = IF rest.pks = <<>> THEN "log" ELSE "act"]
  /\ work' = Overtake(c, {p}, [work EXCEPT ![c] = rest])
  /\ UNCHANGED <<scene, children, log, result, history, counters>>

(* A statement of a request fails: 500, and what was written stays.        *)
Fault(c) ==
  /\ pc[c] \notin {"idle", "act"} /\ faults < scene.bounds[3]
  /\ faults' = faults + 1
  /\ lost' = lost + (IF pc[c] = "log" THEN Len(work[c].entries) ELSE 0)
  /\ Answer(c, work[c].call, 500)
  /\ NoWrite /\ UNCHANGED <<scene, children, log, last, deleted, requests>>

-----------------------------------------------------------------------------
(* The list: a COUNT, then the rows of the page, then the links.  History: *)
(* at is the number of writes the COUNT followed.                          *)

FilterFails(v) == scene.postgres /\ Mistyped(v)

Browse(c, v) ==
  /\ Idle(c, "browse")
  /\ IF Forbidden(c, "view") \/ BadView(v) \/ FilterFails(v)
       THEN Answer(c, "browse", IF Forbidden(c, "view") THEN 403 ELSE IF BadView(v) THEN 400 ELSE 500)
       ELSE /\ Start(c, "fetch", [call |-> "browse", pks |-> <<>>, view |-> v,
                                  total |-> Cardinality({p \in Listed(v, rows) : Visible(c, p)}),
                                  at |-> writes])
            /\ UNCHANGED result
  /\ NoWrite /\ UNCHANGED <<scene, children, log, history, counters>>

FetchPage(c) ==
  LET v == work[c].view
      found == {p \in Listed(v, rows) : Visible(c, p)} IN
  /\ pc[c] = "fetch"
  /\ Start(c, "idle", NoWork)
  /\ \E listed \in PagesOf(v, found, rows) :
       result' = [call |-> "browse", status |-> 200, view |-> v, user |-> c, listed |-> listed,
                  next |-> HasNext(v, work[c].total), at |-> work[c].at]
  /\ NoWrite /\ UNCHANGED <<scene, children, log, history, counters>>

(* A link of the page that was shown.                                      *)
Links(v) ==
  (IF result.next THEN {NextPage(v)} ELSE {}) \cup {HeaderLink(v)}
    \cup DateLinks(v, rows) \cup Breadcrumbs(v)
    \cup {FilterLink(v, f, choice) : f \in ListFilter, choice \in {"all", "yes", "no"}}

Follow(c) ==
  /\ "view" \in DOMAIN result
  /\ \E v \in Links(result.view) : v.page <= scene.pages /\ Browse(c, v)

SearchBox(c) ==
  /\ "view" \in DOMAIN result
  /\ \E term \in scene.terms : Browse(c, SearchFor(result.view, term))

(* The CSV export of the list that was shown: the same rows, of all pages. *)
Export(c) ==
  LET v == FirstPage(result.view) IN
  /\ "view" \in DOMAIN result /\ pc[c] = "idle"
  /\ result' = IF Forbidden(c, "view") THEN [call |-> "export", status |-> 403]
               ELSE [call |-> "export", status |-> 200,
                     listed |-> {p \in Listed(v, rows) : Visible(c, p)}]
  /\ UNCHANGED <<scene, rows, children, log, pc, work, form, history, writes, counters>>

(* The index: is the model shown, and the user's last ten actions.         *)
Index(c) ==
  LET mine == SelectSeq(log, LAMBDA e : e.user = c) IN
  /\ Idle(c, "add")
  /\ result' = IF ~Access[c].staff THEN [call |-> "index", status |-> 403]
               ELSE [call |-> "index", status |-> 200,
                     model |-> \E a \in {"view", "change", "add"} :
                                 Access[c].superuser \/ a \in Access[c].perms,
                     recent |-> SubSeq(mine, IF Len(mine) > 10 THEN Len(mine) - 9 ELSE 1, Len(mine))]
  /\ UNCHANGED <<scene, rows, children, log, pc, work, form, history, writes, counters>>

(* The audit page of a row, for those who may see the row.                 *)
History(c, p) ==
  /\ Idle(c, "delete")
  /\ result' = IF Forbidden(c, "view") THEN [call |-> "history", status |-> 403]
               ELSE IF Tenant(c) # NoTenant /\ ~Visible(c, p)
                 THEN [call |-> "history", status |-> 404]
                 ELSE [call |-> "history", status |-> 200,
                       entries |-> SelectSeq(log, LAMBDA e : e.pk = p)]
  /\ UNCHANGED <<scene, rows, children, log, pc, work, form, history, writes, counters>>

-----------------------------------------------------------------------------
(* The program: it changes the count of a row, removes it, refers to it.   *)

Bump(p) ==
  /\ "bump" \in scene.program /\ p \in DOMAIN rows
  /\ Write([rows EXCEPT ![p].count = @ + 1], {p})
  /\ work' = Overtake(Null, {p}, work)
  /\ UNCHANGED <<scene, children, log, pc, result, history, counters>>

Drop(p) ==
  /\ "drop" \in scene.program /\ p \in DOMAIN rows
  /\ ~\E k \in DOMAIN children : children[k] = p
  /\ Write(Restrict(rows, DOMAIN rows \ {p}), {p})
  /\ work' = Overtake(Null, {p}, work)
  /\ UNCHANGED <<scene, children, log, pc, result, history, counters>>

AddChild(p) ==
  /\ "refer" \in scene.program /\ p \in DOMAIN rows /\ children = <<>>
  /\ children' = [k \in {1} |-> p]
  /\ UNCHANGED <<scene, rows, log, pc, work, form, result, history, writes, counters>>

Next ==
  \/ \E c \in Staff, p \in Pks : ChangeGet(c, p) \/ DeletePost(c, p) \/ History(c, p)
  \/ \E c \in Staff :
       \/ \E edits \in scene.edits : ChangePost(c, edits)
       \/ \E edits \in scene.edits : AddPost(c, edits)
       \/ \E pks \in scene.selections, edits \in scene.edits : SavePost(c, pks, edits)
       \/ \E pks \in scene.selections, confirmed \in BOOLEAN : BulkDeletePost(c, pks, confirmed)
       \/ \E pks \in scene.selections, known, confirmed \in BOOLEAN :
            ActionPost(c, pks, known, confirmed)
       \/ \E v \in scene.views : Browse(c, v)
       \/ ReadOld(c) \/ UpdateFromForm(c) \/ UpdateFields(c) \/ Log(c)
       \/ CheckRelated(c) \/ CheckScope(c) \/ Erase(c) \/ Act(c) \/ Fault(c)
       \/ Export(c) \/ Index(c) \/ Follow(c) \/ SearchBox(c) \/ FetchPage(c)
  \/ \E p \in Pks : Bump(p) \/ Drop(p) \/ AddChild(p)

Spec == Init /\ [][Next]_vars

-----------------------------------------------------------------------------
(* A change form writes every column of the row.  A column its user did    *)
(* not touch gets the value the row had when the form was opened, which    *)
(* undoes what others wrote since, except that a read-only column is not   *)
(* submitted, a text that is NULL (shown as "-") or empty (NULL is saved)  *)
(* and a nullable boolean that is false (NULL is saved) change, and an     *)
(* instant loses the fraction of its second.  If nobody wrote the row      *)
(* since, that value is the one it replaces.  Editing in the list touches  *)
(* the submitted columns alone; and either way the row that was written    *)
(* was one of the user's tenant.                                           *)
FormsKeepTheRest ==
  last # NoUpdate =>
    /\ \A f \in Fields \ last.edited :
         \/ last.after[f] = last.opened[f]
         \/ /\ last.call = "change"
            /\ \/ f \in ReadOnly
               \/ Kind[f] = "text" /\ last.opened[f] \in {Null, Empty}
               \/ Kind[f] = "bool" /\ f \in Nullable /\ last.opened[f] = FALSE
               \/ Kind[f] = "datetime" /\ last.after[f] = WholeSeconds(last.opened[f])
    /\ ~last.stale => last.opened = last.before
    /\ \A f \in last.edited \cap DOMAIN last.body : last.after[f] = Parsed(f, last.body[f])
    /\ Tenant(last.user) # NoTenant => last.before.team = Tenant(last.user)

LoggedDeletions(p) == {i \in DOMAIN log : log[i].pk = p /\ log[i].flag = "deleted"}
PendingDeletions(p) ==
  {c \in Staff : /\ pc[c] = "log"
                 /\ Head(work[c].entries).pk = p
                 /\ Head(work[c].entries).flag = "deleted"}

(* "Audit log entry model recording staff admin actions": a deletion has   *)
(* one entry, of the user who did it, if the request got that far; a diff  *)
(* tells what its form changed unless another write came in between.       *)
AuditTrail ==
  /\ \A p \in Pks :
       LET logged == Cardinality(LoggedDeletions(p))
           pending == Cardinality(PendingDeletions(p)) IN
       /\ logged + pending <= deleted[p]
       /\ scene.logged => deleted[p] <= logged + pending + lost
  /\ \A i \in DOMAIN log : log[i].exact => log[i].diff = log[i].changed

(* The rows that sort before p, and an order that no two rows share.       *)
Ahead(v, S, p) == {q \in S : SortsBefore(v, rows[q], rows[p])}
Sorted(v, S) ==
  \A p, q \in S : p # q => SortsBefore(v, rows[p], rows[q]) \/ SortsBefore(v, rows[q], rows[p])

(* Every link of the list leads where it says: the date links of a page    *)
(* split its dated rows, the two links of a boolean filter the rows of     *)
(* "all" that have a value (those of a filter on choices do not), and a    *)
(* breadcrumb contains the page's rows.  Unless rows were written since    *)
(* they were counted, there is a next page exactly when rows are left; but *)
(* which rows a page has is certain only if no two of them sort alike.     *)
LinksKeepTheList ==
  "view" \in DOMAIN result =>
    LET v == result.view
        found == Listed(v, rows)
        mine == {p \in found : Visible(result.user, p)}
        earlier == PerPage * (v.page - 1)
        dates == DateLinks(v, rows)
        Split(S, whole) ==
          /\ \A l \in S : ~BadView(l)
          /\ UNION {Listed(l, rows) : l \in S} = whole
          /\ \A k, l \in S : k # l => Listed(k, rows) \cap Listed(l, rows) = {} IN
    /\ v.day = 0 => Split(dates, {p \in found : rows[p].due # NoDate})
    /\ \A b \in Breadcrumbs(v) : found \subseteq Listed(b, rows)
    /\ \A f \in ListFilter \ Choices :
         Split({FilterLink(v, f, "yes"), FilterLink(v, f, "no")},
               {p \in Listed(FilterLink(v, f, "all"), rows) : rows[p][f] # Null})
    /\ result.at = writes =>
         /\ result.next =
              (result.listed # {} /\ earlier + Cardinality(result.listed) < Cardinality(mine))
         /\ Sorted(v, mine) =>
              result.listed = {p \in mine : Cardinality(Ahead(v, mine, p)) \in
                                               earlier..(earlier + PerPage - 1)}

=============================================================================
