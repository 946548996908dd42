----------------------------- MODULE AdminProofs -----------------------------
(***************************************************************************)
(* Type correctness, what a change form keeps, what the log tells and what *)
(* the list links to, for every registered model, staff and program.  The  *)
(* inductive invariant adds what a request has read (ChangeOK), what an    *)
(* open form shows (FormOK) and which entries are still to be written      *)
(* (EntriesOK); ListInv adds what a list has counted.                      *)
(***************************************************************************)
EXTENDS Admin, FiniteSetTheorems, TLAPS

-----------------------------------------------------------------------------
(* Forms.                                                                  *)

(* What a control holds, and what is submitted from it, for a column that  *)
(* the user did not touch.                                                 *)
Keeps(f, raw, value) ==
  \/ f \in ReadOnly
  \/ Kind[f] = "bool" /\ ((raw = TRUE) <=> (value = TRUE))
  \/ Kind[f] # "bool" /\ raw = Display(f, value)
  \/ Kind[f] \in {"int", "relation"} /\ value = Null /\ raw = Empty

IsBody(body) == DOMAIN body \subseteq Fields /\ \A f \in DOMAIN body : Enterable(f, body[f])

(* A checkbox is not submitted unless it is checked.                       *)
ChecksOnly(body) == \A f \in DOMAIN body : Kind[f] = "bool" => body[f] = TRUE

LEMMA Texts ==
  /\ Null \notin Int /\ Dash \notin Int /\ Empty \notin Int /\ Bad \notin Int
  /\ Null \notin BOOLEAN /\ Dash \notin BOOLEAN /\ Empty \notin BOOLEAN /\ Bad \notin BOOLEAN
  /\ Null # Dash /\ Null # Empty /\ Null # Bad
  /\ Dash # Empty /\ Dash # Bad /\ Empty # Bad
  /\ ~IsDay(Null) /\ ~IsDay(Dash) /\ ~IsDay(Empty) /\ ~IsDay(Bad)
BY TextAssumption

LEMMA Kinds ==
  ASSUME NEW f \in Fields
  PROVE  \/ Kind[f] = "text"
         \/ Kind[f] = "int"
         \/ Kind[f] = "bool"
         \/ Kind[f] = "datetime"
         \/ Kind[f] = "relation"
BY RegisteredAssumption DEF Registered

LEMMA DisplayEnterable ==
  ASSUME NEW f \in Fields, NEW value, Fits(f, value)
  PROVE  Enterable(f, Display(f, value)) /\ Keeps(f, Display(f, value), value)
<1>1. CASE Kind[f] = "datetime" /\ value # Null
  <2>1. IsDay(value)
    BY <1>1 DEF Fits
  <2>2. IsDay(WholeSeconds(value)) /\ WholeSeconds(value)[4] = 0 /\ WholeSeconds(value) # Null
    BY <2>1, Texts DEF IsDay, WholeSeconds
  <2> QED
    BY <1>1, <2>2 DEF Enterable, Display, Keeps
<1>2. CASE ~(Kind[f] = "datetime" /\ value # Null)
  BY <1>2, Texts, Kinds DEF Fits, Enterable, Display, Keeps
<1> QED
  BY <1>1, <1>2

LEMMA RawEnterable ==
  ASSUME NEW body, IsBody(body), NEW f
  PROVE  Enterable(f, Raw(body, f))
BY Texts DEF IsBody, Enterable, Raw

LEMMA SubmittedIsBody ==
  ASSUME NEW shown, \A f \in Fields : Enterable(f, shown[f]),
         NEW edits, \A f \in DOMAIN edits : f \in Fields /\ Enterable(f, edits[f])
  PROVE  IsBody(Submitted(shown, edits)) /\ ChecksOnly(Submitted(shown, edits))
<1> DEFINE entered(f) == IF f \in DOMAIN edits THEN edits[f] ELSE shown[f]
           absent(f) == f \in ReadOnly \/ (Kind[f] = "bool" /\ entered(f) # TRUE)
           sent(f) == IF Kind[f] \in {"int", "relation"} /\ entered(f) = Dash
                        THEN Empty ELSE entered(f)
           body == Submitted(shown, edits)
<1>1. \A f \in Fields : Enterable(f, entered(f))
  OBVIOUS
<1>2. \A f \in Fields : Enterable(f, sent(f))
  BY <1>1, Texts DEF Enterable
<1>3. body = [f \in {g \in Fields : ~absent(g)} |-> sent(f)]
  BY DEF Submitted
<1>4. DOMAIN body \subseteq Fields /\ \A f \in DOMAIN body : ~absent(f) /\ body[f] = sent(f)
  BY <1>3
<1>5. IsBody(body)
  BY <1>2, <1>4 DEF IsBody
<1>6. ChecksOnly(body)
  BY <1>4 DEF ChecksOnly
<1> QED
  BY <1>5, <1>6

LEMMA SubmittedKeeps ==
  ASSUME NEW shown, NEW edits, NEW f \in Fields \ DOMAIN edits,
         NEW value, Fits(f, value), Keeps(f, shown[f], value)
  PROVE  Keeps(f, Raw(Submitted(shown, edits), f), value)
<1>1. CASE Kind[f] = "datetime"
  BY <1>1, Texts DEF Submitted, Raw, Keeps
<1>2. CASE Kind[f] # "datetime"
  BY <1>2, Texts, Kinds DEF Submitted, Raw, Keeps, Fits, Display
<1> QED
  BY <1>1, <1>2

(* What is parsed from it.                                                 *)
LEMMA ParsedKeeps ==
  ASSUME NEW f \in Fields, NEW value, Fits(f, value), NEW raw, Keeps(f, raw, value),
         ~Rejected(f, raw), Kind[f] = "bool" => raw \in {TRUE, Empty}
  PROVE  \/ Parsed(f, raw) = value
         \/ f \in ReadOnly
         \/ Kind[f] = "text" /\ value \in {Null, Empty}
         \/ Kind[f] = "bool" /\ f \in Nullable /\ value = FALSE
         \/ Kind[f] = "datetime" /\ Parsed(f, raw) = WholeSeconds(value)
<1>1. CASE Kind[f] = "datetime"
  <2>1. f \in ReadOnly \/ raw = Display(f, value)
    BY <1>1 DEF Keeps
  <2>2. CASE raw = Display(f, value) /\ value = Null
    BY <1>1, <2>2 DEF Rejected, Display
  <2>3. CASE raw = Display(f, value) /\ value # Null
    <3>1. raw = WholeSeconds(value) /\ IsDay(value)
      BY <1>1, <2>3 DEF Display, Fits
    <3>2. raw # Empty
      BY <3>1, Texts DEF IsDay, WholeSeconds
    <3> QED
      BY <1>1, <3>1, <3>2 DEF Parsed
  <2> QED
    BY <2>1, <2>2, <2>3
<1>2. CASE Kind[f] # "datetime"
  BY <1>2, Texts, Kinds DEF Fits, Keeps, Rejected, Parsed, Display
<1> QED
  BY <1>1, <1>2

LEMMA ParsedFits ==
  ASSUME NEW f \in Fields, NEW raw, Enterable(f, raw), ~Rejected(f, raw),
         Parsed(f, raw) # Null \/ f \in Nullable
  PROVE  Fits(f, Parsed(f, raw))
BY Texts, Kinds DEF Fits, Enterable, Rejected, Parsed

LEMMA RowOfIsRow ==
  ASSUME NEW body, IsBody(body), Errors(body) = {}, ~NotNullFails(RowOf(body))
  PROVE  IsRow(RowOf(body))
<1>1. DOMAIN RowOf(body) = Fields /\ \A f \in Fields : RowOf(body)[f] = Parsed(f, Raw(body, f))
  BY DEF RowOf
<1>2. \A f \in Fields : Fits(f, RowOf(body)[f])
  BY <1>1, RawEnterable, ParsedFits DEF Errors, NotNullFails
<1> QED
  BY <1>1, <1>2 DEF IsRow

-----------------------------------------------------------------------------
(* The inductive invariant.                                                *)

(* An open change form shows the row as it was when the form was opened,   *)
(* but for what its user has changed; unless somebody has written the row  *)
(* since, that is the row.                                                 *)
FormOK(c) ==
  \/ form[c] = NoForm
  \/ LET w == form[c] IN
     /\ DOMAIN w = {"pk", "edited", "stale", "opened", "shown"}
     /\ w.pk \in Pks /\ w.stale \in BOOLEAN /\ IsRow(w.opened)
     /\ \A f \in Fields : Enterable(f, w.shown[f])
     /\ \A f \in Fields \ w.edited : Keeps(f, w.shown[f], w.opened[f])
     /\ w.stale = FALSE => w.pk \in DOMAIN rows /\ rows[w.pk] = w.opened

(* The form that was posted says no more than the one that is open, and    *)
(* the row read for the log is the row unless it was overtaken.            *)
ChangeOK(c) ==
  LET w == work[c] IN
  /\ {"call", "pks", "overtaken", "body", "edited"} \subseteq DOMAIN w
  /\ w.overtaken \in BOOLEAN
  /\ form[c] # NoForm /\ w.pks = <<form[c].pk>>
  /\ IsBody(w.body) /\ ChecksOnly(w.body)
  /\ \A f \in Fields \ w.edited : Keeps(f, Raw(w.body, f), form[c].opened[f])
  /\ pc[c] = "update" =>
       /\ "old" \in DOMAIN w /\ (w.old = <<>> \/ DOMAIN w.old = Fields)
       /\ w.overtaken = FALSE =>
            w.old = IF Visible(c, form[c].pk) THEN rows[form[c].pk] ELSE <<>>

SaveOK(w) ==
  /\ {"call", "pks", "entries", "body"} \subseteq DOMAIN w
  /\ IsBody(w.body) /\ DOMAIN w.body \subseteq Editable

(* Entries still to be written: a deletion's is alone.                     *)
EntriesOK(w) ==
  /\ w.entries \in Seq(Entry) \ {<<>>}
  /\ \A i \in DOMAIN w.entries :
       /\ w.entries[i].exact = TRUE => w.entries[i].diff = w.entries[i].changed
       /\ w.entries[i].flag = "deleted" => Len(w.entries) = 1

PksOK(w) == w.pks \in Seq(Pks) \ {<<>>}

RequestOK(c) ==
  LET w == work[c] IN
  \/ pc[c] = "idle" /\ w = NoWork
  \/ pc[c] \in {"old", "update"} /\ w.call = "change" /\ PksOK(w) /\ ChangeOK(c)
  \/ pc[c] = "update" /\ w.call = "save" /\ PksOK(w) /\ SaveOK(w)
  \/ /\ pc[c] \in {"check", "scope", "erase"} /\ w.call \in {"delete", "bulk"} /\ PksOK(w)
     /\ {"call", "pks", "entries"} \subseteq DOMAIN w
  \/ /\ pc[c] = "act" /\ w.call = "action" /\ PksOK(w) /\ EntriesOK(w)
     /\ {"call", "pks", "entries"} \subseteq DOMAIN w
     /\ \A i \in DOMAIN w.entries : w.entries[i].flag = "changed"
  \/ pc[c] = "fetch" /\ w.call = "browse" /\ {"call", "pks"} \subseteq DOMAIN w
  \/ /\ pc[c] = "log" /\ EntriesOK(w) /\ w.pks \in Seq(Pks)
     /\ {"call", "pks", "entries"} \subseteq DOMAIN w
     /\ \/ w.call \in {"change", "add", "action"} /\ w.pks = <<>>
        \/ w.call \in {"delete", "bulk"}
        \/ w.call = "save" /\ SaveOK(w)

Requests ==
  /\ pc \in [Staff -> Steps] /\ DOMAIN work = Staff /\ DOMAIN form = Staff
  /\ \A c \in Staff : FormOK(c)
  /\ \A c \in Staff : RequestOK(c)

IInv ==
  /\ TypeOK
  /\ Requests
  /\ FormsKeepTheRest
  /\ AuditTrail

-----------------------------------------------------------------------------
(* What a step does to the requests and forms it is not about.  S are the  *)
(* rows it writes.                                                         *)

RowsOutside(S) ==
  \A q \in Pks : q \notin S =>
    /\ q \in DOMAIN rows' <=> q \in DOMAIN rows
    /\ q \in DOMAIN rows => rows'[q] = rows[q]

FormStep(d, S) ==
  \/ form'[d] = form[d] /\ (form[d] = NoForm \/ form[d].stale = TRUE \/ form[d].pk \notin S)
  \/ form'[d] = [form[d] EXCEPT !.stale = TRUE] /\ form[d] # NoForm

RequestStep(d, S) ==
  /\ pc'[d] = pc[d]
  /\ \/ /\ work'[d] = work[d]
        /\ pc[d] = "update" /\ work[d].call = "change" =>
             work[d].overtaken = TRUE \/ Head(work[d].pks) \notin S
     \/ /\ pc[d] \in {"old", "update"} /\ work[d].call # "save"
        /\ work'[d] = [work[d] EXCEPT !.overtaken = TRUE]

LEMMA FormStays ==
  ASSUME NEW d \in Staff, FormOK(d), NEW S, RowsOutside(S), FormStep(d, S)
  PROVE  FormOK(d)'
<1>1. CASE form[d] = NoForm
  BY <1>1 DEF FormOK, FormStep
<1>2. CASE form[d] # NoForm /\ form'[d] = form[d]
  <2>1. form[d].stale = FALSE => form[d].pk \in DOMAIN rows' /\ rows'[form[d].pk] = rows[form[d].pk]
    BY <1>2 DEF FormOK, FormStep, RowsOutside
  <2> QED
    BY <1>2, <2>1 DEF FormOK
<1>3. CASE form[d] # NoForm /\ form'[d] = [form[d] EXCEPT !.stale = TRUE]
  <2>1. /\ DOMAIN form'[d] = DOMAIN form[d] /\ form'[d].stale = TRUE
        /\ form'[d].pk = form[d].pk /\ form'[d].shown = form[d].shown
        /\ form'[d].opened = form[d].opened /\ form'[d].edited = form[d].edited
    BY <1>3 DEF FormOK
  <2> QED
    BY <1>3, <2>1 DEF FormOK
<1> QED
  BY <1>1, <1>2, <1>3 DEF FormStep

LEMMA ChangeStays ==
  ASSUME NEW d \in Staff, FormOK(d), PksOK(work[d]), ChangeOK(d), NEW S,
         RowsOutside(S), FormStep(d, S), RequestStep(d, S), work[d].call = "change",
         pc[d] \in {"old", "update"}, UNCHANGED scene
  PROVE  ChangeOK(d)' /\ PksOK(work'[d]) /\ work'[d].call = "change"
<1> DEFINE w == work[d]
           v == work'[d]
           p == form[d].pk
<1>1. /\ DOMAIN v = DOMAIN w /\ v.call = w.call /\ v.pks = w.pks /\ v.body = w.body
      /\ v.edited = w.edited /\ v.overtaken \in BOOLEAN
      /\ ("old" \in DOMAIN w => v.old = w.old)
      /\ v.overtaken = FALSE => w.overtaken = FALSE /\ v = w
  BY DEF ChangeOK, RequestStep
<1>2. p \in Pks /\ form'[d] # NoForm /\ form'[d].pk = p /\ form'[d].opened = form[d].opened
  <2>1. CASE form'[d] = form[d]
    BY <2>1 DEF ChangeOK, FormOK, FormStep
  <2>2. CASE form'[d] # form[d]
    <3>1. form'[d] = [form[d] EXCEPT !.stale = TRUE]
      BY <2>2 DEF FormStep
    <3>2. DOMAIN form'[d] = {"pk", "edited", "stale", "opened", "shown"}
          /\ form'[d].pk = p /\ form'[d].opened = form[d].opened
      BY <3>1 DEF ChangeOK, FormOK
    <3> QED
      BY <3>2 DEF ChangeOK, FormOK, NoForm
  <2> QED
    BY <2>1, <2>2
<1>3. \A f \in Fields \ v.edited : Keeps(f, Raw(v.body, f), form'[d].opened[f])
  BY <1>1, <1>2 DEF ChangeOK
<1>4. pc[d] = "update" /\ v.overtaken = FALSE =>
        v.old = IF Visible(d, p)' THEN rows'[p] ELSE <<>>
  <2> SUFFICES ASSUME pc[d] = "update", v.overtaken = FALSE
               PROVE  v.old = IF Visible(d, p)' THEN rows'[p] ELSE <<>>
    OBVIOUS
  <2>1. Head(w.pks) = p /\ p \notin S /\ w.overtaken = FALSE
    BY <1>1 DEF ChangeOK, RequestStep
  <2>2. Visible(d, p)' <=> Visible(d, p)
    BY <2>1, <1>2 DEF Visible, Tenant, RowsOutside
  <2>3. Visible(d, p) => rows'[p] = rows[p]
    BY <2>1, <1>2 DEF Visible, RowsOutside
  <2> QED
    BY <2>1, <2>2, <2>3, <1>1 DEF ChangeOK
<1>5. pc[d] = "update" => "old" \in DOMAIN v /\ (v.old = <<>> \/ DOMAIN v.old = Fields)
  BY <1>1 DEF ChangeOK
<1>6. v.pks = <<form'[d].pk>>
  BY <1>1, <1>2 DEF ChangeOK
<1> QED
  BY <1>1, <1>2, <1>3, <1>4, <1>5, <1>6 DEF ChangeOK, PksOK, RequestStep, Visible, Tenant

LEMMA RequestStays ==
  ASSUME NEW d \in Staff, FormOK(d), RequestOK(d), NEW S, RowsOutside(S),
         FormStep(d, S), RequestStep(d, S), UNCHANGED scene
  PROVE  RequestOK(d)'
<1>1. CASE pc[d] \in {"old", "update"} /\ work[d].call = "change"
  <2>1. PksOK(work[d]) /\ ChangeOK(d)
    BY <1>1 DEF RequestOK, NoWork
  <2> QED
    BY <1>1, <2>1, ChangeStays DEF RequestOK, RequestStep
<1>2. CASE ~(pc[d] \in {"old", "update"} /\ work[d].call = "change")
  <2>1. work'[d] = work[d] /\ pc'[d] = pc[d]
    BY <1>2 DEF RequestOK, RequestStep, NoWork
  <2> QED
    BY ZenonT(60), <1>2, <2>1 DEF RequestOK, EntriesOK, SaveOK, PksOK, IsBody
<1> QED
  BY <1>1, <1>2

LEMMA Bounds ==
  /\ \A s \in Scenes : s.bounds[1] \in Nat /\ s.bounds[2] \in Nat /\ s.bounds[3] \in Nat
  /\ Pks \subseteq Nat \ {0} /\ Null \notin Staff /\ IsFiniteSet(Staff)
BY AdminBounds

LEMMA NoRows ==
  ASSUME UNCHANGED rows
  PROVE  RowsOutside({})
BY DEF RowsOutside

LEMMA FormsOnWrite ==
  ASSUME Requests, NEW p \in Pks, NEW new, Write(new, {p})
  PROVE  DOMAIN form' = Staff /\ \A d \in Staff : FormStep(d, {p})
<1>1. DOMAIN form' = Staff
      /\ \A d \in Staff : form'[d] = IF form[d].pk = p THEN [form[d] EXCEPT !.stale = TRUE]
                                                       ELSE form[d]
  BY DEF Write
<1>2. \A d \in Staff : form[d] = NoForm => form[d].pk # p
  BY Bounds DEF NoForm
<1> QED
  BY <1>1, <1>2 DEF FormStep

LEMMA OthersOvertaken ==
  ASSUME NEW c, NEW d \in Staff \ {c}, NEW S, NEW w, w[d] = work[d],
         work' = Overtake(c, S, w), pc'[d] = pc[d], RequestOK(d)
  PROVE  RequestStep(d, S)
<1>1. work'[d] = IF pc[d] \in {"old", "update"} /\ work[d].call # "save"
                    /\ Head(work[d].pks) \in S
                 THEN [work[d] EXCEPT !.overtaken = TRUE] ELSE work[d]
  BY DEF Overtake
<1> QED
  BY <1>1 DEF RequestStep

LEMMA Started ==
  ASSUME Requests, NEW c \in Staff, NEW step, NEW w, Start(c, step, w)
  PROVE  /\ pc'[c] = step /\ work'[c] = w /\ DOMAIN pc' = Staff /\ DOMAIN work' = Staff
         /\ \A d \in Staff \ {c} : pc'[d] = pc[d] /\ work'[d] = work[d]
         /\ step \in Steps => pc' \in [Staff -> Steps]
BY DEF Requests, Start

(* A request goes on; its form is its own to change.                       *)
LEMMA Quiet ==
  ASSUME Requests, NEW c \in Staff, NEW step \in Steps, NEW w, Start(c, step, w),
         UNCHANGED <<scene, rows>>, DOMAIN form' = Staff,
         \A d \in Staff \ {c} : form'[d] = form[d],
         FormOK(c)', RequestOK(c)'
  PROVE  Requests'
<1>1. /\ pc' \in [Staff -> Steps] /\ DOMAIN work' = Staff
      /\ \A d \in Staff \ {c} : pc'[d] = pc[d] /\ work'[d] = work[d]
  BY Started
<1>2. ASSUME NEW d \in Staff \ {c} PROVE FormOK(d)' /\ RequestOK(d)'
  <2>1. FormStep(d, {}) /\ RequestStep(d, {})
    BY <1>1 DEF FormStep, RequestStep
  <2>2. FormOK(d) /\ RequestOK(d)
    BY DEF Requests
  <2> QED
    BY <2>1, <2>2, NoRows, FormStays, RequestStays
<1> QED
  BY <1>1, <1>2 DEF Requests

LEMMA QuietForm ==
  ASSUME Requests, NEW c \in Staff, UNCHANGED rows, form'[c] = form[c]
  PROVE  FormOK(c)'
<1>1. FormStep(c, {}) /\ FormOK(c)
  BY DEF FormStep, Requests
<1> QED
  BY <1>1, NoRows, FormStays

(* The same for a request that wrote the row p.                            *)
LEMMA Written ==
  ASSUME Requests, NEW c, NEW p \in Pks, RowsOutside({p}), UNCHANGED scene,
         DOMAIN form' = Staff, \A d \in Staff : FormStep(d, {p}),
         NEW w, DOMAIN w = Staff, \A d \in Staff \ {c} : w[d] = work[d] /\ pc'[d] = pc[d],
         pc' \in [Staff -> Steps], work' = Overtake(c, {p}, w),
         c \in Staff => RequestOK(c)'
  PROVE  Requests'
<1>2. ASSUME NEW d \in Staff PROVE FormOK(d)'
  BY FormStays DEF Requests
<1>3. ASSUME NEW d \in Staff \ {c} PROVE RequestOK(d)'
  <2>1. RequestOK(d) /\ FormOK(d)
    BY DEF Requests
  <2>2. RequestStep(d, {p})
    BY <2>1, OthersOvertaken
  <2> QED
    BY <2>1, <2>2, RequestStays
<1>4. DOMAIN work' = Staff
  BY DEF Overtake
<1> QED
  BY <1>2, <1>3, <1>4 DEF Requests

LEMMA TypeLater ==
  ASSUME TypeOK, Requests', UNCHANGED scene,
         DOMAIN rows' \subseteq Pks, \A p \in DOMAIN rows' : IsRow(rows'[p]),
         \A k \in DOMAIN children' : children'[k] \in DOMAIN rows',
         log' \in Seq(Entry), deleted' \in [Pks -> Nat], lost' \in Nat,
         writes' \in 0..scene.bounds[1],
         requests' \in 0..scene.bounds[2], faults' \in 0..scene.bounds[3]
  PROVE  TypeOK'
<1>1. \A c \in Staff : (pc'[c] = "idle") = (work'[c] = NoWork)
  BY SMTT(30) DEF Requests, RequestOK, NoWork
<1>2. \A c \in Staff : pc'[c] \in {"check", "scope", "erase", "act", "old", "update"} =>
                         work'[c].pks \in Seq(Pks) \ {<<>>}
  BY DEF Requests, RequestOK, PksOK
<1>3. NoWork' = NoWork /\ Steps' = Steps /\ Entry' = Entry /\ \A r : IsRow(r)' <=> IsRow(r)
  BY DEF NoWork, Steps, Entry, Flags, IsRow, Fits
<1> QED
  BY <1>1, <1>2 DEF TypeOK, Requests, IsRow, Fits, NoWork, Steps, Entry, Flags

-----------------------------------------------------------------------------
(* The log.                                                                *)

Deletes(c) == pc[c] = "log" /\ Head(work[c].entries).flag = "deleted"

LEMMA Counted ==
  ASSUME TypeOK, NEW p \in Pks
  PROVE  /\ IsFiniteSet(LoggedDeletions(p)) /\ Cardinality(LoggedDeletions(p)) \in Nat
         /\ IsFiniteSet(PendingDeletions(p)) /\ Cardinality(PendingDeletions(p)) \in Nat
<1>1. LoggedDeletions(p) \subseteq 1..Len(log) /\ Len(log) \in Nat
  BY DEF TypeOK, LoggedDeletions
<1>2. IsFiniteSet(LoggedDeletions(p))
  <2>1. IsFiniteSet(1..Len(log))
    BY <1>1, FS_Interval
  <2> QED
    BY <1>1, <2>1, FS_Subset
<1>3. PendingDeletions(p) \subseteq Staff
  BY DEF PendingDeletions
<1>4. IsFiniteSet(PendingDeletions(p))
  BY <1>3, Bounds, FS_Subset
<1> QED
  BY <1>2, <1>4, FS_CardinalityType

(* A step of c leaves the entries of the others pending.                   *)
OthersPend(c) ==
  \A d \in Staff \ {c} :
    /\ pc'[d] = "log" <=> pc[d] = "log"
    /\ pc[d] = "log" => work'[d] = work[d]

LEMMA SamePending ==
  ASSUME NEW c, OthersPend(c), ~Deletes(c), ~Deletes(c)', NEW p
  PROVE  PendingDeletions(p)' = PendingDeletions(p)
BY DEF OthersPend, Deletes, PendingDeletions

LEMMA SameTrail ==
  ASSUME AuditTrail, NEW c, OthersPend(c), ~Deletes(c), ~Deletes(c)',
         UNCHANGED <<scene, log, deleted, lost>>
  PROVE  AuditTrail'
<1>1. \A p : PendingDeletions(p)' = PendingDeletions(p)
  BY SamePending
<1>2. \A p : LoggedDeletions(p)' = LoggedDeletions(p)
  BY DEF LoggedDeletions
<1> QED
  BY <1>1, <1>2 DEF AuditTrail

LEMMA StartPends ==
  ASSUME Requests, NEW c \in Staff, NEW step, NEW w, Start(c, step, w)
  PROVE  OthersPend(c) /\ pc'[c] = step /\ work'[c] = w
BY Started DEF OthersPend

LEMMA OvertakePends ==
  ASSUME Requests, NEW c, NEW S, NEW w, \A d \in Staff \ {c} : w[d] = work[d] /\ pc'[d] = pc[d],
         work' = Overtake(c, S, w)
  PROVE  OthersPend(c) /\ (c \in Staff => work'[c] = w[c])
BY DEF OthersPend, Overtake

LEMMA SameForms ==
  ASSUME FormsKeepTheRest, UNCHANGED <<scene, last>>
  PROVE  FormsKeepTheRest'
BY DEF FormsKeepTheRest, NoUpdate, Tenant, Parsed, WholeSeconds

LEMMA SameTable ==
  ASSUME TypeOK, UNCHANGED <<scene, rows, children>>
  PROVE  /\ DOMAIN rows' \subseteq Pks /\ \A p \in DOMAIN rows' : IsRow(rows'[p])
         /\ \A k \in DOMAIN children' : children'[k] \in DOMAIN rows'
BY DEF TypeOK

(* Steps of a request between its statements.                              *)
LEMMA QuietInv ==
  ASSUME IInv, NEW c \in Staff, NEW step \in Steps, NEW w, Start(c, step, w),
         UNCHANGED <<scene, rows, children, log, last, deleted, lost, writes>>,
         requests' \in 0..scene.bounds[2], faults' \in 0..scene.bounds[3],
         DOMAIN form' = Staff, \A d \in Staff \ {c} : form'[d] = form[d],
         FormOK(c)', RequestOK(c)',
         pc[c] # "log", step = "log" => Head(w.entries).flag # "deleted"
  PROVE  IInv'
<1>1. Requests'
  BY Quiet DEF IInv
<1>2. TypeOK'
  BY <1>1, SameTable, TypeLater DEF IInv, TypeOK
<1>3. AuditTrail'
  <2>1. OthersPend(c) /\ pc'[c] = step /\ work'[c] = w
    BY StartPends DEF IInv
  <2>2. ~Deletes(c) /\ ~Deletes(c)'
    BY <2>1 DEF Deletes
  <2> QED
    BY <2>1, <2>2, SameTrail DEF IInv
<1>4. FormsKeepTheRest'
  BY SameForms DEF IInv
<1> QED
  BY <1>1, <1>2, <1>3, <1>4 DEF IInv

LEMMA AnswerOK ==
  ASSUME Requests, NEW c \in Staff, NEW call, NEW status, Answer(c, call, status)
  PROVE  Start(c, "idle", NoWork) /\ RequestOK(c)'
<1>1. Start(c, "idle", NoWork)
  BY DEF Answer
<1>2. pc'[c] = "idle" /\ work'[c] = NoWork
  BY <1>1, Started
<1> QED
  BY <1>1, <1>2 DEF RequestOK, NoWork

LEMMA AnswerInv ==
  ASSUME IInv, NEW c \in Staff, NEW call, NEW status, Answer(c, call, status),
         UNCHANGED <<scene, rows, children, log, last, deleted, lost, writes>>,
         requests' \in 0..scene.bounds[2], faults' \in 0..scene.bounds[3],
         DOMAIN form' = Staff, \A d \in Staff \ {c} : form'[d] = form[d], FormOK(c)',
         pc[c] # "log"
  PROVE  IInv'
<1>1. Start(c, "idle", NoWork) /\ RequestOK(c)'
  BY AnswerOK DEF IInv
<1>2. "idle" \in Steps
  BY DEF Steps
<1> QED
  BY <1>1, <1>2, QuietInv

LEMMA CountersKept ==
  ASSUME TypeOK, UNCHANGED <<scene, counters>>
  PROVE  requests' \in 0..scene.bounds[2] /\ faults' \in 0..scene.bounds[3]
BY DEF TypeOK, counters

LEMMA RequestCounted ==
  ASSUME TypeOK, NEW c, NEW call, Posting(c, call), UNCHANGED <<scene, faults>>
  PROVE  /\ requests' \in 0..scene.bounds[2] /\ faults' \in 0..scene.bounds[3]
         /\ pc[c] = "idle"
BY Bounds DEF TypeOK, Posting, Idle

-----------------------------------------------------------------------------
(* The change form.                                                        *)

LEMMA Edits ==
  ASSUME TypeOK, NEW edits \in scene.edits
  PROVE  \A f \in DOMAIN edits : f \in Fields /\ Enterable(f, edits[f])
BY SceneAssumption DEF TypeOK

LEMMA RowFits ==
  ASSUME TypeOK, NEW p \in DOMAIN rows, NEW f \in Fields
  PROVE  Fits(f, rows[p][f])
BY DEF TypeOK, IsRow

(* A step that changes no request and no row.                              *)
LEMMA IdleInv ==
  ASSUME IInv, UNCHANGED <<scene, rows, log, pc, work, last, deleted, lost, writes, counters>>,
         \A k \in DOMAIN children' : children'[k] \in DOMAIN rows,
         NEW c, DOMAIN form' = Staff, \A d \in Staff \ {c} : form'[d] = form[d],
         c \in Staff => FormOK(c)' /\ pc[c] = "idle"
  PROVE  IInv'
<1>1. ASSUME NEW d \in Staff \ {c} PROVE FormOK(d)' /\ RequestOK(d)'
  <2>1. FormStep(d, {}) /\ RequestStep(d, {}) /\ FormOK(d) /\ RequestOK(d)
    BY DEF FormStep, RequestStep, IInv, Requests
  <2> QED
    BY <2>1, NoRows, FormStays, RequestStays
<1>2. c \in Staff => RequestOK(c)'
  BY DEF IInv, Requests, RequestOK, NoWork
<1>3. Requests'
  BY <1>1, <1>2 DEF IInv, Requests
<1>4. requests' \in 0..scene.bounds[2] /\ faults' \in 0..scene.bounds[3]
  BY CountersKept DEF IInv
<1>5. TypeOK'
  BY <1>3, <1>4, TypeLater DEF IInv, TypeOK
<1>6. AuditTrail'
  <2>1. \A p : PendingDeletions(p)' = PendingDeletions(p) /\ LoggedDeletions(p)' = LoggedDeletions(p)
    BY DEF PendingDeletions, LoggedDeletions
  <2> QED
    BY <2>1 DEF IInv, AuditTrail
<1>7. FormsKeepTheRest'
  BY SameForms DEF IInv
<1> QED
  BY <1>3, <1>5, <1>6, <1>7 DEF IInv

LEMMA ChangeGetInv ==
  ASSUME IInv, NEW c \in Staff, NEW p \in Pks, ChangeGet(c, p)
  PROVE  IInv'
<1> DEFINE opened == [pk |-> p, edited |-> {}, stale |-> FALSE, opened |-> rows[p],
                      shown |-> [f \in Fields |-> Display(f, rows[p][f])]]
<1>1. CASE UNCHANGED form
  <2>1. FormOK(c)'
    BY <1>1, QuietForm DEF IInv, ChangeGet
  <2> QED
    BY <1>1, <2>1, IdleInv DEF IInv, Requests, TypeOK, ChangeGet, Idle, history
<1>2. CASE form' = [form EXCEPT ![c] = opened] /\ Visible(c, p)
  <2>1. DOMAIN form' = Staff /\ form'[c] = opened /\ \A d \in Staff \ {c} : form'[d] = form[d]
    BY <1>2 DEF IInv, Requests
  <2>2. p \in DOMAIN rows /\ IsRow(rows[p]) /\ UNCHANGED rows
    BY <1>2 DEF Visible, IInv, TypeOK, ChangeGet
  <2>3. \A f \in Fields : /\ Enterable(f, Display(f, rows[p][f]))
                          /\ Keeps(f, Display(f, rows[p][f]), rows[p][f])
    BY <2>2, DisplayEnterable DEF IsRow
  <2>4. FormOK(c)'
    BY <2>1, <2>2, <2>3 DEF FormOK, IsRow, Fits
  <2> QED
    BY <2>1, <2>4, IdleInv DEF IInv, TypeOK, ChangeGet, Idle, history
<1> QED
  BY <1>1, <1>2 DEF ChangeGet

LEMMA OpenForm ==
  ASSUME IInv, NEW c \in Staff, form[c] # NoForm
  PROVE  /\ form[c].pk \in Pks /\ form[c].stale \in BOOLEAN
         /\ \A f \in Fields : Enterable(f, form[c].shown[f])
         /\ IsRow(form[c].opened)
         /\ \A f \in Fields \ form[c].edited :
              /\ Keeps(f, form[c].shown[f], form[c].opened[f])
              /\ Fits(f, form[c].opened[f])
BY DEF IInv, Requests, FormOK, IsRow

LEMMA ChangePostInv ==
  ASSUME IInv, NEW c \in Staff, NEW edits \in scene.edits, ChangePost(c, edits)
  PROVE  IInv'
<1> DEFINE body == Submitted(form[c].shown, edits)
           w == [call |-> "change", pks |-> <<form[c].pk>>, overtaken |-> FALSE,
                 body |-> body, edited |-> form[c].edited \cup DOMAIN edits]
<1>1. requests' \in 0..scene.bounds[2] /\ faults' \in 0..scene.bounds[3] /\ pc[c] = "idle"
  BY RequestCounted DEF IInv, ChangePost
<1>2. FormOK(c)' /\ DOMAIN form' = Staff
  BY QuietForm DEF IInv, Requests, ChangePost
<1>3. CASE Answer(c, "change", 403)
  BY <1>1, <1>2, <1>3, AnswerInv DEF ChangePost, history
<1>4. CASE Start(c, "old", w)
  <2>1. pc'[c] = "old" /\ work'[c] = w
    BY <1>4, Started DEF IInv
  <2>2. form'[c] # NoForm /\ form'[c] = form[c] /\ rows' = rows
    BY DEF ChangePost
  <2>3. IsBody(body) /\ ChecksOnly(body)
    BY <2>2, OpenForm, Edits, SubmittedIsBody DEF IInv
  <2>4. \A f \in Fields \ w.edited : Keeps(f, Raw(body, f), form[c].opened[f])
    BY <2>2, OpenForm, SubmittedKeeps
  <2>5. form[c].pk \in Pks
    BY <2>2, OpenForm
  <2> HIDE DEF body
  <2>6. ChangeOK(c)'
    BY <2>1, <2>2, <2>3, <2>4 DEF ChangeOK
  <2>7. RequestOK(c)'
    BY <2>1, <2>5, <2>6 DEF RequestOK, PksOK
  <2>8. "old" \in Steps
    BY DEF Steps
  <2> QED
    BY <1>1, <1>2, <1>4, <2>7, <2>8, QuietInv DEF ChangePost, history
<1> QED
  BY <1>3, <1>4 DEF ChangePost

LEMMA ReadOldInv ==
  ASSUME IInv, NEW c \in Staff, ReadOld(c)
  PROVE  IInv'
<1> DEFINE p == Head(work[c].pks)
           w == [call |-> "change", pks |-> <<p>>, overtaken |-> FALSE,
                 body |-> work[c].body, edited |-> work[c].edited,
                 old |-> IF Visible(c, p) THEN rows[p] ELSE <<>>]
<1>1. requests' \in 0..scene.bounds[2] /\ faults' \in 0..scene.bounds[3] /\ pc[c] = "old"
  BY CountersKept DEF IInv, ReadOld
<1>2. FormOK(c)' /\ DOMAIN form' = Staff /\ form' = form /\ rows' = rows /\ scene' = scene
  BY QuietForm DEF IInv, Requests, ReadOld, NoWrite
<1>3. Start(c, "update", w)
  BY DEF ReadOld
<1>4. ChangeOK(c) /\ PksOK(work[c])
  BY <1>1 DEF IInv, Requests, RequestOK
<1>5. p = form[c].pk /\ form[c] # NoForm /\ p \in Pks
  <2>1. p = form[c].pk /\ form[c] # NoForm
    BY <1>4 DEF ChangeOK
  <2> QED
    BY <2>1, OpenForm
<1>6. pc'[c] = "update" /\ work'[c] = w
  BY <1>3, Started DEF IInv
<1>7. Visible(c, form[c].pk)' <=> Visible(c, p)
  BY <1>2, <1>5 DEF Visible, Tenant
<1>8. w.old = <<>> \/ DOMAIN w.old = Fields
  BY DEF IInv, TypeOK, IsRow, Visible
<1>9. ChangeOK(c)'
  BY <1>2, <1>4, <1>5, <1>6, <1>7, <1>8 DEF ChangeOK
<1>10. RequestOK(c)'
  BY <1>5, <1>6, <1>9 DEF RequestOK, PksOK
<1>11. "update" \in Steps
  BY DEF Steps
<1> QED
  BY <1>1, <1>2, <1>3, <1>10, <1>11, QuietInv DEF ReadOld, NoWrite, history

LEMMA NotWritten ==
  ASSUME Requests, NEW c \in Staff, NEW S, UNCHANGED <<scene, rows, form>>,
         NEW w, DOMAIN w = Staff, \A d \in Staff \ {c} : w[d] = work[d] /\ pc'[d] = pc[d],
         pc' \in [Staff -> Steps], work' = Overtake(c, S, w), RequestOK(c)'
  PROVE  Requests'
<1>1. ASSUME NEW d \in Staff PROVE FormStep(d, {}) /\ FormOK(d) /\ RequestOK(d) /\ FormOK(d)'
  BY NoRows, FormStays DEF FormStep, Requests
<1>2. ASSUME NEW d \in Staff \ {c} PROVE RequestOK(d)'
  <2>1. RequestStep(d, S)
    BY <1>1, OthersOvertaken
  <2>2. RequestStep(d, {})
    BY <2>1 DEF RequestStep
  <2> QED
    BY <1>1, <2>2, NoRows, RequestStays
<1>3. DOMAIN work' = Staff /\ DOMAIN form' = Staff
  BY DEF Overtake, Requests
<1> QED
  BY <1>1, <1>2, <1>3 DEF Requests

(* An UPDATE of a row.                                                     *)
LEMMA TableUpdated ==
  ASSUME TypeOK, NEW p \in DOMAIN rows, NEW new, IsRow(new),
         rows' = [rows EXCEPT ![p] = new], UNCHANGED children
  PROVE  /\ RowsOutside({p}) /\ p \in Pks
         /\ DOMAIN rows' \subseteq Pks /\ \A q \in DOMAIN rows' : IsRow(rows'[q])
         /\ \A k \in DOMAIN children' : children'[k] \in DOMAIN rows'
BY DEF TypeOK, RowsOutside

LEMMA WriteCounted ==
  ASSUME TypeOK, NEW new, NEW S, Write(new, S), UNCHANGED scene
  PROVE  writes' \in 0..scene.bounds[1] /\ rows' = new
BY Bounds DEF TypeOK, Write

LEMMA PlainEntry ==
  ASSUME NEW p \in Pks, NEW flag \in Flags, NEW c \in Staff
  PROVE  /\ Plain(p, flag, c) \in Entry /\ Plain(p, flag, c).flag = flag
         /\ Plain(p, flag, c).pk = p
         /\ Plain(p, flag, c).exact # TRUE
BY DEF Plain, Entry

LEMMA OneEntry ==
  ASSUME NEW e \in Entry, e.exact = TRUE => e.diff = e.changed, NEW w, w.entries = <<e>>
  PROVE  EntriesOK(w) /\ Head(w.entries) = e
BY DEF EntriesOK

(* The form posted by c is about p, and what it writes.                    *)
LEMMA Posted ==
  ASSUME IInv, NEW c \in Staff, pc[c] = "update", work[c].call = "change"
  PROVE  /\ PksOK(work[c]) /\ ChangeOK(c)
         /\ Head(work[c].pks) = form[c].pk /\ form[c].pk \in Pks /\ form[c] # NoForm
         /\ form[c].stale \in BOOLEAN /\ IsRow(form[c].opened)
         /\ form[c].stale = FALSE =>
              form[c].pk \in DOMAIN rows /\ rows[form[c].pk] = form[c].opened
         /\ \A f \in Fields : Enterable(f, Raw(work[c].body, f))
         /\ \A f \in Fields : Kind[f] = "bool" => Raw(work[c].body, f) \in {TRUE, Empty}
<1>1. PksOK(work[c]) /\ ChangeOK(c)
  BY DEF IInv, Requests, RequestOK, NoWork
<1>2. Head(work[c].pks) = form[c].pk /\ form[c] # NoForm
  BY <1>1 DEF ChangeOK
<1>3. form[c].pk \in Pks /\ form[c].stale \in BOOLEAN /\ IsRow(form[c].opened)
      /\ (form[c].stale = FALSE =>
           form[c].pk \in DOMAIN rows /\ rows[form[c].pk] = form[c].opened)
  BY <1>2 DEF IInv, Requests, FormOK
<1>4. \A f \in Fields : Enterable(f, Raw(work[c].body, f))
  BY <1>1, RawEnterable DEF ChangeOK
<1>5. \A f \in Fields : Kind[f] = "bool" => Raw(work[c].body, f) \in {TRUE, Empty}
  BY <1>1 DEF ChangeOK, ChecksOnly, Raw
<1> QED
  BY <1>1, <1>2, <1>3, <1>4, <1>5

LEMMA RedisplayOK ==
  ASSUME IInv, NEW c \in Staff, pc[c] = "update", work[c].call = "change",
         form' = Redisplay(c), UNCHANGED rows
  PROVE  FormOK(c)' /\ DOMAIN form' = Staff /\ \A d \in Staff \ {c} : form'[d] = form[d]
<1> DEFINE x == [pk |-> form[c].pk, edited |-> work[c].edited, stale |-> form[c].stale,
                 opened |-> form[c].opened,
                 shown |-> [f \in Fields |-> Raw(work[c].body, f)]]
<1>1. DOMAIN form' = Staff /\ form'[c] = x /\ \A d \in Staff \ {c} : form'[d] = form[d]
  BY DEF Redisplay, IInv, Requests
<1>2. /\ x.pk \in Pks /\ x.stale \in BOOLEAN /\ IsRow(x.opened)
      /\ \A f \in Fields : Enterable(f, x.shown[f])
  BY Posted
<1>3. /\ \A f \in Fields \ x.edited : Keeps(f, x.shown[f], x.opened[f])
      /\ x.stale = FALSE => x.pk \in DOMAIN rows /\ rows[x.pk] = x.opened
  BY Posted DEF ChangeOK
<1>4. DOMAIN x = {"pk", "edited", "stale", "opened", "shown"}
  OBVIOUS
<1> HIDE DEF x
<1> QED
  BY <1>1, <1>2, <1>3, <1>4 DEF FormOK, IsRow, Fits

(* The row that a form writes, and the entry for it.                       *)
FormRow(c) == RowOf(work[c].body)

LEMMA FormUpdateKeeps ==
  ASSUME IInv, NEW c \in Staff, pc[c] = "update", work[c].call = "change",
         Visible(c, form[c].pk), Errors(work[c].body) = {}, UNCHANGED scene,
         last' = [call |-> "change", user |-> c, before |-> rows[form[c].pk],
                  after |-> FormRow(c), opened |-> form[c].opened, edited |-> work[c].edited,
                  stale |-> form[c].stale, body |-> work[c].body]
  PROVE  FormsKeepTheRest'
<1> DEFINE body == work[c].body
           before == rows[form[c].pk]
           opened == form[c].opened
<1>2. \A f \in Fields : FormRow(c)[f] = Parsed(f, Raw(body, f))
  BY DEF FormRow, RowOf
<1>3. ASSUME NEW f \in Fields \ work[c].edited
      PROVE  \/ FormRow(c)[f] = opened[f]
             \/ f \in ReadOnly
             \/ Kind[f] = "text" /\ opened[f] \in {Null, Empty}
             \/ Kind[f] = "bool" /\ f \in Nullable /\ opened[f] = FALSE
             \/ Kind[f] = "datetime" /\ FormRow(c)[f] = WholeSeconds(opened[f])
  <2>1. Fits(f, opened[f])
    BY Posted DEF IsRow
  <2>2. Keeps(f, Raw(body, f), opened[f])
    BY <1>3, Posted DEF ChangeOK
  <2>3. ~Rejected(f, Raw(body, f))
    BY DEF Errors
  <2>4. Kind[f] = "bool" => Raw(body, f) \in {TRUE, Empty}
    BY Posted
  <2> HIDE DEF opened, body
  <2> QED
    BY <1>2, <2>1, <2>2, <2>3, <2>4, ParsedKeeps
<1>4. DOMAIN body \subseteq Fields
  BY Posted DEF ChangeOK, IsBody
<1>5. \A f \in work[c].edited \cap DOMAIN body : FormRow(c)[f] = Parsed(f, body[f])
  BY <1>2, <1>4 DEF Raw
<1>6. Tenant(c) # NoTenant => before.team = Tenant(c)
  BY DEF Visible
<1>7. ~form[c].stale => opened = before
  BY Posted
<1>9. Tenant(c)' = Tenant(c)
  BY DEF Tenant
<1> HIDE DEF before, body, opened
<1>10. /\ last'.call = "change" /\ last'.user = c /\ last'.before = before
       /\ last'.after = FormRow(c) /\ last'.edited = work[c].edited
       /\ last'.stale = form[c].stale /\ last'.body = body /\ last'.opened = opened
  BY DEF before, body, opened
<1>11. \A f \in Fields \ last'.edited :
         \/ last'.after[f] = last'.opened[f]
         \/ /\ last'.call = "change"
            /\ \/ f \in ReadOnly
               \/ Kind[f] = "text" /\ last'.opened[f] \in {Null, Empty}
               \/ Kind[f] = "bool" /\ f \in Nullable /\ last'.opened[f] = FALSE
               \/ Kind[f] = "datetime" /\ last'.after[f] = WholeSeconds(last'.opened[f])
  BY <1>3, <1>10
<1>12. \A f \in last'.edited \cap DOMAIN last'.body : last'.after[f] = Parsed(f, last'.body[f])
  BY <1>5, <1>10
<1>13. (Tenant(last.user) # NoTenant => last.before.team = Tenant(last.user))'
  BY <1>6, <1>9, <1>10 DEF Tenant
<1>14. ~last'.stale => last'.opened = last'.before
  BY <1>7, <1>10
<1> QED
  BY <1>11, <1>12, <1>13, <1>14 DEF FormsKeepTheRest, Parsed, WholeSeconds

(* The entry of a form tells what it changed, unless it was overtaken.     *)
FormEntry(c) ==
  LET p == form[c].pk IN
  [pk |-> p, flag |-> "changed", user |-> c, diff |-> Diff(work[c].old, FormRow(c)),
   exact |-> ~work[c].overtaken,
   changed |-> IF Visible(c, p) THEN {f \in Fields : rows[p][f] # FormRow(c)[f]} ELSE {}]

LEMMA FormEntryOK ==
  ASSUME IInv, NEW c \in Staff, pc[c] = "update", work[c].call = "change"
  PROVE  /\ FormEntry(c) \in Entry /\ FormEntry(c).flag = "changed"
         /\ FormEntry(c).exact = TRUE => FormEntry(c).diff = FormEntry(c).changed
<1> DEFINE p == form[c].pk
<1>1. p \in Pks /\ work[c].overtaken \in BOOLEAN
  BY Posted DEF ChangeOK
<1>2. Diff(work[c].old, FormRow(c)) \in SUBSET Fields
  <2>1. work[c].old = <<>> \/ DOMAIN work[c].old = Fields
    BY Posted DEF ChangeOK
  <2>2. DOMAIN work[c].old \subseteq Fields
    BY <2>1
  <2> QED
    BY <2>2 DEF Diff
<1>3. FormEntry(c) \in Entry /\ FormEntry(c).flag = "changed"
  BY <1>1, <1>2 DEF FormEntry, Entry, Flags
<1>4. ASSUME work[c].overtaken = FALSE
      PROVE  Diff(work[c].old, FormRow(c)) =
               IF Visible(c, p) THEN {f \in Fields : rows[p][f] # FormRow(c)[f]} ELSE {}
  <2>1. work[c].old = IF Visible(c, p) THEN rows[p] ELSE <<>>
    BY <1>4, Posted DEF ChangeOK
  <2>2. Visible(c, p) => DOMAIN rows[p] = Fields
    BY DEF Visible, IInv, TypeOK, IsRow
  <2> QED
    BY <2>1, <2>2 DEF Diff
<1> QED
  BY <1>1, <1>3, <1>4 DEF FormEntry

(* A request that goes on to its log after a statement on the row p, which *)
(* was there or was not.                                                   *)
LEMMA ToLog ==
  ASSUME Requests, NEW c \in Staff, NEW S, NEW w, pc' = [pc EXCEPT ![c] = "log"],
         work' = Overtake(c, S, [work EXCEPT ![c] = w]), pc[c] # "log",
         Head(w.entries).flag # "deleted"
  PROVE  /\ pc' \in [Staff -> Steps] /\ pc'[c] = "log" /\ work'[c] = w
         /\ DOMAIN [work EXCEPT ![c] = w] = Staff
         /\ \A d \in Staff \ {c} : [work EXCEPT ![c] = w][d] = work[d] /\ pc'[d] = pc[d]
         /\ OthersPend(c) /\ ~Deletes(c) /\ ~Deletes(c)'
<1>1. pc' \in [Staff -> Steps] /\ pc'[c] = "log" /\ \A d \in Staff \ {c} : pc'[d] = pc[d]
  BY DEF Requests, Steps
<1> DEFINE v == [work EXCEPT ![c] = w]
<1>2. DOMAIN v = Staff /\ v[c] = w /\ \A d \in Staff \ {c} : v[d] = work[d]
  BY DEF Requests
<1> HIDE DEF v
<1>3. work' = Overtake(c, S, v)
  BY DEF v
<1>4. OthersPend(c) /\ work'[c] = w
  <2>1. \A d \in Staff \ {c} : v[d] = work[d] /\ pc'[d] = pc[d]
    BY <1>1, <1>2
  <2> QED
    BY <1>2, <1>3, <2>1 DEF OthersPend, Overtake
<1>5. ~Deletes(c) /\ ~Deletes(c)'
  BY <1>1, <1>4 DEF Deletes
<1> QED
  BY <1>1, <1>2, <1>4, <1>5 DEF v

LEMMA UpdatedInv ==
  ASSUME IInv, NEW c \in Staff, NEW p \in DOMAIN rows, NEW new, IsRow(new),
         Write([rows EXCEPT ![p] = new], {p}), NEW w, pc' = [pc EXCEPT ![c] = "log"],
         work' = Overtake(c, {p}, [work EXCEPT ![c] = w]), pc[c] # "log",
         Head(w.entries).flag # "deleted", RequestOK(c)',
         UNCHANGED <<scene, children, log, deleted, lost, counters>>, FormsKeepTheRest'
  PROVE  IInv'
<1>1. writes' \in 0..scene.bounds[1] /\ rows' = [rows EXCEPT ![p] = new]
  BY WriteCounted DEF IInv
<1>2. /\ RowsOutside({p}) /\ p \in Pks
      /\ DOMAIN rows' \subseteq Pks /\ \A q \in DOMAIN rows' : IsRow(rows'[q])
      /\ \A k \in DOMAIN children' : children'[k] \in DOMAIN rows'
  BY <1>1, TableUpdated DEF IInv
<1>3. /\ pc' \in [Staff -> Steps] /\ DOMAIN [work EXCEPT ![c] = w] = Staff
      /\ \A d \in Staff \ {c} : [work EXCEPT ![c] = w][d] = work[d] /\ pc'[d] = pc[d]
      /\ OthersPend(c) /\ ~Deletes(c) /\ ~Deletes(c)'
  BY ToLog DEF IInv
<1>4. Requests'
  BY <1>2, <1>3, FormsOnWrite, Written DEF IInv
<1>5. requests' \in 0..scene.bounds[2] /\ faults' \in 0..scene.bounds[3]
  BY CountersKept DEF IInv
<1>6. TypeOK'
  BY <1>1, <1>2, <1>4, <1>5, TypeLater DEF IInv, TypeOK
<1>7. AuditTrail'
  BY <1>3, SameTrail DEF IInv
<1> QED
  BY <1>4, <1>6, <1>7 DEF IInv

LEMMA MissedInv ==
  ASSUME IInv, NEW c \in Staff, NEW S, NEW w, pc' = [pc EXCEPT ![c] = "log"],
         work' = Overtake(c, S, [work EXCEPT ![c] = w]), pc[c] # "log",
         Head(w.entries).flag # "deleted", RequestOK(c)',
         UNCHANGED <<scene, rows, children, form, log, last, deleted, lost, writes, counters>>
  PROVE  IInv'
<1>1. /\ pc' \in [Staff -> Steps] /\ DOMAIN [work EXCEPT ![c] = w] = Staff
      /\ \A d \in Staff \ {c} : [work EXCEPT ![c] = w][d] = work[d] /\ pc'[d] = pc[d]
      /\ OthersPend(c) /\ ~Deletes(c) /\ ~Deletes(c)'
  BY ToLog DEF IInv
<1>2. Requests'
  BY <1>1, NotWritten DEF IInv
<1>3. requests' \in 0..scene.bounds[2] /\ faults' \in 0..scene.bounds[3]
  BY CountersKept DEF IInv
<1>4. TypeOK'
  BY <1>2, <1>3, SameTable, TypeLater DEF IInv, TypeOK
<1>5. AuditTrail'
  BY <1>1, SameTrail DEF IInv
<1>6. FormsKeepTheRest'
  BY SameForms DEF IInv
<1> QED
  BY <1>2, <1>4, <1>5, <1>6 DEF IInv

LEMMA UpdateFromFormInv ==
  ASSUME IInv, NEW c \in Staff, UpdateFromForm(c)
  PROVE  IInv'
<1> DEFINE p == Head(work[c].pks)
           body == work[c].body
           new == RowOf(body)
           entry == [pk |-> p, flag |-> "changed", user |-> c, diff |-> Diff(work[c].old, new),
                     exact |-> ~work[c].overtaken,
                     changed |-> IF Visible(c, p) THEN {f \in Fields : rows[p][f] # new[f]} ELSE {}]
           w == [call |-> "change", pks |-> <<>>, entries |-> <<entry>>]
<1>1. pc[c] = "update" /\ work[c].call = "change"
  BY DEF UpdateFromForm
<1>2. p = form[c].pk /\ p \in Pks /\ IsBody(body)
  BY <1>1, Posted DEF ChangeOK
<1>3. requests' \in 0..scene.bounds[2] /\ faults' \in 0..scene.bounds[3]
  BY CountersKept DEF IInv, UpdateFromForm
<1>4. UNCHANGED <<scene, children, log, deleted, lost, counters>>
  BY DEF UpdateFromForm
<1>5. CASE Errors(body) # {}
  <2>1. UNCHANGED <<rows, writes, last>>
    BY <1>5 DEF UpdateFromForm
  <2>2. \E status : Answer(c, "change", status)
    BY <1>5 DEF UpdateFromForm
  <2>3. FormOK(c)' /\ DOMAIN form' = Staff /\ \A d \in Staff \ {c} : form'[d] = form[d]
    <3>1. CASE form' = Redisplay(c)
      BY <1>1, <2>1, <3>1, RedisplayOK
    <3>2. CASE form' = [form EXCEPT ![c] = NoForm]
      BY <3>2 DEF IInv, Requests, FormOK, NoForm
    <3> QED
      BY <1>5, <3>1, <3>2 DEF UpdateFromForm
  <2> QED
    BY <1>1, <1>3, <1>4, <2>1, <2>2, <2>3, AnswerInv
<1>6. CASE Errors(body) = {} /\ Visible(c, p) /\ NotNullFails(new)
  <2>1. UNCHANGED <<rows, writes, form, last>> /\ Answer(c, "change", 500)
    BY <1>6 DEF UpdateFromForm, NoWrite
  <2>2. FormOK(c)' /\ DOMAIN form' = Staff
    BY <2>1, QuietForm DEF IInv, Requests
  <2> QED
    BY <1>1, <1>3, <1>4, <2>1, <2>2, AnswerInv
<1>7. ASSUME Errors(body) = {}, ~(Visible(c, p) /\ NotNullFails(new))
      PROVE  /\ pc' = [pc EXCEPT ![c] = "log"]
             /\ work' = Overtake(c, {p}, [work EXCEPT ![c] = w])
             /\ Head(w.entries).flag # "deleted" /\ RequestOK(c)'
  <2>1. pc' = [pc EXCEPT ![c] = "log"] /\ work' = Overtake(c, {p}, [work EXCEPT ![c] = w])
    BY <1>7 DEF UpdateFromForm
  <2>2. entry = FormEntry(c)
    BY <1>2 DEF FormEntry, FormRow
  <2>3. entry \in Entry /\ entry.flag = "changed" /\ (entry.exact = TRUE => entry.diff = entry.changed)
    BY <1>1, <2>2, FormEntryOK
  <2> HIDE DEF entry
  <2>4. EntriesOK(w) /\ Head(w.entries) = entry
    BY <2>3, OneEntry
  <2>5. w.call = "change" /\ w.pks = <<>> /\ DOMAIN w = {"call", "pks", "entries"}
    OBVIOUS
  <2> HIDE DEF w
  <2> w.pks \in Seq(Pks)
    BY <2>5
  <2>6. pc'[c] = "log" /\ work'[c] = w
    BY ZenonT(60), <1>1, <2>1, <2>3, <2>4, ToLog DEF IInv
  <2>7. RequestOK(c)'
    BY <2>4, <2>5, <2>6 DEF RequestOK, EntriesOK
  <2> QED
    BY <2>1, <2>3, <2>4, <2>7
<1>8. CASE Errors(body) = {} /\ Visible(c, p) /\ ~NotNullFails(new)
  <2>1. Write([rows EXCEPT ![p] = new], {p})
    BY <1>8 DEF UpdateFromForm
  <2>2. IsRow(new) /\ p \in DOMAIN rows
    BY <1>2, <1>8, RowOfIsRow DEF Visible
  <2>3. FormsKeepTheRest'
    BY <1>1, <1>2, <1>4, <1>8, FormUpdateKeeps DEF UpdateFromForm, FormRow
  <2> HIDE DEF p, new, w
  <2> QED
    BY <1>1, <1>4, <1>7, <1>8, <2>1, <2>2, <2>3, UpdatedInv
<1>9. CASE Errors(body) = {} /\ ~Visible(c, p)
  <2>1. UNCHANGED <<rows, writes, form, last>>
    BY <1>9 DEF UpdateFromForm, NoWrite
  <2> HIDE DEF p, new, w
  <2> QED
    BY <1>1, <1>4, <1>7, <1>9, <2>1, MissedInv
<1> QED
  BY <1>5, <1>6, <1>8, <1>9

-----------------------------------------------------------------------------
(* The entry is written: what was pending is logged.                       *)

LEMMA Logging ==
  ASSUME IInv, NEW c \in Staff, pc[c] = "log"
  PROVE  /\ EntriesOK(work[c]) /\ work[c].pks \in Seq(Pks)
         /\ {"call", "pks", "entries"} \subseteq DOMAIN work[c]
         /\ \/ work[c].call \in {"change", "add", "action"} /\ work[c].pks = <<>>
            \/ work[c].call \in {"delete", "bulk"}
            \/ work[c].call = "save" /\ SaveOK(work[c])
         /\ Head(work[c].entries) \in Entry /\ Len(work[c].entries) \in Nat \ {0}
<1>1. /\ EntriesOK(work[c]) /\ work[c].pks \in Seq(Pks)
      /\ {"call", "pks", "entries"} \subseteq DOMAIN work[c]
      /\ \/ work[c].call \in {"change", "add", "action"} /\ work[c].pks = <<>>
         \/ work[c].call \in {"delete", "bulk"}
         \/ work[c].call = "save" /\ SaveOK(work[c])
  BY DEF IInv, Requests, RequestOK
<1>2. Head(work[c].entries) \in Entry /\ Len(work[c].entries) \in Nat \ {0}
  BY <1>1 DEF EntriesOK
<1> QED
  BY <1>1, <1>2

LEMMA PendingLess ==
  ASSUME IInv, NEW c \in Staff, OthersPend(c), Deletes(c), ~Deletes(c)',
         Head(work[c].entries) \in Entry, NEW p \in Pks
  PROVE  Cardinality(PendingDeletions(p)') =
           IF p = Head(work[c].entries).pk THEN Cardinality(PendingDeletions(p)) - 1
                                           ELSE Cardinality(PendingDeletions(p))
<1>1. PendingDeletions(p)' = PendingDeletions(p) \ {c}
  BY DEF PendingDeletions, OthersPend, Deletes
<1>2. c \in PendingDeletions(p) <=> p = Head(work[c].entries).pk
  BY DEF PendingDeletions, Deletes
<1>3. IsFiniteSet(PendingDeletions(p))
  BY Counted DEF IInv
<1> QED
  BY <1>1, <1>2, <1>3, FS_RemoveElement

LEMMA LoggedMore ==
  ASSUME IInv, NEW e \in Entry, log' = Append(log, e), NEW p \in Pks
  PROVE  Cardinality(LoggedDeletions(p)') =
           IF p = e.pk /\ e.flag = "deleted" THEN Cardinality(LoggedDeletions(p)) + 1
                                             ELSE Cardinality(LoggedDeletions(p))
<1>1. /\ log \in Seq(Entry) /\ Len(log) \in Nat /\ log' \in Seq(Entry)
      /\ DOMAIN log = 1..Len(log) /\ DOMAIN log' = 1..(Len(log) + 1)
      /\ log'[Len(log) + 1] = e /\ \A i \in DOMAIN log : log'[i] = log[i]
  BY DEF IInv, TypeOK
<1>2. IsFiniteSet(LoggedDeletions(p)) /\ Len(log) + 1 \notin LoggedDeletions(p)
  <2>1. Len(log) + 1 \notin DOMAIN log
    BY <1>1
  <2>2. IsFiniteSet(LoggedDeletions(p))
    BY Counted DEF IInv
  <2> QED
    BY <2>1, <2>2 DEF LoggedDeletions
<1>3. CASE p = e.pk /\ e.flag = "deleted"
  <2>1. LoggedDeletions(p)' = LoggedDeletions(p) \cup {Len(log) + 1}
    BY <1>1, <1>3 DEF LoggedDeletions
  <2> QED
    BY <1>2, <1>3, <2>1, FS_AddElement
<1>4. CASE ~(p = e.pk /\ e.flag = "deleted")
  <2>1. LoggedDeletions(p)' = LoggedDeletions(p)
    BY <1>1, <1>4 DEF LoggedDeletions
  <2> QED
    BY <1>4, <2>1
<1> QED
  BY <1>3, <1>4

LEMMA LogTrail ==
  ASSUME IInv, NEW c \in Staff, pc[c] = "log", OthersPend(c), ~Deletes(c)',
         log' = IF scene.logged THEN Append(log, Head(work[c].entries)) ELSE log,
         UNCHANGED <<scene, deleted, lost>>
  PROVE  AuditTrail' /\ log' \in Seq(Entry)
<1> DEFINE e == Head(work[c].entries)
           L(p) == Cardinality(LoggedDeletions(p))
           P(p) == Cardinality(PendingDeletions(p))
<1>1. e \in Entry /\ (e.exact = TRUE => e.diff = e.changed) /\ log \in Seq(Entry)
  <2>1. EntriesOK(work[c])
    BY Logging
  <2>2. 1 \in DOMAIN work[c].entries /\ e = work[c].entries[1] /\ e \in Entry
    BY <2>1 DEF EntriesOK
  <2>3. e.exact = TRUE => e.diff = e.changed
    BY <2>1, <2>2 DEF EntriesOK
  <2> QED
    BY <2>2, <2>3 DEF IInv, TypeOK
<1>2. log' \in Seq(Entry)
  BY <1>1
<1>3. \A i \in DOMAIN log' : log'[i].exact => log'[i].diff = log'[i].changed
  <2>1. \A i \in DOMAIN log : log[i].exact => log[i].diff = log[i].changed
    BY DEF IInv, AuditTrail
  <2>2. \A i \in DOMAIN log' : (i \in DOMAIN log /\ log'[i] = log[i]) \/ log'[i] = e
    BY <1>1
  <2>3. e.exact \in BOOLEAN
    BY <1>1 DEF Entry
  <2> HIDE DEF e
  <2> QED
    BY <1>1, <2>1, <2>2, <2>3
<1>4. ASSUME NEW p \in Pks
      PROVE  /\ L(p)' + P(p)' <= deleted[p]
             /\ scene.logged => deleted[p] <= L(p)' + P(p)' + lost
  <2>1. /\ L(p) \in Nat /\ P(p) \in Nat /\ deleted[p] \in Nat /\ lost \in Nat
        /\ L(p) + P(p) <= deleted[p]
        /\ scene.logged => deleted[p] <= L(p) + P(p) + lost
    BY Counted DEF IInv, AuditTrail, TypeOK
  <2>2. P(p)' = IF p = e.pk /\ e.flag = "deleted" THEN P(p) - 1 ELSE P(p)
    <3>1. CASE e.flag = "deleted"
      BY <1>1, <3>1, PendingLess DEF Deletes
    <3>2. CASE e.flag # "deleted"
      <4>1. ~Deletes(c)
        BY <3>2 DEF Deletes
      <4> QED
        BY <3>2, <4>1, SamePending
    <3> QED
      BY <3>1, <3>2
  <2>3. CASE scene.logged
    <3>1. L(p)' = IF p = e.pk /\ e.flag = "deleted" THEN L(p) + 1 ELSE L(p)
      BY <1>1, <2>3, LoggedMore
    <3> HIDE DEF e, L, P
    <3> QED
      BY <2>1, <2>2, <3>1
  <2>4. CASE ~scene.logged
    <3>1. LoggedDeletions(p)' = LoggedDeletions(p)
      BY <2>4 DEF LoggedDeletions
    <3>2. L(p)' = L(p)
      BY <3>1
    <3> HIDE DEF e, L, P
    <3> QED
      BY <2>1, <2>2, <2>4, <3>2
  <2> QED
    BY <2>3, <2>4
<1> QED
  BY <1>2, <1>3, <1>4 DEF AuditTrail

LEMMA LogInv ==
  ASSUME IInv, NEW c \in Staff, Log(c)
  PROVE  IInv'
<1> DEFINE w == work[c]
           es == work[c].entries
           more == [w EXCEPT !.entries = Tail(@)]
           next == [w EXCEPT !.entries = <<>>]
           step == IF w.call = "save" THEN "update" ELSE "check"
<1>1. pc[c] = "log"
  BY DEF Log
<1>2. /\ EntriesOK(w) /\ w.pks \in Seq(Pks) /\ {"call", "pks", "entries"} \subseteq DOMAIN w
      /\ \/ w.call \in {"change", "add", "action"} /\ w.pks = <<>>
         \/ w.call \in {"delete", "bulk"}
         \/ w.call = "save" /\ SaveOK(w)
  BY <1>1, Logging
<1>3. /\ UNCHANGED <<scene, rows, children, last, deleted, lost, writes, counters>>
      /\ log' = IF scene.logged THEN Append(log, Head(es)) ELSE log
  BY DEF Log, history
<1>4. ASSUME NEW s \in Steps, NEW v, Start(c, s, v), RequestOK(c)', ~Deletes(c)',
             DOMAIN form' = Staff, \A d \in Staff \ {c} : form'[d] = form[d], FormOK(c)'
      PROVE  IInv'
  <2>1. Requests'
    BY <1>3, <1>4, Quiet DEF IInv
  <2>2. OthersPend(c)
    BY <1>4, StartPends DEF IInv
  <2>3. AuditTrail' /\ log' \in Seq(Entry)
    BY <1>1, <1>3, <1>4, <2>2, LogTrail
  <2>4. requests' \in 0..scene.bounds[2] /\ faults' \in 0..scene.bounds[3]
    BY <1>3, CountersKept DEF IInv
  <2>5. TypeOK'
    BY <1>3, <2>1, <2>3, <2>4, SameTable, TypeLater DEF IInv, TypeOK
  <2>6. FormsKeepTheRest'
    BY <1>3, SameForms DEF IInv
  <2> QED
    BY <2>1, <2>3, <2>5, <2>6 DEF IInv
<1>5. "log" \in Steps /\ step \in Steps /\ "idle" \in Steps
  BY DEF Steps
<1>6. UNCHANGED form => FormOK(c)' /\ DOMAIN form' = Staff
  BY <1>3, QuietForm DEF IInv, Requests
<1>7. CASE Len(es) > 1 /\ Start(c, "log", more) /\ UNCHANGED form
  <2>1. pc'[c] = "log" /\ work'[c] = more
    BY <1>7, Started DEF IInv
  <2>2. /\ more.entries = Tail(es) /\ more.pks = w.pks /\ more.call = w.call
        /\ DOMAIN more = DOMAIN w /\ ("body" \in DOMAIN w => more.body = w.body)
    BY <1>2
  <2>3. /\ Tail(es) \in Seq(Entry) \ {<<>>} /\ es \in Seq(Entry)
        /\ \A i \in DOMAIN Tail(es) : i + 1 \in DOMAIN es /\ Tail(es)[i] = es[i + 1]
    <3>1. es \in Seq(Entry) /\ Len(es) \in Nat /\ Len(es) > 1 /\ es # <<>>
      BY <1>2, <1>7 DEF EntriesOK
    <3> HIDE DEF es
    <3>2. Tail(es) \in Seq(Entry) /\ Len(Tail(es)) = Len(es) - 1
      BY <3>1
    <3>3. Tail(es) # <<>>
      <4>1. \A s : s = <<>> => Len(s) = 0
        OBVIOUS
      <4>2. Len(Tail(es)) # 0
        BY <3>1, <3>2
      <4> QED
        BY <4>1, <4>2
    <3>4. DOMAIN Tail(es) = 1..(Len(es) - 1) /\ DOMAIN es = 1..Len(es)
      BY <3>1, <3>2
    <3>5. \A i \in 1..(Len(es) - 1) : Tail(es)[i] = es[i + 1] /\ i + 1 \in 1..Len(es)
      BY <3>1
    <3> QED
      BY <3>1, <3>2, <3>3, <3>4, <3>5
  <2>4. \A i \in DOMAIN es : es[i].flag # "deleted"
    BY <1>2, <1>7 DEF EntriesOK
  <2> HIDE DEF more
  <2>5. EntriesOK(more)
    BY <1>2, <2>2, <2>3, <2>4 DEF EntriesOK
  <2>6. w.call = "save" => SaveOK(more)
    BY <1>2, <2>2 DEF SaveOK
  <2>7. RequestOK(c)'
    BY <1>2, <2>1, <2>2, <2>5, <2>6 DEF RequestOK, EntriesOK, SaveOK, IsBody
  <2>8. ~Deletes(c)'
    <3>1. 1 \in DOMAIN Tail(es) /\ Head(Tail(es)) = Tail(es)[1]
      BY <2>3
    <3>2. Head(Tail(es)).flag # "deleted"
      BY <2>3, <2>4, <3>1
    <3> QED
      BY <2>1, <2>2, <3>2 DEF Deletes
  <2> QED
    BY <1>4, <1>5, <1>6, <1>7, <2>7, <2>8
<1>8. CASE w.pks # <<>> /\ Start(c, step, next) /\ UNCHANGED form
  <2>1. pc'[c] = step /\ work'[c] = next
    BY <1>8, Started DEF IInv
  <2>2. /\ next.pks = w.pks /\ next.call = w.call
        /\ DOMAIN next = DOMAIN w /\ ("body" \in DOMAIN w => next.body = w.body)
    BY <1>2
  <2> HIDE DEF next
  <2>3. w.call = "save" => SaveOK(next)
    BY <1>2, <2>2 DEF SaveOK
  <2>4. PksOK(next)
    BY <1>2, <1>8, <2>2 DEF PksOK
  <2>5. RequestOK(c)'
    BY <1>2, <1>8, <2>1, <2>2, <2>3, <2>4 DEF RequestOK, PksOK, SaveOK, IsBody
  <2>6. ~Deletes(c)'
    BY <2>1 DEF Deletes
  <2> QED
    BY <1>4, <1>5, <1>6, <1>8, <2>5, <2>6
<1>9. CASE /\ Answer(c, w.call, "redirect")
           /\ form' = IF w.call = "change" THEN [form EXCEPT ![c] = NoForm] ELSE form
  <2>1. Start(c, "idle", NoWork) /\ RequestOK(c)'
    BY <1>9, AnswerOK DEF IInv
  <2>2. ~Deletes(c)'
    BY <2>1, Started DEF Deletes, IInv
  <2>3. DOMAIN form' = Staff /\ FormOK(c)' /\ \A d \in Staff \ {c} : form'[d] = form[d]
    <3>1. CASE form' = form
      BY <1>6, <3>1
    <3>2. CASE form' = [form EXCEPT ![c] = NoForm]
      BY <3>2 DEF FormOK, IInv, Requests, NoForm
    <3> QED
      BY <1>9, <3>1, <3>2
  <2> QED
    BY <1>4, <1>5, <2>1, <2>2, <2>3
<1> QED
  BY <1>7, <1>8, <1>9 DEF Log

-----------------------------------------------------------------------------
(* Editing in the list.                                                    *)

LEMMA Selections ==
  ASSUME TypeOK, NEW pks \in scene.selections
  PROVE  pks \in Seq(Pks)
BY SceneAssumption DEF TypeOK

LEMMA SavePostInv ==
  ASSUME IInv, NEW c \in Staff, NEW order \in scene.selections, NEW edits \in scene.edits,
         SavePost(c, order, edits)
  PROVE  IInv'
<1> DEFINE fields == DOMAIN edits \cap Editable
           body == [f \in fields |-> edits[f]]
           w == [call |-> "save", pks |-> order, entries |-> <<>>, body |-> body]
<1>1. requests' \in 0..scene.bounds[2] /\ faults' \in 0..scene.bounds[3] /\ pc[c] = "idle"
  BY RequestCounted DEF IInv, SavePost
<1>2. UNCHANGED <<scene, rows, children, form, log, last, deleted, lost, writes>>
  BY DEF SavePost, NoWrite, history
<1>3. FormOK(c)' /\ DOMAIN form' = Staff
  BY <1>2, QuietForm DEF IInv, Requests
<1>4. CASE \E status : Answer(c, "save", status)
  BY <1>1, <1>2, <1>3, <1>4, AnswerInv
<1>5. CASE Start(c, "update", w)
  <2>1. pc'[c] = "update" /\ work'[c] = w
    BY <1>5, Started DEF IInv
  <2>2. IsBody(body) /\ DOMAIN body \subseteq Editable
    BY Edits DEF IsBody, IInv
  <2>3. order \in Seq(Pks) \ {<<>>}
    BY Selections DEF IInv, SavePost
  <2> HIDE DEF body
  <2>4. SaveOK(w) /\ PksOK(w) /\ w.call = "save"
    BY <2>2, <2>3 DEF SaveOK, PksOK
  <2> HIDE DEF w
  <2>5. RequestOK(c)'
    BY <2>1, <2>4 DEF RequestOK, SaveOK, PksOK, IsBody
  <2>6. "update" \in Steps
    BY DEF Steps
  <2> QED
    BY <1>1, <1>2, <1>3, <1>5, <2>5, <2>6, QuietInv
<1> QED
  BY <1>4, <1>5 DEF SavePost

(* The row that editing in the list writes.                                *)
ListRow(c) ==
  LET body == work[c].body
      p == Head(work[c].pks) IN
  [f \in Fields |-> IF f \in SetByForm(body) THEN Parsed(f, Raw(body, f)) ELSE rows[p][f]]

LEMMA Saving ==
  ASSUME IInv, NEW c \in Staff, pc[c] = "update", work[c].call = "save"
  PROVE  /\ PksOK(work[c]) /\ SaveOK(work[c]) /\ Head(work[c].pks) \in Pks
         /\ Tail(work[c].pks) \in Seq(Pks)
<1>1. PksOK(work[c]) /\ SaveOK(work[c])
  BY DEF IInv, Requests, RequestOK, NoWork
<1> QED
  BY <1>1 DEF PksOK

LEMMA ListRowKeeps ==
  ASSUME IInv, NEW c \in Staff, pc[c] = "update", work[c].call = "save",
         Visible(c, Head(work[c].pks)),
         ~\E f \in DOMAIN work[c].body : Rejected(f, work[c].body[f]), UNCHANGED scene,
         last' = [call |-> "save", user |-> c, before |-> rows[Head(work[c].pks)],
                  after |-> ListRow(c), opened |-> rows[Head(work[c].pks)],
                  edited |-> DOMAIN work[c].body, stale |-> FALSE, body |-> work[c].body]
  PROVE  IsRow(ListRow(c)) /\ FormsKeepTheRest'
<1> DEFINE body == work[c].body
           before == rows[Head(work[c].pks)]
<1>1. IsBody(body) /\ DOMAIN body \subseteq Editable
  BY Saving DEF SaveOK
<1>2. /\ \A f \in DOMAIN body : ListRow(c)[f] = Parsed(f, body[f])
      /\ \A f \in Fields \ DOMAIN body : ListRow(c)[f] = before[f]
      /\ DOMAIN ListRow(c) = Fields
  BY <1>1 DEF IsBody, ListRow, SetByForm, Raw
<1>3. ASSUME NEW f \in DOMAIN body PROVE Fits(f, ListRow(c)[f])
  <2>1. f \in Fields /\ Kind[f] \in {"text", "int"} /\ Enterable(f, body[f]) /\ ~Rejected(f, body[f])
    BY <1>1, RegisteredAssumption DEF IsBody, Registered
  <2>2. Parsed(f, body[f]) # Null \/ f \in Nullable
    BY <2>1 DEF Rejected, Parsed, Enterable
  <2> QED
    BY <1>2, <2>1, <2>2, ParsedFits
<1>4. \A f \in Fields \ DOMAIN body : Fits(f, ListRow(c)[f])
  BY <1>2, RowFits DEF IInv, Visible
<1>5. IsRow(ListRow(c))
  BY <1>2, <1>3, <1>4 DEF IsRow
<1>6. Tenant(c)' = Tenant(c) /\ (Tenant(c) # NoTenant => before.team = Tenant(c))
  BY DEF Tenant, Visible
<1> HIDE DEF before, body
<1>7. /\ last'.call = "save" /\ last'.user = c /\ last'.before = before
      /\ last'.after = ListRow(c) /\ last'.edited = DOMAIN body /\ last'.body = body
      /\ last'.opened = before
  BY DEF before, body
<1>8. \A f \in Fields \ last'.edited : last'.after[f] = last'.opened[f]
  BY <1>2, <1>7
<1>9. \A f \in last'.edited \cap DOMAIN last'.body : last'.after[f] = Parsed(f, last'.body[f])
  BY <1>2, <1>7
<1>10. (Tenant(last.user) # NoTenant => last.before.team = Tenant(last.user))'
  BY <1>6, <1>7 DEF Tenant
<1>11. FormsKeepTheRest'
  BY <1>7, <1>8, <1>9, <1>10 DEF FormsKeepTheRest, Parsed
<1> QED
  BY <1>5, <1>11

LEMMA UpdateFieldsInv ==
  ASSUME IInv, NEW c \in Staff, UpdateFields(c)
  PROVE  IInv'
<1> DEFINE p == Head(work[c].pks)
           rest == [work[c] EXCEPT !.pks = Tail(@)]
           body == work[c].body
           entry == Plain(p, "changed", c)
           w == [rest EXCEPT !.entries = <<entry>>]
           rejected == \E f \in DOMAIN body : Rejected(f, body[f])
<1>1. pc[c] = "update" /\ work[c].call = "save"
  BY DEF UpdateFields
<1>2. PksOK(work[c]) /\ SaveOK(work[c]) /\ p \in Pks /\ Tail(work[c].pks) \in Seq(Pks)
  BY <1>1, Saving
<1>3. requests' \in 0..scene.bounds[2] /\ faults' \in 0..scene.bounds[3]
  BY CountersKept DEF IInv, UpdateFields
<1>4. UNCHANGED <<scene, children, log, deleted, lost, counters>>
  BY DEF UpdateFields
<1>5. /\ rest.pks = Tail(work[c].pks) /\ rest.call = "save" /\ rest.body = body
      /\ DOMAIN rest = DOMAIN work[c]
  BY <1>1, <1>2 DEF SaveOK
<1>6. CASE rejected
  <2>1. UNCHANGED <<rows, writes, form, last>>
    BY <1>6 DEF UpdateFields, NoWrite
  <2>2. FormOK(c)' /\ DOMAIN form' = Staff
    BY <2>1, QuietForm DEF IInv, Requests
  <2>3. CASE Answer(c, "save", "errors")
    BY <1>1, <1>3, <1>4, <2>1, <2>2, <2>3, AnswerInv
  <2>4. CASE rest.pks # <<>> /\ Start(c, "update", rest)
    <3> HIDE DEF rest
    <3>1. pc'[c] = "update" /\ work'[c] = rest
      BY <2>4, Started DEF IInv
    <3>2. SaveOK(rest) /\ PksOK(rest)
      BY <1>2, <1>5, <2>4 DEF SaveOK, PksOK
    <3>3. RequestOK(c)'
      BY <1>5, <3>1, <3>2 DEF RequestOK, SaveOK, PksOK, IsBody
    <3>4. "update" \in Steps
      BY DEF Steps
    <3> QED
      BY <1>1, <1>3, <1>4, <2>1, <2>2, <2>4, <3>3, <3>4, QuietInv
  <2> QED
    BY <1>6, <2>3, <2>4 DEF UpdateFields
<1>7. ASSUME ~rejected
      PROVE  /\ pc' = [pc EXCEPT ![c] = "log"]
             /\ work' = Overtake(c, {p}, [work EXCEPT ![c] = w])
             /\ Head(w.entries).flag # "deleted" /\ RequestOK(c)'
  <2>1. pc' = [pc EXCEPT ![c] = "log"] /\ work' = Overtake(c, {p}, [work EXCEPT ![c] = w])
    BY <1>7 DEF UpdateFields
  <2>2. entry \in Entry /\ entry.flag = "changed" /\ entry.exact # TRUE
    BY ZenonT(60), <1>2, PlainEntry DEF Flags
  <2> HIDE DEF entry, rest
  <2>3. /\ w.entries = <<entry>> /\ w.pks = rest.pks /\ w.call = "save" /\ w.body = body
        /\ DOMAIN w = DOMAIN work[c]
    BY <1>2, <1>5 DEF SaveOK
  <2> HIDE DEF w
  <2>4. EntriesOK(w) /\ Head(w.entries) = entry
    BY <2>2, <2>3, OneEntry
  <2>5. SaveOK(w) /\ w.pks \in Seq(Pks)
    BY <1>2, <1>5, <2>3 DEF SaveOK
  <2>6. pc'[c] = "log" /\ work'[c] = w
    BY ZenonT(60), <1>1, <2>1, <2>2, <2>4, ToLog DEF IInv
  <2>7. {"call", "pks", "entries"} \subseteq DOMAIN w
    BY <2>5 DEF SaveOK
  <2>8. RequestOK(c)'
    BY <2>3, <2>4, <2>5, <2>6, <2>7 DEF RequestOK, EntriesOK, SaveOK, IsBody
  <2> QED
    BY <2>1, <2>2, <2>4, <2>8
<1>8. CASE ~rejected /\ Visible(c, p)
  <2>1. Write([rows EXCEPT ![p] = ListRow(c)], {p})
    BY <1>8 DEF UpdateFields, ListRow
  <2>2. p \in DOMAIN rows
    BY SMTT(30), <1>8 DEF Visible
  <2>3. IsRow(ListRow(c)) /\ FormsKeepTheRest'
    BY <1>1, <1>4, <1>8, ListRowKeeps DEF UpdateFields, ListRow
  <2> HIDE DEF p, w, rejected
  <2> QED
    BY <1>1, <1>4, <1>7, <1>8, <2>1, <2>2, <2>3, UpdatedInv
<1>9. CASE ~rejected /\ ~Visible(c, p)
  <2>1. UNCHANGED <<rows, writes, form, last>>
    BY <1>9 DEF UpdateFields, NoWrite
  <2> HIDE DEF p, w, rejected
  <2> QED
    BY <1>1, <1>4, <1>7, <1>9, <2>1, MissedInv
<1> QED
  BY <1>6, <1>8, <1>9

-----------------------------------------------------------------------------
(* A new row.                                                              *)

LEMMA AddPostInv ==
  ASSUME IInv, NEW c \in Staff, NEW edits \in scene.edits, AddPost(c, edits)
  PROVE  IInv'
<1> DEFINE body == Submitted([f \in Fields |-> Empty], edits)
           row == RowOf(body)
<1>1. requests' \in 0..scene.bounds[2] /\ faults' \in 0..scene.bounds[3] /\ pc[c] = "idle"
  BY RequestCounted DEF IInv, AddPost
<1>2. UNCHANGED <<scene, children, log, last, deleted, lost>>
  BY DEF AddPost, history
<1>3. CASE (\E status : Answer(c, "add", status)) /\ NoWrite
  <2>1. UNCHANGED <<rows, writes, form>>
    BY <1>3 DEF NoWrite
  <2>2. FormOK(c)' /\ DOMAIN form' = Staff
    BY <2>1, QuietForm DEF IInv, Requests
  <2> QED
    BY <1>1, <1>2, <1>3, <2>1, <2>2, AnswerInv
<1>4. ASSUME NEW p \in Pks \ DOMAIN rows, Errors(body) = {}, ~NotNullFails(row),
             Write([q \in DOMAIN rows \cup {p} |-> IF q = p THEN row ELSE rows[q]], {}),
             pc' = [pc EXCEPT ![c] = "log"],
             work' = Overtake(c, {p}, [work EXCEPT ![c] =
               [call |-> "add", pks |-> <<>>, entries |-> <<Plain(p, "added", c)>>]])
      PROVE  IInv'
  <2> DEFINE entry == Plain(p, "added", c)
             w == [call |-> "add", pks |-> <<>>, entries |-> <<entry>>]
             new == [q \in DOMAIN rows \cup {p} |-> IF q = p THEN row ELSE rows[q]]
  <2>1. IsRow(row)
    <3>1. \A f \in Fields : Enterable(f, [g \in Fields |-> Empty][f])
      BY Texts DEF Enterable
    <3>2. IsBody(body)
      BY <3>1, Edits, SubmittedIsBody DEF IInv
    <3> QED
      BY <1>4, <3>2, RowOfIsRow
  <2>2. /\ writes' \in 0..scene.bounds[1] /\ rows' = new
        /\ RowsOutside({p})
        /\ DOMAIN rows' \subseteq Pks /\ \A q \in DOMAIN rows' : IsRow(rows'[q])
        /\ \A k \in DOMAIN children' : children'[k] \in DOMAIN rows'
    <3>1. writes' \in 0..scene.bounds[1] /\ rows' = new
      BY <1>2, <1>4, WriteCounted DEF IInv
    <3> HIDE DEF row
    <3> QED
      BY <1>2, <2>1, <3>1 DEF IInv, TypeOK, RowsOutside
  <2>3. DOMAIN form' = Staff /\ \A d \in Staff : FormStep(d, {p})
    <3>1. DOMAIN form' = Staff /\ \A d \in Staff : form'[d] = form[d]
      BY <1>4 DEF Write
    <3>2. \A d \in Staff : form[d] = NoForm \/ form[d].stale = TRUE \/ form[d].pk # p
      BY <1>4 DEF IInv, Requests, FormOK
    <3> QED
      BY <3>1, <3>2 DEF FormStep
  <2>4. entry \in Entry /\ entry.flag = "added" /\ entry.exact # TRUE
    <3>1. "added" \in Flags /\ p \in Pks
      BY DEF Flags
    <3> QED
      BY ZenonT(60), <3>1, PlainEntry
  <2> HIDE DEF entry, new
  <2>5. EntriesOK(w) /\ Head(w.entries) = entry
    BY <2>4, OneEntry
  <2>6. w.call = "add" /\ w.pks = <<>> /\ DOMAIN w = {"call", "pks", "entries"}
        /\ work' = Overtake(c, {p}, [work EXCEPT ![c] = w])
    BY <1>4 DEF entry
  <2> HIDE DEF w
  <2>7. /\ pc' \in [Staff -> Steps] /\ pc'[c] = "log" /\ work'[c] = w
        /\ DOMAIN [work EXCEPT ![c] = w] = Staff
        /\ \A d \in Staff \ {c} : [work EXCEPT ![c] = w][d] = work[d] /\ pc'[d] = pc[d]
        /\ OthersPend(c) /\ ~Deletes(c) /\ ~Deletes(c)'
    BY <1>1, <1>4, <2>4, <2>5, <2>6, ToLog DEF IInv
  <2>8. RequestOK(c)'
    <3>1. pc'[c] = "log" /\ work'[c] = w
      BY <2>7
    <3>2. w.call = "add" /\ w.pks = <<>> /\ {"call", "pks", "entries"} \subseteq DOMAIN w
      BY <2>6
    <3>3. w.pks \in Seq(Pks)
      BY <3>2
    <3> QED
      BY <2>5, <3>1, <3>2, <3>3 DEF RequestOK, EntriesOK
  <2>9. Requests'
    BY <1>2, <2>2, <2>3, <2>6, <2>7, <2>8, Written DEF IInv
  <2>10. TypeOK'
    BY <1>1, <1>2, <2>2, <2>9, TypeLater DEF IInv, TypeOK
  <2>11. AuditTrail'
    BY <1>2, <2>7, SameTrail DEF IInv
  <2>12. FormsKeepTheRest'
    BY <1>2, SameForms DEF IInv
  <2> QED
    BY <2>9, <2>10, <2>11, <2>12 DEF IInv
<1> QED
  BY <1>3, <1>4 DEF AddPost

-----------------------------------------------------------------------------
(* Requests that begin, or go on to their next row, without a write.       *)

LEMMA IdleFrame ==
  ASSUME IInv, NEW c \in Staff, UNCHANGED rows, UNCHANGED form
  PROVE  FormOK(c)' /\ DOMAIN form' = Staff /\ \A d \in Staff \ {c} : form'[d] = form[d]
BY QuietForm DEF IInv, Requests

LEMMA DeletePostInv ==
  ASSUME IInv, NEW c \in Staff, NEW p \in Pks, DeletePost(c, p)
  PROVE  IInv'
<1> DEFINE w == [call |-> "delete", pks |-> <<p>>, entries |-> <<>>]
<1>1. requests' \in 0..scene.bounds[2] /\ faults' \in 0..scene.bounds[3] /\ pc[c] = "idle"
  BY RequestCounted DEF IInv, DeletePost
<1>2. UNCHANGED <<scene, rows, children, form, log, last, deleted, lost, writes>>
  BY DEF DeletePost, NoWrite, history
<1>3. CASE Answer(c, "delete", 403)
  BY <1>1, <1>2, <1>3, IdleFrame, AnswerInv
<1>4. CASE Start(c, "check", w)
  <2>1. pc'[c] = "check" /\ work'[c] = w
    BY <1>4, Started DEF IInv
  <2>2. RequestOK(c)'
    BY <2>1 DEF RequestOK, PksOK
  <2>3. "check" \in Steps
    BY DEF Steps
  <2> QED
    BY <1>1, <1>2, <1>4, <2>2, <2>3, IdleFrame, QuietInv
<1> QED
  BY <1>3, <1>4 DEF DeletePost

LEMMA BulkDeletePostInv ==
  ASSUME IInv, NEW c \in Staff, NEW pks \in scene.selections, NEW confirmed,
         BulkDeletePost(c, pks, confirmed)
  PROVE  IInv'
<1> DEFINE w == [call |-> "bulk", pks |-> pks, entries |-> <<>>]
<1>1. requests' \in 0..scene.bounds[2] /\ faults' \in 0..scene.bounds[3] /\ pc[c] = "idle"
  BY RequestCounted DEF IInv, BulkDeletePost
<1>2. UNCHANGED <<scene, rows, children, form, log, last, deleted, lost, writes>>
  BY DEF BulkDeletePost, NoWrite, history
<1>3. CASE \E status : Answer(c, "bulk", status)
  BY <1>1, <1>2, <1>3, IdleFrame, AnswerInv
<1>4. CASE pks # <<>> /\ Start(c, "check", w)
  <2>1. pc'[c] = "check" /\ work'[c] = w /\ pks \in Seq(Pks)
    BY <1>4, Started, Selections DEF IInv
  <2>2. RequestOK(c)'
    BY <1>4, <2>1 DEF RequestOK, PksOK
  <2>3. "check" \in Steps
    BY DEF Steps
  <2> QED
    BY <1>1, <1>2, <1>4, <2>2, <2>3, IdleFrame, QuietInv
<1> QED
  BY <1>3, <1>4 DEF BulkDeletePost

LEMMA ActionPostInv ==
  ASSUME IInv, NEW c \in Staff, NEW pks \in scene.selections, NEW known, NEW confirmed,
         ActionPost(c, pks, known, confirmed)
  PROVE  IInv'
<1> DEFINE entries == [i \in DOMAIN pks |-> Plain(pks[i], "changed", c)]
           w == [call |-> "action", pks |-> pks, entries |-> entries]
<1>1. requests' \in 0..scene.bounds[2] /\ faults' \in 0..scene.bounds[3] /\ pc[c] = "idle"
  BY RequestCounted DEF IInv, ActionPost
<1>2. UNCHANGED <<scene, rows, children, form, log, last, deleted, lost, writes>>
  BY DEF ActionPost, NoWrite, history
<1>3. CASE \E status : Answer(c, "action", status)
  BY <1>1, <1>2, <1>3, IdleFrame, AnswerInv
<1>4. CASE pks # <<>> /\ Start(c, "act", w)
  <2>1. pc'[c] = "act" /\ work'[c] = w /\ pks \in Seq(Pks)
    BY <1>4, Started, Selections DEF IInv
  <2>2. ASSUME NEW i \in DOMAIN pks
        PROVE  /\ entries[i] \in Entry /\ entries[i].flag = "changed"
               /\ entries[i].exact # TRUE
    <3>1. pks[i] \in Pks /\ "changed" \in Flags
      BY <2>1 DEF Flags
    <3> QED
      BY <3>1, PlainEntry
  <2>3. DOMAIN pks = 1..Len(pks) /\ Len(pks) \in Nat \ {0}
    BY <1>4, <2>1
  <2>4. entries \in Seq(Entry) \ {<<>>} /\ DOMAIN entries = DOMAIN pks
    <3>1. entries \in [1..Len(pks) -> Entry]
      BY <2>2, <2>3
    <3>2. entries \in Seq(Entry) /\ DOMAIN entries = 1..Len(pks)
      BY <2>3, <3>1
    <3>3. 1 \in DOMAIN entries
      BY <2>3, <3>2
    <3>4. entries # <<>>
      BY <3>3
    <3> QED
      BY <2>3, <3>2, <3>4
  <2> HIDE DEF entries
  <2>5. EntriesOK(w) /\ PksOK(w) /\ w.call = "action" /\ DOMAIN w = {"call", "pks", "entries"}
        /\ \A i \in DOMAIN w.entries : w.entries[i].flag = "changed"
    BY <1>4, <2>1, <2>2, <2>4 DEF EntriesOK, PksOK
  <2> HIDE DEF w
  <2>6. RequestOK(c)'
    BY <2>1, <2>5 DEF RequestOK, EntriesOK, PksOK
  <2>7. "act" \in Steps
    BY DEF Steps
  <2> QED
    BY <1>1, <1>2, <1>4, <2>6, <2>7, IdleFrame, QuietInv
<1> QED
  BY <1>3, <1>4 DEF ActionPost

(* A request that deletes.                                                 *)
LEMMA Deleting ==
  ASSUME IInv, NEW c \in Staff, pc[c] \in {"check", "scope", "erase"}
  PROVE  /\ work[c].call \in {"delete", "bulk"} /\ PksOK(work[c])
         /\ {"call", "pks", "entries"} \subseteq DOMAIN work[c]
         /\ Head(work[c].pks) \in Pks /\ Tail(work[c].pks) \in Seq(Pks)
<1>1. /\ work[c].call \in {"delete", "bulk"} /\ PksOK(work[c])
      /\ {"call", "pks", "entries"} \subseteq DOMAIN work[c]
  BY DEF IInv, Requests, RequestOK
<1> QED
  BY <1>1 DEF PksOK

LEMMA DeleteStepInv ==
  ASSUME IInv, NEW c \in Staff, pc[c] \in {"check", "scope", "erase"},
         NEW step \in {"check", "scope", "erase"},
         NEW w, Start(c, step, w), w.call = work[c].call, DOMAIN w = DOMAIN work[c], PksOK(w),
         UNCHANGED <<scene, rows, children, form, log, last, deleted, lost, writes, counters>>
  PROVE  IInv'
<1>1. pc'[c] = step /\ work'[c] = w
  BY Started DEF IInv
<1>2. RequestOK(c)'
  BY <1>1, Deleting DEF RequestOK, PksOK
<1>3. step \in Steps /\ requests' \in 0..scene.bounds[2] /\ faults' \in 0..scene.bounds[3]
  BY CountersKept DEF Steps, IInv
<1> QED
  BY <1>2, <1>3, IdleFrame, QuietInv

LEMMA LongerThanOne ==
  ASSUME NEW S, NEW s \in Seq(S), Len(s) > 1
  PROVE  Tail(s) \in Seq(S) \ {<<>>}
<1>1. s # <<>> /\ Len(s) \in Nat
  OBVIOUS
<1>2. Tail(s) \in Seq(S) /\ Len(Tail(s)) = Len(s) - 1
  BY <1>1
<1>3. Len(Tail(s)) # 0
  BY <1>1, <1>2
<1>4. \A t : t = <<>> => Len(t) = 0
  OBVIOUS
<1> QED
  BY <1>2, <1>3, <1>4

LEMMA ContinueInv ==
  ASSUME IInv, NEW c \in Staff, pc[c] \in {"check", "scope", "erase"},
         NEW status, Continue(c, status),
         UNCHANGED <<scene, rows, children, form, log, last, deleted, lost, writes, counters>>
  PROVE  IInv'
<1> DEFINE w == [work[c] EXCEPT !.pks = Tail(@)]
<1>1. CASE Len(work[c].pks) > 1 /\ Start(c, "check", w)
  <2>1. w.call = work[c].call /\ DOMAIN w = DOMAIN work[c] /\ w.pks = Tail(work[c].pks)
    BY Deleting
  <2> HIDE DEF w
  <2>2. Tail(work[c].pks) # <<>>
    BY <1>1, Deleting, LongerThanOne DEF PksOK
  <2>3. PksOK(w)
    BY <2>1, <2>2, Deleting DEF PksOK
  <2> QED
    BY <1>1, <2>1, <2>3, DeleteStepInv
<1>2. CASE \E s : Answer(c, work[c].call, s)
  <2>1. requests' \in 0..scene.bounds[2] /\ faults' \in 0..scene.bounds[3]
    BY CountersKept DEF IInv
  <2> QED
    BY <1>2, <2>1, IdleFrame, AnswerInv
<1> QED
  BY <1>1, <1>2 DEF Continue

LEMMA CheckRelatedInv ==
  ASSUME IInv, NEW c \in Staff, CheckRelated(c)
  PROVE  IInv'
<1>1. UNCHANGED <<scene, rows, children, form, log, last, deleted, lost, writes, counters>>
      /\ pc[c] = "check"
  BY DEF CheckRelated, NoWrite, history
<1>2. CASE Continue(c, 400)
  BY <1>1, <1>2, ContinueInv
<1>3. CASE \E step \in {"scope", "erase"} : Start(c, step, work[c])
  BY <1>1, <1>3, Deleting, DeleteStepInv
<1> QED
  BY <1>2, <1>3 DEF CheckRelated

LEMMA CheckScopeInv ==
  ASSUME IInv, NEW c \in Staff, CheckScope(c)
  PROVE  IInv'
<1>1. UNCHANGED <<scene, rows, children, form, log, last, deleted, lost, writes, counters>>
      /\ pc[c] = "scope"
  BY DEF CheckScope, NoWrite, history
<1>2. CASE Continue(c, 404)
  BY <1>1, <1>2, ContinueInv
<1>3. CASE Start(c, "erase", work[c])
  BY <1>1, <1>3, Deleting, DeleteStepInv
<1> QED
  BY <1>2, <1>3 DEF CheckScope

-----------------------------------------------------------------------------
(* Statements that delete a row.                                           *)

LEMMA TableErased ==
  ASSUME TypeOK, NEW p \in DOMAIN rows, rows' = Restrict(rows, DOMAIN rows \ {p}),
         ~\E k \in DOMAIN children : children[k] = p, UNCHANGED children
  PROVE  /\ RowsOutside({p}) /\ p \in Pks
         /\ DOMAIN rows' \subseteq Pks /\ \A q \in DOMAIN rows' : IsRow(rows'[q])
         /\ \A k \in DOMAIN children' : children'[k] \in DOMAIN rows'
<1>1. rows' = [q \in DOMAIN rows \ {p} |-> rows[q]]
  BY DEF Restrict
<1> QED
  BY <1>1 DEF TypeOK, RowsOutside

LEMMA WroteInv ==
  ASSUME IInv, NEW c, NEW p \in Pks, NEW new, Write(new, {p}), RowsOutside({p}),
         DOMAIN rows' \subseteq Pks, \A q \in DOMAIN rows' : IsRow(rows'[q]),
         \A k \in DOMAIN children' : children'[k] \in DOMAIN rows',
         NEW w, DOMAIN w = Staff, \A d \in Staff \ {c} : w[d] = work[d] /\ pc'[d] = pc[d],
         pc' \in [Staff -> Steps], work' = Overtake(c, {p}, w), c \in Staff => RequestOK(c)',
         UNCHANGED <<scene, log, last, lost, counters>>,
         deleted' \in [Pks -> Nat], AuditTrail'
  PROVE  IInv'
<1>1. writes' \in 0..scene.bounds[1]
  BY WriteCounted DEF IInv
<1>2. requests' \in 0..scene.bounds[2] /\ faults' \in 0..scene.bounds[3]
  BY CountersKept DEF IInv
<1>3. Requests'
  BY FormsOnWrite, Written DEF IInv
<1>4. TypeOK'
  BY <1>1, <1>2, <1>3, TypeLater DEF IInv, TypeOK
<1>5. FormsKeepTheRest'
  BY SameForms DEF IInv
<1> QED
  BY <1>3, <1>4, <1>5 DEF IInv

LEMMA PendingMore ==
  ASSUME IInv, NEW c \in Staff, OthersPend(c), ~Deletes(c), Deletes(c)', NEW p \in Pks
  PROVE  Cardinality(PendingDeletions(p)') =
           IF p = Head(work'[c].entries).pk THEN Cardinality(PendingDeletions(p)) + 1
                                            ELSE Cardinality(PendingDeletions(p))
<1>1. c \notin PendingDeletions(p)
  BY DEF PendingDeletions, Deletes
<1>2. IsFiniteSet(PendingDeletions(p))
  BY Counted DEF IInv
<1>3. CASE p = Head(work'[c].entries).pk
  <2>1. PendingDeletions(p)' = PendingDeletions(p) \cup {c}
    BY <1>3 DEF PendingDeletions, OthersPend, Deletes
  <2> QED
    BY <1>1, <1>2, <1>3, <2>1, FS_AddElement
<1>4. CASE p # Head(work'[c].entries).pk
  <2>1. PendingDeletions(p)' = PendingDeletions(p)
    BY <1>1, <1>4 DEF PendingDeletions, OthersPend, Deletes
  <2> QED
    BY <1>4, <2>1
<1> QED
  BY <1>3, <1>4

(* A row is deleted: its entry is pending.                                 *)
LEMMA EraseTrail ==
  ASSUME IInv, NEW c \in Staff, NEW p \in Pks, OthersPend(c), ~Deletes(c), Deletes(c)',
         Head(work'[c].entries).pk = p, deleted' = [deleted EXCEPT ![p] = @ + 1],
         UNCHANGED <<scene, log, lost>>
  PROVE  AuditTrail' /\ deleted' \in [Pks -> Nat]
<1> DEFINE L(q) == Cardinality(LoggedDeletions(q))
           P(q) == Cardinality(PendingDeletions(q))
<1>1. deleted \in [Pks -> Nat] /\ deleted' \in [Pks -> Nat] /\ lost \in Nat
  BY DEF IInv, TypeOK
<1>2. ASSUME NEW q \in Pks
      PROVE  /\ L(q)' + P(q)' <= deleted'[q]
             /\ scene.logged => deleted'[q] <= L(q)' + P(q)' + lost
  <2>1. /\ L(q) \in Nat /\ P(q) \in Nat
        /\ L(q) + P(q) <= deleted[q]
        /\ scene.logged => deleted[q] <= L(q) + P(q) + lost
    BY Counted DEF IInv, AuditTrail
  <2>2. L(q)' = L(q)
    <3>1. LoggedDeletions(q)' = LoggedDeletions(q)
      BY DEF LoggedDeletions
    <3> QED
      BY <3>1
  <2>3. P(q)' = IF q = p THEN P(q) + 1 ELSE P(q)
    BY PendingMore
  <2>4. deleted'[q] = IF q = p THEN deleted[q] + 1 ELSE deleted[q]
    BY <1>1
  <2> HIDE DEF L, P
  <2> QED
    BY <1>1, <2>1, <2>2, <2>3, <2>4
<1> QED
  BY <1>1, <1>2 DEF IInv, AuditTrail

LEMMA EraseInv ==
  ASSUME IInv, NEW c \in Staff, Erase(c)
  PROVE  IInv'
<1> DEFINE p == Head(work[c].pks)
           referred == \E k \in DOMAIN children : children[k] = p
           entry == Plain(p, "deleted", c)
           w == [call |-> work[c].call, pks |-> Tail(work[c].pks), entries |-> <<entry>>]
<1>1. UNCHANGED <<scene, children, log, last, lost, counters>> /\ pc[c] = "erase"
  BY DEF Erase
<1>2. /\ work[c].call \in {"delete", "bulk"} /\ PksOK(work[c])
      /\ p \in Pks /\ Tail(work[c].pks) \in Seq(Pks)
  BY <1>1, Deleting
<1>3. requests' \in 0..scene.bounds[2] /\ faults' \in 0..scene.bounds[3]
  BY <1>1, CountersKept DEF IInv
<1>4. CASE Answer(c, work[c].call, 500) /\ NoWrite /\ UNCHANGED deleted
  <2>1. UNCHANGED <<rows, form, writes, deleted>>
    BY <1>4 DEF NoWrite
  <2> QED
    BY <1>1, <1>3, <1>4, <2>1, IdleFrame, AnswerInv
<1>5. CASE Continue(c, 404) /\ NoWrite /\ UNCHANGED deleted
  <2>1. UNCHANGED <<rows, form, writes, deleted>>
    BY <1>5 DEF NoWrite
  <2> QED
    BY <1>1, <1>5, <2>1, ContinueInv
<1>6. CASE /\ ~referred /\ Erased(p)
           /\ Write(Restrict(rows, DOMAIN rows \ {p}), {p})
           /\ deleted' = [deleted EXCEPT ![p] = IF p \in DOMAIN rows THEN @ + 1 ELSE @]
           /\ pc' = [pc EXCEPT ![c] = "log"]
           /\ work' = Overtake(c, {p}, [work EXCEPT ![c] = w])
  <2>1. p \in DOMAIN rows
    BY <1>6 DEF Erased
  <2>2. /\ RowsOutside({p})
        /\ DOMAIN rows' \subseteq Pks /\ \A q \in DOMAIN rows' : IsRow(rows'[q])
        /\ \A k \in DOMAIN children' : children'[k] \in DOMAIN rows'
    <3>1. rows' = Restrict(rows, DOMAIN rows \ {p})
      BY <1>6 DEF Write
    <3> QED
      BY <1>1, <1>6, <2>1, <3>1, TableErased DEF IInv
  <2>3. entry \in Entry /\ entry.flag = "deleted" /\ entry.pk = p /\ entry.exact # TRUE
    <3>1. "deleted" \in Flags
      BY DEF Flags
    <3> QED
      BY ZenonT(60), <1>2, <3>1, PlainEntry
  <2> HIDE DEF entry
  <2>4. EntriesOK(w) /\ Head(w.entries) = entry
    BY <2>3, OneEntry
  <2>5. /\ w.call = work[c].call /\ w.pks = Tail(work[c].pks)
        /\ {"call", "pks", "entries"} \subseteq DOMAIN w
    OBVIOUS
  <2> HIDE DEF w
  <2> DEFINE v == [work EXCEPT ![c] = w]
  <2>6. /\ pc' \in [Staff -> Steps] /\ pc'[c] = "log" /\ DOMAIN v = Staff /\ v[c] = w
        /\ \A d \in Staff \ {c} : v[d] = work[d] /\ pc'[d] = pc[d]
    BY <1>6 DEF IInv, Requests, Steps
  <2>7. work' = Overtake(c, {p}, v)
    BY <1>6
  <2> HIDE DEF v
  <2>8. OthersPend(c) /\ work'[c] = w
    BY <2>6, <2>7, OvertakePends DEF IInv
  <2>9. RequestOK(c)'
    BY <1>2, <2>4, <2>5, <2>6, <2>8 DEF RequestOK, EntriesOK
  <2>10. ~Deletes(c) /\ Deletes(c)'
    BY <1>1, <2>3, <2>4, <2>6, <2>8 DEF Deletes
  <2>11. AuditTrail' /\ deleted' \in [Pks -> Nat]
    <3>1. Head(work'[c].entries).pk = p
      BY <2>3, <2>4, <2>8
    <3>2. deleted' = [deleted EXCEPT ![p] = @ + 1]
      BY <1>6, <2>1
    <3> QED
      BY <1>1, <1>2, <2>8, <2>10, <3>1, <3>2, EraseTrail
  <2> HIDE DEF p
  <2> QED
    BY <1>1, <1>2, <1>6, <2>2, <2>6, <2>7, <2>9, <2>11, WroteInv
<1> QED
  BY <1>4, <1>5, <1>6 DEF Erase

(* A row that the program or an action writes: no entry is about that.     *)
LEMMA OthersWriteInv ==
  ASSUME IInv, NEW c, c \notin Staff, NEW p \in Pks, NEW new, Write(new, {p}),
         RowsOutside({p}), DOMAIN rows' \subseteq Pks, \A q \in DOMAIN rows' : IsRow(rows'[q]),
         \A k \in DOMAIN children' : children'[k] \in DOMAIN rows',
         work' = Overtake(c, {p}, work),
         UNCHANGED <<scene, log, pc, last, deleted, lost, counters>>
  PROVE  IInv'
<1>1. DOMAIN work = Staff /\ pc' \in [Staff -> Steps] /\ deleted' \in [Pks -> Nat]
  BY DEF IInv, Requests, TypeOK
<1>2. OthersPend(c)
  BY OvertakePends DEF IInv
<1>3. \A q : PendingDeletions(q)' = PendingDeletions(q) /\ LoggedDeletions(q)' = LoggedDeletions(q)
  BY <1>2 DEF PendingDeletions, LoggedDeletions, OthersPend
<1>4. AuditTrail'
  BY <1>3 DEF IInv, AuditTrail
<1> QED
  BY <1>1, <1>4, WroteInv

LEMMA BumpInv ==
  ASSUME IInv, NEW p \in Pks, Bump(p)
  PROVE  IInv'
<1> DEFINE new == [rows[p] EXCEPT !.count = @ + 1]
<1>1. p \in DOMAIN rows /\ Write([rows EXCEPT ![p].count = @ + 1], {p})
      /\ UNCHANGED <<scene, children, log, pc, last, deleted, lost, counters>>
      /\ work' = Overtake(Null, {p}, work)
  BY DEF Bump, history
<1>2. rows' = [rows EXCEPT ![p] = new]
  BY <1>1 DEF Write
<1>3. IsRow(new)
  <2>1. IsRow(rows[p]) /\ "count" \in Fields /\ Kind["count"] = "int" /\ "count" \notin Nullable
    BY <1>1, RegisteredAssumption DEF IInv, TypeOK, Registered
  <2>2. rows[p].count \in Int
    BY <2>1 DEF IsRow, Fits
  <2>3. /\ DOMAIN new = Fields /\ new.count = rows[p].count + 1
        /\ \A f \in Fields \ {"count"} : new[f] = rows[p][f]
    BY <2>1 DEF IsRow
  <2> HIDE DEF new
  <2>4. Fits("count", new.count)
    BY <2>1, <2>2, <2>3, Texts DEF Fits
  <2> QED
    BY <2>1, <2>3, <2>4 DEF IsRow
<1> HIDE DEF new
<1>4. /\ RowsOutside({p})
      /\ DOMAIN rows' \subseteq Pks /\ \A q \in DOMAIN rows' : IsRow(rows'[q])
      /\ \A k \in DOMAIN children' : children'[k] \in DOMAIN rows'
  BY <1>1, <1>2, <1>3, TableUpdated DEF IInv
<1> QED
  BY <1>1, <1>4, Bounds, OthersWriteInv

LEMMA DropInv ==
  ASSUME IInv, NEW p \in Pks, Drop(p)
  PROVE  IInv'
<1>1. /\ p \in DOMAIN rows /\ Write(Restrict(rows, DOMAIN rows \ {p}), {p})
      /\ ~\E k \in DOMAIN children : children[k] = p
      /\ UNCHANGED <<scene, children, log, pc, last, deleted, lost, counters>>
      /\ work' = Overtake(Null, {p}, work)
  BY DEF Drop, history
<1>2. rows' = Restrict(rows, DOMAIN rows \ {p})
  BY <1>1 DEF Write
<1>3. /\ RowsOutside({p})
      /\ DOMAIN rows' \subseteq Pks /\ \A q \in DOMAIN rows' : IsRow(rows'[q])
      /\ \A k \in DOMAIN children' : children'[k] \in DOMAIN rows'
  BY <1>1, <1>2, TableErased DEF IInv
<1> QED
  BY <1>1, <1>3, Bounds, OthersWriteInv

LEMMA AddChildInv ==
  ASSUME IInv, NEW p \in Pks, AddChild(p)
  PROVE  IInv'
<1>1. /\ UNCHANGED <<scene, rows, log, pc, work, form, last, deleted, lost, writes, counters>>
      /\ p \in DOMAIN rows /\ children' = [k \in {1} |-> p]
  BY DEF AddChild, history
<1>2. DOMAIN form' = Staff /\ \A k \in DOMAIN children' : children'[k] \in DOMAIN rows
  BY <1>1 DEF IInv, Requests
<1>3. \A d \in Staff \ {Null} : form'[d] = form[d]
  BY <1>1
<1> QED
  BY <1>1, <1>2, <1>3, Bounds, IdleInv

-----------------------------------------------------------------------------
(* A bulk action.                                                          *)

LEMMA ActInv ==
  ASSUME IInv, NEW c \in Staff, Act(c)
  PROVE  IInv'
<1> DEFINE p == Head(work[c].pks)
           rest == [work[c] EXCEPT !.pks = Tail(@)]
           step == IF rest.pks = <<>> THEN "log" ELSE "act"
           v == [work EXCEPT ![c] = rest]
           goes == p \in DOMAIN rows /\ ~\E k \in DOMAIN children : children[k] = p
<1>1. /\ UNCHANGED <<scene, children, log, last, deleted, lost, counters>> /\ pc[c] = "act"
      /\ pc' = [pc EXCEPT ![c] = step] /\ work' = Overtake(c, {p}, v)
  BY DEF Act, history
<1>2. /\ PksOK(work[c]) /\ EntriesOK(work[c]) /\ work[c].call = "action"
      /\ {"call", "pks", "entries"} \subseteq DOMAIN work[c]
      /\ \A i \in DOMAIN work[c].entries : work[c].entries[i].flag = "changed"
  BY <1>1 DEF IInv, Requests, RequestOK
<1>3. p \in Pks /\ Tail(work[c].pks) \in Seq(Pks)
  BY <1>2 DEF PksOK
<1>4. /\ rest.pks = Tail(work[c].pks) /\ rest.entries = work[c].entries /\ rest.call = "action"
      /\ DOMAIN rest = DOMAIN work[c]
  BY <1>2
<1> HIDE DEF rest
<1>5. /\ pc' \in [Staff -> Steps] /\ pc'[c] = step /\ DOMAIN v = Staff /\ v[c] = rest
      /\ \A d \in Staff \ {c} : v[d] = work[d] /\ pc'[d] = pc[d]
  BY <1>1 DEF IInv, Requests, Steps
<1> HIDE DEF v
<1>6. OthersPend(c) /\ work'[c] = rest
  BY <1>1, <1>5, OvertakePends DEF IInv
<1>7. RequestOK(c)'
  <2>1. EntriesOK(rest) /\ rest.pks \in Seq(Pks)
    BY <1>2, <1>3, <1>4 DEF EntriesOK
  <2>2. CASE rest.pks = <<>>
    BY ZenonT(60), <1>2, <1>4, <1>5, <1>6, <2>1, <2>2 DEF RequestOK, EntriesOK
  <2>3. CASE rest.pks # <<>>
    <3>1. PksOK(work'[c]) /\ EntriesOK(work'[c]) /\ pc'[c] = "act"
      BY <1>5, <1>6, <2>1, <2>3 DEF PksOK
    <3>2. /\ work'[c].call = "action" /\ {"call", "pks", "entries"} \subseteq DOMAIN work'[c]
          /\ \A i \in DOMAIN work'[c].entries : work'[c].entries[i].flag = "changed"
      BY <1>2, <1>4, <1>6
    <3>3. PksOK(work[c])' /\ EntriesOK(work[c])'
      BY <3>1 DEF PksOK, EntriesOK
    <3> QED
      BY <3>1, <3>2, <3>3 DEF RequestOK
  <2> QED
    BY <2>2, <2>3
<1>8. ~Deletes(c) /\ ~Deletes(c)'
  <2>1. Head(work[c].entries).flag # "deleted"
    <3>1. 1 \in DOMAIN work[c].entries /\ Head(work[c].entries) = work[c].entries[1]
      BY <1>2 DEF EntriesOK
    <3> QED
      BY <1>2, <3>1
  <2> QED
    BY <1>1, <1>4, <1>6, <2>1 DEF Deletes
<1>9. AuditTrail' /\ deleted' \in [Pks -> Nat]
  BY <1>1, <1>6, <1>8, SameTrail DEF IInv, TypeOK
<1>10. CASE goes /\ Write(Restrict(rows, DOMAIN rows \ {p}), {p})
  <2>1. rows' = Restrict(rows, DOMAIN rows \ {p})
    BY <1>10 DEF Write
  <2>2. /\ RowsOutside({p})
        /\ DOMAIN rows' \subseteq Pks /\ \A q \in DOMAIN rows' : IsRow(rows'[q])
        /\ \A k \in DOMAIN children' : children'[k] \in DOMAIN rows'
    BY <1>1, <1>10, <2>1, TableErased DEF IInv
  <2> HIDE DEF p, step
  <2> QED
    BY <1>1, <1>3, <1>5, <1>7, <1>9, <1>10, <2>2, WroteInv
<1>11. CASE NoWrite
  <2>1. UNCHANGED <<rows, form, writes>>
    BY <1>11 DEF NoWrite
  <2>2. Requests'
    BY <1>1, <1>5, <1>7, <2>1, NotWritten DEF IInv
  <2>3. requests' \in 0..scene.bounds[2] /\ faults' \in 0..scene.bounds[3]
    BY <1>1, CountersKept DEF IInv
  <2>4. TypeOK'
    BY <1>1, <2>1, <2>2, <2>3, SameTable, TypeLater DEF IInv, TypeOK
  <2>5. FormsKeepTheRest'
    BY <1>1, SameForms DEF IInv
  <2> QED
    BY <1>9, <2>2, <2>4, <2>5 DEF IInv
<1> QED
  BY <1>10, <1>11 DEF Act

-----------------------------------------------------------------------------
(* A request fails: an entry that was pending is lost.                     *)

LEMMA FaultTrail ==
  ASSUME IInv, NEW c \in Staff, pc[c] = "log", OthersPend(c), ~Deletes(c)',
         lost' = lost + Len(work[c].entries), UNCHANGED <<scene, log, deleted>>
  PROVE  AuditTrail' /\ lost' \in Nat
<1> DEFINE e == Head(work[c].entries)
           L(p) == Cardinality(LoggedDeletions(p))
           P(p) == Cardinality(PendingDeletions(p))
<1>1. e \in Entry /\ Len(work[c].entries) \in Nat \ {0} /\ lost \in Nat
  BY Logging DEF IInv, TypeOK
<1>2. lost' \in Nat /\ lost' >= lost + 1
  BY <1>1
<1>3. ASSUME NEW p \in Pks
      PROVE  /\ L(p)' + P(p)' <= deleted[p]
             /\ scene.logged => deleted[p] <= L(p)' + P(p)' + lost'
  <2>1. /\ L(p) \in Nat /\ P(p) \in Nat /\ deleted[p] \in Nat
        /\ L(p) + P(p) <= deleted[p]
        /\ scene.logged => deleted[p] <= L(p) + P(p) + lost
    BY Counted DEF IInv, AuditTrail, TypeOK
  <2>2. P(p)' = P(p) \/ P(p)' = P(p) - 1
    <3>1. CASE Deletes(c)
      BY <1>1, <3>1, PendingLess
    <3>2. CASE ~Deletes(c)
      BY <3>2, SamePending
    <3> QED
      BY <3>1, <3>2
  <2>3. L(p)' = L(p) /\ P(p)' \in Nat
    <3>1. LoggedDeletions(p)' = LoggedDeletions(p)
      BY DEF LoggedDeletions
    <3>2. IsFiniteSet(PendingDeletions(p)')
      <4>1. PendingDeletions(p)' \subseteq Staff
        BY DEF PendingDeletions
      <4> QED
        BY <4>1, Bounds, FS_Subset
    <3> QED
      BY <3>1, <3>2, FS_CardinalityType
  <2> HIDE DEF L, P
  <2> QED
    BY SMTT(30), <1>1, <1>2, <2>1, <2>2, <2>3
<1> QED
  BY <1>2, <1>3 DEF IInv, AuditTrail

LEMMA FaultInv ==
  ASSUME IInv, NEW c \in Staff, Fault(c)
  PROVE  IInv'
<1>1. /\ UNCHANGED <<scene, rows, form, writes, children, log, last, deleted, requests>>
      /\ Answer(c, work[c].call, 500)
  BY DEF Fault, NoWrite
<1>2. requests' \in 0..scene.bounds[2] /\ faults' \in 0..scene.bounds[3]
  BY Bounds DEF Fault, IInv, TypeOK
<1>3. Start(c, "idle", NoWork) /\ RequestOK(c)'
  BY <1>1, AnswerOK DEF IInv
<1>4. FormOK(c)' /\ DOMAIN form' = Staff /\ \A d \in Staff \ {c} : form'[d] = form[d]
  BY <1>1, IdleFrame
<1>5. CASE pc[c] # "log"
  <2>1. lost' = lost
    BY <1>5 DEF Fault, IInv, TypeOK
  <2> QED
    BY <1>1, <1>2, <1>4, <1>5, <2>1, AnswerInv
<1>6. CASE pc[c] = "log"
  <2>1. "idle" \in Steps
    BY DEF Steps
  <2>2. Requests'
    BY <1>1, <1>3, <1>4, <2>1, Quiet DEF IInv
  <2>3. OthersPend(c) /\ ~Deletes(c)'
    BY <1>3, StartPends DEF IInv, Deletes
  <2>4. lost' = lost + Len(work[c].entries)
    BY <1>6 DEF Fault
  <2>5. AuditTrail' /\ lost' \in Nat
    BY <1>1, <1>6, <2>3, <2>4, FaultTrail
  <2>6. TypeOK'
    BY <1>1, <1>2, <2>2, <2>5, SameTable, TypeLater DEF IInv, TypeOK
  <2>7. FormsKeepTheRest'
    BY <1>1, SameForms DEF IInv
  <2> QED
    BY <2>2, <2>5, <2>6, <2>7 DEF IInv
<1> QED
  BY <1>5, <1>6

-----------------------------------------------------------------------------
(* Requests that only read.                                                *)

LEMMA BrowseInv ==
  ASSUME IInv, NEW c \in Staff, NEW v, Browse(c, v)
  PROVE  IInv'
<1>1. /\ UNCHANGED <<scene, rows, children, form, log, last, deleted, lost, writes, counters>>
      /\ pc[c] = "idle"
  BY DEF Browse, NoWrite, history, Idle
<1>2. requests' \in 0..scene.bounds[2] /\ faults' \in 0..scene.bounds[3]
  BY <1>1, CountersKept DEF IInv
<1>3. CASE \E status : Answer(c, "browse", status)
  BY <1>1, <1>2, <1>3, IdleFrame, AnswerInv
<1>4. ASSUME NEW total,
             Start(c, "fetch", [call |-> "browse", pks |-> <<>>, view |-> v, total |-> total,
                                at |-> writes])
      PROVE  IInv'
  <2>1. RequestOK(c)'
    BY <1>4, Started DEF RequestOK, IInv
  <2>2. "fetch" \in Steps
    BY DEF Steps
  <2> QED
    BY <1>1, <1>2, <1>4, <2>1, <2>2, IdleFrame, QuietInv
<1> QED
  BY <1>3, <1>4 DEF Browse

LEMMA FetchPageInv ==
  ASSUME IInv, NEW c \in Staff, FetchPage(c)
  PROVE  IInv'
<1>1. /\ UNCHANGED <<scene, rows, children, form, log, last, deleted, lost, writes, counters>>
      /\ pc[c] = "fetch" /\ Start(c, "idle", NoWork)
  BY DEF FetchPage, NoWrite, history
<1>2. requests' \in 0..scene.bounds[2] /\ faults' \in 0..scene.bounds[3]
  BY <1>1, CountersKept DEF IInv
<1>3. RequestOK(c)'
  BY <1>1, Started DEF RequestOK, NoWork, IInv
<1>4. "idle" \in Steps
  BY DEF Steps
<1> QED
  BY <1>1, <1>2, <1>3, <1>4, IdleFrame, QuietInv

(* A step that changes nothing but what was answered.                      *)
LEMMA ShownInv ==
  ASSUME IInv, UNCHANGED <<scene, rows, children, log, pc, work, form, last, deleted, lost,
                           writes, counters>>
  PROVE  IInv'
<1>1. DOMAIN form' = Staff /\ \A k \in DOMAIN children' : children'[k] \in DOMAIN rows
  BY DEF IInv, Requests, TypeOK
<1> QED
  BY <1>1, Bounds, IdleInv

-----------------------------------------------------------------------------
(* The list.  What a view is, and which of the rows a user finds in it.    *)

ViewFields == {"order", "term", "filters", "year", "month", "day", "page"}

ViewOK(v) ==
  /\ DOMAIN v = ViewFields /\ v.order \in {"none", "count", "-count"}
  /\ v.year \in Int /\ v.month \in Int /\ v.day \in Int /\ v.page \in Int

Found(c, v) == {p \in Listed(v, rows) : Visible(c, p)}

(* A request that fetches has counted the rows, and a list that is shown   *)
(* is a page of what its user finds, unless rows were written since.       *)
ListInv ==
  /\ \A c \in Staff : pc[c] = "fetch" =>
       LET w == work[c] IN
       /\ ViewOK(w.view) /\ ~BadView(w.view)
       /\ w.at \in Nat /\ w.at <= writes
       /\ w.at = writes => w.total = Cardinality(Found(c, w.view))
  /\ "view" \in DOMAIN result =>
       /\ ViewOK(result.view) /\ ~BadView(result.view)
       /\ result.user \in Staff /\ result.at \in Nat /\ result.at <= writes
       /\ result.at = writes =>
            /\ result.listed \in PagesOf(result.view, Found(result.user, result.view), rows)
            /\ result.next = HasNext(result.view, Cardinality(Found(result.user, result.view)))

(* The dates a range selects.                                              *)
LEMMA DateParts ==
  ASSUME NEW date, IsDay(date)
  PROVE  /\ date[1] \in Nat \ {0} /\ date[2] \in 1..12 /\ date[3] \in 1..31
         /\ date[3] \in 1..MonthDays[date[2]]
BY CalendarAssumption DEF IsDay, IsDate

(* A year has 372 days here, a month 31, so that they follow one another:  *)
(* the days between the ends of a year, of a month and of a day are its    *)
(* own.                                                                    *)
YearSpans(year, y, m, d) ==
  Day(year, 1, 1) <= Day(y, m, d) /\ Day(y, m, d) < Day(year + 1, 1, 1) <=> y = year

MonthSpans(year, month, y, m, d) ==
  Day(year, month, 1) <= Day(y, m, d) /\ Day(y, m, d) < MonthEnd(year, month)
    <=> y = year /\ m = month

DaySpans(year, month, day, y, m, d) ==
  Day(year, month, day) <= Day(y, m, d) /\ Day(y, m, d) < Day(year, month, day) + 1
    <=> y = year /\ m = month /\ d = day

RangeSpans(v, y, m, d) ==
  DateRange(v)[1] <= Day(y, m, d) /\ Day(y, m, d) < DateRange(v)[2] <=>
    /\ y = v.year
    /\ v.month # 0 => m = v.month /\ (v.day # 0 => d = v.day)

LEMMA YearSpan ==
  ASSUME NEW y \in Int, NEW m \in 1..12, NEW d \in 1..31, NEW year \in Int
  PROVE  YearSpans(year, y, m, d)
<1> DEFINE i == 31 * (m - 1) + d - 1
<1>1. i \in 0..371
  OBVIOUS
<1>2. /\ Day(y, m, d) = 372 * y + i
      /\ Day(year, 1, 1) = 372 * year
      /\ Day(year + 1, 1, 1) = 372 * year + 372
  BY DEF Day
<1> HIDE DEF i
<1>3. CASE y < year
  <2>1. y + 1 <= year
    BY <1>3
  <2> QED
    BY <1>1, <1>2, <1>3, <2>1 DEF YearSpans
<1>4. CASE y = year
  BY <1>1, <1>2, <1>4 DEF YearSpans
<1>5. CASE year < y
  <2>1. year + 1 <= y
    BY <1>5
  <2> QED
    BY <1>1, <1>2, <1>5, <2>1 DEF YearSpans
<1> QED
  BY <1>3, <1>4, <1>5

LEMMA MonthSpan ==
  ASSUME NEW y \in Int, NEW m \in 1..12, NEW d \in 1..31,
         NEW year \in Int, NEW month \in 1..12
  PROVE  MonthSpans(year, month, y, m, d)
<1> DEFINE i == 31 * (m - 1) + d - 1
           first == 31 * (month - 1)
<1>1. i \in 0..371 /\ first \in 0..341
  OBVIOUS
<1>2. CASE m < month
  <2>1. m + 1 <= month
    BY <1>2
  <2>2. i < first
    BY <2>1
  <2>3. Day(y, m, d) = 372 * y + i /\ Day(year, month, 1) = 372 * year + first
    BY DEF Day
  <2>4. MonthEnd(year, month) = 372 * year + first + 31
    BY DEF MonthEnd, Day
  <2> HIDE DEF i, first
  <2>5. y <= year => Day(y, m, d) < Day(year, month, 1)
    BY <1>1, <2>2, <2>3
  <2>6. y > year => Day(y, m, d) >= MonthEnd(year, month)
    <3>1. y > year => y >= year + 1
      OBVIOUS
    <3> QED
      BY <1>1, <2>3, <2>4, <3>1
  <2> QED
    BY <1>1, <1>2, <2>3, <2>4, <2>5, <2>6 DEF MonthSpans
<1>3. CASE m = month
  <2>1. first <= i /\ i < first + 31
    BY <1>3
  <2>2. Day(y, m, d) = 372 * y + i /\ Day(year, month, 1) = 372 * year + first
    BY DEF Day
  <2>3. MonthEnd(year, month) = 372 * year + first + 31
    BY DEF MonthEnd, Day
  <2> HIDE DEF i, first
  <2>4. y < year => Day(y, m, d) < Day(year, month, 1)
    <3>1. y < year => y + 1 <= year
      OBVIOUS
    <3> QED
      BY <1>1, <2>2, <3>1
  <2>5. y > year => Day(y, m, d) >= MonthEnd(year, month)
    <3>1. y > year => y >= year + 1
      OBVIOUS
    <3> QED
      BY <1>1, <2>2, <2>3, <3>1
  <2>6. y = year => Day(year, month, 1) <= Day(y, m, d) /\ Day(y, m, d) < MonthEnd(year, month)
    BY <1>1, <2>1, <2>2, <2>3
  <2> QED
    BY <1>1, <1>3, <2>2, <2>3, <2>4, <2>5, <2>6 DEF MonthSpans
<1>4. CASE month < m
  <2>1. month + 1 <= m
    BY <1>4
  <2>2. i >= first + 31
    BY <2>1
  <2>3. Day(y, m, d) = 372 * y + i /\ Day(year, month, 1) = 372 * year + first
    BY DEF Day
  <2>4. MonthEnd(year, month) = 372 * year + first + 31
    BY DEF MonthEnd, Day
  <2> HIDE DEF i, first
  <2>5. y < year => Day(y, m, d) < Day(year, month, 1)
    <3>1. y < year => y + 1 <= year
      OBVIOUS
    <3> QED
      BY <1>1, <2>3, <3>1
  <2>6. y >= year => Day(y, m, d) >= MonthEnd(year, month)
    BY <1>1, <2>2, <2>3, <2>4
  <2> QED
    BY <1>1, <1>4, <2>3, <2>4, <2>5, <2>6 DEF MonthSpans
<1> QED
  BY <1>2, <1>3, <1>4

LEMMA DaySpan ==
  ASSUME NEW y \in Int, NEW m \in 1..12, NEW d \in 1..31,
         NEW year \in Int, NEW month \in 1..12, NEW day \in 1..31
  PROVE  DaySpans(year, month, day, y, m, d)
<1> DEFINE at == Day(y, m, d)
           it == Day(year, month, day)
<1>1. at \in Int /\ it \in Int
  BY DEF Day
<1>2. it <= at /\ at < it + 1 <=> at = it
  <2> HIDE DEF at, it
  <2> QED
    BY <1>1
<1>3. ASSUME at = it
      PROVE  y = year /\ m = month /\ d = day
  <2>1. MonthSpans(year, month, year, month, day) /\ MonthSpans(year, month, y, m, d)
    BY MonthSpan
  <2>2. y = year /\ m = month
    BY <1>3, <2>1 DEF MonthSpans
  <2>3. Day(year, month, d) = Day(year, month, day)
    BY <1>3, <2>2
  <2>4. d = day
    BY <2>3 DEF Day
  <2> QED
    BY <2>2, <2>4
<1>4. y = year /\ m = month /\ d = day => at = it
  OBVIOUS
<1> QED
  BY <1>2, <1>3, <1>4 DEF DaySpans

LEMMA RangeIs ==
  ASSUME NEW v, ViewOK(v), ~BadView(v), v.year # 0,
         NEW y \in Int, NEW m \in 1..12, NEW d \in 1..31
  PROVE  RangeSpans(v, y, m, d)
<1>1. DateRange(v) # Invalid /\ v.year \in Int /\ v.month \in Int /\ v.day \in Int
  BY DEF ViewOK, BadView
<1>2. CASE v.month = 0
  <2>1. DateRange(v) = <<Day(v.year, 1, 1), Day(v.year + 1, 1, 1)>>
    BY <1>2 DEF DateRange
  <2>2. DateRange(v)[1] = Day(v.year, 1, 1) /\ DateRange(v)[2] = Day(v.year + 1, 1, 1)
    BY <2>1
  <2>3. YearSpans(v.year, y, m, d)
    BY <1>1, YearSpan
  <2> QED
    BY <1>2, <2>2, <2>3 DEF YearSpans, RangeSpans
<1>3. CASE v.month # 0 /\ v.day = 0
  <2>1. DateRange(v) = <<Day(v.year, v.month, 1), MonthEnd(v.year, v.month)>>
    BY <1>1, <1>3 DEF DateRange
  <2>2. DateRange(v)[1] = Day(v.year, v.month, 1) /\ DateRange(v)[2] = MonthEnd(v.year, v.month)
    BY <2>1
  <2>3. v.month \in 1..12
    BY <1>1, <1>3, CalendarAssumption DEF DateRange, IsDate
  <2>4. MonthSpans(v.year, v.month, y, m, d)
    BY <1>1, <2>3, MonthSpan
  <2> QED
    BY <1>3, <2>2, <2>4 DEF MonthSpans, RangeSpans
<1>4. CASE v.month # 0 /\ v.day # 0
  <2>1. DateRange(v) = <<Day(v.year, v.month, v.day), Day(v.year, v.month, v.day) + 1>>
    BY <1>1, <1>4 DEF DateRange
  <2>2. DateRange(v)[1] = Day(v.year, v.month, v.day) /\ DateRange(v)[2] = Day(v.year, v.month, v.day) + 1
    BY <2>1
  <2>3. v.month \in 1..12 /\ v.day \in 1..31
    <3>1. v.month \in DOMAIN MonthDays /\ v.day \in 1..MonthDays[v.month]
      BY <1>1, <1>4 DEF DateRange, IsDate
    <3>2. v.month \in 1..12 /\ MonthDays[v.month] \in 1..31
      BY SMTT(30), <3>1, CalendarAssumption
    <3> QED
      BY <3>1, <3>2
  <2>4. DaySpans(v.year, v.month, v.day, y, m, d)
    BY <1>1, <2>3, DaySpan
  <2> QED
    BY <1>4, <2>2, <2>4 DEF DaySpans, RangeSpans
<1> QED
  BY <1>2, <1>3, <1>4

LEMMA InRangeIs ==
  ASSUME NEW v, ViewOK(v), ~BadView(v), NEW date, date = NoDate \/ IsDay(date)
  PROVE  InRange(date, v) <=>
           \/ v.year = 0
           \/ /\ date # NoDate /\ date[1] = v.year
              /\ v.month # 0 => date[2] = v.month /\ (v.day # 0 => date[3] = v.day)
<1>1. CASE v.year = 0 \/ date = NoDate
  BY <1>1 DEF InRange
<1>2. CASE v.year # 0 /\ date # NoDate
  <2>1. date[1] \in Int /\ date[2] \in 1..12 /\ date[3] \in 1..31
    BY <1>2, DateParts
  <2> QED
    <3>1. RangeSpans(v, date[1], date[2], date[3])
      BY <1>2, <2>1, RangeIs
    <3> QED
      BY <1>2, <3>1 DEF RangeSpans, InRange
<1> QED
  BY <1>1, <1>2

(* The filters of a link are those in force.                               *)
LEMMA FiltersKept ==
  ASSUME NEW u, NEW v, u.filters = Filters(v)
  PROVE  Filters(u) = Filters(v)
BY DEF Filters

LEMMA FirstPageIs ==
  ASSUME NEW v, ViewOK(v)
  PROVE  LET u == FirstPage(v) IN
         /\ DOMAIN u = ViewFields
         /\ u.order = v.order /\ u.term = v.term /\ u.filters = Filters(v) /\ u.page = 1
         /\ u.year = v.year /\ u.month = v.month /\ u.day = v.day
BY DEF FirstPage, ViewOK, ViewFields

(* What a link selects that keeps the search and the filters.              *)
Base(v, row) ==
  /\ v.term = 0 \/ v.term = row.note
  /\ \A f \in DOMAIN Filters(v) : row[f] = Holds(f, Filters(v)[f])

LEMMA SameBase ==
  ASSUME NEW u, NEW v, u.filters = Filters(v), u.term = v.term, NEW row
  PROVE  Selects(u, row) <=> Base(v, row) /\ InRange(row.due, u)
<1>1. Filters(u) = Filters(v)
  BY FiltersKept
<1> QED
  BY <1>1 DEF Selects, Base

LEMMA SelectsIs ==
  ASSUME NEW v, NEW row
  PROVE  Selects(v, row) <=> Base(v, row) /\ InRange(row.due, v)
BY DEF Selects, Base

LEMMA DueIs ==
  ASSUME TypeOK, NEW p \in DOMAIN rows
  PROVE  rows[p].due = NoDate \/ IsDay(rows[p].due)
BY RegisteredAssumption, TextAssumption DEF TypeOK, IsRow, Fits, Registered

-----------------------------------------------------------------------------
(* The date links.                                                         *)

Part(v, d) == IF v.year = 0 THEN d[1] ELSE IF v.month = 0 THEN d[2] ELSE d[3]
Prefix(v, d) == v.year # 0 => d[1] = v.year /\ (v.month # 0 => d[2] = v.month)
Dates == {rows[p].due : p \in DOMAIN rows} \ {NoDate}

LEMMA ValuesAre ==
  ASSUME NEW v
  PROVE  Values(v, rows) = {Part(v, d) : d \in {e \in Dates : Prefix(v, e)}}
BY DEF Values, Part, Prefix, Dates

LEMMA DateLinkIs ==
  ASSUME NEW v, ViewOK(v), ~BadView(v), v.day = 0, NEW d, IsDay(d), Prefix(v, d)
  PROVE  LET l == DateLink(v, Part(v, d)) IN
         /\ ViewOK(l) /\ ~BadView(l) /\ l.term = v.term /\ l.filters = Filters(v)
         /\ l.year # 0
         /\ \A e : IsDay(e) =>
              (e[1] = l.year /\ (l.month # 0 => e[2] = l.month /\ (l.day # 0 => e[3] = l.day))
                 <=> Prefix(v, e) /\ Part(v, e) = Part(v, d))
<1> DEFINE x == Part(v, d)
           l == DateLink(v, x)
<1>1. /\ d[1] \in Nat \ {0} /\ d[2] \in 1..12 /\ d[3] \in 1..31 /\ d[3] \in 1..MonthDays[d[2]]
  BY DateParts
<1>2. /\ DOMAIN l = ViewFields /\ l.order = v.order
      /\ l.term = v.term /\ l.filters = Filters(v) /\ l.page = 1
      /\ l.year = IF v.year = 0 THEN x ELSE v.year
      /\ l.month = IF v.year = 0 THEN 0 ELSE IF v.month = 0 THEN x ELSE v.month
      /\ l.day = IF v.year = 0 \/ v.month = 0 THEN 0 ELSE x
  BY FirstPageIs DEF DateLink, ViewFields
<1>3. x = IF v.year = 0 THEN d[1] ELSE IF v.month = 0 THEN d[2] ELSE d[3]
  BY DEF Part
<1>4. v.year # 0 => d[1] = v.year /\ (v.month # 0 => d[2] = v.month)
  BY DEF Prefix
<1> HIDE DEF x, l
<1>5. v.year \in Int /\ v.month \in Int
  BY DEF ViewOK
<1>6. /\ l.year = d[1]
      /\ l.month = 0 \/ (l.month = d[2] /\ (l.day = 0 \/ l.day = d[3]))
      /\ l.day \in Int /\ l.month \in Int
  BY <1>1, <1>2, <1>3, <1>4
<1>7. ViewOK(l)
  BY <1>1, <1>2, <1>6 DEF ViewOK
<1>8. DateRange(l) # Invalid
  <2>1. CASE l.month = 0
    BY <2>1 DEF DateRange, Invalid
  <2>2. CASE l.month # 0 /\ l.day = 0
    <3>1. IsDate(l.year, l.month, 1)
      BY <1>1, <1>6, <2>2, CalendarAssumption DEF IsDate
    <3>2. MonthEnd(l.year, l.month) # 0
      <4>1. l.year \in Nat \ {0} /\ l.month \in 1..12
        BY <1>1, <1>6, <2>2
      <4> QED
        BY <4>1 DEF MonthEnd, Day
    <3> QED
      BY <2>2, <3>1, <3>2 DEF DateRange, Invalid
  <2>3. CASE l.month # 0 /\ l.day # 0
    <3>1. IsDate(l.year, l.month, l.day)
      BY <1>1, <1>6, <2>3, CalendarAssumption DEF IsDate
    <3> QED
      BY <2>3, <3>1 DEF DateRange, Invalid
  <2> QED
    BY <2>1, <2>2, <2>3
<1>9. ~BadView(l)
  BY <1>2, <1>8 DEF BadView
<1>10. ASSUME NEW e, IsDay(e)
       PROVE  e[1] = l.year /\ (l.month # 0 => e[2] = l.month /\ (l.day # 0 => e[3] = l.day))
                <=> Prefix(v, e) /\ Part(v, e) = x
  <2>1. Prefix(v, e) <=> (v.year # 0 => e[1] = v.year /\ (v.month # 0 => e[2] = v.month))
    BY DEF Prefix
  <2>2. Part(v, e) = IF v.year = 0 THEN e[1] ELSE IF v.month = 0 THEN e[2] ELSE e[3]
    BY DEF Part
  <2> QED
    BY <1>1, <1>2, <1>3, <1>4, <2>1, <2>2
<1> QED
  BY <1>1, <1>2, <1>6, <1>7, <1>9, <1>10 DEF x, l

LEMMA DateLinkLists ==
  ASSUME TypeOK, NEW v, ViewOK(v), ~BadView(v), v.day = 0,
         NEW d \in Dates, Prefix(v, d), NEW p
  PROVE  /\ ~BadView(DateLink(v, Part(v, d)))
         /\ p \in Listed(DateLink(v, Part(v, d)), rows) <=>
              /\ p \in DOMAIN rows /\ Base(v, rows[p])
              /\ rows[p].due # NoDate /\ Prefix(v, rows[p].due)
              /\ Part(v, rows[p].due) = Part(v, d)
<1> DEFINE l == DateLink(v, Part(v, d))
<1>1. IsDay(d)
  BY DueIs DEF Dates
<1>2. /\ ViewOK(l) /\ ~BadView(l) /\ l.term = v.term /\ l.filters = Filters(v)
      /\ l.year # 0
      /\ \A e : IsDay(e) =>
           (e[1] = l.year /\ (l.month # 0 => e[2] = l.month /\ (l.day # 0 => e[3] = l.day))
              <=> Prefix(v, e) /\ Part(v, e) = Part(v, d))
  BY <1>1, DateLinkIs
<1> HIDE DEF l
<1>3. ASSUME p \in DOMAIN rows
      PROVE  Selects(l, rows[p]) <=>
               /\ Base(v, rows[p]) /\ rows[p].due # NoDate /\ Prefix(v, rows[p].due)
               /\ Part(v, rows[p].due) = Part(v, d)
  <2>1. Selects(l, rows[p]) <=> Base(v, rows[p]) /\ InRange(rows[p].due, l)
    BY <1>2, SameBase
  <2>2. rows[p].due = NoDate \/ IsDay(rows[p].due)
    BY <1>3, DueIs
  <2>3. InRange(rows[p].due, l) <=>
          \/ l.year = 0
          \/ /\ rows[p].due # NoDate /\ rows[p].due[1] = l.year
             /\ l.month # 0 => rows[p].due[2] = l.month /\ (l.day # 0 => rows[p].due[3] = l.day)
    BY <1>2, <2>2, InRangeIs
  <2>4. IsDay(rows[p].due) =>
          (rows[p].due[1] = l.year
             /\ (l.month # 0 => rows[p].due[2] = l.month /\ (l.day # 0 => rows[p].due[3] = l.day))
           <=> Prefix(v, rows[p].due) /\ Part(v, rows[p].due) = Part(v, d))
    BY <1>2
  <2> QED
    BY <1>2, <2>1, <2>2, <2>3, <2>4
<1>4. p \in Listed(l, rows) <=> p \in DOMAIN rows /\ Selects(l, rows[p])
  BY DEF Listed
<1> QED
  BY <1>2, <1>3, <1>4 DEF l

(* A page without a day lists the dates its parts begin with.              *)
LEMMA PageLists ==
  ASSUME TypeOK, NEW v, ViewOK(v), ~BadView(v), v.day = 0, NEW p \in DOMAIN rows
  PROVE  rows[p].due # NoDate =>
           (p \in Listed(v, rows) <=> Base(v, rows[p]) /\ Prefix(v, rows[p].due))
<1>1. rows[p].due = NoDate \/ IsDay(rows[p].due)
  BY DueIs
<1>2. Selects(v, rows[p]) <=> Base(v, rows[p]) /\ InRange(rows[p].due, v)
  BY SelectsIs
<1>3. InRange(rows[p].due, v) <=>
        \/ v.year = 0
        \/ /\ rows[p].due # NoDate /\ rows[p].due[1] = v.year
           /\ v.month # 0 => rows[p].due[2] = v.month /\ (v.day # 0 => rows[p].due[3] = v.day)
  BY <1>1, InRangeIs
<1> QED
  BY <1>2, <1>3 DEF Listed, Prefix

SplitOf(S, whole) ==
  /\ \A l \in S : ~BadView(l)
  /\ UNION {Listed(l, rows) : l \in S} = whole
  /\ \A k, l \in S : k # l => Listed(k, rows) \cap Listed(l, rows) = {}

LEMMA DatesSplit ==
  ASSUME TypeOK, NEW v, ViewOK(v), ~BadView(v), v.day = 0
  PROVE  SplitOf(DateLinks(v, rows), {p \in Listed(v, rows) : rows[p].due # NoDate})
<1> DEFINE S == DateLinks(v, rows)
           starts == {e \in Dates : Prefix(v, e)}
           link(d) == DateLink(v, Part(v, d))
           whole == {p \in Listed(v, rows) : rows[p].due # NoDate}
<1>1. S = {link(d) : d \in starts}
  BY ValuesAre DEF DateLinks
<1>2. \A d \in starts : ~BadView(link(d))
  BY DateLinkLists
<1>3. ASSUME NEW d \in starts, NEW p
      PROVE  p \in Listed(link(d), rows) <=> p \in whole /\ Part(v, rows[p].due) = Part(v, d)
  <2>1. p \in Listed(link(d), rows) <=>
           /\ p \in DOMAIN rows /\ Base(v, rows[p])
           /\ rows[p].due # NoDate /\ Prefix(v, rows[p].due)
           /\ Part(v, rows[p].due) = Part(v, d)
    BY DateLinkLists
  <2>2. p \in whole <=>
           p \in DOMAIN rows /\ rows[p].due # NoDate /\ Base(v, rows[p]) /\ Prefix(v, rows[p].due)
    BY PageLists DEF Listed
  <2> HIDE DEF whole, link
  <2> QED
    BY <2>1, <2>2
<1>4. ASSUME NEW p \in whole
      PROVE  rows[p].due \in starts
  <2>1. p \in DOMAIN rows /\ rows[p].due # NoDate
    BY DEF Listed
  <2> QED
    BY <2>1, PageLists DEF Dates
<1> HIDE DEF S, starts, link, whole
<1>5. UNION {Listed(l, rows) : l \in S} = whole
  <2>1. ASSUME NEW l \in S, NEW p \in Listed(l, rows)
        PROVE  p \in whole
    BY <1>1, <1>3, <2>1
  <2>2. ASSUME NEW p \in whole
        PROVE  \E l \in S : p \in Listed(l, rows)
    <3>1. p \in Listed(link(rows[p].due), rows)
      BY <1>3, <1>4
    <3>2. link(rows[p].due) \in S
      BY <1>1, <1>4
    <3> QED
      BY <3>1, <3>2
  <2> QED
    BY <2>1, <2>2
<1>6. ASSUME NEW k \in S, NEW l \in S, k # l
      PROVE  Listed(k, rows) \cap Listed(l, rows) = {}
  <2>1. PICK d \in starts, e \in starts : k = link(d) /\ l = link(e)
    BY <1>1
  <2>2. Part(v, d) # Part(v, e)
    BY <1>6, <2>1 DEF link
  <2> QED
    BY <1>3, <2>1, <2>2
<1>7. \A l \in S : ~BadView(l)
  BY <1>1, <1>2
<1> QED
  BY <1>5, <1>6, <1>7 DEF SplitOf, S, whole

-----------------------------------------------------------------------------
(* The breadcrumbs.                                                        *)

LEMMA CrumbIs ==
  ASSUME NEW v, ViewOK(v), NEW b \in Breadcrumbs(v)
  PROVE  /\ DOMAIN b = ViewFields /\ b.order = v.order /\ b.term = v.term
         /\ b.filters = Filters(v) /\ b.page = 1 /\ b.day = 0
         /\ \/ b.year = 0 /\ b.month = 0
            \/ b.year = v.year /\ b.month = 0
            \/ b.year = v.year /\ b.month = v.month /\ v.month # 0
<1> DEFINE u == FirstPage(v)
           all == [u EXCEPT !.year = 0, !.month = 0, !.day = 0]
           year == [all EXCEPT !.year = v.year]
           month == [year EXCEPT !.month = v.month]
<1>1. /\ DOMAIN u = ViewFields /\ u.order = v.order /\ u.term = v.term
      /\ u.filters = Filters(v) /\ u.page = 1
  BY FirstPageIs
<1>2. b = all \/ b = year \/ (b = month /\ v.month # 0)
  BY Zenon DEF Breadcrumbs
<1> HIDE DEF u
<1>3. /\ DOMAIN all = ViewFields /\ all.order = v.order /\ all.term = v.term
      /\ all.filters = Filters(v) /\ all.page = 1 /\ all.day = 0 /\ all.year = 0 /\ all.month = 0
  BY <1>1 DEF ViewFields
<1> HIDE DEF all
<1>4. /\ DOMAIN year = ViewFields /\ year.order = v.order /\ year.term = v.term
      /\ year.filters = Filters(v) /\ year.page = 1 /\ year.day = 0
      /\ year.year = v.year /\ year.month = 0
  BY <1>3 DEF ViewFields
<1> HIDE DEF year
<1>5. /\ DOMAIN month = ViewFields /\ month.order = v.order /\ month.term = v.term
      /\ month.filters = Filters(v) /\ month.page = 1 /\ month.day = 0
      /\ month.year = v.year /\ month.month = v.month
  BY <1>4 DEF ViewFields
<1> HIDE DEF month
<1> QED
  BY <1>2, <1>3, <1>4, <1>5

LEMMA CrumbsHold ==
  ASSUME TypeOK, NEW v, ViewOK(v), ~BadView(v), NEW b \in Breadcrumbs(v)
  PROVE  Listed(v, rows) \subseteq Listed(b, rows)
<1> SUFFICES ASSUME NEW p \in Listed(v, rows)
             PROVE  p \in Listed(b, rows)
  OBVIOUS
<1>1. /\ p \in DOMAIN rows /\ Base(v, rows[p]) /\ InRange(rows[p].due, v)
      /\ v.year # 0
  BY SelectsIs DEF Listed, Breadcrumbs
<1> DEFINE d == rows[p].due
<1>2. d = NoDate \/ IsDay(d)
  BY <1>1, DueIs
<1>3. /\ d # NoDate /\ d[1] = v.year
      /\ v.month # 0 => d[2] = v.month /\ (v.day # 0 => d[3] = v.day)
  BY <1>1, <1>2, InRangeIs
<1>4. d[1] \in Nat \ {0} /\ d[2] \in 1..12
  BY <1>2, <1>3, DateParts
<1>5. /\ DOMAIN b = ViewFields /\ b.order = v.order /\ b.term = v.term
      /\ b.filters = Filters(v) /\ b.page = 1 /\ b.day = 0
      /\ \/ b.year = 0 /\ b.month = 0
         \/ b.year = v.year /\ b.month = 0
         \/ b.year = v.year /\ b.month = v.month /\ v.month # 0
  BY CrumbIs
<1> HIDE DEF d
<1>6. ViewOK(b)
  BY <1>5 DEF ViewOK
<1>7. ~BadView(b)
  <2>1. CASE b.year = 0
    BY <1>5, <2>1 DEF BadView
  <2>2. CASE b.year # 0 /\ b.month = 0
    BY <1>5, <2>2 DEF BadView, DateRange, Invalid
  <2>3. CASE b.year # 0 /\ b.month # 0
    <3>1. b.year \in Nat \ {0} /\ b.month \in 1..12
      BY <1>3, <1>4, <1>5, <2>3
    <3>2. IsDate(b.year, b.month, 1)
      BY <3>1, CalendarAssumption DEF IsDate
    <3>3. MonthEnd(b.year, b.month) # 0
      BY <3>1 DEF MonthEnd, Day
    <3> QED
      BY <1>5, <2>3, <3>2, <3>3 DEF BadView, DateRange, Invalid
  <2> QED
    BY <2>1, <2>2, <2>3
<1>8. InRange(d, b)
  BY <1>2, <1>3, <1>5, <1>6, <1>7, InRangeIs
<1>9. Selects(b, rows[p])
  BY <1>1, <1>5, <1>8, SameBase DEF d
<1> QED
  BY <1>1, <1>9 DEF Listed

-----------------------------------------------------------------------------
(* The filters' links.                                                     *)

FiltersLike(l, v, f, choice) ==
  /\ ~BadView(l) /\ l.term = v.term
  /\ \A date : InRange(date, l) = InRange(date, v)
  /\ DOMAIN Filters(l) = (DOMAIN Filters(v) \ {f}) \cup (IF choice = "all" THEN {} ELSE {f})
  /\ \A g \in DOMAIN Filters(l) :
       Filters(l)[g] = IF g = f THEN choice = "yes" ELSE Filters(v)[g]

LEMMA FilterLinkIs ==
  ASSUME NEW v, ViewOK(v), ~BadView(v), NEW f \in ListFilter, NEW choice \in {"all", "yes", "no"}
  PROVE  FiltersLike(FilterLink(v, f, choice), v, f, choice)
<1> DEFINE l == FilterLink(v, f, choice)
           D == (DOMAIN Filters(v) \ {f}) \cup (IF choice = "all" THEN {} ELSE {f})
           value(g) == IF g = f THEN choice = "yes" ELSE Filters(v)[g]
<1>1. /\ l.term = v.term /\ l.page = 1 /\ l.year = v.year /\ l.month = v.month /\ l.day = v.day
      /\ DOMAIN l.filters = D
      /\ \A g \in D : l.filters[g] = value(g)
  BY FirstPageIs DEF FilterLink, ViewFields
<1>2. D \subseteq ListFilter /\ \A g \in D : value(g) \in BOOLEAN
  BY DEF Filters
<1> HIDE DEF l, D, value
<1>3. DateRange(l) = DateRange(v)
  BY <1>1 DEF DateRange
<1>4. ~BadView(l)
  BY <1>1, <1>3 DEF BadView
<1>5. \A date : InRange(date, l) = InRange(date, v)
  BY <1>1, <1>3 DEF InRange
<1>6. DOMAIN Filters(l) = D /\ \A g \in D : Filters(l)[g] = value(g)
  BY <1>1, <1>2 DEF Filters
<1> QED
  BY <1>1, <1>4, <1>5, <1>6 DEF FiltersLike, l, D, value

LEMMA FiltersSplit ==
  ASSUME TypeOK, NEW v, ViewOK(v), ~BadView(v), NEW f \in ListFilter \ Choices
  PROVE  SplitOf({FilterLink(v, f, "yes"), FilterLink(v, f, "no")},
                 {p \in Listed(FilterLink(v, f, "all"), rows) : rows[p][f] # Null})
<1> DEFINE link(choice) == FilterLink(v, f, choice)
           others(row) ==
             /\ v.term = 0 \/ v.term = row.note
             /\ \A g \in DOMAIN Filters(v) \ {f} : row[g] = Holds(g, Filters(v)[g])
             /\ InRange(row.due, v)
<1>1. ASSUME NEW choice \in {"all", "yes", "no"}, NEW p
      PROVE  /\ ~BadView(link(choice))
             /\ p \in Listed(link(choice), rows) <=>
                  /\ p \in DOMAIN rows /\ others(rows[p])
                  /\ choice # "all" => rows[p][f] = (choice = "yes")
  <2> DEFINE l == link(choice)
  <2>1. /\ ~BadView(l) /\ l.term = v.term
        /\ \A date : InRange(date, l) = InRange(date, v)
        /\ DOMAIN Filters(l) = (DOMAIN Filters(v) \ {f}) \cup (IF choice = "all" THEN {} ELSE {f})
        /\ \A g \in DOMAIN Filters(l) :
             Filters(l)[g] = IF g = f THEN choice = "yes" ELSE Filters(v)[g]
    <3>1. FiltersLike(l, v, f, choice)
      BY FilterLinkIs
    <3> HIDE DEF l
    <3> QED
      BY <3>1 DEF FiltersLike
  <2> HIDE DEF l
  <2>2. (\A g \in DOMAIN Filters(l) : rows[p][g] = Holds(g, Filters(l)[g])) <=>
           /\ \A g \in DOMAIN Filters(v) \ {f} : rows[p][g] = Holds(g, Filters(v)[g])
           /\ choice # "all" => rows[p][f] = (choice = "yes")
    <3>1. CASE choice = "all"
      BY <2>1, <3>1
    <3>2. CASE choice # "all"
      <4>1. DOMAIN Filters(l) = (DOMAIN Filters(v) \ {f}) \cup {f}
        BY <2>1, <3>2
      <4>2. \A value : Holds(f, value) = value
        BY DEF Holds
      <4> QED
        BY <2>1, <3>2, <4>1, <4>2
    <3> QED
      BY <3>1, <3>2
  <2> QED
    BY <2>1, <2>2 DEF Listed, Selects, l
<1>2. ASSUME NEW p \in DOMAIN rows, rows[p][f] # Null
      PROVE  rows[p][f] \in BOOLEAN
  BY <1>2, RegisteredAssumption DEF TypeOK, IsRow, Fits, Registered
<1>3. Null \notin BOOLEAN
  BY Texts
<1> HIDE DEF link, others
<1>4. UNION {Listed(l, rows) : l \in {link("yes"), link("no")}}
        = {p \in Listed(link("all"), rows) : rows[p][f] # Null}
  <2>1. \A p : p \in Listed(link("yes"), rows) \/ p \in Listed(link("no"), rows)
                 <=> p \in Listed(link("all"), rows) /\ rows[p][f] # Null
    <3> TAKE p
    <3>1. /\ p \in Listed(link("yes"), rows) <=> p \in DOMAIN rows /\ others(rows[p]) /\ rows[p][f] = TRUE
          /\ p \in Listed(link("no"), rows) <=> p \in DOMAIN rows /\ others(rows[p]) /\ rows[p][f] = FALSE
          /\ p \in Listed(link("all"), rows) <=> p \in DOMAIN rows /\ others(rows[p])
      BY <1>1
    <3> QED
      BY <1>2, <1>3, <3>1
  <2> QED
    BY <2>1
<1>5. Listed(link("yes"), rows) \cap Listed(link("no"), rows) = {}
  <2>1. ASSUME NEW p \in Listed(link("yes"), rows), p \in Listed(link("no"), rows)
        PROVE  FALSE
    <3>1. rows[p][f] = TRUE /\ rows[p][f] = FALSE
      BY <1>1, <2>1
    <3> QED
      BY <3>1
  <2> QED
    BY <2>1
<1>6. ~BadView(link("yes")) /\ ~BadView(link("no"))
  BY <1>1
<1>7. SplitOf({link("yes"), link("no")}, {p \in Listed(link("all"), rows) : rows[p][f] # Null})
  BY <1>4, <1>5, <1>6 DEF SplitOf
<1> QED
  BY <1>7 DEF link

-----------------------------------------------------------------------------
(* The pager.                                                              *)

(* No row sorts before itself.                                             *)
LEMMA NotBeforeItself ==
  ASSUME TypeOK, NEW v, ViewOK(v), NEW p \in DOMAIN rows
  PROVE  ~SortsBefore(v, rows[p], rows[p])
<1>1. rows[p].count \in Int
  BY RegisteredAssumption DEF TypeOK, IsRow, Fits, Registered
<1>2. ~(rows[p].count < rows[p].count)
  BY <1>1
<1> QED
  BY <1>1, <1>2 DEF SortsBefore, ViewOK

LEMMA FirstSize ==
  ASSUME NEW S, IsFiniteSet(S), NEW n \in Nat, NEW v, NEW F \in FirstOf(v, n, S, rows)
  PROVE  /\ F \subseteq S /\ IsFiniteSet(F) /\ IsFiniteSet(S \ F)
         /\ Cardinality(S) \in Nat /\ Cardinality(F) \in Nat
         /\ Cardinality(F) = IF n < Cardinality(S) THEN n ELSE Cardinality(S)
         /\ Cardinality(S \ F) = Cardinality(S) - Cardinality(F)
         /\ \A p \in F, q \in S \ F : ~SortsBefore(v, rows[q], rows[p])
<1>1. /\ F \subseteq S
      /\ Cardinality(F) = IF n < Cardinality(S) THEN n ELSE Cardinality(S)
      /\ \A p \in F, q \in S \ F : ~SortsBefore(v, rows[q], rows[p])
  BY DEF FirstOf
<1>2. /\ IsFiniteSet(F) /\ IsFiniteSet(S \ F)
      /\ Cardinality(S) \in Nat /\ Cardinality(F) \in Nat
  BY <1>1, FS_Subset, FS_CardinalityType
<1>3. Cardinality(S \ F) = Cardinality(S) - Cardinality(F)
  <2>1. S \cap F = F
    BY <1>1
  <2> QED
    BY <2>1, FS_Difference
<1> QED
  BY <1>1, <1>2, <1>3

(* Of rows no two of which sort alike, the first n are those with fewer    *)
(* than n ahead of them.                                                   *)
LEMMA FirstRows ==
  ASSUME TypeOK, NEW S, S \subseteq DOMAIN rows, IsFiniteSet(S), NEW n \in Nat,
         NEW v, ViewOK(v), Sorted(v, S), NEW F \in FirstOf(v, n, S, rows), NEW p \in S
  PROVE  /\ Cardinality(Ahead(v, S, p)) \in Nat
         /\ p \in F <=> Cardinality(Ahead(v, S, p)) < n
         /\ p \notin F => F \subseteq Ahead(v, S, p) /\ Cardinality(F) = n
<1> DEFINE A == Ahead(v, S, p)
<1>1. /\ F \subseteq S /\ IsFiniteSet(F) /\ IsFiniteSet(S \ F)
      /\ Cardinality(S) \in Nat /\ Cardinality(F) \in Nat
      /\ Cardinality(F) = IF n < Cardinality(S) THEN n ELSE Cardinality(S)
      /\ Cardinality(S \ F) = Cardinality(S) - Cardinality(F)
      /\ \A r \in F, q \in S \ F : ~SortsBefore(v, rows[q], rows[r])
  BY FirstSize
<1>2. A \subseteq S /\ p \notin A
  BY NotBeforeItself DEF Ahead
<1>3. IsFiniteSet(A) /\ Cardinality(A) \in Nat
  <2> HIDE DEF A
  <2> QED
    BY <1>2, FS_Subset, FS_CardinalityType
<1>4. CASE p \in F
  <2>1. A \subseteq F
    BY <1>1, <1>4 DEF Ahead
  <2> HIDE DEF A
  <2>2. Cardinality(A) <= Cardinality(F) /\ Cardinality(A) # Cardinality(F)
    BY <1>1, <1>2, <1>4, <2>1, FS_Subset
  <2>3. Cardinality(F) <= n
    BY <1>1
  <2>4. Cardinality(A) < n
    BY <1>1, <1>3, <2>2, <2>3
  <2> QED
    BY <1>3, <1>4, <2>4 DEF A
<1>5. CASE p \notin F
  <2>1. F \subseteq A
    BY <1>1, <1>5 DEF Ahead, Sorted
  <2> HIDE DEF A
  <2>2. Cardinality(F) <= Cardinality(A)
    BY <1>3, <2>1, FS_Subset
  <2>3. Cardinality(F) = n
    <3>1. Cardinality(F) # Cardinality(S)
      <4>1. F # S
        BY <1>5
      <4> QED
        BY <1>1, <4>1, FS_Subset
    <3> QED
      BY <1>1, <3>1
  <2>4. ~(Cardinality(A) < n)
    BY <1>1, <1>3, <2>2, <2>3
  <2> QED
    BY <1>3, <1>5, <2>1, <2>3, <2>4 DEF A
<1> QED
  BY <1>4, <1>5

Earlier(v) == PerPage * (v.page - 1)

LEMMA EarlierIs ==
  ASSUME NEW v, ViewOK(v), v.page >= 1
  PROVE  Earlier(v) \in Nat /\ PerPage \in Nat \ {0} /\ v.page * PerPage = Earlier(v) + PerPage
<1>1. PerPage \in Nat \ {0} /\ v.page - 1 \in Nat /\ v.page \in Nat
  BY AdminBounds DEF ViewOK
<1> QED
  BY <1>1 DEF Earlier

(* How many rows a page has does not depend on their order.                *)
LEMMA NextIffMore ==
  ASSUME NEW S, IsFiniteSet(S), NEW v, ViewOK(v), v.page >= 1, NEW P \in PagesOf(v, S, rows)
  PROVE  HasNext(v, Cardinality(S)) <=> P # {} /\ Earlier(v) + Cardinality(P) < Cardinality(S)
<1>1. Earlier(v) \in Nat /\ PerPage \in Nat \ {0} /\ v.page * PerPage = Earlier(v) + PerPage
  BY EarlierIs
<1>2. PICK E \in FirstOf(v, Earlier(v), S, rows) : P \in FirstOf(v, PerPage, S \ E, rows)
  BY DEF PagesOf, Earlier
<1> DEFINE n == Cardinality(S)
           e == Cardinality(E)
           k == Cardinality(P)
<1>3. /\ n \in Nat /\ e \in Nat /\ e = (IF Earlier(v) < n THEN Earlier(v) ELSE n)
      /\ IsFiniteSet(S \ E) /\ Cardinality(S \ E) = n - e
  BY <1>1, FirstSize
<1>4. k \in Nat /\ k = (IF PerPage < n - e THEN PerPage ELSE n - e) /\ IsFiniteSet(P)
  <2>1. /\ k \in Nat /\ IsFiniteSet(P)
        /\ k = IF PerPage < Cardinality(S \ E) THEN PerPage ELSE Cardinality(S \ E)
    BY <1>1, <1>2, <1>3, FirstSize
  <2> HIDE DEF n, e, k
  <2> QED
    BY <1>3, <2>1
<1>5. P # {} <=> k # 0
  BY <1>4, FS_EmptySet
<1>6. HasNext(v, n) <=> Earlier(v) + PerPage < n
  BY <1>1 DEF HasNext
<1> HIDE DEF n, e, k
<1>7. Earlier(v) + PerPage < n <=> k # 0 /\ Earlier(v) + k < n
  BY <1>1, <1>3, <1>4
<1> QED
  BY <1>5, <1>6, <1>7 DEF n, k

(* Which rows it has does not either, if no two of them sort alike.        *)
LEMMA SortedPage ==
  ASSUME TypeOK, NEW S, S \subseteq DOMAIN rows, IsFiniteSet(S),
         NEW v, ViewOK(v), v.page >= 1, Sorted(v, S), NEW P \in PagesOf(v, S, rows)
  PROVE  P = {p \in S : Cardinality(Ahead(v, S, p)) \in Earlier(v)..(Earlier(v) + PerPage - 1)}
<1>1. Earlier(v) \in Nat /\ PerPage \in Nat
  BY EarlierIs
<1>2. PICK E \in FirstOf(v, Earlier(v), S, rows) : P \in FirstOf(v, PerPage, S \ E, rows)
  BY DEF PagesOf, Earlier
<1>3. IsFiniteSet(S \ E) /\ E \subseteq S /\ IsFiniteSet(E)
  BY <1>1, FirstSize
<1>4. P \subseteq S \ E
  BY <1>1, <1>2, <1>3, FirstSize
<1>5. Sorted(v, S \ E) /\ S \ E \subseteq DOMAIN rows
  BY DEF Sorted
<1>6. ASSUME NEW p \in S
      PROVE  p \in P <=> Cardinality(Ahead(v, S, p)) \in Earlier(v)..(Earlier(v) + PerPage - 1)
  <2> DEFINE A == Ahead(v, S, p)
             a == Cardinality(A)
  <2>1. /\ a \in Nat
        /\ p \in E <=> a < Earlier(v)
        /\ p \notin E => E \subseteq A /\ Cardinality(E) = Earlier(v)
    BY <1>1, FirstRows
  <2>2. CASE p \in E
    <3>1. p \notin P /\ a < Earlier(v)
      BY <1>4, <2>1, <2>2
    <3> HIDE DEF A
    <3> QED
      BY <1>1, <2>1, <3>1 DEF A
  <2>3. CASE p \notin E
    <3>1. Ahead(v, S \ E, p) = A \ E
      BY DEF Ahead
    <3>2. p \in P <=> Cardinality(Ahead(v, S \ E, p)) < PerPage
      BY <1>1, <1>2, <1>3, <1>5, <2>3, FirstRows
    <3>3. Cardinality(A \ E) = a - Earlier(v)
      <4>1. A \subseteq S
        BY DEF Ahead
      <4> HIDE DEF A
      <4>2. IsFiniteSet(A) /\ A \cap E = E
        BY <2>1, <2>3, <4>1, FS_Subset
      <4>3. Cardinality(A \ E) = Cardinality(A) - Cardinality(A \cap E)
        BY <4>2, FS_Difference
      <4>4. Cardinality(E) = Earlier(v)
        BY <2>1, <2>3
      <4> QED
        BY <4>2, <4>3, <4>4
    <3>4. p \in P <=> a - Earlier(v) < PerPage
      BY <3>1, <3>2, <3>3
    <3>5. ~(a < Earlier(v))
      BY <2>1, <2>3
    <3> HIDE DEF A, a
    <3>6. p \in P <=> a \in Earlier(v)..(Earlier(v) + PerPage - 1)
      BY <1>1, <2>1, <3>4, <3>5
    <3> QED
      BY <3>6 DEF a, A
  <2> QED
    BY <2>2, <2>3
<1> QED
  BY <1>4, <1>6

LEMMA LinksAreKept ==
  ASSUME TypeOK, ListInv
  PROVE  LinksKeepTheList
<1> SUFFICES ASSUME "view" \in DOMAIN result
             PROVE  LET v == result.view
                        found == Listed(v, rows)
                        mine == Found(result.user, v) IN
                    /\ v.day = 0 => SplitOf(DateLinks(v, rows), {p \in found : rows[p].due # NoDate})
                    /\ \A b \in Breadcrumbs(v) : found \subseteq Listed(b, rows)
                    /\ \A f \in ListFilter \ Choices :
                         SplitOf({FilterLink(v, f, "yes"), FilterLink(v, f, "no")},
                                 {p \in Listed(FilterLink(v, f, "all"), rows) : rows[p][f] # Null})
                    /\ result.at = writes =>
                         /\ result.next =
                              (/\ result.listed # {}
                               /\ Earlier(v) + Cardinality(result.listed) < Cardinality(mine))
                         /\ Sorted(v, mine) =>
                              result.listed =
                                {p \in mine : Cardinality(Ahead(v, mine, p)) \in
                                                Earlier(v)..(Earlier(v) + PerPage - 1)}
  BY DEF LinksKeepTheList, SplitOf, Found, Earlier
<1> DEFINE v == result.view
           mine == Found(result.user, v)
<1>1. /\ ViewOK(v) /\ ~BadView(v)
      /\ result.at = writes => /\ result.listed \in PagesOf(v, mine, rows)
                               /\ result.next = HasNext(v, Cardinality(mine))
  BY DEF ListInv
<1>2. v.day = 0 => SplitOf(DateLinks(v, rows), {p \in Listed(v, rows) : rows[p].due # NoDate})
  BY <1>1, DatesSplit
<1>3. \A b \in Breadcrumbs(v) : Listed(v, rows) \subseteq Listed(b, rows)
  BY <1>1, CrumbsHold
<1>4. \A f \in ListFilter \ Choices :
        SplitOf({FilterLink(v, f, "yes"), FilterLink(v, f, "no")},
                {p \in Listed(FilterLink(v, f, "all"), rows) : rows[p][f] # Null})
  BY <1>1, FiltersSplit
<1>5. mine \subseteq DOMAIN rows /\ IsFiniteSet(mine) /\ v.page >= 1
  <2>1. mine \subseteq DOMAIN rows /\ DOMAIN rows \subseteq Pks /\ IsFiniteSet(Pks)
    BY AdminBounds DEF Found, Listed, TypeOK
  <2>2. v.page >= 1
    BY <1>1 DEF BadView, ViewOK
  <2> HIDE DEF mine
  <2>3. IsFiniteSet(mine)
    BY <2>1, FS_Subset
  <2> QED
    BY <2>1, <2>2, <2>3
<1> HIDE DEF mine, v
<1>6. ASSUME result.at = writes
      PROVE  /\ result.next = (/\ result.listed # {}
                               /\ Earlier(v) + Cardinality(result.listed) < Cardinality(mine))
             /\ Sorted(v, mine) =>
                  result.listed = {p \in mine : Cardinality(Ahead(v, mine, p)) \in
                                                  Earlier(v)..(Earlier(v) + PerPage - 1)}
  <2>1. HasNext(v, Cardinality(mine)) \in BOOLEAN
    BY DEF HasNext
  <2>2. HasNext(v, Cardinality(mine)) <=>
          result.listed # {} /\ Earlier(v) + Cardinality(result.listed) < Cardinality(mine)
    BY <1>1, <1>5, <1>6, NextIffMore
  <2>3. Sorted(v, mine) =>
          result.listed = {p \in mine : Cardinality(Ahead(v, mine, p)) \in
                                          Earlier(v)..(Earlier(v) + PerPage - 1)}
    BY <1>1, <1>5, <1>6, SortedPage
  <2> QED
    BY <1>1, <1>6, <2>1, <2>2, <2>3
<1> QED
  BY <1>2, <1>3, <1>4, <1>6 DEF v, mine

-----------------------------------------------------------------------------
(* What the steps do to the lists that are shown or counted.               *)

(* The list goes on: no request but those that had counted is about to     *)
(* fetch, and what is shown is what was shown.                             *)
Listing(d) == pc'[d] = "fetch" => pc[d] = "fetch" /\ work'[d] = work[d]
TableStep ==
  scene' = scene /\ ((rows' = rows /\ writes' = writes) \/ writes' = writes + 1)
ShownStep == result' = result \/ "view" \notin DOMAIN result'

Unlisted == TableStep /\ ShownStep /\ \A d \in Staff : Listing(d)

LEMMA ListStays ==
  ASSUME TypeOK, ListInv, Unlisted
  PROVE  ListInv'
<1>1. writes \in Nat /\ writes' \in Nat /\ scene' = scene
  BY Bounds DEF TypeOK, Unlisted, TableStep
<1>2. \A n \in Nat : n <= writes => n <= writes' /\ (n = writes' => n = writes /\ rows' = rows)
  BY <1>1 DEF Unlisted, TableStep
<1>3. ASSUME NEW c \in Staff, pc'[c] = "fetch"
      PROVE  LET w == work[c] IN
             /\ work'[c] = w
             /\ ViewOK(w.view) /\ ~BadView(w.view)
             /\ w.at \in Nat /\ w.at <= writes'
             /\ w.at = writes' => w.total = Cardinality(Found(c, w.view))'
  <2>1. pc[c] = "fetch" /\ work'[c] = work[c]
    BY <1>3 DEF Unlisted, Listing
  <2>2. rows' = rows => Cardinality(Found(c, work[c].view))' = Cardinality(Found(c, work[c].view))
    BY <1>1, <2>1 DEF Found, Visible, Tenant
  <2> QED
    BY <1>2, <2>1, <2>2 DEF ListInv
<1>4. ASSUME "view" \in DOMAIN result'
      PROVE  /\ ViewOK(result'.view) /\ ~BadView(result'.view)
             /\ result'.user \in Staff /\ result'.at \in Nat /\ result'.at <= writes'
             /\ result'.at = writes' =>
                  /\ result'.listed \in PagesOf(result'.view, Found(result.user, result.view)', rows')
                  /\ result'.next = HasNext(result'.view, Cardinality(Found(result.user, result.view)'))
  <2>1. result' = result
    BY <1>4 DEF Unlisted, ShownStep
  <2>2. rows' = rows => Found(result.user, result.view)' = Found(result.user, result.view)
    BY <1>1, <2>1 DEF Found, Visible, Tenant
  <2> QED
    BY <1>2, <1>4, <2>1, <2>2 DEF ListInv
<1> QED
  BY <1>3, <1>4 DEF ListInv

LEMMA Starts ==
  ASSUME TypeOK, NEW c, NEW step, step # "fetch", NEW w, Start(c, step, w)
  PROVE  \A d \in Staff : Listing(d)
BY DEF TypeOK, Start, Listing

LEMMA Answers ==
  ASSUME TypeOK, NEW c, NEW call, NEW status, Answer(c, call, status)
  PROVE  ShownStep /\ \A d \in Staff : Listing(d)
<1>1. DOMAIN result' = {"call", "status"}
  BY DEF Answer
<1> QED
  BY <1>1, Starts DEF Answer, ShownStep

LEMMA Overtakes ==
  ASSUME TypeOK, NEW c, NEW S, NEW w, DOMAIN w = Staff, \A d \in Staff \ {c} : w[d] = work[d],
         \A d \in Staff \ {c} : pc'[d] = pc[d], c \in Staff => pc'[c] # "fetch",
         work' = Overtake(c, S, w)
  PROVE  \A d \in Staff : Listing(d)
BY DEF Overtake, Listing

LEMMA Unwritten ==
  ASSUME NoWrite, UNCHANGED scene
  PROVE  TableStep
BY DEF NoWrite, TableStep

LEMMA WriteSteps ==
  ASSUME NEW new, NEW S, Write(new, S), UNCHANGED scene
  PROVE  TableStep
<1>1. writes' = writes + 1
  BY DEF Write
<1> QED
  BY <1>1 DEF TableStep

(* Every step but the two of the list itself.                              *)
LEMMA PostsUnlisted ==
  ASSUME IInv, NEW c \in Staff, NEW p, NEW edits, NEW pks, NEW known, NEW confirmed,
         \/ ChangeGet(c, p) \/ ChangePost(c, edits) \/ AddPost(c, edits)
         \/ SavePost(c, pks, edits) \/ DeletePost(c, p) \/ BulkDeletePost(c, pks, confirmed)
         \/ ActionPost(c, pks, known, confirmed)
  PROVE  Unlisted
<1>1. TypeOK
  BY DEF IInv
<1>2. CASE ChangeGet(c, p)
  <2>1. UNCHANGED <<scene, rows, pc, work, writes>>
    BY <1>2 DEF ChangeGet
  <2>2. ShownStep
    <3>1. ASSUME NEW status, result' = [call |-> "form", status |-> status]
          PROVE  "view" \notin DOMAIN result'
      BY <3>1
    <3> QED
      BY <1>2, <3>1 DEF ChangeGet, ShownStep
  <2> QED
    BY <2>1, <2>2 DEF Unlisted, TableStep, Listing
<1>3. CASE ChangePost(c, edits)
  <2>1. TableStep
    BY <1>3 DEF ChangePost, TableStep
  <2>2. ASSUME NEW w, Start(c, "old", w), UNCHANGED result
        PROVE  Unlisted
    BY <1>1, <2>1, <2>2, Starts DEF Unlisted, ShownStep
  <2> QED
    BY <1>1, <1>3, <2>1, <2>2, Answers DEF ChangePost, Unlisted
<1>4. CASE AddPost(c, edits)
  <2>1. ASSUME NEW status, Answer(c, "add", status), NoWrite, UNCHANGED scene
        PROVE  Unlisted
    BY <1>1, <2>1, Answers, Unwritten DEF Unlisted
  <2>2. ASSUME NEW new, NEW q, NEW w, Write(new, {}), pc' = [pc EXCEPT ![c] = "log"],
               work' = Overtake(c, {q}, [work EXCEPT ![c] = w]), UNCHANGED <<scene, result>>
        PROVE  Unlisted
    <3> DEFINE u == [work EXCEPT ![c] = w]
    <3>1. DOMAIN u = Staff /\ \A d \in Staff \ {c} : u[d] = work[d] /\ pc'[d] = pc[d]
      BY <1>1, <2>2 DEF TypeOK
    <3>2. pc'[c] = "log"
      BY <1>1, <2>2 DEF TypeOK
    <3> HIDE DEF u
    <3>3. \A d \in Staff : Listing(d)
      BY <1>1, <2>2, <3>1, <3>2, Overtakes DEF u
    <3> QED
      BY <2>2, <3>3, WriteSteps DEF Unlisted, ShownStep
  <2> QED
    BY <1>4, <2>1, <2>2 DEF AddPost
<1>5. ASSUME NoWrite, UNCHANGED scene, NEW call, NEW step, NEW w, NEW status, step # "fetch",
             Answer(c, call, status) \/ (Start(c, step, w) /\ UNCHANGED result)
      PROVE  Unlisted
  <2>1. TableStep
    BY <1>5, Unwritten
  <2>2. CASE Answer(c, call, status)
    BY <1>1, <2>1, <2>2, Answers DEF Unlisted
  <2>3. CASE Start(c, step, w) /\ UNCHANGED result
    BY <1>1, <1>5, <2>1, <2>3, Starts DEF Unlisted, ShownStep
  <2> QED
    BY <1>5, <2>2, <2>3
<1>6. CASE SavePost(c, pks, edits)
  BY <1>5, <1>6 DEF SavePost
<1>7. CASE DeletePost(c, p)
  BY <1>5, <1>7 DEF DeletePost
<1>8. CASE BulkDeletePost(c, pks, confirmed)
  BY <1>5, <1>8 DEF BulkDeletePost
<1>9. CASE ActionPost(c, pks, known, confirmed)
  BY SMTT(30), <1>5, <1>9 DEF ActionPost
<1> QED
  BY <1>2, <1>3, <1>4, <1>6, <1>7, <1>8, <1>9

LEMMA WorksUnlisted ==
  ASSUME IInv, NEW c \in Staff,
         \/ ReadOld(c) \/ UpdateFromForm(c) \/ UpdateFields(c) \/ Log(c) \/ Fault(c)
         \/ CheckRelated(c) \/ CheckScope(c) \/ Erase(c) \/ Act(c)
  PROVE  Unlisted
<1>1. TypeOK
  BY DEF IInv
<1>2. ASSUME TableStep, NEW call, NEW step, NEW w, NEW status, step # "fetch",
             Answer(c, call, status) \/ (Start(c, step, w) /\ UNCHANGED result)
      PROVE  Unlisted
  <2>1. CASE Answer(c, call, status)
    BY <1>1, <1>2, <2>1, Answers DEF Unlisted
  <2>2. CASE Start(c, step, w) /\ UNCHANGED result
    BY <1>1, <1>2, <2>2, Starts DEF Unlisted, ShownStep
  <2> QED
    BY <1>2, <2>1, <2>2
<1>3. ASSUME TableStep, UNCHANGED result, NEW step, step # "fetch", NEW p, NEW w,
             pc' = [pc EXCEPT ![c] = step], work' = Overtake(c, {p}, [work EXCEPT ![c] = w])
      PROVE  Unlisted
  <2> DEFINE u == [work EXCEPT ![c] = w]
  <2>1. DOMAIN u = Staff /\ pc'[c] = step /\ \A d \in Staff \ {c} : u[d] = work[d] /\ pc'[d] = pc[d]
    BY <1>1, <1>3 DEF TypeOK
  <2> HIDE DEF u
  <2>2. \A d \in Staff : Listing(d)
    BY <1>1, <1>3, <2>1, Overtakes DEF u
  <2> QED
    BY <1>3, <2>2 DEF Unlisted, ShownStep
<1>4. CASE ReadOld(c)
  <2>1. TableStep
    BY <1>4, Unwritten DEF ReadOld
  <2> QED
    BY <1>2, <1>4, <2>1 DEF ReadOld
<1>5. CASE UpdateFromForm(c)
  <2>1. TableStep
    BY <1>5, Unwritten, WriteSteps DEF UpdateFromForm, TableStep
  <2> QED
    BY ZenonT(60), <1>2, <1>3, <1>5, <2>1 DEF UpdateFromForm
<1>6. CASE UpdateFields(c)
  <2>1. TableStep
    BY <1>6, Unwritten, WriteSteps DEF UpdateFields
  <2> QED
    BY <1>2, <1>3, <1>6, <2>1 DEF UpdateFields
<1>7. CASE Log(c)
  <2>1. TableStep
    BY <1>7 DEF Log, TableStep
  <2> QED
    BY <1>2, <1>7, <2>1 DEF Log
<1>8. CASE Fault(c)
  <2>1. TableStep
    BY <1>8, Unwritten DEF Fault
  <2> QED
    BY <1>1, <1>8, <2>1, Answers DEF Fault, Unlisted
<1>9. CASE CheckRelated(c)
  <2>1. TableStep
    BY <1>9, Unwritten DEF CheckRelated
  <2> QED
    BY <1>2, <1>9, <2>1 DEF CheckRelated, Continue
<1>10. CASE CheckScope(c)
  <2>1. TableStep
    BY <1>10, Unwritten DEF CheckScope
  <2> QED
    BY ZenonT(60), <1>2, <1>10, <2>1 DEF CheckScope, Continue
<1>11. CASE Erase(c)
  <2>1. TableStep
    BY <1>11, Unwritten, WriteSteps DEF Erase
  <2> QED
    BY ZenonT(60), <1>1, <1>2, <1>3, <1>11, <2>1, Answers DEF Erase, Continue, Unlisted
<1>12. CASE Act(c)
  <2>1. TableStep
    BY <1>12, Unwritten, WriteSteps DEF Act
  <2> QED
    BY <1>3, <1>12, <2>1 DEF Act
<1> QED
  BY <1>4, <1>5, <1>6, <1>7, <1>8, <1>9, <1>10, <1>11, <1>12

LEMMA OthersUnlisted ==
  ASSUME IInv, NEW c, NEW p,
         Export(c) \/ Index(c) \/ History(c, p) \/ Bump(p) \/ Drop(p) \/ AddChild(p)
  PROVE  Unlisted
<1>1. TypeOK
  BY DEF IInv
<1>2. CASE Export(c) \/ Index(c) \/ History(c, p)
  <2>1. UNCHANGED <<scene, rows, pc, work, writes>>
    BY <1>2 DEF Export, Index, History
  <2>2. "view" \notin DOMAIN result'
    <3>1. CASE Export(c)
      BY <3>1 DEF Export
    <3>2. CASE Index(c)
      BY <3>2 DEF Index
    <3>3. CASE History(c, p)
      BY <3>3 DEF History
    <3> QED
      BY <1>2, <3>1, <3>2, <3>3
  <2> QED
    BY <2>1, <2>2 DEF Unlisted, TableStep, ShownStep, Listing
<1>3. CASE Bump(p) \/ Drop(p)
  <2>1. TableStep
    BY <1>3, WriteSteps DEF Bump, Drop
  <2>2. work' = Overtake(Null, {p}, work) /\ UNCHANGED <<pc, result>>
    BY <1>3 DEF Bump, Drop
  <2>3. \A d \in Staff : Listing(d)
    BY <1>1, <2>2, Bounds DEF Overtake, Listing
  <2> QED
    BY <2>1, <2>2, <2>3 DEF Unlisted, ShownStep
<1>4. CASE AddChild(p)
  BY <1>4 DEF AddChild, Unlisted, TableStep, ShownStep, Listing
<1> QED
  BY <1>2, <1>3, <1>4

-----------------------------------------------------------------------------
(* The views that are asked for.                                           *)

LEMMA SearchOK ==
  ASSUME NEW v, ViewOK(v), NEW term
  PROVE  ViewOK(SearchFor(v, term))
<1> DEFINE u == FirstPage(v)
<1>1. /\ DOMAIN u = ViewFields /\ u.order = v.order /\ u.page = 1
      /\ u.year = v.year /\ u.month = v.month /\ u.day = v.day
  BY FirstPageIs
<1> HIDE DEF u
<1>2. ViewOK([u EXCEPT !.term = term])
  BY <1>1 DEF ViewOK, ViewFields
<1> QED
  BY <1>2 DEF SearchFor, u

LEMMA LinksOK ==
  ASSUME TypeOK, NEW v, ViewOK(v), ~BadView(v), v = result.view, NEW l \in Links(v)
  PROVE  ViewOK(l)
<1>1. CASE l = NextPage(v)
  BY <1>1 DEF NextPage, ViewOK, ViewFields
<1>2. CASE l \in DateLinks(v, rows)
  <2>1. PICK d \in Dates : v.day = 0 /\ Prefix(v, d) /\ l = DateLink(v, Part(v, d))
    BY <1>2, ValuesAre DEF DateLinks
  <2>2. IsDay(d)
    BY <2>1, DueIs DEF Dates
  <2> QED
    BY <2>1, <2>2, DateLinkIs
<1>3. CASE l \in Breadcrumbs(v)
  <2>1. /\ DOMAIN l = ViewFields /\ l.order = v.order /\ l.page = 1 /\ l.day = 0
        /\ l.year \in {0, v.year} /\ l.month \in {0, v.month}
    BY <1>3, CrumbIs
  <2> QED
    BY <2>1 DEF ViewOK
<1>4. ASSUME NEW f, NEW choice, l = FilterLink(v, f, choice)
      PROVE  ViewOK(l)
  <2>1. /\ DOMAIN l = ViewFields /\ l.order = v.order /\ l.page = 1
        /\ l.year = v.year /\ l.month = v.month /\ l.day = v.day
    BY <1>4, FirstPageIs DEF FilterLink, ViewFields
  <2> QED
    BY <2>1 DEF ViewOK
<1>5. CASE l = HeaderLink(v)
  BY <1>5, FirstPageIs DEF HeaderLink, ViewOK, ViewFields
<1> QED
  BY <1>1, <1>2, <1>3, <1>4, <1>5 DEF Links

LEMMA SceneViews ==
  ASSUME TypeOK, NEW v \in scene.views
  PROVE  ViewOK(v)
<1>1. DOMAIN NoView = ViewFields
  BY DEF NoView, ViewFields
<1> QED
  BY <1>1, SceneAssumption DEF TypeOK, ViewOK

-----------------------------------------------------------------------------
(* A list is counted, then shown.                                          *)

LEMMA BrowseLists ==
  ASSUME IInv, ListInv, NEW c \in Staff, NEW v, ViewOK(v), Browse(c, v)
  PROVE  ListInv'
<1>1. TypeOK /\ writes \in Nat
  BY Bounds DEF IInv, TypeOK
<1>2. TableStep /\ UNCHANGED <<scene, rows, writes>>
  BY Unwritten DEF Browse, NoWrite
<1>3. CASE \E status : Answer(c, "browse", status)
  BY <1>1, <1>2, <1>3, Answers, ListStays DEF Unlisted
<1>4. CASE /\ ~BadView(v) /\ UNCHANGED result
           /\ Start(c, "fetch", [call |-> "browse", pks |-> <<>>, view |-> v,
                                 total |-> Cardinality(Found(c, v)), at |-> writes])
  <2> DEFINE w == [call |-> "browse", pks |-> <<>>, view |-> v,
                   total |-> Cardinality(Found(c, v)), at |-> writes]
  <2>1. \A u, d : Found(d, u)' = Found(d, u)
    BY <1>2 DEF Found, Visible, Tenant
  <2>2. w.view = v /\ w.total = Cardinality(Found(c, v)) /\ w.at = writes
    OBVIOUS
  <2> HIDE DEF w
  <2>3. work'[c] = w /\ \A d \in Staff \ {c} : work'[d] = work[d] /\ pc'[d] = pc[d]
    BY <1>1, <1>4 DEF Start, TypeOK, w
  <2>4. ASSUME NEW d \in Staff, pc'[d] = "fetch"
        PROVE  LET u == work'[d] IN
               /\ ViewOK(u.view) /\ ~BadView(u.view)
               /\ u.at \in Nat /\ u.at <= writes
               /\ u.at = writes => u.total = Cardinality(Found(d, u.view))
    <3>1. CASE d = c
      BY <1>1, <1>4, <2>2, <2>3, <3>1
    <3>2. CASE d # c
      BY <2>3, <2>4, <3>2 DEF ListInv
    <3> QED
      BY <3>1, <3>2
  <2>5. \A d \in Staff : Cardinality(Found(d, work[d].view))' = Cardinality(Found(d, work'[d].view))
    BY <1>2 DEF Found, Visible, Tenant
  <2>6. Found(result.user, result.view)' = Found(result.user, result.view)
    BY <1>2, <1>4 DEF Found, Visible, Tenant
  <2>7. result' = result /\ writes' = writes
    BY <1>2, <1>4
  <2> QED
    BY <1>2, <2>4, <2>5, <2>6, <2>7 DEF ListInv
<1> QED
  BY <1>3, <1>4 DEF Browse, Found

LEMMA FetchPageLists ==
  ASSUME IInv, ListInv, NEW c \in Staff, FetchPage(c)
  PROVE  ListInv'
<1> DEFINE v == work[c].view
           S == Found(c, v)
<1>1. TypeOK /\ writes \in Nat
  BY Bounds DEF IInv, TypeOK
<1>2. /\ UNCHANGED <<scene, rows, writes>>
      /\ pc[c] = "fetch" /\ Start(c, "idle", NoWork)
  BY DEF FetchPage, NoWrite
<1> PICK listed \in PagesOf(v, S, rows) :
      result' = [call |-> "browse", status |-> 200, view |-> v, user |-> c, listed |-> listed,
                 next |-> HasNext(v, work[c].total), at |-> work[c].at]
  BY DEF FetchPage, Found
<1>3. /\ ViewOK(v) /\ ~BadView(v)
      /\ work[c].at \in Nat /\ work[c].at <= writes
      /\ work[c].at = writes => work[c].total = Cardinality(S)
  BY <1>2 DEF ListInv
<1>4. \A d \in Staff : pc'[d] = "fetch" => pc[d] = "fetch" /\ work'[d] = work[d]
  BY <1>1, <1>2, Starts DEF Listing
<1>5. /\ result'.view = v /\ result'.user = c /\ result'.at = work[c].at
      /\ result'.listed \in PagesOf(v, S, rows) /\ result'.next = HasNext(v, work[c].total)
  OBVIOUS
<1>6. Found(result.user, result.view)' = S
  BY <1>2, <1>5 DEF Found, Visible, Tenant
<1>7. \A d \in Staff : pc'[d] = "fetch" =>
        Cardinality(Found(d, work[d].view))' = Cardinality(Found(d, work[d].view))
  BY <1>2, <1>4 DEF Found, Visible, Tenant
<1> HIDE DEF v, S
<1>8. \A d \in Staff : pc'[d] = "fetch" =>
        LET w == work'[d] IN
        /\ ViewOK(w.view) /\ ~BadView(w.view)
        /\ w.at \in Nat /\ w.at <= writes'
        /\ w.at = writes' => w.total = Cardinality(Found(d, work[d].view))'
  BY <1>2, <1>4, <1>7 DEF ListInv
<1> QED
  BY <1>2, <1>3, <1>5, <1>6, <1>8 DEF ListInv

LEMMA ListNext ==
  ASSUME IInv, ListInv, [Next]_vars
  PROVE  ListInv'
<1>1. TypeOK
  BY DEF IInv
<1>2. ASSUME Unlisted
      PROVE  ListInv'
  BY <1>1, <1>2, ListStays
<1>3. ASSUME NEW c \in Staff, NEW v \in scene.views, Browse(c, v)
      PROVE  ListInv'
  BY <1>1, <1>3, SceneViews, BrowseLists
<1>4. ASSUME NEW c \in Staff, Follow(c) \/ SearchBox(c)
      PROVE  ListInv'
  <2>1. "view" \in DOMAIN result
    BY <1>4 DEF Follow, SearchBox
  <2>2. ViewOK(result.view) /\ ~BadView(result.view)
    BY <2>1 DEF ListInv
  <2>3. PICK v : ViewOK(v) /\ Browse(c, v)
    BY <1>1, <1>4, <2>2, LinksOK, SearchOK DEF Follow, SearchBox
  <2> QED
    BY <2>3, BrowseLists
<1>5. ASSUME NEW c, NEW p,
             Export(c) \/ Index(c) \/ History(c, p) \/ Bump(p) \/ Drop(p) \/ AddChild(p)
      PROVE  ListInv'
  BY <1>2, <1>5, OthersUnlisted
<1>6. ASSUME NEW c \in Staff, NEW p, NEW edits,
             ChangeGet(c, p) \/ DeletePost(c, p) \/ ChangePost(c, edits) \/ AddPost(c, edits)
      PROVE  ListInv'
  BY <1>2, <1>6, PostsUnlisted
<1>7. ASSUME NEW c \in Staff, NEW pks, NEW edits, NEW known, NEW confirmed,
             \/ SavePost(c, pks, edits) \/ BulkDeletePost(c, pks, confirmed)
             \/ ActionPost(c, pks, known, confirmed)
      PROVE  ListInv'
  BY <1>2, <1>7, PostsUnlisted
<1>8. ASSUME NEW c \in Staff,
             \/ ReadOld(c) \/ UpdateFromForm(c) \/ UpdateFields(c) \/ Log(c)
             \/ CheckRelated(c) \/ CheckScope(c) \/ Erase(c) \/ Act(c) \/ Fault(c)
      PROVE  ListInv'
  BY <1>2, <1>8, WorksUnlisted
<1>9. CASE UNCHANGED vars
  BY <1>2, <1>9 DEF vars, Unlisted, TableStep, ShownStep, Listing
<1>10. CASE Next
  BY <1>3, <1>4, <1>5, <1>6, <1>7, <1>8, <1>10, FetchPageLists DEF Next
<1> QED
  BY <1>9, <1>10

-----------------------------------------------------------------------------
(* The theorems.                                                           *)

LEMMA InitInv == Init => IInv
<1> SUFFICES ASSUME Init PROVE IInv
  OBVIOUS
<1>1. \A c \in Staff : pc[c] = "idle" /\ work[c] = NoWork /\ form[c] = NoForm
  BY DEF Init
<1>2. Requests
  BY <1>1 DEF Init, Requests, FormOK, RequestOK, Steps
<1>3. TypeOK
  <2>1. \A c \in Staff : (pc[c] = "idle") = (work[c] = NoWork)
    BY <1>1
  <2>2. /\ DOMAIN rows \subseteq Pks /\ \A p \in DOMAIN rows : IsRow(rows[p])
        /\ \A k \in DOMAIN children : children[k] \in DOMAIN rows
    BY SceneAssumption DEF Init
  <2>3. log \in Seq(Entry)
    BY DEF Init
  <2>4. writes \in 0..scene.bounds[1] /\ requests \in 0..scene.bounds[2] /\ faults \in 0..scene.bounds[3]
    BY Bounds DEF Init
  <2> QED
    BY <1>1, <1>2, <2>1, <2>2, <2>3, <2>4 DEF TypeOK, Requests, Init
<1>4. FormsKeepTheRest
  BY DEF Init, FormsKeepTheRest
<1>5. AuditTrail
  <2>1. \A p : LoggedDeletions(p) = {} /\ PendingDeletions(p) = {}
    BY <1>1 DEF Init, LoggedDeletions, PendingDeletions
  <2>2. Cardinality({}) = 0
    BY FS_EmptySet
  <2>3. ASSUME NEW p \in Pks
        PROVE  /\ Cardinality(LoggedDeletions(p)) + Cardinality(PendingDeletions(p)) <= deleted[p]
               /\ deleted[p] <= Cardinality(LoggedDeletions(p)) + Cardinality(PendingDeletions(p)) + lost
    <3>1. deleted[p] = 0 /\ lost = 0
      BY DEF Init
    <3> QED
      BY <2>1, <2>2, <3>1
  <2>4. \A i \in DOMAIN log : log[i].exact => log[i].diff = log[i].changed
    BY DEF Init
  <2> QED
    BY <2>3, <2>4 DEF AuditTrail
<1> QED
  BY <1>2, <1>3, <1>4, <1>5 DEF IInv

LEMMA NextInv == IInv /\ [Next]_vars => IInv'
<1> SUFFICES ASSUME IInv, [Next]_vars PROVE IInv'
  OBVIOUS
<1>1. ASSUME NEW c \in Staff, NEW p \in Pks, ChangeGet(c, p) \/ DeletePost(c, p) \/ History(c, p)
      PROVE  IInv'
  <2>1. CASE History(c, p)
    BY <2>1, ShownInv DEF History, history
  <2> QED
    BY <1>1, <2>1, ChangeGetInv, DeletePostInv
<1>2. ASSUME NEW c \in Staff, NEW edits \in scene.edits, ChangePost(c, edits) \/ AddPost(c, edits)
      PROVE  IInv'
  BY <1>2, ChangePostInv, AddPostInv
<1>3. ASSUME NEW c \in Staff, NEW pks \in scene.selections, NEW edits \in scene.edits,
             SavePost(c, pks, edits)
      PROVE  IInv'
  BY <1>3, SavePostInv
<1>4. ASSUME NEW c \in Staff, NEW pks \in scene.selections, NEW known, NEW confirmed,
             BulkDeletePost(c, pks, confirmed) \/ ActionPost(c, pks, known, confirmed)
      PROVE  IInv'
  BY <1>4, BulkDeletePostInv, ActionPostInv
<1>5. ASSUME NEW c \in Staff, NEW v, Browse(c, v)
      PROVE  IInv'
  BY <1>5, BrowseInv
<1>6. ASSUME NEW c \in Staff,
             ReadOld(c) \/ UpdateFromForm(c) \/ UpdateFields(c) \/ Log(c) \/ Fault(c)
      PROVE  IInv'
  BY <1>6, ReadOldInv, UpdateFromFormInv, UpdateFieldsInv, LogInv, FaultInv
<1>7. ASSUME NEW c \in Staff, CheckRelated(c) \/ CheckScope(c) \/ Erase(c) \/ Act(c)
      PROVE  IInv'
  BY <1>7, CheckRelatedInv, CheckScopeInv, EraseInv, ActInv
<1>8. ASSUME NEW c \in Staff, Export(c) \/ Index(c) \/ Follow(c) \/ SearchBox(c) \/ FetchPage(c)
      PROVE  IInv'
  <2>1. CASE Export(c)
    BY <2>1, ShownInv DEF Export, history
  <2>2. CASE Index(c)
    BY <2>2, ShownInv DEF Index, history
  <2>3. CASE Follow(c) \/ SearchBox(c)
    BY <2>3, BrowseInv DEF Follow, SearchBox
  <2>4. CASE FetchPage(c)
    BY <2>4, FetchPageInv
  <2> QED
    BY <1>8, <2>1, <2>2, <2>3, <2>4
<1>9. ASSUME NEW p \in Pks, Bump(p) \/ Drop(p) \/ AddChild(p)
      PROVE  IInv'
  BY <1>9, BumpInv, DropInv, AddChildInv
<1>10. CASE UNCHANGED vars
  BY <1>10, ShownInv DEF vars, counters
<1>11. CASE Next
  BY <1>1, <1>2, <1>3, <1>4, <1>5, <1>6, <1>7, <1>8, <1>9, <1>11 DEF Next
<1> QED
  BY <1>10, <1>11

LEMMA ListInit == Init => ListInv
BY DEF Init, ListInv, NoResult

(* In every reachable state the requests under way, the open forms, the    *)
(* log and the rows are as IInv says, whatever the registered model, the   *)
(* staff and the programs that write its rows.                             *)
THEOREM InductiveInvariant == Spec => []IInv
<1>1. Init => IInv
  BY InitInv
<1>2. IInv /\ [Next]_vars => IInv'
  BY NextInv
<1> QED
  BY <1>1, <1>2, PTL DEF Spec

(* Rows hold what their columns admit; a request has keys left at each of  *)
(* its steps that reads the first of them.                                 *)
THEOREM TypeCorrect == Spec => []TypeOK
<1>1. IInv => TypeOK
  BY DEF IInv
<1> QED
  BY <1>1, InductiveInvariant, PTL

(* change_post writes every column of the row: what its user did not touch *)
(* gets the value it had when the form was opened, whoever wrote the row   *)
(* since, but for the exceptions FormsKeepTheRest names.                   *)
THEOREM FormsKeep == Spec => []FormsKeepTheRest
<1>1. IInv => FormsKeepTheRest
  BY DEF IInv
<1> QED
  BY <1>1, InductiveInvariant, PTL

(* Every deletion by the delete views has one entry in djangors_admin_log, *)
(* written or about to be, but for those lost to a failure in between; and *)
(* the diff of an edit nobody overtook is what the UPDATE changed.         *)
THEOREM Audit == Spec => []AuditTrail
<1>1. IInv => AuditTrail
  BY DEF IInv
<1> QED
  BY <1>1, InductiveInvariant, PTL

(* changelist: the date links of a page split its rows that have a date,   *)
(* the two links of a boolean filter the rows that have a value, and a     *)
(* breadcrumb leads to no fewer rows.  As long as nobody writes in the     *)
(* meantime there is a next page exactly if rows of the user are left, and *)
(* a page has the rows of its rank if ?o= tells all of them apart.         *)
THEOREM LinksKeep == Spec => []LinksKeepTheList
<1>1. Init => IInv /\ ListInv
  BY InitInv, ListInit
<1>2. IInv /\ ListInv /\ [Next]_vars => (IInv /\ ListInv)'
  BY NextInv, ListNext
<1>3. IInv /\ ListInv => LinksKeepTheList
  BY LinksAreKept DEF IInv
<1> QED
  BY <1>1, <1>2, <1>3, PTL DEF Spec

=============================================================================
