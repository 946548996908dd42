------------------------------ MODULE Payments ------------------------------
(***************************************************************************)
(* An application starts charges with a payment provider, asks it what     *)
(* became of them and refunds them; the provider reports payments with     *)
(* webhooks, again and again until one is accepted.  All of them write the *)
(* row of a reference, in several statements; a request may die between    *)
(* two, an answer may be lost, and staff may delete rows.                  *)
(***************************************************************************)
EXTENDS Providers

CONSTANTS
  Clients,        \* requests the application serves at one time
  CheckoutIds,    \* the ids the provider gives, in order
  Scenes          \* [provider, database, orders, calls, detail, echoes, trims, secret, timed,
                  \* complete, foreign, requests, crashes, deletions, repeats]: what is ordered by
                  \* reference, how much the provider tells, how it signs, bounds

(* An amount of Bachs, at the precision of its currency.                   *)
Precise(decimal, currency) ==
  /\ decimal \in [negative : BOOLEAN, whole : Nat, digits : {Exponent(currency)},
                  fraction : 0..Power(Exponent(currency)) - 1]
  /\ decimal.negative => decimal.whole + decimal.fraction > 0

(* Amounts fit in an i64 and so do their absolutes; what others charged    *)
(* through the same account has references of its own.                     *)
OrderOK(order) == order.amount \in -MaxInt..MaxInt /\ order.currency # None

ForeignOK(k, provider) ==
  /\ k = [reference |-> k.reference, amount |-> k.amount, currency |-> k.currency, status |-> "open"]
  /\ k.currency # None
  /\ IF provider = "bachs" THEN Precise(k.amount, k.currency) ELSE k.amount \in Int

ASSUME SceneAssumption ==
  \A s \in Scenes :
    /\ s.provider \in {"paystack", "bachs"} /\ s.database \in {"postgres", "sqlite"}
    /\ {s.requests, s.crashes, s.deletions, s.repeats} \subseteq Nat
    /\ \A r \in DOMAIN s.orders : OrderOK(s.orders[r])
    /\ s.foreign \in Seq({s.foreign[i] : i \in DOMAIN s.foreign})
    /\ Len(s.foreign) <= Len(CheckoutIds)
    /\ \A i \in DOMAIN s.foreign :
         /\ ForeignOK(s.foreign[i], s.provider)
         /\ s.foreign[i].reference \notin DOMAIN s.orders
         /\ \A j \in DOMAIN s.foreign : s.foreign[i].reference = s.foreign[j].reference => i = j

VARIABLES
  scene,
  checkouts,      \* the provider's: sequence of [reference, amount, currency, status]
  reports,        \* the webhooks it sends: [checkout -> [kind, delivery]]
  accepted,       \* the checkouts whose report of payment was accepted
  rows,           \* djangors_payments_transaction: [reference -> [id, amount, currency, status]]
  lastid,
  pc, work, answer,
  requests, crashes, deletions, repeats,
  confirmed,      \* history: references confirmed by a webhook, their row not deleted since
  behind          \* history: references that were paid, and then written pending or failed
                  \* with an answer the provider had given before

vars == <<scene, checkouts, reports, accepted, rows, lastid, pc, work, answer, requests, crashes,
          deletions, repeats, confirmed, behind>>

NoWork == [call |-> "none"]
References == DOMAIN scene.orders
CheckoutNumbers == 1..Len(CheckoutIds)
Orders == UNION {DOMAIN s.orders : s \in Scenes}
Bachs == scene.provider = "bachs"

ForeignNames == UNION {{s.foreign[i].reference : i \in DOMAIN s.foreign} : s \in Scenes}

Names == Orders \cup ForeignNames \cup {CheckoutIds[i] : i \in CheckoutNumbers}

(* The provider's ids are its own: each names one checkout.                *)
ASSUME IdAssumption ==
  /\ CheckoutIds \in Seq({CheckoutIds[i] : i \in CheckoutNumbers})
  /\ \A i, j \in CheckoutNumbers : CheckoutIds[i] = CheckoutIds[j] => i = j
  /\ \A i \in CheckoutNumbers : CheckoutIds[i] \notin Orders \cup ForeignNames \cup {None}
  /\ None \notin Orders \cup ForeignNames

Init ==
  /\ scene \in Scenes
  /\ checkouts = scene.foreign /\ reports = <<>> /\ accepted = {}
  /\ rows = <<>> /\ lastid = 0
  /\ pc = [c \in Clients |-> "idle"] /\ work = [c \in Clients |-> NoWork] /\ answer = NoWork
  /\ requests = 0 /\ crashes = 0 /\ deletions = 0 /\ repeats = 0
  /\ confirmed = {} /\ behind = {}

history == <<confirmed, behind, accepted>>
table == <<rows, lastid>>
bounds == <<requests, crashes, deletions, repeats, scene>>

Go(c, step, w) ==
  pc' = [pc EXCEPT ![c] = step] /\ work' = [work EXCEPT ![c] = w] /\ UNCHANGED answer

Finish(c, w, status) ==
  /\ pc' = [pc EXCEPT ![c] = "idle"] /\ work' = [work EXCEPT ![c] = NoWork]
  /\ answer' = [call |-> w.call, status |-> status, due |-> w.due, deleted |-> w.deleted]

-----------------------------------------------------------------------------
(* The provider's side.                                                    *)
Settled == {"paid", "refunded", "partially_refunded"}

(* An amount may be shown without its trailing zeros.                      *)
Trimmed(decimal) ==
  LET enough == {n \in 0..decimal.digits : decimal.fraction % Power(decimal.digits - n) = 0}
      n == CHOOSE m \in enough : \A o \in enough : m <= o IN
  [decimal EXCEPT !.digits = n, !.fraction = @ \div Power(decimal.digits - n)]

Shown(amount) == IF Bachs /\ scene.trims THEN Trimmed(amount) ELSE amount
Echo(k) == IF scene.echoes THEN k.reference ELSE None
Called(i) == IF Bachs /\ ~scene.echoes THEN CheckoutIds[i] ELSE checkouts[i].reference
Paid(name) == \E i \in DOMAIN checkouts : Called(i) = name /\ checkouts[i].status \in Settled

(* The session of Bachs: the charge, the payment or only the checkout.     *)
Session(k) ==
  LET done == k.status # "open" IN
  [reference |-> Echo(k), amount |-> Shown(k.amount), currency |-> k.currency,
   charge |-> IF scene.detail # "charge" \/ ~done THEN [status |-> None]
              ELSE [status |-> IF k.status = "paid" THEN "succeeded" ELSE k.status,
                    amount |-> Shown(k.amount), currency |-> k.currency],
   payment |-> IF scene.detail # "payment" \/ ~done THEN None
               ELSE IF k.status = "failed" THEN "failed" ELSE "succeeded",
   status |-> IF ~done THEN "OPEN" ELSE IF k.status = "failed" THEN "EXPIRED" ELSE "COMPLETED"]

PaystackData(k) ==
  [reference |-> k.reference, amount |-> k.amount,
   status |-> IF k.status = "open" THEN "ongoing"
              ELSE IF k.status = "failed" THEN "abandoned" ELSE "success"]

Delivery(i, kind) ==
  LET k == checkouts[i]
      time == IF scene.timed THEN "t1" ELSE None
      body == IF Bachs
                THEN [event |-> IF kind = "paid" THEN "collection.succeeded" ELSE "collection.failed",
                      checkout |-> CheckoutIds[i], reference |-> Echo(k), amount |-> Shown(k.amount),
                      currency |-> IF scene.complete THEN k.currency ELSE None]
                ELSE [event |-> IF kind = "paid" THEN "charge.success" ELSE "charge.failed",
                      status |-> IF kind = "paid" THEN "success" ELSE "failed",
                      reference |-> k.reference, amount |-> k.amount] IN
  [body |-> body, time |-> time,
   mac |-> Sign(scene.secret, IF Bachs THEN <<time, body>> ELSE body)]

(* A customer pays, or does not, and the provider reports it.              *)
Settle(i, kind) ==
  /\ i \in DOMAIN checkouts /\ checkouts[i].status = "open"
  /\ checkouts' = [checkouts EXCEPT ![i].status = kind]
  /\ reports' = With(reports, [j \in {i} |-> [kind |-> kind, delivery |-> Delivery(i, kind)]])
  /\ UNCHANGED <<table, history, bounds, pc, work, answer>>

-----------------------------------------------------------------------------
(* The application's calls: initiate, then record_charge_initiated.        *)
(* Paystack is not told the currency and takes that of the account.        *)
PaystackCharge(reference, order) ==
  [reference |-> reference, amount |-> order.amount, currency |-> "NGN", status |-> "open"]

BachsCharge(reference, order) ==
  [reference |-> reference, amount |-> MinorToDecimal(order.amount, order.currency),
   currency |-> order.currency, status |-> "open"]

Charge(reference) ==
  LET order == scene.orders[reference] IN
  IF Bachs THEN BachsCharge(reference, order) ELSE PaystackCharge(reference, order)

Requested(c, call) ==
  /\ pc[c] = "idle" /\ call \in scene.calls
  /\ requests < scene.requests /\ requests' = requests + 1
  /\ UNCHANGED <<crashes, deletions, repeats, scene>>

Initiate(c, reference, answered) ==
  LET order == scene.orders[reference]
      refused == \/ Len(checkouts) = Len(CheckoutIds)
                 \/ ~Bachs /\ \E i \in DOMAIN checkouts : checkouts[i].reference = reference
      w == [call |-> "initiate", name |-> reference, amount |-> order.amount,
            currency |-> order.currency, due |-> ~refused /\ answered, deleted |-> FALSE] IN
  /\ Requested(c, "initiate") /\ reference \in References
  /\ checkouts' = IF refused THEN checkouts ELSE Append(checkouts, Charge(reference))
  /\ IF refused \/ ~answered THEN Finish(c, w, "error") ELSE Go(c, "insert", w)
  /\ UNCHANGED <<reports, table, history>>

(* verify, then mark_transaction_status with what it says.                 *)
Verified(k) == IF Bachs THEN BachsVerified(Session(k)) ELSE PaystackVerified(PaystackData(k))

Marking(call, name, status, early) ==
  [call |-> call, name |-> name, status |-> status, early |-> early, due |-> TRUE, deleted |-> FALSE]

Poll(c, i) ==
  LET verified == Verified(checkouts[i])
      w == Marking("poll", checkouts[i].reference, verified.status,
                   checkouts[i].status \notin Settled) IN
  /\ Requested(c, "poll") /\ i \in DOMAIN checkouts
  /\ IF verified.amount = NoAmount THEN Finish(c, w, "error") ELSE Go(c, "mark", w)
  /\ UNCHANGED <<checkouts, reports, table, history>>

(* refund: of Bachs it first reads the charge.                             *)
ReadCharge(c, i) ==
  LET w == With(Marking("refund", checkouts[i].reference, "refunded", FALSE), [checkout |-> i]) IN
  /\ Requested(c, "refund") /\ i \in DOMAIN checkouts
  /\ IF Bachs /\ Session(checkouts[i]).charge.status = None THEN Finish(c, w, "error")
     ELSE Go(c, "refund", w)
  /\ UNCHANGED <<checkouts, reports, table, history>>

PostRefund(c, status, answered) ==
  LET w == work[c]
      refused == checkouts[w.checkout].status # "paid" IN
  /\ pc[c] = "refund"
  /\ checkouts' = IF refused THEN checkouts ELSE [checkouts EXCEPT ![w.checkout].status = status]
  /\ IF refused \/ ~answered THEN Finish(c, w, "error") ELSE Go(c, "mark", w)
  /\ UNCHANGED <<reports, table, history, bounds>>

-----------------------------------------------------------------------------
(* A webhook arrives.  It is refused before any statement, or looks up its *)
(* reference.                                                              *)
EventOf(delivery) ==
  IF Bachs THEN BachsEvent(delivery, "live") ELSE PaystackEvent(delivery, "live")

(* Whether a report is the provider's own and tells all there is to know.  *)
Genuine(i) ==
  /\ i \in DOMAIN reports /\ reports[i].kind = "paid" /\ scene.secret = "live"
  /\ IF Bachs
       THEN /\ scene.timed /\ scene.complete
            /\ DecimalToMinor(checkouts[i].amount, checkouts[i].currency) # NoAmount
       ELSE IsI64(checkouts[i].amount)

Deliver(c, i) ==
  LET event == EventOf(reports[i].delivery)
      w == [call |-> "webhook", name |-> event.reference, status |-> "success",
            amount |-> event.amount, currency |-> event.currency, checkout |-> i,
            due |-> Genuine(i), deleted |-> FALSE] IN
  /\ pc[c] = "idle" /\ i \in DOMAIN reports
  /\ IF i \in accepted THEN repeats < scene.repeats /\ repeats' = repeats + 1
                       ELSE UNCHANGED repeats
  /\ IF event.accepted THEN Go(c, "find", w) ELSE Finish(c, w, "error")
  /\ UNCHANGED <<checkouts, reports, table, history, requests, crashes, deletions, scene>>

Find(c) ==
  LET w == work[c] IN
  /\ pc[c] = "find"
  /\ Go(c, IF w.name \in DOMAIN rows THEN "mark" ELSE "insert", w)
  /\ UNCHANGED <<checkouts, reports, table, history, bounds>>

-----------------------------------------------------------------------------
(* record_charge_initiated: an INSERT; when the reference is taken, the    *)
(* row there is the answer.                                                *)
ConflictCode == IF scene.database = "postgres" THEN "23505" ELSE "2067"

(* Variant: only Postgres's code is known.                                 *)
PostgresViolation(code) == code = "23505"

UniqueViolation(code) == code \in {"23505", "2067", "1555"}

Recorded(c, w) == IF w.call = "webhook" THEN Go(c, "mark", w) ELSE Finish(c, w, "ok")

Insert(c) ==
  LET w == work[c] IN
  /\ pc[c] = "insert"
  /\ IF w.name \notin DOMAIN rows
       THEN /\ rows' = With(rows, [n \in {w.name} |->
                          [id |-> lastid + 1, amount |-> w.amount, currency |-> w.currency,
                           status |-> "pending"]])
            /\ lastid' = lastid + 1
            /\ Recorded(c, w)
       ELSE /\ IF UniqueViolation(ConflictCode) THEN Go(c, "existing", w) ELSE Finish(c, w, "error")
            /\ UNCHANGED table
  /\ UNCHANGED <<checkouts, reports, history, bounds>>

FindExisting(c) ==
  LET w == work[c] IN
  /\ pc[c] = "existing"
  /\ IF w.name \in DOMAIN rows THEN Recorded(c, w) ELSE Finish(c, w, "error")
  /\ UNCHANGED <<checkouts, reports, table, history, bounds>>

(* mark_transaction_status: the row is read, and written back whole by its *)
(* id.                                                                     *)
Mark(c) ==
  LET w == work[c] IN
  /\ pc[c] = "mark"
  /\ IF w.name \in DOMAIN rows
       THEN Go(c, "update", With(w, [row |-> [rows[w.name] EXCEPT !.status = w.status]]))
       ELSE Finish(c, w, IF w.call = "webhook" THEN "error" ELSE "no row")
  /\ UNCHANGED <<checkouts, reports, table, history, bounds>>

Update(c) ==
  LET w == work[c]
      there == w.name \in DOMAIN rows /\ rows[w.name].id = w.row.id IN
  /\ pc[c] = "update"
  /\ Finish(c, w, IF there THEN "ok" ELSE "error")
  /\ IF ~there THEN UNCHANGED <<rows, history>> ELSE
       /\ rows' = [rows EXCEPT ![w.name] = w.row]
       /\ behind' = IF w.status \in {"success", "refunded"} THEN behind \ {w.name}
                    ELSE IF w.early /\ Paid(w.name) THEN behind \cup {w.name} ELSE behind
       /\ IF w.call = "webhook"
            THEN accepted' = accepted \cup {w.checkout} /\ confirmed' = confirmed \cup {w.name}
            ELSE UNCHANGED <<accepted, confirmed>>
  /\ UNCHANGED <<checkouts, reports, lastid, bounds>>

-----------------------------------------------------------------------------
(* Staff delete a row; a request dies where it is.                         *)
Delete(name) ==
  /\ name \in DOMAIN rows /\ deletions < scene.deletions /\ deletions' = deletions + 1
  /\ rows' = [n \in DOMAIN rows \ {name} |-> rows[n]]
  /\ work' = [c \in Clients |-> IF work[c] # NoWork /\ work[c].name = name
                                  THEN [work[c] EXCEPT !.deleted = TRUE] ELSE work[c]]
  /\ confirmed' = confirmed \ {name} /\ behind' = behind \ {name}
  /\ UNCHANGED <<checkouts, reports, accepted, lastid, pc, answer, requests, crashes, repeats, scene>>

Crash(c) ==
  /\ pc[c] # "idle" /\ crashes < scene.crashes /\ crashes' = crashes + 1
  /\ pc' = [pc EXCEPT ![c] = "idle"] /\ work' = [work EXCEPT ![c] = NoWork]
  /\ UNCHANGED <<checkouts, reports, table, history, answer, requests, deletions, repeats, scene>>

Proceed(c) ==
  \/ \E status \in {"refunded", "partially_refunded"}, answered \in BOOLEAN :
       PostRefund(c, status, answered)
  \/ Find(c) \/ Insert(c) \/ FindExisting(c) \/ Mark(c) \/ Update(c)

Next ==
  \/ \E c \in Clients :
       \/ \E reference \in Orders, answered \in BOOLEAN : Initiate(c, reference, answered)
       \/ \E i \in CheckoutNumbers : Poll(c, i) \/ ReadCharge(c, i) \/ Deliver(c, i)
       \/ Proceed(c) \/ Crash(c)
  \/ \E i \in CheckoutNumbers, kind \in {"paid", "failed"} : Settle(i, kind)
  \/ \E name \in Names : Delete(name)

(* The provider delivers a report until it is accepted.                    *)
Fairness ==
  /\ \A c \in Clients : WF_vars(Proceed(c))
  /\ \A i \in CheckoutNumbers : WF_vars(i \notin accepted /\ \E c \in Clients : Deliver(c, i))

Spec == Init /\ [][Next]_vars /\ Fairness

-----------------------------------------------------------------------------
(* handle_paystack_webhook, handle_bachs_webhook, mark_transaction_status: *)
(* a row says success or refunded only if its charge was paid, with the    *)
(* row's amount; and once a webhook was accepted it says so, unless what   *)
(* verify had answered for a charge of the reference that was not paid by  *)
(* then is written afterwards.                                             *)
RowsFollowCharges ==
  /\ \A name \in DOMAIN rows : rows[name].status \in {"success", "refunded"} =>
       \E i \in DOMAIN checkouts :
         LET k == checkouts[i] IN
         /\ name \in {k.reference, Called(i)} /\ k.status \in Settled
         /\ k.amount = IF Bachs THEN MinorToDecimal(rows[name].amount, rows[name].currency)
                                ELSE rows[name].amount
         /\ Bachs => k.currency = rows[name].currency
  /\ \A name \in confirmed : rows[name].status \in {"success", "refunded"} \/ name \in behind

(* record_charge_initiated and the webhook handlers are idempotent: a      *)
(* charge that was started is recorded and a genuine report is accepted,   *)
(* however many of them meet, unless the row was deleted under them;       *)
(* nothing else is accepted.                                               *)
RepeatsAreAccepted ==
  answer.call \in {"initiate", "webhook"} /\ ~answer.deleted =>
    (answer.status = "ok") = answer.due

(* mark_transaction_status writes back the whole row it read, by its id:   *)
(* whatever other writers, deletions and new rows of the same reference    *)
(* came between, it changes nothing of a row but its status.               *)
Kept == {"id", "amount", "currency"}

OnlyStatusChanges ==
  [][\A name \in DOMAIN rows \cap DOMAIN rows', column \in Kept :
       rows'[name][column] = rows[name][column]]_vars

(* A charge that was paid gets its row, whatever died on the way.          *)
PaidIsRecorded ==
  \A i \in CheckoutNumbers :
    (Genuine(i) /\ i \notin accepted)
      ~> (i \in DOMAIN checkouts /\ Called(i) \in DOMAIN rows
            /\ rows[Called(i)].status \in {"success", "refunded"})

-----------------------------------------------------------------------------
(* The reasons, as invariants the steps preserve.  A checkout is an order  *)
(* of the application or somebody else's, whatever became of it.           *)
Steps == {"idle", "refund", "find", "insert", "existing", "mark", "update"}
ChargeStatuses == {"open", "failed"} \cup Settled
Placed == {Charge(r) : r \in References} \cup {scene.foreign[i] : i \in DOMAIN scene.foreign}
Charges == {[k EXCEPT !.status = status] : k \in Placed, status \in ChargeStatuses}

TypeOK ==
  /\ scene \in Scenes /\ checkouts \in Seq(Charges) /\ Len(checkouts) <= Len(CheckoutIds)
  /\ pc \in [Clients -> Steps] /\ DOMAIN work = Clients
  /\ \A name \in DOMAIN rows : DOMAIN rows[name] = {"id", "amount", "currency", "status"}

(* A row has the amount of whatever charge goes by its name, and says that *)
(* it was paid only when one was.                                          *)
Tells(row, k) ==
  IF Bachs THEN k.amount = MinorToDecimal(row.amount, row.currency) /\ k.currency = row.currency
  ELSE k.amount = row.amount

Priced(name, row) ==
  /\ \A k \in Placed : k.reference = name => Tells(row, k)
  /\ \A i \in CheckoutNumbers :
       CheckoutIds[i] = name => i \in DOMAIN checkouts /\ Tells(row, checkouts[i])

Settles(name) ==
  \E i \in DOMAIN checkouts :
    name \in {checkouts[i].reference, Called(i)} /\ checkouts[i].status \in Settled

Good == {"success", "refunded"}

RowInv ==
  \A name \in DOMAIN rows :
    Priced(name, rows[name]) /\ (rows[name].status \in Good => Settles(name))

(* A report says what the provider knew when it was settled.               *)
ReportInv ==
  \A i \in DOMAIN reports :
    /\ i \in DOMAIN checkouts
    /\ \E kind \in {"paid", "failed"} : reports[i] = [kind |-> kind, delivery |-> Delivery(i, kind)]
    /\ reports[i].kind = "paid" => checkouts[i].status \in Settled

(* What a request is about to record, and that a row it has seen is there  *)
(* unless it was deleted.                                                  *)
Recording(w) ==
  /\ {"call", "name", "amount", "currency", "due", "deleted"} \subseteq DOMAIN w
  /\ w.call \in {"initiate", "webhook"} /\ w.due /\ Priced(w.name, w)

MarkingOf(w) ==
  /\ {"call", "name", "status", "due", "deleted"} \subseteq DOMAIN w
  /\ w.call \in {"poll", "refund", "webhook"}
  /\ IF w.status \in Good THEN Settles(w.name) ELSE "early" \in DOMAIN w /\ w.early

WorkOf(c) ==
  LET w == work[c] IN
  /\ pc[c] = "idle" => w = NoWork
  /\ pc[c] = "refund" =>
       /\ DOMAIN w = {"call", "name", "status", "early", "due", "deleted", "checkout"}
       /\ w.call = "refund" /\ w.status = "refunded" /\ w.checkout \in DOMAIN checkouts
       /\ w.name = checkouts[w.checkout].reference
  /\ pc[c] \in {"find", "insert", "existing"} => Recording(w) /\ (pc[c] = "find" => w.call = "webhook")
  /\ pc[c] \in {"mark", "update"} => MarkingOf(w)
  /\ pc[c] \notin {"idle", "refund"} /\ w.call = "webhook" =>
       /\ {"status", "checkout", "amount", "currency"} \subseteq DOMAIN w
       /\ w.status = "success" /\ w.due /\ Paid(w.name) /\ Priced(w.name, w)
  /\ pc[c] = "update" =>
       /\ "row" \in DOMAIN w /\ DOMAIN w.row = {"id", "amount", "currency", "status"}
       /\ w.row.status = w.status /\ Priced(w.name, w.row)
  /\ pc[c] \notin {"idle", "refund"} /\ ~w.deleted =>
       /\ pc[c] = "existing" \/ (pc[c] = "mark" /\ w.call = "webhook") \/ pc[c] = "update" =>
            w.name \in DOMAIN rows
       /\ pc[c] = "update" => rows[w.name].id = w.row.id

WorkInv == \A c \in Clients : WorkOf(c)

ConfirmedInv ==
  \A name \in confirmed :
    name \in DOMAIN rows /\ Paid(name) /\ (rows[name].status \in Good \/ name \in behind)

IInv == TypeOK /\ RowInv /\ ReportInv /\ WorkInv /\ ConfirmedInv /\ RepeatsAreAccepted

(* Ids are given once, so a row read before is that row or another's id.   *)
CopyOf(c) ==
  LET w == work[c] IN
  pc[c] = "update" =>
    /\ w.row.id \in 1..lastid
    /\ w.name \in DOMAIN rows /\ rows[w.name].id = w.row.id =>
         \A column \in Kept : rows[w.name][column] = w.row[column]

CopyInv ==
  /\ lastid \in Nat
  /\ \A name \in DOMAIN rows : rows[name].id \in 1..lastid
  /\ \A c \in Clients : CopyOf(c)

=============================================================================
