----------------------------- MODULE Providers -----------------------------
(***************************************************************************)
(* What the payment providers are sent and what they answer.  Paystack     *)
(* speaks in minor units; Bachs in decimal strings at the precision of the *)
(* currency, here a sign, a whole part and, after the point, a number of   *)
(* digits that make a fraction.  Integers are 64 bits wide, scaled down to *)
(* MaxInt.                                                                 *)
(***************************************************************************)
EXTENDS Integers, Sequences

CONSTANT MaxInt    \* i64::MAX

ASSUME MaxIntAssumption == MaxInt \in Nat

None == "none"
NoAmount == -MaxInt - 2       \* an amount that does not parse

(* f with the values of g.                                                 *)
With(f, g) == [x \in DOMAIN f \cup DOMAIN g |-> IF x \in DOMAIN g THEN g[x] ELSE f[x]]

-----------------------------------------------------------------------------
Undivided == {"BIF", "CLP", "DJF", "GNF", "ISK", "JPY", "KMF", "KRW", "PYG", "RWF", "UGX", "VND",
              "VUV", "XAF", "XOF", "XPF"}
Thousandths == {"BHD", "IQD", "JOD", "KWD", "LYD", "OMR", "TND"}

Exponent(currency) ==
  IF currency \in Undivided THEN 0 ELSE IF currency \in Thousandths THEN 3 ELSE 2

(* 10 to the power of a number of digits there can be.                     *)
Powers == <<1, 10, 100, 1000>>
Power(digits) == Powers[digits + 1]

Abs(n) == IF n < 0 THEN -n ELSE n

MinorToDecimal(minor, currency) ==
  LET e == Exponent(currency) IN
  [negative |-> minor < 0, whole |-> Abs(minor) \div Power(e),
   digits |-> e, fraction |-> Abs(minor) % Power(e)]

(* Variant: the digits after the point are read as a number, "5.5" as 5    *)
(* and 5 minor units.                                                      *)
Unpadded(decimal, e) == decimal.fraction

(* The digits after the point, padded on the right to the precision.       *)
Padded(decimal, e) == decimal.fraction * Power(e - decimal.digits)

DecimalToMinor(decimal, currency) ==
  LET e == Exponent(currency)
      sum == decimal.whole * Power(e) + Padded(decimal, e) IN
  IF decimal.whole > MaxInt \/ decimal.digits > e \/ sum > MaxInt THEN NoAmount
  ELSE IF decimal.negative THEN -sum ELSE sum

(* Paystack's amounts: an integer, or a string that holds one.             *)
IsI64(n) == n \in -MaxInt - 1..MaxInt
DeserializeAmount(n) == IF IsI64(n) THEN n ELSE NoAmount

-----------------------------------------------------------------------------
Statuses == {"pending", "success", "failed", "refunded"}

Read(status, success, refunded, failed) ==
  IF status \in success THEN "success"
  ELSE IF status \in refunded THEN "refunded"
  ELSE IF status \in failed THEN "failed" ELSE "pending"

(* Bachs: the charge tells, or else the payment, or else the checkout.     *)
MapTransactionStatus(charge, payment, checkout) ==
  IF charge.status # None
    THEN Read(charge.status, {"succeeded", "success"}, {"refunded", "partially_refunded"},
              {"failed", "expired", "cancelled", "canceled"})
  ELSE IF payment # None THEN Read(payment, {"succeeded"}, {}, {"failed", "canceled"})
  ELSE Read(checkout, {"COMPLETED"}, {}, {"EXPIRED", "CANCELLED"})

MapPaystackStatus(status) == Read(status, {"success"}, {}, {"failed", "abandoned"})

(* verify, for an answer of the provider; without an amount it is an error. *)
BachsVerified(session) ==
  LET told == session.charge.status # None
      currency == IF told THEN session.charge.currency ELSE session.currency IN
  [status |-> MapTransactionStatus(session.charge, session.payment, session.status),
   amount |-> DecimalToMinor(IF told THEN session.charge.amount ELSE session.amount, currency)]

PaystackVerified(data) ==
  [status |-> MapPaystackStatus(data.status), amount |-> DeserializeAmount(data.amount)]

-----------------------------------------------------------------------------
(* A delivery is signed over its body, Bachs's over its time as well.      *)
Sign(key, message) == [key |-> key, message |-> message]

PaystackSigned(delivery, key) == delivery.mac = Sign(key, delivery.body)

BachsSigned(delivery, key) ==
  delivery.time # None /\ delivery.mac = Sign(key, <<delivery.time, delivery.body>>)

(* What a handler takes from a delivery: whether it confirms a charge, and *)
(* the reference, amount and currency to record if there is no row.        *)
PaystackEvent(delivery, key) ==
  [accepted |-> /\ PaystackSigned(delivery, key) /\ IsI64(delivery.body.amount)
                /\ delivery.body.event = "charge.success" /\ delivery.body.status = "success",
   reference |-> delivery.body.reference, amount |-> delivery.body.amount, currency |-> "NGN"]

(* Variant: the checkout's id goes before the reference.                   *)
CheckoutFirst(body) == IF body.checkout # None THEN body.checkout ELSE body.reference

BachsReference(body) == IF body.reference # None THEN body.reference ELSE body.checkout

BachsEvent(delivery, key) ==
  LET body == delivery.body
      complete == body.currency # None
      amount == IF complete THEN DecimalToMinor(body.amount, body.currency) ELSE NoAmount IN
  [accepted |-> /\ BachsSigned(delivery, key) /\ body.event = "collection.succeeded"
                /\ BachsReference(body) # None /\ complete /\ amount # NoAmount,
   reference |-> BachsReference(body), amount |-> amount, currency |-> body.currency]

=============================================================================
