--------------------------- MODULE PaymentsProofs ---------------------------
(***************************************************************************)
(* Rows follow charges and repeats are accepted, for any clients, orders,  *)
(* currencies and amounts.  First what amounts come to in minor units and  *)
(* back; then the charges a name stands for; then that the provider only   *)
(* adds to what it knows (Grown), so that what a request or a row was      *)
(* right about stays right (Persists); then the steps, one lemma each.     *)
(***************************************************************************)
EXTENDS Payments, TLAPS

(* Amounts: minor units, and decimals at the precision of the currency.    *)

LEMMA Precisions ==
  ASSUME NEW currency
  PROVE  Exponent(currency) \in {0, 2, 3}
BY DEF Exponent

LEMMA PowersOfTen == Power(0) = 1 /\ Power(1) = 10 /\ Power(2) = 100 /\ Power(3) = 1000
BY DEF Power, Powers

(* What DecimalToMinor comes to, for an amount that is precise.            *)
LEMMA PreciseSum ==
  ASSUME NEW currency, NEW d, Precise(d, currency)
  PROVE  LET sum == d.whole * Power(Exponent(currency)) + d.fraction IN
         /\ sum \in Nat
         /\ DecimalToMinor(d, currency) =
              IF d.whole > MaxInt \/ sum > MaxInt THEN NoAmount
              ELSE IF d.negative THEN -sum ELSE sum
<1> DEFINE e == Exponent(currency)
<1>1. e \in {0, 2, 3} /\ d.digits = e /\ Power(e - d.digits) = 1
  BY Precisions, PowersOfTen DEF Precise
<1>2. d.whole \in Nat /\ d.fraction \in Nat /\ Power(e) \in Nat
  BY <1>1, PowersOfTen DEF Precise
<1>3. Padded(d, e) = d.fraction
  BY <1>1, <1>2 DEF Padded
<1>4. d.whole * Power(e) + d.fraction \in Nat
  BY <1>2
<1>5. ~(d.digits > e)
  BY <1>1
<1> QED
  BY <1>3, <1>4, <1>5 DEF DecimalToMinor

LEMMA Division ==
  ASSUME NEW q \in Nat, NEW p \in {1, 100, 1000}, NEW r \in Nat, r < p
  PROVE  (q * p + r) \div p = q /\ (q * p + r) % p = r
<1>1. CASE p = 1
  BY <1>1
<1>2. CASE p = 100
  BY <1>2
<1>3. CASE p = 1000
  <2>1. (q * 1000 + r) \div 1000 = q
    BY <1>3, SMTT(60)
  <2>2. (q * 1000 + r) % 1000 = r
    BY <1>3, SMTT(60)
  <2> QED
    BY <1>3, <2>1, <2>2
<1> QED
  BY <1>1, <1>2, <1>3

(* minor_to_decimal_string undoes decimal_string_to_minor.                 *)
LEMMA ReadBack ==
  ASSUME NEW currency, NEW d, Precise(d, currency), DecimalToMinor(d, currency) # NoAmount
  PROVE  d = MinorToDecimal(DecimalToMinor(d, currency), currency)
<1> DEFINE e == Exponent(currency)
           p == Power(e)
           sum == d.whole * p + d.fraction
           m == DecimalToMinor(d, currency)
<1>1. /\ d.negative \in BOOLEAN /\ d.whole \in Nat /\ d.digits = e /\ d.fraction \in 0..p - 1
      /\ d = [negative |-> d.negative, whole |-> d.whole, digits |-> d.digits,
              fraction |-> d.fraction]
      /\ d.negative => d.whole + d.fraction > 0
  BY DEF Precise
<1>2. p \in {1, 100, 1000}
  BY Precisions, PowersOfTen
<1>3. sum \in Nat /\ m = IF d.negative THEN -sum ELSE sum
  BY PreciseSum
<1> HIDE DEF e, p, m
<1>4. sum \div p = d.whole /\ sum % p = d.fraction /\ (d.negative => sum > 0)
  <2>1. d.fraction \in Nat /\ d.fraction < p
    BY <1>1, <1>2
  <2>2. sum \div p = d.whole /\ sum % p = d.fraction
    BY <1>1, <1>2, <2>1, Division
  <2>3. d.negative => sum > 0
    BY <1>1, <1>2, <2>1
  <2> QED
    BY <2>2, <2>3
<1> HIDE DEF sum
<1>5. Abs(m) = sum /\ (m < 0) = d.negative
  BY <1>1, <1>3, <1>4 DEF Abs
<1>6. MinorToDecimal(m, currency) =
        [negative |-> d.negative, whole |-> d.whole, digits |-> d.digits, fraction |-> d.fraction]
  BY <1>1, <1>4, <1>5 DEF MinorToDecimal, e, p
<1> QED
  BY <1>1, <1>6 DEF m

LEMMA ShownPrecisely ==
  ASSUME NEW currency, NEW m \in -MaxInt..MaxInt
  PROVE  Precise(MinorToDecimal(m, currency), currency)
<1> DEFINE e == Exponent(currency)
           p == Power(e)
<1>1. p \in {1, 100, 1000}
  BY Precisions, PowersOfTen
<1>2. Abs(m) \in Nat /\ (m < 0 => Abs(m) > 0)
  BY MaxIntAssumption DEF Abs
<1> HIDE DEF e, p
<1>3. /\ Abs(m) \div p \in Nat /\ Abs(m) % p \in 0..p - 1
      /\ m < 0 => (Abs(m) \div p) + (Abs(m) % p) > 0
  <2>1. CASE p = 1
    BY <1>2, <2>1
  <2>2. CASE p = 100
    BY <1>2, <2>2
  <2>3. CASE p = 1000
    BY <1>2, <2>3
  <2> QED
    BY <1>1, <2>1, <2>2, <2>3
<1> DEFINE d == MinorToDecimal(m, currency)
<1>4. d = [negative |-> m < 0, whole |-> Abs(m) \div p, digits |-> e, fraction |-> Abs(m) % p]
  BY DEF MinorToDecimal, e, p
<1> HIDE DEF d
<1>5. (m < 0) \in BOOLEAN
  OBVIOUS
<1>6. /\ d \in [negative : BOOLEAN, whole : Nat, digits : {e}, fraction : 0..p - 1]
      /\ d.negative = (m < 0) /\ d.whole = Abs(m) \div p /\ d.fraction = Abs(m) % p
  BY <1>3, <1>4, <1>5
<1>7. Precise(d, currency)
  BY <1>3, <1>6 DEF Precise, e, p
<1> QED
  BY <1>7 DEF d

(* Leaving out trailing zeros changes nothing.                             *)
LEMMA TrimmedTells ==
  ASSUME NEW currency, NEW d, Precise(d, currency)
  PROVE  DecimalToMinor(Trimmed(d), currency) = DecimalToMinor(d, currency)
<1> DEFINE e == Exponent(currency)
           enough == {n \in 0..d.digits : d.fraction % Power(d.digits - n) = 0}
           n == CHOOSE i \in enough : \A o \in enough : i <= o
           t == Trimmed(d)
<1>1. /\ e \in {0, 2, 3} /\ d.digits = e /\ d.whole \in Nat /\ d.fraction \in Nat
      /\ d = [negative |-> d.negative, whole |-> d.whole, digits |-> d.digits,
              fraction |-> d.fraction]
  <2>1. e \in {0, 2, 3} /\ Power(e) \in Nat
    BY Precisions, PowersOfTen
  <2> QED
    BY <2>1 DEF Precise
<1>2. d.digits \in enough /\ enough \subseteq {0, 1, 2, 3}
  BY <1>1, PowersOfTen
<1>3. n \in enough
  <2> HIDE DEF enough
  <2>1. \E i \in enough : \A o \in enough : i <= o
    <3>1. CASE 0 \in enough
      BY <1>2, <3>1
    <3>2. CASE 0 \notin enough /\ 1 \in enough
      BY <1>2, <3>2
    <3>3. CASE 0 \notin enough /\ 1 \notin enough /\ 2 \in enough
      BY <1>2, <3>3
    <3>4. CASE 0 \notin enough /\ 1 \notin enough /\ 2 \notin enough /\ 3 \in enough
      BY <1>2, <3>4
    <3> QED
      BY <1>2, <3>1, <3>2, <3>3, <3>4
  <2> QED
    BY <2>1
<1>4. t = [d EXCEPT !.digits = n, !.fraction = @ \div Power(d.digits - n)]
  BY DEF Trimmed
<1> HIDE DEF n, t
<1>5. n \in 0..e /\ d.fraction % Power(e - n) = 0 /\ e - n \in {0, 1, 2, 3}
  BY <1>1, <1>3
<1>6. /\ t.whole = d.whole /\ t.negative = d.negative /\ t.digits = n
      /\ t.fraction = d.fraction \div Power(e - n)
  BY <1>1, <1>4
<1>7. t.fraction * Power(e - n) = d.fraction
  <2>1. CASE e - n = 0
    BY <1>1, <1>5, <1>6, <2>1, PowersOfTen
  <2>2. CASE e - n = 1
    BY <1>1, <1>5, <1>6, <2>2, PowersOfTen
  <2>3. CASE e - n = 2
    BY <1>1, <1>5, <1>6, <2>3, PowersOfTen
  <2>4. CASE e - n = 3
    BY <1>1, <1>5, <1>6, <2>4, PowersOfTen
  <2> QED
    BY <1>5, <2>1, <2>2, <2>3, <2>4
<1>8. Padded(t, e) = d.fraction /\ ~(t.digits > e)
  BY <1>1, <1>5, <1>6, <1>7 DEF Padded
<1>9. Padded(d, e) = d.fraction /\ ~(d.digits > e)
  BY <1>1, PowersOfTen DEF Padded
<1> QED
  BY <1>6, <1>8, <1>9 DEF DecimalToMinor, t

(* minor_to_decimal_string, decimal_string_to_minor: at any precision each *)
(* undoes the other, whether or not the provider leaves out zeros.         *)
THEOREM AmountsRoundTrip ==
  ASSUME NEW currency
  PROVE  /\ \A m \in -MaxInt..MaxInt :
              LET d == MinorToDecimal(m, currency) IN
              DecimalToMinor(d, currency) = m /\ DecimalToMinor(Trimmed(d), currency) = m
         /\ \A d : Precise(d, currency) /\ DecimalToMinor(d, currency) # NoAmount =>
                MinorToDecimal(DecimalToMinor(d, currency), currency) = d
<1>1. ASSUME NEW m \in -MaxInt..MaxInt
      PROVE  DecimalToMinor(MinorToDecimal(m, currency), currency) = m
  <2> DEFINE e == Exponent(currency)
             p == Power(e)
             d == MinorToDecimal(m, currency)
  <2>1. Precise(d, currency)
    BY ShownPrecisely
  <2>2. p \in {1, 100, 1000}
    BY Precisions, PowersOfTen
  <2>3. Abs(m) \in 0..MaxInt /\ m = IF m < 0 THEN -Abs(m) ELSE Abs(m)
    BY MaxIntAssumption DEF Abs
  <2>4. /\ d.negative = (m < 0) /\ d.whole = Abs(m) \div p /\ d.fraction = Abs(m) % p
    BY DEF MinorToDecimal
  <2> HIDE DEF e, p, d
  <2>5. d.whole * p + d.fraction = Abs(m) /\ d.whole <= Abs(m)
    <3>1. CASE p = 1
      BY <2>3, <2>4, <3>1
    <3>2. CASE p = 100
      BY <2>3, <2>4, <3>2
    <3>3. CASE p = 1000
      BY <2>3, <2>4, <3>3
    <3> QED
      BY <2>2, <3>1, <3>2, <3>3
  <2>6. DecimalToMinor(d, currency) =
          IF d.whole > MaxInt \/ Abs(m) > MaxInt THEN NoAmount
          ELSE IF d.negative THEN -Abs(m) ELSE Abs(m)
    BY <2>1, <2>5, PreciseSum DEF p, e
  <2>7. d.whole \in Nat
    BY <2>1, <2>2 DEF Precise
  <2>8. ~(d.whole > MaxInt) /\ ~(Abs(m) > MaxInt)
    BY <2>3, <2>5, <2>7, MaxIntAssumption
  <2>9. DecimalToMinor(d, currency) = m
    <3>1. DecimalToMinor(d, currency) = IF d.negative THEN -Abs(m) ELSE Abs(m)
      BY <2>6, <2>8
    <3>2. CASE m < 0
      BY <2>3, <2>4, <3>1, <3>2
    <3>3. CASE ~(m < 0)
      BY <2>3, <2>4, <3>1, <3>3
    <3> QED
      BY <3>2, <3>3
  <2> QED
    BY <2>9 DEF d
<1> QED
  BY <1>1, ShownPrecisely, TrimmedTells, ReadBack

-----------------------------------------------------------------------------
(* Charges and their names.                                                *)

LEMMA OrderCharge ==
  ASSUME scene \in Scenes, NEW r \in References
  PROVE  /\ DOMAIN Charge(r) = {"reference", "amount", "currency", "status"}
         /\ Charge(r).reference = r /\ Charge(r).status = "open" /\ Charge(r).currency # None
         /\ Bachs => Precise(Charge(r).amount, Charge(r).currency)
         /\ Tells(scene.orders[r], Charge(r))
         /\ r \in Orders
<1> DEFINE order == scene.orders[r]
<1>1. order.amount \in -MaxInt..MaxInt /\ order.currency # None /\ r \in Orders
  BY SceneAssumption DEF OrderOK, References, Orders
<1>2. Precise(MinorToDecimal(order.amount, order.currency), order.currency)
  BY <1>1, ShownPrecisely
<1> HIDE DEF order
<1>3. CASE Bachs
  <2>1. Charge(r) = [reference |-> r, amount |-> MinorToDecimal(order.amount, order.currency),
                     currency |-> order.currency, status |-> "open"]
    BY <1>3 DEF Charge, BachsCharge, order
  <2> QED
    BY <1>1, <1>2, <1>3, <2>1 DEF Tells, order
<1>4. CASE ~Bachs
  <2>1. Charge(r) = [reference |-> r, amount |-> order.amount, currency |-> "NGN",
                     status |-> "open"]
    BY <1>4 DEF Charge, PaystackCharge, order
  <2> QED
    BY <1>1, <1>4, <2>1 DEF Tells, order, None
<1> QED
  BY <1>3, <1>4

LEMMA PlacedCharge ==
  ASSUME scene \in Scenes, NEW k \in Placed
  PROVE  /\ DOMAIN k = {"reference", "amount", "currency", "status"}
         /\ k.status = "open" /\ k.currency # None
         /\ Bachs => Precise(k.amount, k.currency)
         /\ k.reference \in Orders \cup ForeignNames
         /\ \A l \in Placed : l.reference = k.reference => l = k
<1>1. \A r \in References :
        /\ DOMAIN Charge(r) = {"reference", "amount", "currency", "status"}
        /\ Charge(r).reference = r /\ Charge(r).status = "open" /\ Charge(r).currency # None
        /\ Bachs => Precise(Charge(r).amount, Charge(r).currency)
        /\ r \in Orders
  BY OrderCharge
<1>2. \A i \in DOMAIN scene.foreign :
        /\ DOMAIN scene.foreign[i] = {"reference", "amount", "currency", "status"}
        /\ scene.foreign[i].status = "open" /\ scene.foreign[i].currency # None
        /\ Bachs => Precise(scene.foreign[i].amount, scene.foreign[i].currency)
        /\ scene.foreign[i].reference \in ForeignNames
        /\ scene.foreign[i].reference \notin References
        /\ \A j \in DOMAIN scene.foreign :
             scene.foreign[i].reference = scene.foreign[j].reference => i = j
  <2> TAKE i \in DOMAIN scene.foreign
  <2>1. ForeignOK(scene.foreign[i], scene.provider)
    BY SceneAssumption
  <2>2. /\ DOMAIN scene.foreign[i] = {"reference", "amount", "currency", "status"}
        /\ scene.foreign[i].status = "open" /\ scene.foreign[i].currency # None
        /\ Bachs => Precise(scene.foreign[i].amount, scene.foreign[i].currency)
    BY <2>1 DEF ForeignOK, Bachs
  <2>3. scene.foreign[i].reference \in ForeignNames
    BY DEF ForeignNames
  <2>4. /\ scene.foreign[i].reference \notin References
        /\ \A j \in DOMAIN scene.foreign :
             scene.foreign[i].reference = scene.foreign[j].reference => i = j
    BY SceneAssumption DEF References
  <2> QED
    BY <2>2, <2>3, <2>4
<1> QED
  BY <1>1, <1>2 DEF Placed

(* What does not change of a charge.                                       *)
Same(k, l) == k.reference = l.reference /\ k.amount = l.amount /\ k.currency = l.currency

LEMMA ChargeOf ==
  ASSUME scene \in Scenes, NEW k \in Charges
  PROVE  /\ DOMAIN k = {"reference", "amount", "currency", "status"}
         /\ k.status \in ChargeStatuses /\ k.currency # None
         /\ Bachs => Precise(k.amount, k.currency)
         /\ k.reference \in Orders \cup ForeignNames /\ k.reference # None
         /\ \A i \in CheckoutNumbers : CheckoutIds[i] # k.reference
         /\ \A l \in Placed : l.reference = k.reference => Same(l, k)
         /\ \A status \in ChargeStatuses : [k EXCEPT !.status = status] \in Charges
<1>1. PICK o \in Placed, s \in ChargeStatuses : k = [o EXCEPT !.status = s]
  BY DEF Charges
<1>2. /\ DOMAIN o = {"reference", "amount", "currency", "status"}
      /\ o.currency # None /\ (Bachs => Precise(o.amount, o.currency))
      /\ o.reference \in Orders \cup ForeignNames
      /\ \A l \in Placed : l.reference = o.reference => l = o
  BY PlacedCharge
<1>3. k.status = s /\ Same(o, k) /\ DOMAIN k = DOMAIN o
  BY <1>1, <1>2 DEF Same
<1>4. \A status \in ChargeStatuses : [k EXCEPT !.status = status] \in Charges
  <2> TAKE status \in ChargeStatuses
  <2>1. [k EXCEPT !.status = status] = [o EXCEPT !.status = status]
    BY <1>1, <1>2
  <2> QED
    BY <2>1 DEF Charges
<1>5. k.reference # None /\ \A i \in CheckoutNumbers : CheckoutIds[i] # k.reference
  BY <1>2, <1>3, IdAssumption DEF Same
<1> QED
  BY <1>2, <1>3, <1>4, <1>5 DEF Same

LEMMA CheckoutOf ==
  ASSUME TypeOK
  PROVE  /\ DOMAIN checkouts = 1..Len(checkouts) /\ Len(checkouts) \in Nat
         /\ DOMAIN checkouts \subseteq CheckoutNumbers
         /\ \A i \in DOMAIN checkouts : checkouts[i] \in Charges
         /\ \A i \in DOMAIN checkouts :
              Called(i) = IF Bachs /\ ~scene.echoes THEN CheckoutIds[i] ELSE checkouts[i].reference
<1>1. Len(CheckoutIds) \in Nat
  BY IdAssumption
<1>2. checkouts \in Seq(Charges) /\ Len(checkouts) <= Len(CheckoutIds)
  BY DEF TypeOK
<1> QED
  BY <1>1, <1>2 DEF CheckoutNumbers, Called

(* Who is paid what a charge says has the price of both its names.         *)
LEMMA PricedByCharge ==
  ASSUME TypeOK, NEW i \in DOMAIN checkouts, NEW row, Tells(row, checkouts[i])
  PROVE  Priced(checkouts[i].reference, row) /\ Priced(Called(i), row)
<1> DEFINE k == checkouts[i]
<1>0. scene \in Scenes
  BY DEF TypeOK
<1>1. i \in CheckoutNumbers /\ k \in Charges
  BY CheckoutOf
<1>2. /\ \A j \in CheckoutNumbers : CheckoutIds[j] # k.reference
      /\ \A l \in Placed : l.reference = k.reference => Same(l, k)
  BY <1>0, <1>1, ChargeOf
<1>3. Priced(k.reference, row)
  BY <1>2 DEF Priced, Tells, Same
<1>4. Priced(CheckoutIds[i], row)
  <2>1. \A l \in Placed : l.reference # CheckoutIds[i]
    BY <1>0, <1>1, PlacedCharge, IdAssumption
  <2>2. \A j \in CheckoutNumbers : CheckoutIds[j] = CheckoutIds[i] => j = i
    BY <1>1, IdAssumption
  <2> QED
    BY <2>1, <2>2 DEF Priced
<1> QED
  BY <1>3, <1>4, CheckoutOf

LEMMA PricedByOrder ==
  ASSUME TypeOK, NEW r \in References
  PROVE  Priced(r, scene.orders[r])
<1>0. scene \in Scenes
  BY DEF TypeOK
<1>1. /\ Charge(r).reference = r /\ Tells(scene.orders[r], Charge(r)) /\ r \in Orders
      /\ Charge(r) \in Placed
  BY <1>0, OrderCharge DEF Placed
<1>2. \A l \in Placed : l.reference = r => l = Charge(r)
  BY <1>0, <1>1, PlacedCharge
<1>3. \A i \in CheckoutNumbers : CheckoutIds[i] # r
  BY <1>1, IdAssumption
<1> QED
  BY <1>1, <1>2, <1>3 DEF Priced

(* A row that tells it was paid follows a charge: the first half of        *)
(* RowsFollowCharges.                                                      *)
LEMMA RowsTell ==
  ASSUME IInv
  PROVE  RowsFollowCharges
<1>0. TypeOK /\ RowInv /\ ConfirmedInv /\ scene \in Scenes
  BY DEF IInv, TypeOK
<1>1. ASSUME NEW name \in DOMAIN rows, rows[name].status \in Good
      PROVE  \E i \in DOMAIN checkouts :
               /\ name \in {checkouts[i].reference, Called(i)} /\ checkouts[i].status \in Settled
               /\ Tells(rows[name], checkouts[i])
  <2>1. Settles(name) /\ Priced(name, rows[name])
    BY <1>0, <1>1 DEF RowInv
  <2>2. PICK i \in DOMAIN checkouts :
               name \in {checkouts[i].reference, Called(i)} /\ checkouts[i].status \in Settled
    BY <2>1 DEF Settles
  <2>3. CASE name = checkouts[i].reference
    <3>1. PICK o \in Placed, s \in ChargeStatuses : checkouts[i] = [o EXCEPT !.status = s]
      BY <1>0, CheckoutOf DEF Charges
    <3>2. Same(o, checkouts[i])
      BY <1>0, <3>1, PlacedCharge DEF Same
    <3>3. Tells(rows[name], o)
      BY <2>1, <2>3, <3>2 DEF Priced, Same
    <3> QED
      BY <2>2, <3>2, <3>3 DEF Tells, Same
  <2>4. CASE name # checkouts[i].reference
    <3>1. name = CheckoutIds[i] /\ i \in CheckoutNumbers
      BY <1>0, <2>2, <2>4, CheckoutOf
    <3> QED
      BY <2>1, <2>2, <3>1 DEF Priced
  <2> QED
    BY <2>3, <2>4
<1>2. \A name \in confirmed : rows[name].status \in {"success", "refunded"} \/ name \in behind
  BY <1>0 DEF ConfirmedInv, Good
<1> QED
  BY <1>1, <1>2 DEF RowsFollowCharges, Tells, Good

-----------------------------------------------------------------------------
LEMMA InitInv == Init => IInv
<1> SUFFICES ASSUME Init PROVE IInv
  OBVIOUS
<1>1. TypeOK
  <2>1. scene \in Scenes /\ checkouts = scene.foreign
    BY DEF Init
  <2>2. \A i \in DOMAIN scene.foreign : scene.foreign[i] \in Charges
    <3> TAKE i \in DOMAIN scene.foreign
    <3>1. scene.foreign[i] \in Placed /\ "open" \in ChargeStatuses
      BY DEF Placed, ChargeStatuses
    <3>2. DOMAIN scene.foreign[i] = {"reference", "amount", "currency", "status"}
          /\ scene.foreign[i].status = "open"
      BY <2>1, <3>1, PlacedCharge
    <3>3. scene.foreign[i] \in {scene.foreign[j] : j \in DOMAIN scene.foreign}
      OBVIOUS
    <3>4. scene.foreign[i] = [scene.foreign[i] EXCEPT !.status = "open"]
      <4>1. ForeignOK(scene.foreign[i], scene.provider)
        BY <2>1, SceneAssumption
      <4> QED
        BY <3>2, <4>1 DEF ForeignOK
    <3> QED
      BY <3>1, <3>4 DEF Charges
  <2>3. /\ scene.foreign \in Seq({scene.foreign[i] : i \in DOMAIN scene.foreign})
        /\ Len(scene.foreign) <= Len(CheckoutIds)
    BY <2>1, SceneAssumption
  <2>4. checkouts \in Seq(Charges)
    BY <2>1, <2>2, <2>3
  <2> QED
    BY <2>1, <2>3, <2>4 DEF Init, TypeOK, Steps
<1>2. RowInv /\ ReportInv /\ ConfirmedInv
  BY DEF Init, RowInv, ReportInv, ConfirmedInv
<1>3. WorkInv
  BY DEF Init, WorkInv, WorkOf
<1>4. RepeatsAreAccepted
  BY DEF Init, RepeatsAreAccepted, NoWork
<1> QED
  BY <1>1, <1>2, <1>3, <1>4 DEF IInv

-----------------------------------------------------------------------------
(* The provider keeps every checkout: what was ordered and, once it was    *)
(* paid, that it was.                                                      *)
Grown ==
  /\ scene' = scene /\ DOMAIN checkouts \subseteq DOMAIN checkouts'
  /\ \A i \in DOMAIN checkouts :
       /\ Same(checkouts'[i], checkouts[i])
       /\ checkouts[i].status \in Settled => checkouts'[i].status \in Settled

LEMMA Persists ==
  ASSUME TypeOK, Grown
  PROVE  /\ \A name, row : Priced(name, row) => Priced(name, row)'
         /\ \A name : (Settles(name) => Settles(name)') /\ (Paid(name) => Paid(name)')
         /\ \A i \in DOMAIN checkouts : \A kind : Delivery(i, kind)' = Delivery(i, kind)
         /\ Bachs' = Bachs /\ Charges' = Charges
<1>1. Bachs' = Bachs /\ References' = References
  BY DEF Grown, Bachs, References
<1>2. Placed' = Placed /\ Charges' = Charges
  BY <1>1 DEF Grown, Placed, Charges, Charge, BachsCharge, PaystackCharge
<1>3. \A i \in DOMAIN checkouts :
        /\ i \in DOMAIN checkouts'
        /\ checkouts'[i].reference = checkouts[i].reference
        /\ checkouts'[i].amount = checkouts[i].amount
        /\ checkouts'[i].currency = checkouts[i].currency
        /\ checkouts[i].status \in Settled => checkouts'[i].status \in Settled
  BY DEF Grown, Same
<1>4. \A i \in DOMAIN checkouts : Called(i)' = Called(i)
  BY <1>1, <1>3 DEF Called, Grown
<1>5. ASSUME NEW name, NEW row, Priced(name, row)
      PROVE  Priced(name, row)'
  <2>1. \A k \in Placed' : k.reference = name => Tells(row, k)'
    BY <1>1, <1>2, <1>5 DEF Priced, Tells
  <2>2. \A i \in CheckoutNumbers :
          CheckoutIds[i] = name => i \in DOMAIN checkouts' /\ Tells(row, checkouts[i])'
    BY <1>1, <1>3, <1>5 DEF Priced, Tells
  <2> QED
    BY <2>1, <2>2 DEF Priced
<1>6. \A name : (Settles(name) => Settles(name)') /\ (Paid(name) => Paid(name)')
  BY <1>3, <1>4 DEF Settles, Paid
<1>7. \A i \in DOMAIN checkouts : \A kind : Delivery(i, kind)' = Delivery(i, kind)
  BY <1>1, <1>3 DEF Grown, Delivery, Echo, Shown
<1> QED
  BY <1>1, <1>2, <1>5, <1>6, <1>7

LEMMA NothingNew ==
  ASSUME TypeOK, UNCHANGED <<scene, checkouts>>
  PROVE  Grown
BY DEF Grown, Same

(* A request that stays where it is; its row may be deleted or written.    *)
LEMMA WorkStays ==
  ASSUME TypeOK, WorkInv, Grown, NEW o \in Clients, pc'[o] = pc[o],
         pc[o] = "idle" => work'[o] = NoWork,
         DOMAIN work'[o] = DOMAIN work[o],
         \A f \in DOMAIN work[o] : f # "deleted" => work'[o][f] = work[o][f],
         "deleted" \in DOMAIN work[o] /\ ~work'[o].deleted =>
           /\ ~work[o].deleted
           /\ work[o].name \in DOMAIN rows =>
                work[o].name \in DOMAIN rows' /\ rows'[work[o].name].id = rows[work[o].name].id
  PROVE  WorkOf(o)'
<1> DEFINE w == work[o]
           v == work'[o]
<1>0. WorkOf(o) /\ pc[o] \in Steps /\ DOMAIN v = DOMAIN w
      /\ \A f \in DOMAIN w : f # "deleted" => v[f] = w[f]
  BY DEF WorkInv, TypeOK
<1>1. pc[o] = "refund" =>
        /\ DOMAIN v = {"call", "name", "status", "early", "due", "deleted", "checkout"}
        /\ v.call = "refund" /\ v.status = "refunded" /\ v.checkout \in DOMAIN checkouts'
        /\ v.name = checkouts'[v.checkout].reference
  BY <1>0 DEF WorkOf, Grown, Same
<1>2. \A name, row : Priced(name, row) => Priced(name, row)'
  BY Persists
<1>3. ASSUME pc[o] \in {"find", "insert", "existing"}
      PROVE  Recording(work[o])' /\ (pc[o] = "find" => v.call = "webhook")
  <2>1. /\ {"call", "name", "amount", "currency", "due", "deleted"} \subseteq DOMAIN w
        /\ w.call \in {"initiate", "webhook"} /\ w.due /\ Priced(w.name, w)
        /\ pc[o] = "find" => w.call = "webhook"
    BY <1>0, <1>3 DEF WorkOf, Recording
  <2>2. /\ v.call = w.call /\ v.name = w.name /\ v.due = w.due
        /\ v.amount = w.amount /\ v.currency = w.currency
    BY <1>0, <2>1
  <2>3. PICK name, row : name = w.name /\ row = w
    OBVIOUS
  <2>4. Priced(name, row)'
    BY <1>2, <2>1, <2>3
  <2>5. Priced(work[o].name, work[o])'
    BY <2>2, <2>3, <2>4 DEF Priced, Tells
  <2> QED
    BY <1>0, <2>1, <2>2, <2>5 DEF Recording
<1>4. \A name : (Settles(name) => Settles(name)') /\ (Paid(name) => Paid(name)')
  BY Persists
<1>5. ASSUME pc[o] \in {"mark", "update"}
      PROVE  MarkingOf(work[o])'
  <2>1. MarkingOf(w)
    BY <1>0, <1>5 DEF WorkOf
  <2>2. /\ v.call = w.call /\ v.name = w.name /\ v.status = w.status
        /\ "early" \in DOMAIN w => "early" \in DOMAIN v /\ v.early = w.early
    BY <1>0, <2>1 DEF MarkingOf
  <2>3. PICK name : name = w.name
    OBVIOUS
  <2>4. w.status \in Good => Settles(name)'
    BY <1>4, <2>1, <2>3 DEF MarkingOf
  <2>5. v.status \in Good => Settles(work[o].name)'
    BY <2>2, <2>3, <2>4 DEF Settles
  <2> QED
    BY <1>0, <2>1, <2>2, <2>5 DEF MarkingOf
<1>6. ASSUME pc[o] \notin {"idle", "refund"}
      PROVE  /\ {"call", "name", "due", "deleted"} \subseteq DOMAIN w
             /\ v.call = w.call /\ v.name = w.name /\ v.due = w.due
  BY <1>0, <1>6 DEF WorkOf, Recording, MarkingOf, Steps
<1>7. ASSUME pc[o] \notin {"idle", "refund"}, v.call = "webhook"
      PROVE  /\ {"status", "checkout", "amount", "currency"} \subseteq DOMAIN v
             /\ v.status = "success" /\ v.due /\ Paid(work[o].name)'
             /\ Priced(work[o].name, work[o])'
  <2>1. /\ {"status", "checkout", "amount", "currency"} \subseteq DOMAIN w
        /\ w.status = "success" /\ w.due /\ Paid(w.name) /\ Priced(w.name, w)
    BY <1>0, <1>6, <1>7 DEF WorkOf
  <2>2. /\ v.status = w.status /\ v.name = w.name /\ v.due = w.due
        /\ v.amount = w.amount /\ v.currency = w.currency
    BY <1>0, <1>6, <1>7, <2>1
  <2>3. PICK name, row : name = w.name /\ row = w
    OBVIOUS
  <2>4. Priced(name, row)' /\ Paid(name)'
    BY <1>2, <1>4, <2>1, <2>3
  <2>5. Priced(work[o].name, work[o])'
    BY <2>2, <2>3, <2>4 DEF Priced, Tells
  <2>6. Paid(work[o].name)'
    BY <2>2, <2>3, <2>4 DEF Paid
  <2> QED
    BY <1>0, <2>1, <2>2, <2>5, <2>6
<1>8. ASSUME pc[o] = "update"
      PROVE  /\ "row" \in DOMAIN v /\ DOMAIN v.row = {"id", "amount", "currency", "status"}
             /\ v.row = w.row /\ v.row.status = v.status /\ Priced(work[o].name, work[o].row)'
  <2>1. /\ {"row", "status"} \subseteq DOMAIN w
        /\ DOMAIN w.row = {"id", "amount", "currency", "status"}
        /\ w.row.status = w.status /\ Priced(w.name, w.row)
    BY <1>0, <1>8 DEF WorkOf, MarkingOf
  <2>2. v.status = w.status /\ v.name = w.name /\ v.row = w.row
    BY <1>0, <1>6, <1>8, <2>1
  <2>3. PICK name, row : name = w.name /\ row = w.row
    OBVIOUS
  <2>4. Priced(name, row)'
    BY <1>2, <2>1, <2>3
  <2>5. Priced(work[o].name, work[o].row)'
    BY <2>2, <2>3, <2>4 DEF Priced, Tells
  <2> QED
    BY <1>0, <2>1, <2>2, <2>5
<1>9. ASSUME pc[o] \notin {"idle", "refund"}, ~v.deleted
      PROVE  /\ \/ pc[o] = "existing" \/ (pc[o] = "mark" /\ v.call = "webhook") \/ pc[o] = "update"
                => v.name \in DOMAIN rows'
             /\ pc[o] = "update" => rows'[v.name].id = v.row.id
  <2>1. ~w.deleted /\ (w.name \in DOMAIN rows =>
                         w.name \in DOMAIN rows' /\ rows'[w.name].id = rows[w.name].id)
    BY <1>6, <1>9
  <2>2. /\ \/ pc[o] = "existing" \/ (pc[o] = "mark" /\ w.call = "webhook") \/ pc[o] = "update"
                => w.name \in DOMAIN rows
        /\ pc[o] = "update" => rows[w.name].id = w.row.id
    BY <1>0, <1>9, <2>1 DEF WorkOf
  <2> QED
    BY <1>6, <1>8, <1>9, <2>1, <2>2
<1>10. pc[o] = "idle" => v = NoWork
  OBVIOUS
<1> HIDE DEF w
<1> QED
  BY <1>1, <1>3, <1>5, <1>7, <1>8, <1>9, <1>10 DEF WorkOf

-----------------------------------------------------------------------------
(* What an action leaves alone.                                            *)

LEMMA RowStays ==
  ASSUME TypeOK, RowInv, Grown, NEW name \in DOMAIN rows, rows'[name] = rows[name]
  PROVE  Priced(name, rows[name])' /\ (rows'[name].status \in Good => Settles(name)')
<1>1. Priced(name, rows[name]) /\ (rows[name].status \in Good => Settles(name))
  BY DEF RowInv
<1>2. PICK row : row = rows[name]
  OBVIOUS
<1>3. Priced(name, row)' /\ (row.status \in Good => Settles(name)')
  BY <1>1, <1>2, Persists
<1>4. Priced(name, rows[name])'
  BY <1>2, <1>3 DEF Priced, Tells
<1> QED
  BY <1>2, <1>3, <1>4

LEMMA QuietTables ==
  ASSUME TypeOK, RowInv, ReportInv, ConfirmedInv, Grown,
         UNCHANGED <<rows, reports, confirmed, behind>>
  PROVE  RowInv' /\ ReportInv' /\ ConfirmedInv'
<1>1. RowInv'
  BY RowStays DEF RowInv
<1>2. ReportInv'
  <2>1. \A i \in DOMAIN checkouts : \A kind : Delivery(i, kind)' = Delivery(i, kind)
    BY Persists
  <2>2. ASSUME NEW i \in DOMAIN reports
        PROVE  /\ i \in DOMAIN checkouts'
               /\ \E kind \in {"paid", "failed"} :
                    reports[i] = [kind |-> kind, delivery |-> Delivery(i, kind)']
               /\ reports[i].kind = "paid" => checkouts'[i].status \in Settled
    <3>1. /\ i \in DOMAIN checkouts
          /\ \E kind \in {"paid", "failed"} :
               reports[i] = [kind |-> kind, delivery |-> Delivery(i, kind)]
          /\ reports[i].kind = "paid" => checkouts[i].status \in Settled
      BY DEF ReportInv
    <3> QED
      BY <2>1, <3>1 DEF Grown
  <2> QED
    BY <2>2 DEF ReportInv
<1>3. ConfirmedInv'
  <2>1. \A name : Paid(name) => Paid(name)'
    BY Persists
  <2> QED
    BY <2>1 DEF ConfirmedInv
<1> QED
  BY <1>1, <1>2, <1>3

LEMMA OtherStays ==
  ASSUME TypeOK, WorkInv, Grown, NEW o \in Clients, pc'[o] = pc[o], work'[o] = work[o],
         \A name \in DOMAIN rows : name \in DOMAIN rows' /\ rows'[name].id = rows[name].id
  PROVE  WorkOf(o)'
<1>1. pc[o] = "idle" => work'[o] = NoWork
  BY DEF WorkInv, WorkOf
<1> QED
  BY <1>1, WorkStays

(* A request moves on, or ends, and the rows keep their ids.               *)
LEMMA ClientStep ==
  ASSUME IInv, Grown, checkouts' \in Seq(Charges), Len(checkouts') <= Len(CheckoutIds),
         NEW c \in Clients, NEW step \in Steps, NEW w,
         pc' = [pc EXCEPT ![c] = step], work' = [work EXCEPT ![c] = w],
         \A name \in DOMAIN rows : name \in DOMAIN rows' /\ rows'[name].id = rows[name].id,
         \A name \in DOMAIN rows' : DOMAIN rows'[name] = {"id", "amount", "currency", "status"},
         pc'[c] = step /\ work'[c] = w => WorkOf(c)',
         RowInv', ReportInv', ConfirmedInv', RepeatsAreAccepted'
  PROVE  IInv'
<1>0. TypeOK /\ WorkInv
  BY DEF IInv
<1>1. /\ pc' \in [Clients -> Steps] /\ DOMAIN work' = Clients
      /\ pc'[c] = step /\ work'[c] = w
      /\ \A o \in Clients \ {c} : pc'[o] = pc[o] /\ work'[o] = work[o]
  BY <1>0 DEF TypeOK
<1>2. TypeOK'
  <2>1. Charges' = Charges /\ scene' \in Scenes
    BY <1>0, Persists DEF TypeOK, Grown
  <2> QED
    BY <1>1, <2>1 DEF TypeOK
<1>3. WorkInv'
  <2>1. \A o \in Clients \ {c} : WorkOf(o)'
    BY <1>0, <1>1, OtherStays
  <2> QED
    BY <1>1, <2>1 DEF WorkInv
<1> QED
  BY <1>2, <1>3 DEF IInv

Quiet == UNCHANGED <<rows, reports, confirmed, behind>>

LEMMA Goes ==
  ASSUME IInv, Grown, checkouts' \in Seq(Charges), Len(checkouts') <= Len(CheckoutIds), Quiet,
         NEW c \in Clients, NEW step \in Steps, NEW w, Go(c, step, w),
         pc'[c] = step /\ work'[c] = w => WorkOf(c)'
  PROVE  IInv'
<1>1. TypeOK /\ RowInv /\ ReportInv /\ ConfirmedInv /\ RepeatsAreAccepted
  BY DEF IInv
<1>2. RowInv' /\ ReportInv' /\ ConfirmedInv'
  BY <1>1, QuietTables DEF Quiet
<1>3. /\ pc' = [pc EXCEPT ![c] = step] /\ work' = [work EXCEPT ![c] = w] /\ answer' = answer
      /\ rows' = rows
  BY DEF Go, Quiet
<1>4. RepeatsAreAccepted'
  BY <1>1, <1>3 DEF RepeatsAreAccepted
<1>5. \A name \in DOMAIN rows : DOMAIN rows[name] = {"id", "amount", "currency", "status"}
  BY <1>1 DEF TypeOK
<1> QED
  BY <1>2, <1>3, <1>4, <1>5, ClientStep

(* A request that ends tells what is due.                                  *)
LEMMA Answers ==
  ASSUME NEW c, NEW w, NEW status, Finish(c, w, status),
         w.call \in {"initiate", "webhook"} /\ ~w.deleted => (status = "ok") = w.due
  PROVE  RepeatsAreAccepted'
BY DEF Finish, RepeatsAreAccepted

LEMMA Rests ==
  ASSUME NEW c, pc'[c] = "idle", work'[c] = NoWork
  PROVE  WorkOf(c)'
BY DEF WorkOf

LEMMA Ends ==
  ASSUME IInv, Grown, checkouts' \in Seq(Charges), Len(checkouts') <= Len(CheckoutIds), Quiet,
         NEW c \in Clients, NEW w, NEW status, Finish(c, w, status),
         w.call \in {"initiate", "webhook"} /\ ~w.deleted => (status = "ok") = w.due
  PROVE  IInv'
<1>1. TypeOK /\ RowInv /\ ReportInv /\ ConfirmedInv
  BY DEF IInv
<1>2. RowInv' /\ ReportInv' /\ ConfirmedInv'
  BY <1>1, QuietTables DEF Quiet
<1>3. /\ pc' = [pc EXCEPT ![c] = "idle"] /\ work' = [work EXCEPT ![c] = NoWork]
      /\ rows' = rows /\ "idle" \in Steps
  BY DEF Finish, Quiet, Steps
<1>4. RepeatsAreAccepted'
  BY Answers
<1>5. \A name \in DOMAIN rows : DOMAIN rows[name] = {"id", "amount", "currency", "status"}
  BY <1>1 DEF TypeOK
<1>6. pc'[c] = "idle" /\ work'[c] = NoWork => WorkOf(c)'
  BY Rests
<1> QED
  BY <1>2, <1>3, <1>4, <1>5, <1>6, ClientStep

-----------------------------------------------------------------------------
(* What the provider says is so.                                           *)

LEMMA GoodIsSettled ==
  ASSUME TypeOK, NEW i \in DOMAIN checkouts
  PROVE  Verified(checkouts[i]).status \in Good <=> checkouts[i].status \in Settled
<1> DEFINE k == checkouts[i]
<1>1. k.status \in {"open", "failed", "paid", "refunded", "partially_refunded"}
  BY CheckoutOf, ChargeOf DEF TypeOK, ChargeStatuses, Settled
<1> HIDE DEF k
<1>2. CASE Bachs
  <2> DEFINE charge == Session(k).charge
             payment == Session(k).payment
             checkout == Session(k).status
  <2>1. Verified(k).status = MapTransactionStatus(charge, payment, checkout)
    BY <1>2 DEF Verified, BachsVerified
  <2>2. /\ charge.status = IF scene.detail # "charge" \/ k.status = "open" THEN None
                           ELSE IF k.status = "paid" THEN "succeeded" ELSE k.status
        /\ payment = IF scene.detail # "payment" \/ k.status = "open" THEN None
                     ELSE IF k.status = "failed" THEN "failed" ELSE "succeeded"
        /\ checkout = IF k.status = "open" THEN "OPEN"
                      ELSE IF k.status = "failed" THEN "EXPIRED" ELSE "COMPLETED"
    BY DEF Session
  <2> HIDE DEF charge, payment, checkout
  <2> QED
    BY <1>1, <2>1, <2>2 DEF MapTransactionStatus, Read, Good, Settled, None, k
<1>3. CASE ~Bachs
  <2>1. Verified(k).status = MapPaystackStatus(PaystackData(k).status)
    BY <1>3 DEF Verified, PaystackVerified
  <2> QED
    BY <1>1, <2>1 DEF MapPaystackStatus, PaystackData, Read, Good, Settled, k
<1> QED
  BY <1>2, <1>3

(* A report is accepted if it is genuine, and only then; what is taken     *)
(* from it is what the charge says.                                        *)
LEMMA Reported ==
  ASSUME TypeOK, ReportInv, NEW i \in DOMAIN reports
  PROVE  LET event == EventOf(reports[i].delivery) IN
         /\ event.accepted = Genuine(i)
         /\ Genuine(i) =>
              /\ event.reference = Called(i) /\ Paid(Called(i))
              /\ Tells([amount |-> event.amount, currency |-> event.currency], checkouts[i])
<1>0. scene \in Scenes
  BY DEF TypeOK
<1>1. PICK kind \in {"paid", "failed"} :
        reports[i] = [kind |-> kind, delivery |-> Delivery(i, kind)]
  BY DEF ReportInv
<1>2. /\ i \in DOMAIN checkouts /\ i \in CheckoutNumbers /\ checkouts[i] \in Charges
      /\ Called(i) = IF Bachs /\ ~scene.echoes THEN CheckoutIds[i] ELSE checkouts[i].reference
      /\ kind = "paid" => checkouts[i].status \in Settled
  BY <1>1, CheckoutOf DEF ReportInv
<1> DEFINE k == checkouts[i]
           delivery == Delivery(i, kind)
           event == EventOf(delivery)
<1>3. /\ k.currency # None /\ k.reference # None /\ CheckoutIds[i] # None
      /\ Bachs => Precise(k.amount, k.currency)
  BY <1>0, <1>2, ChargeOf, IdAssumption
<1>4. kind = "paid" => Paid(Called(i))
  BY <1>2 DEF Paid
<1>5. Genuine(i) = /\ kind = "paid" /\ scene.secret = "live"
                   /\ IF Bachs THEN /\ scene.timed /\ scene.complete
                                    /\ DecimalToMinor(k.amount, k.currency) # NoAmount
                               ELSE IsI64(k.amount)
  BY <1>1, <1>2 DEF Genuine
<1>6. CASE Bachs
  <2> DEFINE body == delivery.body
             amount == DecimalToMinor(k.amount, k.currency)
  <2>1. /\ delivery.time = (IF scene.timed THEN "t1" ELSE None)
        /\ delivery.mac = Sign(scene.secret, <<delivery.time, body>>)
        /\ body.event = (IF kind = "paid" THEN "collection.succeeded" ELSE "collection.failed")
        /\ body.checkout = CheckoutIds[i]
        /\ body.reference = (IF scene.echoes THEN k.reference ELSE None)
        /\ body.amount = Shown(k.amount)
        /\ body.currency = (IF scene.complete THEN k.currency ELSE None)
    BY <1>6 DEF Delivery, Echo
  <2>2. DecimalToMinor(Shown(k.amount), k.currency) = amount
    BY <1>3, <1>6, TrimmedTells DEF Shown
  <2>3. event = BachsEvent(delivery, "live")
    BY <1>6 DEF EventOf
  <2> HIDE DEF delivery, body, amount
  <2>4. BachsReference(body) = Called(i) /\ BachsReference(body) # None
    BY <1>2, <1>3, <1>6, <2>1 DEF BachsReference
  <2>5. BachsSigned(delivery, "live") = (scene.timed /\ scene.secret = "live")
    <3>1. delivery.time # None <=> scene.timed
      BY <2>1 DEF None
    <3>2. delivery.mac = Sign("live", <<delivery.time, body>>) <=> scene.secret = "live"
      BY <2>1 DEF Sign
    <3> QED
      BY <3>1, <3>2 DEF BachsSigned, body
  <2>6. (body.event = "collection.succeeded") = (kind = "paid")
    BY <2>1
  <2>7. (body.currency # None) = (scene.complete = TRUE)
    BY <1>3, <2>1
  <2>8. CASE scene.complete
    <3>1. body.currency = k.currency /\ DecimalToMinor(body.amount, body.currency) = amount
      BY <2>1, <2>2, <2>8
    <3>2. /\ event.reference = Called(i) /\ event.amount = amount /\ event.currency = k.currency
      BY <1>3, <2>3, <2>4, <3>1 DEF BachsEvent, body
    <3>3. event.accepted = /\ BachsSigned(delivery, "live") /\ body.event = "collection.succeeded"
                           /\ BachsReference(body) # None /\ body.currency # None
                           /\ amount # NoAmount
      BY <1>3, <2>3, <3>1 DEF BachsEvent, body
    <3>4. event.accepted = Genuine(i)
      BY <1>3, <1>5, <1>6, <2>4, <2>5, <2>6, <2>8, <3>1, <3>3 DEF amount
    <3>5. amount # NoAmount => k.amount = MinorToDecimal(amount, k.currency)
      BY <1>3, <1>6, ReadBack DEF amount
    <3>6. Genuine(i) => Tells([amount |-> event.amount, currency |-> event.currency], k)
      BY <1>5, <1>6, <2>8, <3>2, <3>5 DEF Tells, amount
    <3>7. Genuine(i) => Paid(Called(i))
      BY <1>4, <1>5
    <3> HIDE DEF event, k
    <3> QED
      BY <1>1, <3>2, <3>4, <3>6, <3>7 DEF event, k, delivery
  <2>9. CASE ~scene.complete
    <3>1. body.currency = None
      BY <2>1, <2>9
    <3>2. ~event.accepted
      BY <2>3, <3>1 DEF BachsEvent, body
    <3>3. ~Genuine(i)
      BY <1>5, <1>6, <2>9
    <3>4. event.accepted \in BOOLEAN /\ Genuine(i) \in BOOLEAN
      BY <2>3 DEF BachsEvent, Genuine
    <3> QED
      BY <1>1, <3>2, <3>3, <3>4 DEF delivery
  <2> QED
    BY <2>8, <2>9
<1>7. CASE ~Bachs
  <2> DEFINE body == delivery.body
  <2>1. /\ delivery.mac = Sign(scene.secret, body)
        /\ body.event = (IF kind = "paid" THEN "charge.success" ELSE "charge.failed")
        /\ body.status = (IF kind = "paid" THEN "success" ELSE "failed")
        /\ body.reference = k.reference /\ body.amount = k.amount
    BY <1>7 DEF Delivery
  <2>2. event = PaystackEvent(delivery, "live")
    BY <1>7 DEF EventOf
  <2> HIDE DEF delivery, body
  <2>3. PaystackSigned(delivery, "live") <=> scene.secret = "live"
    BY <2>1 DEF Sign, PaystackSigned, body
  <2>4. /\ event.accepted = /\ PaystackSigned(delivery, "live") /\ IsI64(k.amount)
                            /\ body.event = "charge.success" /\ body.status = "success"
        /\ event.reference = k.reference /\ event.amount = k.amount
    BY <2>1, <2>2 DEF PaystackEvent, body
  <2>5. event.accepted = Genuine(i)
    BY <1>5, <1>7, <2>1, <2>3, <2>4
  <2>6. Tells([amount |-> event.amount, currency |-> event.currency], k)
    BY <1>7, <2>4 DEF Tells
  <2>7. event.reference = Called(i) /\ (Genuine(i) => Paid(Called(i)))
    BY <1>2, <1>4, <1>5, <1>7, <2>4
  <2> HIDE DEF event, k
  <2> QED
    BY <1>1, <2>5, <2>6, <2>7 DEF event, k, delivery
<1> QED
  BY <1>6, <1>7

-----------------------------------------------------------------------------
(* One lemma per action.                                                   *)

LEMMA SameCheckouts ==
  ASSUME TypeOK, UNCHANGED <<scene, checkouts>>
  PROVE  Grown /\ checkouts' \in Seq(Charges) /\ Len(checkouts') <= Len(CheckoutIds)
BY NothingNew DEF TypeOK

(* A charge whose status becomes another one.                              *)
LEMMA StatusSet ==
  ASSUME TypeOK, UNCHANGED scene, NEW i \in DOMAIN checkouts, NEW status \in ChargeStatuses,
         checkouts[i].status \in Settled => status \in Settled,
         checkouts' = [checkouts EXCEPT ![i].status = status]
  PROVE  /\ Grown /\ checkouts' \in Seq(Charges) /\ Len(checkouts') <= Len(CheckoutIds)
         /\ DOMAIN checkouts' = DOMAIN checkouts /\ checkouts'[i].status = status
<1>1. /\ checkouts[i] \in Charges /\ checkouts \in Seq(Charges) /\ Len(checkouts) <= Len(CheckoutIds)
      /\ DOMAIN checkouts[i] = {"reference", "amount", "currency", "status"}
      /\ [checkouts[i] EXCEPT !.status = status] \in Charges
  BY CheckoutOf, ChargeOf DEF TypeOK
<1>2. /\ DOMAIN checkouts' = DOMAIN checkouts
      /\ checkouts'[i] = [checkouts[i] EXCEPT !.status = status]
      /\ \A j \in DOMAIN checkouts : j # i => checkouts'[j] = checkouts[j]
  BY <1>1
<1>3. checkouts' \in Seq(Charges) /\ Len(checkouts') = Len(checkouts)
  BY <1>1, <1>2
<1>4. Grown
  BY <1>1, <1>2 DEF Grown, Same
<1> QED
  BY <1>1, <1>2, <1>3, <1>4

LEMMA SettleStep ==
  ASSUME IInv, NEW i \in CheckoutNumbers, NEW kind \in {"paid", "failed"}, Settle(i, kind)
  PROVE  IInv'
<1>0. TypeOK /\ RowInv /\ ReportInv /\ WorkInv /\ ConfirmedInv /\ RepeatsAreAccepted
  BY DEF IInv
<1>1. /\ i \in DOMAIN checkouts /\ checkouts[i].status = "open"
      /\ checkouts' = [checkouts EXCEPT ![i].status = kind]
      /\ reports' = With(reports, [j \in {i} |-> [kind |-> kind, delivery |-> Delivery(i, kind)]])
      /\ UNCHANGED <<scene, rows, confirmed, behind, pc, work, answer>>
  BY DEF Settle, table, history, bounds
<1>2. /\ Grown /\ checkouts' \in Seq(Charges) /\ Len(checkouts') <= Len(CheckoutIds)
      /\ DOMAIN checkouts' = DOMAIN checkouts /\ checkouts'[i].status = kind
  BY <1>0, <1>1, StatusSet DEF ChargeStatuses, Settled
<1>3. TypeOK'
  BY <1>0, <1>1, <1>2, Persists DEF TypeOK
<1>4. RowInv'
  BY <1>0, <1>1, <1>2, RowStays DEF RowInv
<1>5. ReportInv'
  <2>1. \A j \in DOMAIN checkouts : \A k : Delivery(j, k)' = Delivery(j, k)
    BY <1>0, <1>2, Persists
  <2>2. ASSUME NEW j \in DOMAIN reports'
        PROVE  /\ j \in DOMAIN checkouts'
               /\ \E k \in {"paid", "failed"} :
                    reports'[j] = [kind |-> k, delivery |-> Delivery(j, k)']
               /\ reports'[j].kind = "paid" => checkouts'[j].status \in Settled
    <3>1. CASE j = i
      <4>1. reports'[j] = [kind |-> kind, delivery |-> Delivery(i, kind)]
        BY <1>1, <3>1 DEF With
      <4> QED
        BY <1>1, <1>2, <2>1, <3>1, <4>1 DEF Settled
    <3>2. CASE j # i
      <4>1. j \in DOMAIN reports /\ reports'[j] = reports[j]
        BY <1>1, <3>2 DEF With
      <4>2. /\ j \in DOMAIN checkouts
            /\ \E k \in {"paid", "failed"} :
                 reports[j] = [kind |-> k, delivery |-> Delivery(j, k)]
            /\ reports[j].kind = "paid" => checkouts[j].status \in Settled
        BY <1>0, <4>1 DEF ReportInv
      <4> QED
        BY <1>2, <2>1, <4>1, <4>2 DEF Grown
    <3> QED
      BY <3>1, <3>2
  <2> QED
    BY <2>2 DEF ReportInv
<1>6. WorkInv'
  BY <1>0, <1>1, <1>2, OtherStays DEF WorkInv
<1>7. ConfirmedInv'
  <2>1. \A name : Paid(name) => Paid(name)'
    BY <1>0, <1>2, Persists
  <2> QED
    BY <1>0, <1>1, <2>1 DEF ConfirmedInv
<1>8. RepeatsAreAccepted'
  BY <1>0, <1>1 DEF RepeatsAreAccepted
<1> QED
  BY <1>3, <1>4, <1>5, <1>6, <1>7, <1>8 DEF IInv

LEMMA InitiateStep ==
  ASSUME IInv, NEW c \in Clients, NEW reference \in Orders, NEW answered \in BOOLEAN,
         Initiate(c, reference, answered)
  PROVE  IInv'
<1> DEFINE order == scene.orders[reference]
           refused == \/ Len(checkouts) = Len(CheckoutIds)
                      \/ ~Bachs /\ \E i \in DOMAIN checkouts : checkouts[i].reference = reference
           w == [call |-> "initiate", name |-> reference, amount |-> order.amount,
                 currency |-> order.currency, due |-> ~refused /\ answered, deleted |-> FALSE]
<1>0. TypeOK /\ scene \in Scenes
  BY DEF IInv, TypeOK
<1>1. /\ reference \in References /\ UNCHANGED <<scene, rows, reports, confirmed, behind>>
      /\ checkouts' = IF refused THEN checkouts ELSE Append(checkouts, Charge(reference))
      /\ IF refused \/ ~answered THEN Finish(c, w, "error") ELSE Go(c, "insert", w)
  BY DEF Initiate, Requested, table, history
<1>2. Quiet
  BY <1>1 DEF Quiet
<1>3. Grown /\ checkouts' \in Seq(Charges) /\ Len(checkouts') <= Len(CheckoutIds)
  <2>1. CASE refused
    BY <1>0, <1>1, <2>1, SameCheckouts
  <2>2. CASE ~refused
    <3>1. checkouts \in Seq(Charges) /\ Len(checkouts) < Len(CheckoutIds)
      <4>1. Len(checkouts) \in Nat /\ Len(CheckoutIds) \in Nat
        BY <1>0, CheckoutOf, IdAssumption
      <4> QED
        BY <1>0, <2>2, <4>1 DEF TypeOK
    <3>2. Charge(reference) \in Charges
      <4>1. Charge(reference) \in Placed /\ "open" \in ChargeStatuses
        BY <1>1 DEF Placed, ChargeStatuses
      <4>2. Charge(reference) = [Charge(reference) EXCEPT !.status = "open"]
        <5>1. CASE Bachs
          BY <5>1 DEF Charge, BachsCharge
        <5>2. CASE ~Bachs
          BY <5>2 DEF Charge, PaystackCharge
        <5> QED
          BY <5>1, <5>2
      <4> QED
        BY <4>1, <4>2 DEF Charges
    <3>3. checkouts' = Append(checkouts, Charge(reference))
      BY <1>1, <2>2
    <3>4. /\ checkouts' \in Seq(Charges) /\ Len(checkouts') = Len(checkouts) + 1
          /\ \A i \in DOMAIN checkouts : checkouts'[i] = checkouts[i] /\ i \in DOMAIN checkouts'
      BY <3>1, <3>2, <3>3
    <3>5. Grown
      BY <1>1, <3>4 DEF Grown, Same
    <3>6. Len(checkouts') <= Len(CheckoutIds)
      <4>1. Len(checkouts) \in Nat /\ Len(CheckoutIds) \in Nat
        BY <1>0, CheckoutOf, IdAssumption
      <4> QED
        BY <3>1, <3>4, <4>1
    <3> QED
      BY <3>4, <3>5, <3>6
  <2> QED
    BY <2>1, <2>2
<1> HIDE DEF refused
<1>4. CASE refused \/ ~answered
  <2>1. Finish(c, w, "error") /\ w.due = FALSE
    BY <1>1, <1>4
  <2> HIDE DEF w
  <2>2. ("error" = "ok") = FALSE
    OBVIOUS
  <2> QED
    BY <1>2, <1>3, <2>1, <2>2, Ends
<1>5. CASE ~(refused \/ ~answered)
  <2>1. Go(c, "insert", w) /\ w.due = TRUE
    BY <1>1, <1>5
  <2>2. ASSUME pc'[c] = "insert", work'[c] = w
        PROVE  WorkOf(c)'
    <3>1. Priced(reference, order)
      BY <1>0, <1>1, PricedByOrder
    <3>2. PICK row : row = order
      OBVIOUS
    <3>3. Priced(reference, row)'
      BY <1>0, <1>3, <3>1, <3>2, Persists
    <3>4. w.name = reference /\ w.amount = row.amount /\ w.currency = row.currency
      BY <3>2
    <3> HIDE DEF order
    <3>5. Priced(work[c].name, work[c])'
      BY <2>2, <3>3, <3>4 DEF Priced, Tells
    <3>6. /\ DOMAIN w = {"call", "name", "amount", "currency", "due", "deleted"}
          /\ w.call = "initiate" /\ w.due /\ ~w.deleted
      BY <2>1
    <3> HIDE DEF w
    <3>7. Recording(work[c])'
      BY <2>2, <3>5, <3>6 DEF Recording
    <3> QED
      BY <2>2, <3>6, <3>7 DEF WorkOf
  <2> HIDE DEF w
  <2> QED
    BY <1>2, <1>3, <2>1, <2>2, Goes DEF Steps
<1> QED
  BY <1>4, <1>5

LEMMA PollStep ==
  ASSUME IInv, NEW c \in Clients, NEW i \in CheckoutNumbers, Poll(c, i)
  PROVE  IInv'
<1> DEFINE verified == Verified(checkouts[i])
           w == Marking("poll", checkouts[i].reference, verified.status,
                        checkouts[i].status \notin Settled)
<1>0. TypeOK
  BY DEF IInv
<1>1. /\ i \in DOMAIN checkouts /\ UNCHANGED <<scene, checkouts, rows, reports, confirmed, behind>>
      /\ IF verified.amount = NoAmount THEN Finish(c, w, "error") ELSE Go(c, "mark", w)
  BY DEF Poll, Requested, table, history
<1>2. Quiet /\ Grown /\ checkouts' \in Seq(Charges) /\ Len(checkouts') <= Len(CheckoutIds)
  BY <1>0, <1>1, SameCheckouts DEF Quiet
<1>3. /\ DOMAIN w = {"call", "name", "status", "early", "due", "deleted"}
      /\ w.call = "poll" /\ w.name = checkouts[i].reference /\ w.status = verified.status
      /\ w.early = (checkouts[i].status \notin Settled)
      /\ ~w.deleted
  BY DEF Marking
<1>4. (w.status \in Good => Settles(w.name)) /\ (w.status \notin Good => w.early)
  <2>1. w.status \in Good <=> checkouts[i].status \in Settled
    BY <1>0, <1>1, <1>3, GoodIsSettled
  <2> QED
    BY <1>1, <1>3, <2>1 DEF Settles
<1> HIDE DEF w, verified
<1>5. ASSUME pc'[c] = "mark", work'[c] = w
      PROVE  WorkOf(c)'
  <2>1. PICK name : name = w.name
    OBVIOUS
  <2>2. w.status \in Good => Settles(name)'
    BY <1>0, <1>2, <1>4, <2>1, Persists
  <2>3. MarkingOf(work[c])'
    BY <1>3, <1>4, <1>5, <2>1, <2>2 DEF MarkingOf, Settles
  <2> QED
    BY <1>3, <1>5, <2>3 DEF WorkOf
<1> QED
  BY <1>1, <1>2, <1>3, <1>5, Goes, Ends DEF Steps

LEMMA ReadChargeStep ==
  ASSUME IInv, NEW c \in Clients, NEW i \in CheckoutNumbers, ReadCharge(c, i)
  PROVE  IInv'
<1> DEFINE w == With(Marking("refund", checkouts[i].reference, "refunded", FALSE), [checkout |-> i])
<1>0. TypeOK
  BY DEF IInv
<1>1. /\ i \in DOMAIN checkouts /\ UNCHANGED <<scene, checkouts, rows, reports, confirmed, behind>>
      /\ Finish(c, w, "error") \/ Go(c, "refund", w)
  BY DEF ReadCharge, Requested, table, history
<1>2. Quiet /\ Grown /\ checkouts' \in Seq(Charges) /\ Len(checkouts') <= Len(CheckoutIds)
  BY <1>0, <1>1, SameCheckouts DEF Quiet
<1>3. /\ DOMAIN w = {"call", "name", "status", "early", "due", "deleted", "checkout"}
      /\ w.call = "refund" /\ w.status = "refunded" /\ w.checkout = i /\ w.name = checkouts[i].reference
  BY DEF Marking, With
<1> HIDE DEF w
<1>4. pc'[c] = "refund" /\ work'[c] = w => WorkOf(c)'
  BY <1>1, <1>3 DEF WorkOf
<1> QED
  BY <1>1, <1>2, <1>3, <1>4, Goes, Ends DEF Steps

LEMMA PostRefundStep ==
  ASSUME IInv, NEW c \in Clients, NEW status \in {"refunded", "partially_refunded"},
         NEW answered \in BOOLEAN, PostRefund(c, status, answered)
  PROVE  IInv'
<1> DEFINE w == work[c]
           i == w.checkout
           refused == checkouts[i].status # "paid"
<1>0. TypeOK /\ WorkOf(c)
  BY DEF IInv, WorkInv
<1>1. /\ pc[c] = "refund" /\ UNCHANGED <<scene, rows, reports, confirmed, behind>>
      /\ checkouts' = IF refused THEN checkouts ELSE [checkouts EXCEPT ![i].status = status]
      /\ IF refused \/ ~answered THEN Finish(c, w, "error") ELSE Go(c, "mark", w)
  BY DEF PostRefund, table, history, bounds
<1>2. /\ DOMAIN w = {"call", "name", "status", "early", "due", "deleted", "checkout"}
      /\ w.call = "refund" /\ w.status = "refunded" /\ i \in DOMAIN checkouts /\ w.name = checkouts[i].reference
  BY <1>0, <1>1 DEF WorkOf
<1> HIDE DEF w
<1>3. /\ Quiet /\ Grown /\ checkouts' \in Seq(Charges) /\ Len(checkouts') <= Len(CheckoutIds)
      /\ ~refused => i \in DOMAIN checkouts' /\ checkouts'[i].status = status
  <2>1. CASE refused
    BY <1>0, <1>1, <2>1, SameCheckouts DEF Quiet
  <2>2. CASE ~refused
    BY <1>0, <1>1, <1>2, <2>2, StatusSet DEF Quiet, ChargeStatuses, Settled
  <2> QED
    BY <2>1, <2>2
<1>4. ASSUME ~refused, pc'[c] = "mark", work'[c] = w
      PROVE  WorkOf(c)'
  <2>1. checkouts'[i].status \in Settled /\ checkouts'[i].reference = w.name
    BY <1>2, <1>3, <1>4 DEF Settled, Grown, Same
  <2>2. Settles(work[c].name)'
    BY <1>3, <1>4, <2>1 DEF Settles
  <2>3. MarkingOf(work[c])'
    BY <1>2, <1>4, <2>2 DEF MarkingOf, Good
  <2> QED
    BY <1>2, <1>4, <2>3 DEF WorkOf
<1> HIDE DEF refused, i
<1>5. CASE refused \/ ~answered
  BY <1>1, <1>2, <1>3, <1>5, Ends
<1>6. CASE ~(refused \/ ~answered)
  BY <1>1, <1>3, <1>4, <1>6, Goes DEF Steps
<1> QED
  BY <1>5, <1>6

LEMMA DeliverStep ==
  ASSUME IInv, NEW c \in Clients, NEW i \in CheckoutNumbers, Deliver(c, i)
  PROVE  IInv'
<1> DEFINE event == EventOf(reports[i].delivery)
           w == [call |-> "webhook", name |-> event.reference, status |-> "success",
                 amount |-> event.amount, currency |-> event.currency, checkout |-> i,
                 due |-> Genuine(i), deleted |-> FALSE]
<1>0. TypeOK /\ ReportInv
  BY DEF IInv
<1>1. /\ i \in DOMAIN reports /\ UNCHANGED <<scene, checkouts, rows, reports, confirmed, behind>>
      /\ IF event.accepted THEN Go(c, "find", w) ELSE Finish(c, w, "error")
  BY DEF Deliver, table, history
<1>2. Quiet /\ Grown /\ checkouts' \in Seq(Charges) /\ Len(checkouts') <= Len(CheckoutIds)
  BY <1>0, <1>1, SameCheckouts DEF Quiet
<1>3. /\ event.accepted = Genuine(i)
      /\ Genuine(i) => /\ event.reference = Called(i) /\ Paid(Called(i))
                       /\ Tells([amount |-> event.amount, currency |-> event.currency], checkouts[i])
  BY <1>0, <1>1, Reported
<1>4. CASE event.accepted
  <2>1. Genuine(i) /\ i \in DOMAIN checkouts
    BY <1>0, <1>1, <1>3, <1>4 DEF ReportInv
  <2>2. PICK name, row : /\ name = event.reference
                         /\ row = [amount |-> event.amount, currency |-> event.currency]
    OBVIOUS
  <2>3. Paid(name) /\ Priced(name, row)
    <3>1. name = Called(i) /\ Tells(row, checkouts[i])
      BY <1>3, <2>1, <2>2
    <3>2. Priced(Called(i), row)
      BY <1>0, <2>1, <3>1, PricedByCharge
    <3> QED
      BY <1>3, <2>1, <2>2, <3>1, <3>2
  <2>4. Paid(name)' /\ Priced(name, row)'
    BY <1>0, <1>2, <2>3, Persists
  <2>5. /\ DOMAIN w = {"call", "name", "status", "amount", "currency", "checkout", "due", "deleted"}
        /\ w.call = "webhook" /\ w.name = name /\ w.status = "success" /\ w.due /\ ~w.deleted
        /\ w.amount = row.amount /\ w.currency = row.currency
    BY <2>1, <2>2
  <2> HIDE DEF w
  <2>6. ASSUME pc'[c] = "find", work'[c] = w
        PROVE  WorkOf(c)'
    <3>1. Priced(work[c].name, work[c])'
      BY <2>4, <2>5, <2>6 DEF Priced, Tells
    <3>2. Paid(work[c].name)'
      BY <2>4, <2>5, <2>6 DEF Paid
    <3>3. Recording(work[c])'
      BY <2>5, <2>6, <3>1 DEF Recording
    <3> QED
      BY <2>5, <2>6, <3>1, <3>2, <3>3 DEF WorkOf
  <2>7. Go(c, "find", w)
    BY <1>1, <1>4
  <2> QED
    BY <1>2, <2>6, <2>7, Goes DEF Steps
<1>5. CASE ~event.accepted
  <2>1. w.due = FALSE /\ Finish(c, w, "error")
    <3>1. Genuine(i) = FALSE
      BY <1>3, <1>5 DEF Genuine
    <3> QED
      BY <1>1, <1>5, <3>1
  <2> HIDE DEF w
  <2>2. ("error" = "ok") = FALSE
    OBVIOUS
  <2> QED
    BY <1>2, <2>1, <2>2, Ends
<1> QED
  BY <1>4, <1>5

(* A webhook's request knows that its reference was paid.                  *)
LEMMA WebhookMarks ==
  ASSUME NEW c, NEW w, w = work[c], WorkOf(c), w.call = "webhook",
         pc[c] \in {"find", "insert", "existing"}
  PROVE  MarkingOf(w)
<1>1. /\ {"status", "checkout", "amount", "currency"} \subseteq DOMAIN w
      /\ w.status = "success" /\ w.due /\ Paid(w.name)
      /\ {"call", "name", "due", "deleted"} \subseteq DOMAIN w
  BY DEF WorkOf, Recording
<1>2. Settles(w.name)
  BY <1>1 DEF Settles, Paid
<1> QED
  BY <1>1, <1>2 DEF MarkingOf, Good

(* A request that goes on with what it has.                                *)
LEMMA Carries ==
  ASSUME TypeOK, Grown, NEW c \in Clients, WorkOf(c), work'[c] = work[c],
         pc[c] \in {"find", "insert", "existing"}
  PROVE  /\ Recording(work[c])'
         /\ work[c].call = "webhook" =>
              /\ MarkingOf(work[c])'
              /\ {"status", "checkout", "amount", "currency"} \subseteq DOMAIN work[c]
              /\ work[c].status = "success" /\ work[c].due
              /\ Paid(work[c].name)' /\ Priced(work[c].name, work[c])'
<1>1. Recording(work[c])
  BY DEF WorkOf
<1>2. PICK name, w : name = w.name /\ w = work[c]
  OBVIOUS
<1>3. Priced(name, w)'
  BY <1>1, <1>2, Persists DEF Recording
<1>4. Priced(work[c].name, work[c])'
  BY <1>2, <1>3 DEF Priced, Tells
<1>5. Recording(work[c])'
  BY <1>1, <1>2, <1>4 DEF Recording
<1>6. ASSUME w.call = "webhook"
      PROVE  /\ MarkingOf(work[c])'
             /\ {"status", "checkout", "amount", "currency"} \subseteq DOMAIN w
             /\ w.status = "success" /\ w.due /\ Paid(work[c].name)'
  <2>1. MarkingOf(w)
    BY <1>2, <1>6, WebhookMarks
  <2>2. /\ {"status", "checkout", "amount", "currency"} \subseteq DOMAIN w
        /\ w.status = "success" /\ w.due /\ Paid(name)
    BY <1>2, <1>6 DEF WorkOf
  <2>3. Paid(name)' /\ (w.status \in Good => Settles(name)')
    BY <1>2, <2>1, <2>2, Persists DEF MarkingOf
  <2>4. Paid(work[c].name)'
    BY <1>2, <2>3 DEF Paid
  <2>5. w.status \in Good => Settles(work[c].name)'
    BY <1>2, <2>3 DEF Settles
  <2>6. MarkingOf(work[c])'
    BY <1>2, <2>1, <2>5 DEF MarkingOf
  <2> QED
    BY <2>2, <2>4, <2>6
<1> QED
  BY <1>2, <1>4, <1>5, <1>6

LEMMA FindStep ==
  ASSUME IInv, NEW c \in Clients, Find(c)
  PROVE  IInv'
<1> DEFINE w == work[c]
           step == IF w.name \in DOMAIN rows THEN "mark" ELSE "insert"
<1>0. TypeOK /\ WorkOf(c)
  BY DEF IInv, WorkInv
<1>1. /\ pc[c] = "find" /\ Go(c, step, w)
      /\ UNCHANGED <<scene, checkouts, rows, reports, confirmed, behind>>
  BY DEF Find, table, history, bounds
<1>2. Quiet /\ Grown /\ checkouts' \in Seq(Charges) /\ Len(checkouts') <= Len(CheckoutIds)
  BY <1>0, <1>1, SameCheckouts DEF Quiet
<1>3. w.call = "webhook"
  BY <1>0, <1>1 DEF WorkOf
<1> HIDE DEF w
<1>4. ASSUME pc'[c] = step, work'[c] = w
      PROVE  WorkOf(c)'
  <2>1. /\ Recording(work[c])' /\ MarkingOf(work[c])'
        /\ {"status", "checkout", "amount", "currency"} \subseteq DOMAIN w
        /\ w.status = "success" /\ w.due
        /\ Paid(work[c].name)' /\ Priced(work[c].name, work[c])'
    BY <1>0, <1>1, <1>2, <1>3, <1>4, Carries DEF w
  <2> QED
    BY <1>1, <1>3, <1>4, <2>1 DEF WorkOf
<1> HIDE DEF step
<1>5. step \in Steps
  BY DEF step, Steps
<1> QED
  BY <1>1, <1>2, <1>4, <1>5, Goes

LEMMA FindExistingStep ==
  ASSUME IInv, NEW c \in Clients, FindExisting(c)
  PROVE  IInv'
<1> DEFINE w == work[c]
<1>0. TypeOK /\ WorkOf(c)
  BY DEF IInv, WorkInv
<1>1. /\ pc[c] = "existing"
      /\ IF w.name \in DOMAIN rows THEN Recorded(c, w) ELSE Finish(c, w, "error")
      /\ UNCHANGED <<scene, checkouts, rows, reports, confirmed, behind>>
  BY DEF FindExisting, table, history, bounds
<1>2. Quiet /\ Grown /\ checkouts' \in Seq(Charges) /\ Len(checkouts') <= Len(CheckoutIds)
  BY <1>0, <1>1, SameCheckouts DEF Quiet
<1>3. w.due = TRUE /\ (~w.deleted => w.name \in DOMAIN rows)
  <2>1. w.due /\ (~w.deleted => w.name \in DOMAIN rows)
    BY <1>0, <1>1 DEF WorkOf, Recording
  <2> QED
    BY <2>1 DEF WorkOf
<1> HIDE DEF w
<1>4. ASSUME w.call = "webhook", w.name \in DOMAIN rows, pc'[c] = "mark", work'[c] = w
      PROVE  WorkOf(c)'
  <2>1. /\ Recording(work[c])' /\ MarkingOf(work[c])'
        /\ {"status", "checkout", "amount", "currency"} \subseteq DOMAIN w
        /\ w.status = "success" /\ w.due
        /\ Paid(work[c].name)' /\ Priced(work[c].name, work[c])'
    BY <1>0, <1>1, <1>2, <1>4, Carries DEF w
  <2> QED
    BY <1>1, <1>4, <2>1 DEF WorkOf
<1>5. CASE w.name \in DOMAIN rows /\ w.call = "webhook"
  <2>1. Go(c, "mark", w)
    BY <1>1, <1>5 DEF Recorded
  <2> QED
    BY <1>2, <1>4, <1>5, <2>1, Goes DEF Steps
<1>6. CASE w.name \in DOMAIN rows /\ w.call # "webhook"
  <2>1. Finish(c, w, "ok") /\ ("ok" = "ok") = w.due
    BY <1>1, <1>3, <1>6 DEF Recorded
  <2> QED
    BY <1>2, <2>1, Ends
<1>7. CASE w.name \notin DOMAIN rows
  BY <1>1, <1>2, <1>3, <1>7, Ends
<1> QED
  BY <1>5, <1>6, <1>7

LEMMA InsertStep ==
  ASSUME IInv, NEW c \in Clients, Insert(c)
  PROVE  IInv'
<1> DEFINE w == work[c]
           row == [id |-> lastid + 1, amount |-> w.amount, currency |-> w.currency,
                   status |-> "pending"]
<1>0. /\ TypeOK /\ RowInv /\ ReportInv /\ WorkInv /\ WorkOf(c) /\ ConfirmedInv
      /\ RepeatsAreAccepted
  BY DEF IInv, WorkInv
<1>1. /\ pc[c] = "insert" /\ UNCHANGED <<scene, checkouts, reports, confirmed, behind>>
      /\ w.name \notin DOMAIN rows => rows' = With(rows, [n \in {w.name} |-> row]) /\ Recorded(c, w)
      /\ w.name \in DOMAIN rows => Go(c, "existing", w) /\ rows' = rows
  BY DEF Insert, table, history, bounds, UniqueViolation, ConflictCode
<1>2. Grown /\ checkouts' \in Seq(Charges) /\ Len(checkouts') <= Len(CheckoutIds)
  BY <1>0, <1>1, SameCheckouts
<1>3. Recording(w)
  BY <1>0, <1>1 DEF WorkOf
<1>4. CASE w.name \in DOMAIN rows
  <2>1. ASSUME pc'[c] = "existing", work'[c] = w
        PROVE  WorkOf(c)'
    <3>1. /\ Recording(work[c])'
          /\ w.call = "webhook" =>
               /\ {"status", "checkout", "amount", "currency"} \subseteq DOMAIN w
               /\ w.status = "success" /\ w.due
               /\ Paid(work[c].name)' /\ Priced(work[c].name, work[c])'
      BY <1>0, <1>1, <1>2, <2>1, Carries
    <3> QED
      BY <1>1, <1>4, <2>1, <3>1 DEF WorkOf
  <2>2. Quiet /\ Go(c, "existing", w)
    BY <1>1, <1>4 DEF Quiet
  <2> HIDE DEF w
  <2> QED
    BY <1>2, <2>1, <2>2, Goes DEF Steps
<1>5. CASE w.name \notin DOMAIN rows
  <2>1. /\ DOMAIN rows' = DOMAIN rows \cup {w.name} /\ rows'[w.name] = row
        /\ \A name \in DOMAIN rows : rows'[name] = rows[name]
    BY <1>1, <1>5 DEF With
  <2>2. DOMAIN row = {"id", "amount", "currency", "status"} /\ row.status = "pending"
        /\ row.amount = w.amount /\ row.currency = w.currency
    OBVIOUS
  <2>3. RowInv'
    <3>1. PICK n, r : n = w.name /\ r = row
      OBVIOUS
    <3>2. Priced(n, r)
      BY <1>3, <2>2, <3>1 DEF Recording, Priced, Tells
    <3>3. Priced(n, r)'
      BY <1>0, <1>2, <3>2, Persists
    <3>4. rows'[n] = r /\ r.status \notin Good
      BY <2>1, <2>2, <3>1 DEF Good
    <3>5. Priced(n, rows[n])'
      BY <3>3, <3>4 DEF Priced, Tells
    <3>6. \A name \in DOMAIN rows :
            Priced(name, rows[name])' /\ (rows'[name].status \in Good => Settles(name)')
      BY <1>0, <1>2, <2>1, RowStays
    <3>7. \A name \in DOMAIN rows' : name = n \/ name \in DOMAIN rows
      BY <2>1, <3>1
    <3> QED
      BY <3>4, <3>5, <3>6, <3>7 DEF RowInv
  <2>4. ReportInv' /\ ConfirmedInv'
    <3>1. \A i \in DOMAIN checkouts : \A kind : Delivery(i, kind)' = Delivery(i, kind)
      BY <1>0, <1>2, Persists
    <3>2. \A name : Paid(name) => Paid(name)'
      BY <1>0, <1>2, Persists
    <3>3. ConfirmedInv'
      BY <1>0, <1>1, <2>1, <3>2 DEF ConfirmedInv
    <3>4. ReportInv'
      BY <1>0, <1>1, <3>1 DEF ReportInv
    <3> QED
      BY <3>3, <3>4
  <2>5. /\ \A name \in DOMAIN rows : name \in DOMAIN rows' /\ rows'[name].id = rows[name].id
        /\ \A name \in DOMAIN rows' : DOMAIN rows'[name] = {"id", "amount", "currency", "status"}
    BY <1>0, <2>1, <2>2 DEF TypeOK
  <2>6. CASE w.call = "webhook"
    <3>1. /\ pc' = [pc EXCEPT ![c] = "mark"] /\ work' = [work EXCEPT ![c] = w]
          /\ answer' = answer
      BY <1>1, <1>5, <2>6 DEF Recorded, Go
    <3>2. RepeatsAreAccepted'
      BY <1>0, <3>1 DEF RepeatsAreAccepted
    <3>3. ASSUME pc'[c] = "mark", work'[c] = w
          PROVE  WorkOf(c)'
      <4>1. /\ Recording(work[c])' /\ MarkingOf(work[c])'
            /\ {"status", "checkout", "amount", "currency"} \subseteq DOMAIN w
            /\ w.status = "success" /\ w.due
            /\ Paid(work[c].name)' /\ Priced(work[c].name, work[c])'
        BY <1>0, <1>1, <1>2, <2>6, <3>3, Carries
      <4> QED
        BY <2>1, <3>3, <4>1 DEF WorkOf
    <3> HIDE DEF w
    <3> QED
      BY <1>2, <2>3, <2>4, <2>5, <3>1, <3>2, <3>3, ClientStep DEF Steps
  <2>7. CASE w.call # "webhook"
    <3>1. Finish(c, w, "ok") /\ ("ok" = "ok") = w.due
      <4>1. w.due = TRUE
        BY <1>3 DEF Recording
      <4> QED
        BY <1>1, <1>5, <2>7, <4>1 DEF Recorded
    <3> HIDE DEF w
    <3>2. pc' = [pc EXCEPT ![c] = "idle"] /\ work' = [work EXCEPT ![c] = NoWork]
      BY <3>1 DEF Finish
    <3>3. RepeatsAreAccepted'
      BY <3>1, Answers
    <3>4. pc'[c] = "idle" /\ work'[c] = NoWork => WorkOf(c)'
      BY Rests
    <3> QED
      BY <1>2, <2>3, <2>4, <2>5, <3>2, <3>3, <3>4, ClientStep DEF Steps
  <2> QED
    BY <2>6, <2>7
<1> QED
  BY <1>4, <1>5

LEMMA MarkStep ==
  ASSUME IInv, NEW c \in Clients, Mark(c)
  PROVE  IInv'
<1> DEFINE w == work[c]
           row == [rows[w.name] EXCEPT !.status = w.status]
           v == With(w, [row |-> row])
<1>0. TypeOK /\ RowInv /\ WorkOf(c)
  BY DEF IInv, WorkInv
<1>1. /\ pc[c] = "mark" /\ UNCHANGED <<scene, checkouts, rows, reports, confirmed, behind>>
      /\ IF w.name \in DOMAIN rows THEN Go(c, "update", v)
         ELSE Finish(c, w, IF w.call = "webhook" THEN "error" ELSE "no row")
  BY DEF Mark, table, history, bounds
<1>2. Quiet /\ Grown /\ checkouts' \in Seq(Charges) /\ Len(checkouts') <= Len(CheckoutIds)
  BY <1>0, <1>1, SameCheckouts DEF Quiet
<1>3. /\ {"call", "name", "status", "due", "deleted"} \subseteq DOMAIN w
      /\ w.call \in {"poll", "refund", "webhook"} /\ (w.status \in Good => Settles(w.name))
      /\ w.status \notin Good => "early" \in DOMAIN w /\ w.early
      /\ w.call = "webhook" =>
           /\ {"status", "checkout", "amount", "currency"} \subseteq DOMAIN w
           /\ w.status = "success" /\ w.due /\ Paid(w.name) /\ Priced(w.name, w)
           /\ ~w.deleted => w.name \in DOMAIN rows
  BY <1>0, <1>1 DEF WorkOf, MarkingOf
<1>4. CASE w.name \in DOMAIN rows
  <2>1. /\ DOMAIN row = {"id", "amount", "currency", "status"} /\ row.status = w.status
        /\ row.id = rows[w.name].id /\ row.amount = rows[w.name].amount
        /\ row.currency = rows[w.name].currency
    BY <1>0, <1>4 DEF TypeOK
  <2>2. Priced(w.name, row)
    <3>1. Priced(w.name, rows[w.name])
      BY <1>0, <1>4 DEF RowInv
    <3> QED
      BY <2>1, <3>1 DEF Priced, Tells
  <2>3. /\ DOMAIN v = DOMAIN w \cup {"row"} /\ v.row = row
        /\ v.deleted = w.deleted \/ "deleted" = "row"
        /\ \A f \in DOMAIN w : f # "row" => v[f] = w[f]
    BY <1>3 DEF With
  <2>4. PICK name, r, u : name = w.name /\ r = row /\ u = w
    OBVIOUS
  <2>5. /\ Priced(name, r)' /\ (w.status \in Good => Settles(name)')
        /\ w.call = "webhook" => Paid(name)' /\ Priced(name, u)'
    BY <1>0, <1>2, <1>3, <2>2, <2>4, Persists
  <2>6. v.call = w.call /\ v.name = w.name /\ v.status = w.status /\ v.due = w.due
        /\ v.deleted = w.deleted
    BY <1>3, <2>3
  <2>7. /\ w.call = "webhook" => v.amount = w.amount /\ v.currency = w.currency
        /\ "early" \in DOMAIN w => v.early = w.early
    BY <1>3, <2>3
  <2> HIDE DEF row, v, w
  <2>8. ASSUME pc'[c] = "update", work'[c] = v
        PROVE  WorkOf(c)'
    <3>1. MarkingOf(work[c])'
      <4>1. w.status \in Good => Settles(work[c].name)'
        BY <2>4, <2>5, <2>6, <2>8 DEF Settles
      <4> QED
        BY <1>3, <2>3, <2>6, <2>7, <2>8, <4>1 DEF MarkingOf
    <3>2. Priced(work[c].name, work[c].row)'
      BY <2>3, <2>4, <2>5, <2>6, <2>8 DEF Priced, Tells
    <3>3. w.call = "webhook" => Paid(work[c].name)' /\ Priced(work[c].name, work[c])'
      <4>1. w.call = "webhook" => Paid(work[c].name)'
        BY <2>4, <2>5, <2>6, <2>8 DEF Paid
      <4>2. w.call = "webhook" => Priced(work[c].name, work[c])'
        BY <2>4, <2>5, <2>6, <2>7, <2>8 DEF Priced, Tells
      <4> QED
        BY <4>1, <4>2
    <3>4. v.call = "webhook" =>
            {"status", "checkout", "amount", "currency"} \subseteq DOMAIN v /\ v.status = "success"
            /\ v.due
      BY <1>3, <2>3, <2>6
    <3> QED
      BY <1>1, <1>4, <2>1, <2>3, <2>6, <2>8, <3>1, <3>2, <3>3, <3>4 DEF WorkOf
  <2>9. Go(c, "update", v)
    BY <1>1, <1>4
  <2> QED
    BY <1>2, <2>8, <2>9, Goes DEF Steps
<1>5. CASE w.name \notin DOMAIN rows
  <2>1. \E status : Finish(c, w, status)
    BY <1>1, <1>5
  <2>2. ~(w.call \in {"initiate", "webhook"} /\ ~w.deleted)
    BY <1>3, <1>5
  <2> HIDE DEF w
  <2> QED
    BY <1>2, <2>1, <2>2, Ends
<1> QED
  BY <1>4, <1>5

LEMMA UpdateStep ==
  ASSUME IInv, NEW c \in Clients, Update(c)
  PROVE  IInv'
<1> DEFINE w == work[c]
           there == w.name \in DOMAIN rows /\ rows[w.name].id = w.row.id
<1>0. /\ TypeOK /\ RowInv /\ ReportInv /\ WorkInv /\ WorkOf(c) /\ ConfirmedInv
      /\ RepeatsAreAccepted
  BY DEF IInv, WorkInv
<1>1. /\ pc[c] = "update" /\ UNCHANGED <<scene, checkouts, reports>>
      /\ Finish(c, w, IF there THEN "ok" ELSE "error")
      /\ ~there => UNCHANGED <<rows, confirmed, behind>>
      /\ there =>
           /\ rows' = [rows EXCEPT ![w.name] = w.row]
           /\ behind' = IF w.status \in {"success", "refunded"} THEN behind \ {w.name}
                        ELSE IF w.early /\ Paid(w.name) THEN behind \cup {w.name} ELSE behind
           /\ IF w.call = "webhook" THEN confirmed' = confirmed \cup {w.name}
              ELSE confirmed' = confirmed
  BY DEF Update, history, bounds
<1>2. Grown /\ checkouts' \in Seq(Charges) /\ Len(checkouts') <= Len(CheckoutIds)
  BY <1>0, <1>1, SameCheckouts
<1>3. /\ DOMAIN w.row = {"id", "amount", "currency", "status"} /\ w.row.status = w.status
      /\ Priced(w.name, w.row) /\ (IF w.status \in Good THEN Settles(w.name) ELSE w.early)
      /\ w.call = "webhook" => w.status = "success" /\ w.due = TRUE /\ Paid(w.name)
      /\ w.call # "initiate" /\ (~w.deleted => there)
  <2>1. MarkingOf(w)
    BY <1>0, <1>1 DEF WorkOf
  <2>2. w.call = "webhook" => w.status = "success" /\ w.due = TRUE /\ Paid(w.name)
    BY <1>0, <1>1 DEF WorkOf
  <2> QED
    BY <1>0, <1>1, <2>1, <2>2 DEF WorkOf, MarkingOf
<1> HIDE DEF w
<1>4. CASE ~there
  <2>1. Quiet /\ Finish(c, w, "error") /\ ~(w.call \in {"initiate", "webhook"} /\ ~w.deleted)
    BY <1>1, <1>3, <1>4 DEF Quiet
  <2> QED
    BY <1>2, <2>1, Ends
<1>5. CASE there
  <2>1. /\ DOMAIN rows' = DOMAIN rows /\ rows'[w.name] = w.row /\ w.name \in DOMAIN rows
        /\ \A name \in DOMAIN rows : name # w.name => rows'[name] = rows[name]
        /\ w.row.id = rows[w.name].id
    BY <1>1, <1>5
  <2>2. PICK n, r : n = w.name /\ r = w.row
    OBVIOUS
  <2>3. RowInv'
    <3>1. Priced(n, r)' /\ (r.status \in Good => Settles(n)')
      BY <1>0, <1>2, <1>3, <2>2, Persists
    <3>2. Priced(n, rows[n])' /\ (rows'[n].status \in Good => Settles(n)')
      BY <2>1, <2>2, <3>1 DEF Priced, Tells
    <3>3. \A name \in DOMAIN rows : name # n =>
            Priced(name, rows[name])' /\ (rows'[name].status \in Good => Settles(name)')
      BY <1>0, <1>2, <2>1, <2>2, RowStays
    <3> QED
      BY <2>1, <3>2, <3>3 DEF RowInv
  <2>4. ReportInv'
    <3>1. \A i \in DOMAIN checkouts : \A kind : Delivery(i, kind)' = Delivery(i, kind)
      BY <1>0, <1>2, Persists
    <3> QED
      BY <1>0, <1>1, <3>1 DEF ReportInv
  <2>5. ConfirmedInv'
    <3>1. \A name : Paid(name) => Paid(name)'
      BY <1>0, <1>2, Persists
    <3>2. ASSUME NEW name \in confirmed'
          PROVE  name \in DOMAIN rows' /\ Paid(name)
                   /\ (rows'[name].status \in Good \/ name \in behind')
      <4>1. CASE name = n
        <5>1. Paid(name)
          BY <1>0, <1>1, <1>3, <1>5, <2>2, <4>1 DEF ConfirmedInv
        <5>2. rows'[name].status = w.status
          BY <1>3, <2>1, <2>2, <4>1
        <5>3. w.status \in Good \/ name \in behind'
          BY <1>1, <1>3, <1>5, <2>2, <4>1, <5>1 DEF Good
        <5> QED
          BY <2>1, <2>2, <4>1, <5>1, <5>2, <5>3
      <4>2. CASE name # n
        <5>1. name \in confirmed /\ (name \in behind => name \in behind')
          BY <1>1, <1>5, <2>2, <4>2
        <5> QED
          BY <1>0, <2>1, <2>2, <4>2, <5>1 DEF ConfirmedInv
      <4> QED
        BY <4>1, <4>2
    <3> QED
      BY <3>1, <3>2 DEF ConfirmedInv
  <2>6. /\ \A name \in DOMAIN rows : name \in DOMAIN rows' /\ rows'[name].id = rows[name].id
        /\ \A name \in DOMAIN rows' : DOMAIN rows'[name] = {"id", "amount", "currency", "status"}
    BY <1>0, <1>3, <2>1 DEF TypeOK
  <2>7. Finish(c, w, "ok") /\ (w.call \in {"initiate", "webhook"} => ("ok" = "ok") = w.due)
    BY <1>1, <1>3, <1>5
  <2>8. pc' = [pc EXCEPT ![c] = "idle"] /\ work' = [work EXCEPT ![c] = NoWork]
    BY <2>7 DEF Finish
  <2>9. RepeatsAreAccepted'
    BY <2>7, Answers
  <2>10. pc'[c] = "idle" /\ work'[c] = NoWork => WorkOf(c)'
    BY Rests
  <2> QED
    BY <1>2, <2>3, <2>4, <2>5, <2>6, <2>8, <2>9, <2>10, ClientStep DEF Steps
<1> QED
  BY <1>4, <1>5

LEMMA CrashStep ==
  ASSUME IInv, NEW c \in Clients, Crash(c)
  PROVE  IInv'
<1>0. TypeOK /\ RowInv /\ ReportInv /\ ConfirmedInv /\ RepeatsAreAccepted
  BY DEF IInv
<1>1. /\ pc' = [pc EXCEPT ![c] = "idle"] /\ work' = [work EXCEPT ![c] = NoWork]
      /\ UNCHANGED <<scene, checkouts, rows, reports, confirmed, behind, answer>>
  BY DEF Crash, table, history
<1>2. Grown /\ checkouts' \in Seq(Charges) /\ Len(checkouts') <= Len(CheckoutIds)
  BY <1>0, <1>1, SameCheckouts
<1>3. RowInv' /\ ReportInv' /\ ConfirmedInv'
  BY <1>0, <1>1, <1>2, QuietTables
<1>4. RepeatsAreAccepted'
  BY <1>0, <1>1 DEF RepeatsAreAccepted
<1>5. pc'[c] = "idle" /\ work'[c] = NoWork => WorkOf(c)'
  BY Rests
<1>6. \A name \in DOMAIN rows : DOMAIN rows[name] = {"id", "amount", "currency", "status"}
  BY <1>0 DEF TypeOK
<1> QED
  BY <1>1, <1>2, <1>3, <1>4, <1>5, <1>6, ClientStep DEF Steps

LEMMA DeleteStep ==
  ASSUME IInv, NEW name \in Names, Delete(name)
  PROVE  IInv'
<1>0. /\ TypeOK /\ RowInv /\ ReportInv /\ WorkInv /\ ConfirmedInv /\ RepeatsAreAccepted
  BY DEF IInv
<1>1. /\ UNCHANGED <<scene, checkouts, reports, pc, answer>>
      /\ rows' = [n \in DOMAIN rows \ {name} |-> rows[n]]
      /\ work' = [c \in Clients |-> IF work[c] # NoWork /\ work[c].name = name
                                      THEN [work[c] EXCEPT !.deleted = TRUE] ELSE work[c]]
      /\ confirmed' = confirmed \ {name} /\ behind' = behind \ {name}
  BY DEF Delete
<1>2. Grown /\ checkouts' \in Seq(Charges) /\ Len(checkouts') <= Len(CheckoutIds)
  BY <1>0, <1>1, SameCheckouts
<1>3. /\ DOMAIN rows' = DOMAIN rows \ {name}
      /\ \A n \in DOMAIN rows' : n \in DOMAIN rows /\ n # name /\ rows'[n] = rows[n]
  BY <1>1
<1>4. TypeOK'
  <2>1. Charges' = Charges
    BY <1>0, <1>2, Persists
  <2> QED
    BY <1>0, <1>1, <1>2, <1>3, <2>1 DEF TypeOK
<1>5. RowInv'
  BY <1>0, <1>2, <1>3, RowStays DEF RowInv
<1>6. ReportInv'
  <2>1. \A i \in DOMAIN checkouts : \A kind : Delivery(i, kind)' = Delivery(i, kind)
    BY <1>0, <1>2, Persists
  <2> QED
    BY <1>0, <1>1, <2>1 DEF ReportInv
<1>7. ConfirmedInv'
  <2>1. \A n : Paid(n) => Paid(n)'
    BY <1>0, <1>2, Persists
  <2> QED
    BY <1>0, <1>1, <1>3, <2>1 DEF ConfirmedInv
<1>8. WorkInv'
  <2> SUFFICES ASSUME NEW o \in Clients PROVE WorkOf(o)'
    BY DEF WorkInv
  <2>1. CASE work[o] # NoWork /\ work[o].name = name
    <3>1. work'[o] = [work[o] EXCEPT !.deleted = TRUE]
      BY <1>1, <2>1
    <3>2. /\ DOMAIN work'[o] = DOMAIN work[o]
          /\ \A f \in DOMAIN work[o] : f # "deleted" => work'[o][f] = work[o][f]
          /\ "deleted" \in DOMAIN work[o] => work'[o].deleted
      BY <3>1
    <3>3. pc[o] # "idle"
      BY <1>0, <2>1 DEF WorkInv, WorkOf
    <3> QED
      BY <1>0, <1>1, <1>2, <3>2, <3>3, WorkStays
  <2>2. CASE ~(work[o] # NoWork /\ work[o].name = name)
    <3>1. work'[o] = work[o] /\ pc'[o] = pc[o]
      BY <1>1, <2>2
    <3>2. pc[o] = "idle" => work'[o] = NoWork
      BY <1>0, <3>1 DEF WorkInv, WorkOf
    <3>3. "deleted" \in DOMAIN work[o] => work[o].name # name
      BY <2>2 DEF NoWork
    <3>4. "deleted" \in DOMAIN work[o] /\ work[o].name \in DOMAIN rows =>
            work[o].name \in DOMAIN rows' /\ rows'[work[o].name].id = rows[work[o].name].id
      BY <1>3, <3>3
    <3> QED
      BY <1>0, <1>2, <3>1, <3>2, <3>4, WorkStays
  <2> QED
    BY <2>1, <2>2
<1>9. RepeatsAreAccepted'
  BY <1>0, <1>1 DEF RepeatsAreAccepted
<1> QED
  BY <1>4, <1>5, <1>6, <1>7, <1>8, <1>9 DEF IInv

LEMMA StutterStep ==
  ASSUME IInv, UNCHANGED vars
  PROVE  IInv'
<1>0. TypeOK /\ RowInv /\ ReportInv /\ WorkInv /\ ConfirmedInv /\ RepeatsAreAccepted
  BY DEF IInv
<1>1. UNCHANGED <<scene, checkouts, rows, reports, confirmed, behind, pc, work, answer>>
  BY DEF vars
<1>2. Grown /\ checkouts' \in Seq(Charges) /\ Len(checkouts') <= Len(CheckoutIds)
  BY <1>0, <1>1, SameCheckouts
<1>3. RowInv' /\ ReportInv' /\ ConfirmedInv'
  BY <1>0, <1>1, <1>2, QuietTables
<1>4. TypeOK'
  BY <1>0, <1>1, <1>2, Persists DEF TypeOK
<1>5. WorkInv'
  BY <1>0, <1>1, <1>2, OtherStays DEF WorkInv
<1>6. RepeatsAreAccepted'
  BY <1>0, <1>1 DEF RepeatsAreAccepted
<1> QED
  BY <1>3, <1>4, <1>5, <1>6 DEF IInv

LEMMA StepInv ==
  ASSUME IInv, [Next]_vars
  PROVE  IInv'
<1>1. ASSUME NEW c \in Clients, Proceed(c) PROVE IInv'
  <2>1. ASSUME NEW status \in {"refunded", "partially_refunded"}, NEW answered \in BOOLEAN,
               PostRefund(c, status, answered)
        PROVE  IInv'
    BY <2>1, PostRefundStep
  <2> QED
    BY <1>1, <2>1, FindStep, InsertStep, FindExistingStep, MarkStep, UpdateStep DEF Proceed
<1>2. ASSUME NEW c \in Clients, NEW i \in CheckoutNumbers,
             Poll(c, i) \/ ReadCharge(c, i) \/ Deliver(c, i)
      PROVE  IInv'
  BY <1>2, PollStep, ReadChargeStep, DeliverStep
<1>3. ASSUME NEW c \in Clients, NEW reference \in Orders, NEW answered \in BOOLEAN,
             Initiate(c, reference, answered)
      PROVE  IInv'
  BY <1>3, InitiateStep
<1>4. CASE UNCHANGED vars
  BY <1>4, StutterStep
<1>5. CASE Next
  BY <1>1, <1>2, <1>3, <1>5, CrashStep, SettleStep, DeleteStep DEF Next
<1> QED
  BY <1>4, <1>5

-----------------------------------------------------------------------------
(* For any clients, orders, checkouts and scenes: rows are priced by the   *)
(* charges of their names and say success or refunded only when one was    *)
(* paid, reports are what the provider knew, and every request carries     *)
(* what it may write; initiate, the webhook handlers, verify, refund and   *)
(* mark_transaction_status keep this in any interleaving, through crashes, *)
(* lost answers and deletions.                                             *)
THEOREM InductiveInvariant == Spec => []IInv
<1>1. Init => IInv
  BY InitInv
<1>2. IInv /\ [Next]_vars => IInv'
  BY StepInv
<1> QED
  BY <1>1, <1>2, PTL DEF Spec

(* handle_paystack_webhook, handle_bachs_webhook, mark_transaction_status: *)
(* a row says success or refunded only if its charge was paid, with the    *)
(* row's amount; and once a webhook was accepted it says so, unless what   *)
(* verify had answered is written afterwards.                              *)
THEOREM RowsFollow == Spec => []RowsFollowCharges
<1>1. IInv => RowsFollowCharges
  BY RowsTell
<1> QED
  BY <1>1, InductiveInvariant, PTL

(* record_charge_initiated and the webhook handlers: a charge that was     *)
(* started is recorded and a genuine report accepted, however many of them *)
(* meet, unless the row was deleted under them; nothing else is accepted.  *)
THEOREM RepeatsHold == Spec => []RepeatsAreAccepted
<1>1. IInv => RepeatsAreAccepted
  BY DEF IInv
<1> QED
  BY <1>1, InductiveInvariant, PTL

-----------------------------------------------------------------------------
(* Rows are written back whole.  A copy read before is of the row that is  *)
(* there, or of one with another id (CopyInv).                             *)

LEMMA CopyInit == Init => CopyInv
BY DEF Init, CopyInv, CopyOf

LEMMA CopyTypes ==
  ASSUME IInv
  PROVE  /\ pc \in [Clients -> Steps] /\ DOMAIN work = Clients
         /\ \A name \in DOMAIN rows : DOMAIN rows[name] = Kept \cup {"status"}
         /\ \A c \in Clients : pc[c] = "update" =>
              /\ DOMAIN work[c].row = Kept \cup {"status"}
              /\ {"row", "name"} \subseteq DOMAIN work[c]
<1>1. TypeOK /\ WorkInv
  BY DEF IInv
<1> QED
  BY <1>1 DEF TypeOK, WorkInv, WorkOf, MarkingOf, Kept

(* A step that leaves the table alone and begins no write back.            *)
LEMMA CopiesStay ==
  ASSUME CopyInv, UNCHANGED table,
         \A c \in Clients : pc'[c] = "update" =>
           pc[c] = "update" /\ work'[c].name = work[c].name /\ work'[c].row = work[c].row
  PROVE  CopyInv'
BY DEF CopyInv, CopyOf, table

LEMMA Aside ==
  ASSUME IInv, CopyInv, UNCHANGED table, NEW c \in Clients, NEW step, step # "update",
         pc' = [pc EXCEPT ![c] = step], NEW w, work' = [work EXCEPT ![c] = w]
  PROVE  CopyInv'
<1>1. \A o \in Clients : pc'[o] = "update" => pc[o] = "update" /\ work'[o] = work[o]
  BY CopyTypes
<1> QED
  BY <1>1, CopiesStay

LEMMA AsideGoes ==
  ASSUME IInv, CopyInv, UNCHANGED table, NEW c \in Clients, NEW w,
         \/ \E step \in Steps \ {"update"} : Go(c, step, w)
         \/ \E status : Finish(c, w, status)
  PROVE  CopyInv'
<1>1. CASE \E step \in Steps \ {"update"} : Go(c, step, w)
  BY <1>1, Aside DEF Go
<1>2. CASE \E status : Finish(c, w, status)
  BY <1>2, Aside DEF Finish
<1> QED
  BY <1>1, <1>2

LEMMA AsideSteps ==
  ASSUME IInv, CopyInv, NEW c \in Clients,
         \/ \E reference \in Orders, answered \in BOOLEAN : Initiate(c, reference, answered)
         \/ \E i \in CheckoutNumbers : Poll(c, i) \/ ReadCharge(c, i) \/ Deliver(c, i)
         \/ \E status \in {"refunded", "partially_refunded"}, answered \in BOOLEAN :
              PostRefund(c, status, answered)
         \/ Find(c) \/ FindExisting(c) \/ Crash(c)
  PROVE  CopyInv'
<1> USE DEF Steps
<1>1. ASSUME NEW reference \in Orders, NEW answered \in BOOLEAN, Initiate(c, reference, answered)
      PROVE  CopyInv'
  <2>1. /\ UNCHANGED table
        /\ \E w : \/ \E step \in Steps \ {"update"} : Go(c, step, w)
                  \/ \E status : Finish(c, w, status)
    BY <1>1 DEF Initiate
  <2> QED
    BY <2>1, AsideGoes
<1>2. ASSUME NEW i \in CheckoutNumbers, Poll(c, i) \/ ReadCharge(c, i) \/ Deliver(c, i)
      PROVE  CopyInv'
  <2>1. /\ UNCHANGED table
        /\ \E w : \/ \E step \in Steps \ {"update"} : Go(c, step, w)
                  \/ \E status : Finish(c, w, status)
    BY <1>2 DEF Poll, ReadCharge, Deliver
  <2> QED
    BY <2>1, AsideGoes
<1>3. ASSUME NEW status \in {"refunded", "partially_refunded"}, NEW answered \in BOOLEAN,
             PostRefund(c, status, answered)
      PROVE  CopyInv'
  <2>1. /\ UNCHANGED table
        /\ \E w : \/ \E step \in Steps \ {"update"} : Go(c, step, w)
                  \/ \E s : Finish(c, w, s)
    BY <1>3 DEF PostRefund
  <2> QED
    BY <2>1, AsideGoes
<1>4. CASE Find(c) \/ FindExisting(c)
  <2>1. /\ UNCHANGED table
        /\ \E w : \/ \E step \in Steps \ {"update"} : Go(c, step, w)
                  \/ \E s : Finish(c, w, s)
    BY <1>4 DEF Find, FindExisting, Recorded
  <2> QED
    BY <2>1, AsideGoes
<1>5. CASE Crash(c)
  BY <1>5, Aside DEF Crash
<1> QED
  BY <1>1, <1>2, <1>3, <1>4, <1>5

(* A row that is inserted has an id no copy has.                           *)
LEMMA InsertCopies ==
  ASSUME IInv, CopyInv, NEW c \in Clients, Insert(c)
  PROVE  CopyInv'
<1> DEFINE w == work[c]
           row == [id |-> lastid + 1, amount |-> w.amount, currency |-> w.currency,
                   status |-> "pending"]
<1>1. CASE w.name \in DOMAIN rows
  <2>1. /\ UNCHANGED table
        /\ \E u : \/ \E step \in Steps \ {"update"} : Go(c, step, u)
                  \/ \E s : Finish(c, u, s)
    BY <1>1 DEF Insert, Steps
  <2> QED
    BY <2>1, AsideGoes
<1>2. CASE w.name \notin DOMAIN rows
  <2>1. /\ lastid' = lastid + 1 /\ lastid \in Nat
        /\ rows' = With(rows, [n \in {w.name} |-> row]) /\ Recorded(c, w)
    BY <1>2 DEF Insert, CopyInv
  <2>2. /\ DOMAIN rows' = DOMAIN rows \cup {w.name} /\ rows'[w.name] = row
        /\ \A name \in DOMAIN rows : name # w.name /\ rows'[name] = rows[name]
    BY <1>2, <2>1 DEF With
  <2>3. row.id = lastid + 1
    OBVIOUS
  <2>4. \A o \in Clients : pc'[o] = "update" => pc[o] = "update" /\ work'[o] = work[o]
    BY <2>1, CopyTypes DEF Recorded, Go, Finish
  <2> HIDE DEF row, w
  <2>5. \A name \in DOMAIN rows' : rows'[name].id \in 1..lastid'
    BY <2>1, <2>2, <2>3 DEF CopyInv
  <2>6. ASSUME NEW o \in Clients, pc'[o] = "update"
        PROVE  /\ work[o].row.id \in 1..lastid'
               /\ work[o].name \in DOMAIN rows' /\ rows'[work[o].name].id = work[o].row.id =>
                    \A column \in Kept : rows'[work[o].name][column] = work[o].row[column]
    <3>1. /\ work[o].row.id \in 1..lastid
          /\ work[o].name \in DOMAIN rows /\ rows[work[o].name].id = work[o].row.id =>
               \A column \in Kept : rows[work[o].name][column] = work[o].row[column]
      BY <2>4, <2>6 DEF CopyInv, CopyOf
    <3>2. row.id # work[o].row.id
      BY <2>1, <2>3, <3>1
    <3> QED
      BY <2>1, <2>2, <3>1, <3>2
  <2> QED
    BY <2>1, <2>4, <2>5, <2>6 DEF CopyInv, CopyOf
<1> QED
  BY <1>1, <1>2

(* A copy that is taken is of the row that is there.                       *)
LEMMA MarkCopies ==
  ASSUME IInv, CopyInv, NEW c \in Clients, Mark(c)
  PROVE  CopyInv'
<1> DEFINE w == work[c]
           row == [rows[w.name] EXCEPT !.status = w.status]
           v == With(w, [row |-> row])
<1>0. UNCHANGED table
  BY DEF Mark
<1>1. CASE w.name \notin DOMAIN rows
  <2>1. \E s : Finish(c, w, s)
    BY <1>1 DEF Mark
  <2> QED
    BY <1>0, <2>1, AsideGoes
<1>2. CASE w.name \in DOMAIN rows
  <2>1. pc' = [pc EXCEPT ![c] = "update"] /\ work' = [work EXCEPT ![c] = v]
    BY <1>2 DEF Mark, Go
  <2>2. {"name", "status"} \subseteq DOMAIN w
    BY DEF IInv, WorkInv, WorkOf, MarkingOf, Mark
  <2>3. v.name = w.name /\ v.row = row
    BY <2>2 DEF With
  <2>4. \A column \in Kept : row[column] = rows[w.name][column]
    BY <1>2, CopyTypes DEF Kept
  <2> HIDE DEF row, v, w
  <2>5. rows' = rows /\ lastid' = lastid
    BY <1>0 DEF table
  <2>6. row.id \in 1..lastid
    BY <1>2, <2>4 DEF CopyInv, Kept
  <2>7. work'[c] = v /\ CopyOf(c)'
    BY <2>1, <2>3, <2>4, <2>5, <2>6, CopyTypes DEF CopyOf
  <2>8. ASSUME NEW o \in Clients \ {c} PROVE CopyOf(o)'
    BY <2>1, <2>5, CopyTypes DEF CopyInv, CopyOf
  <2> QED
    BY <2>5, <2>7, <2>8 DEF CopyInv
<1> QED
  BY <1>1, <1>2

(* A write back keeps what other copies are right about.                   *)
LEMMA UpdateCopies ==
  ASSUME IInv, CopyInv, NEW c \in Clients, Update(c)
  PROVE  CopyInv' /\ \A name \in DOMAIN rows, column \in Kept :
                       name \in DOMAIN rows' /\ rows'[name][column] = rows[name][column]
<1> DEFINE w == work[c]
           there == w.name \in DOMAIN rows /\ rows[w.name].id = w.row.id
<1>1. /\ pc[c] = "update" /\ lastid' = lastid
      /\ Finish(c, w, IF there THEN "ok" ELSE "error")
      /\ rows' = IF there THEN [rows EXCEPT ![w.name] = w.row] ELSE rows
  BY DEF Update
<1>2. DOMAIN rows' = DOMAIN rows
  BY <1>1
<1>3. ASSUME NEW name \in DOMAIN rows, NEW column \in Kept
      PROVE  rows'[name][column] = rows[name][column]
  <2>1. CASE there /\ name = w.name
    BY <1>1, <2>1 DEF CopyInv, CopyOf
  <2>2. CASE ~(there /\ name = w.name)
    BY <1>1, <2>2
  <2> QED
    BY <2>1, <2>2
<1>4. \A o \in Clients : pc'[o] = "update" => pc[o] = "update" /\ work'[o] = work[o]
  BY <1>1, CopyTypes DEF Finish
<1>5. \A name \in DOMAIN rows : rows'[name].id = rows[name].id
  BY <1>3 DEF Kept
<1> HIDE DEF w, there
<1>6. ASSUME NEW o \in Clients PROVE CopyOf(o)'
  BY <1>1, <1>2, <1>3, <1>4, <1>5 DEF CopyInv, CopyOf
<1>7. CopyInv'
  BY <1>1, <1>2, <1>5, <1>6 DEF CopyInv
<1> QED
  BY <1>2, <1>3, <1>7

LEMMA DeleteCopies ==
  ASSUME IInv, CopyInv, NEW name \in Names, Delete(name)
  PROVE  CopyInv'
<1>1. /\ pc' = pc /\ lastid' = lastid /\ rows' = [n \in DOMAIN rows \ {name} |-> rows[n]]
      /\ work' = [c \in Clients |-> IF work[c] # NoWork /\ work[c].name = name
                                      THEN [work[c] EXCEPT !.deleted = TRUE] ELSE work[c]]
  BY DEF Delete
<1>2. ASSUME NEW c \in Clients, pc[c] = "update"
      PROVE  work'[c].name = work[c].name /\ work'[c].row = work[c].row
  BY <1>1, <1>2, CopyTypes
<1>3. ASSUME NEW c \in Clients PROVE CopyOf(c)'
  BY <1>1, <1>2 DEF CopyInv, CopyOf
<1> QED
  BY <1>1, <1>3 DEF CopyInv

LEMMA CopyStep ==
  ASSUME IInv, CopyInv, [Next]_vars
  PROVE  CopyInv' /\ \A name \in DOMAIN rows \cap DOMAIN rows', column \in Kept :
                       rows'[name][column] = rows[name][column]
<1> DEFINE Stays(r) == \A name \in DOMAIN rows \cap DOMAIN r, column \in Kept :
                        r[name][column] = rows[name][column]
<1>1. CASE UNCHANGED vars \/ \E i \in CheckoutNumbers, kind \in {"paid", "failed"} : Settle(i, kind)
  <2>1. UNCHANGED table /\ pc' = pc /\ work' = work
    BY <1>1 DEF vars, Settle, table
  <2> QED
    BY <2>1, CopiesStay DEF table
<1>2. ASSUME NEW c \in Clients, Insert(c) PROVE CopyInv' /\ Stays(rows')
  <2>1. \A name \in DOMAIN rows : rows'[name] = rows[name]
    BY <1>2 DEF Insert, With, table
  <2> QED
    BY <1>2, <2>1, InsertCopies
<1>3. ASSUME NEW c \in Clients, Mark(c) PROVE CopyInv' /\ Stays(rows')
  BY <1>3, MarkCopies DEF Mark, table
<1>4. ASSUME NEW c \in Clients, Update(c) PROVE CopyInv' /\ Stays(rows')
  BY <1>4, UpdateCopies
<1>5. ASSUME NEW name \in Names, Delete(name) PROVE CopyInv' /\ Stays(rows')
  BY <1>5, DeleteCopies DEF Delete
<1>6. ASSUME NEW c \in Clients,
             \/ \E reference \in Orders, answered \in BOOLEAN : Initiate(c, reference, answered)
             \/ \E i \in CheckoutNumbers : Poll(c, i) \/ ReadCharge(c, i) \/ Deliver(c, i)
             \/ \E status \in {"refunded", "partially_refunded"}, answered \in BOOLEAN :
                  PostRefund(c, status, answered)
             \/ Find(c) \/ FindExisting(c) \/ Crash(c)
      PROVE  CopyInv' /\ Stays(rows')
  <2>1. rows' = rows
    BY <1>6 DEF Initiate, Poll, ReadCharge, Deliver, PostRefund, Find, FindExisting, Crash, table
  <2>2. CopyInv'
    BY <1>6, AsideSteps
  <2> QED
    BY <2>1, <2>2
<1> QED
  BY <1>1, <1>2, <1>3, <1>4, <1>5, <1>6 DEF Next, Proceed

(* mark_transaction_status, whole-row write backs by id: a row's amount,   *)
(* currency and id are those it was inserted with, for any clients and any *)
(* interleaving of write backs, deletions and new rows of the reference.   *)
THEOREM WriteBacksKeep == Spec => OnlyStatusChanges
<1>1. Init => CopyInv
  BY CopyInit
<1>2. IInv /\ CopyInv /\ [Next]_vars => CopyInv'
  BY CopyStep
<1>3. Spec => []CopyInv
  BY <1>1, <1>2, InductiveInvariant, PTL DEF Spec
<1>4. IInv /\ CopyInv /\ [Next]_vars =>
        [\A name \in DOMAIN rows \cap DOMAIN rows', column \in Kept :
           rows'[name][column] = rows[name][column]]_vars
  BY CopyStep
<1> QED
  BY <1>3, <1>4, InductiveInvariant, PTL DEF Spec, OnlyStatusChanges

=============================================================================
