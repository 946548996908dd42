----------------------------- MODULE MCPayments -----------------------------
(* Instances of Payments for TLC.                                          *)
EXTENDS Payments, TLC

Order(amount, currency) == [amount |-> amount, currency |-> currency]
MCCheckoutIds == <<"co1", "co2">>
All == {"initiate", "poll", "refund"}

Scene(provider, database, orders, calls, bounds0) ==
  [provider |-> provider, database |-> database, orders |-> orders, calls |-> calls,
   detail |-> "charge", echoes |-> TRUE, trims |-> FALSE, secret |-> "live", timed |-> TRUE,
   complete |-> TRUE, foreign |-> <<>>, requests |-> bounds0[1], crashes |-> bounds0[2],
   deletions |-> bounds0[3], repeats |-> bounds0[4]]

Elsewhere(reference, whole, fraction, currency) ==
  [reference |-> reference, currency |-> currency, status |-> "open",
   amount |-> [negative |-> FALSE, whole |-> whole, digits |-> 2, fraction |-> fraction]]

Minor(reference, amount) ==
  [reference |-> reference, currency |-> "NGN", status |-> "open", amount |-> amount]

Naira == "r1" :> Order(550, "NGN")
Dinar == "r1" :> Order(5050, "KWD")
Yen == "r1" :> Order(55, "JPY")

MCScenes ==
  {Scene("paystack", "postgres", Naira, All, <<3, 1, 1, 1>>),
   Scene("paystack", "sqlite", Naira @@ ("r2" :> Order(1, "NGN")), {"initiate", "poll"}, <<3, 0, 0, 1>>),
   [Scene("paystack", "sqlite", Naira, {"initiate"}, <<1, 0, 0, 0>>) EXCEPT !.secret = "sandbox"],
   [Scene("bachs", "sqlite", Naira, All, <<3, 1, 0, 1>>) EXCEPT !.trims = TRUE],
   [Scene("bachs", "postgres", Dinar, {"initiate", "poll"}, <<2, 1, 1, 1>>)
      EXCEPT !.trims = TRUE, !.detail = "payment"],
   [Scene("bachs", "postgres", Yen, All, <<2, 1, 1, 1>>) EXCEPT !.detail = "checkout"],
   [Scene("bachs", "sqlite", Naira, {"initiate", "poll"}, <<2, 0, 0, 1>>) EXCEPT !.echoes = FALSE],
   [Scene("bachs", "sqlite", Naira, {"initiate", "poll"}, <<2, 0, 0, 0>>) EXCEPT !.complete = FALSE],
   [Scene("bachs", "sqlite", Naira, {"initiate"}, <<1, 0, 0, 0>>) EXCEPT !.timed = FALSE],
   [Scene("bachs", "postgres", Naira, {"poll"}, <<1, 1, 0, 0>>)
      EXCEPT !.foreign = <<Elsewhere("x1", 99999, 99, "NGN"), Elsewhere("x2", 999, 99, "USD")>>],
   [Scene("paystack", "postgres", Naira, {"poll"}, <<1, 1, 0, 0>>)
      EXCEPT !.foreign = <<Minor("x1", 100000), Minor("x2", 99999)>>]}

=============================================================================
