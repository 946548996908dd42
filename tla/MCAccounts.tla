----------------------------- MODULE MCAccounts -----------------------------
(* Instances of Accounts for TLC.                                          *)
EXTENDS Accounts, TLC

CONSTANTS t1, t2, t3

User(name, hash, active) == [name |-> name, email |-> name, hash |-> hash, active |-> active]
Ann == User("ann", HashPassword("old"), TRUE)
Bob == User("bob", HashPassword("bobs"), TRUE)

Post(call) == [call |-> call, method |-> "POST", via |-> "form"]
SignIn(name, password) == Post("login") @@ [name |-> name, password |-> password]
Page(header) == [call |-> "visit", method |-> "GET", via |-> "none", header |-> header]
Ask(email) == Post("request") @@ [email |-> email]
Confirm(password) == Post("confirm") @@ [password |-> password]
On(call) == Post(call) @@ [user |-> "u1", perm |-> <<"doc", "change">>, object |-> 7]
Elsewhere == [On("check") EXCEPT !.object = 8]

Own == (t1 :> "a") @@ (t2 :> "b") @@ (t3 :> "c")
One == [t \in Tabs |-> "a"]

Scene(browser, calls, users0, bounds) ==
  [browser |-> browser, calls |-> (t1 :> calls[1]) @@ (t2 :> calls[2]) @@ (t3 :> calls[3]),
   csrf |-> FALSE, users |-> users0,
   tables |-> [direct |-> {}, member |-> {}, group |-> {}], models |-> {}, tokens |-> <<>>,
   attempts |-> 0, duration |-> 2, throttle |-> 0, window |-> 2, age |-> 3, ttl |-> 2,
   staff |-> {}, requests |-> bounds[1], clock |-> bounds[2], restarts |-> bounds[3]]

Tries == {SignIn("ann", "old"), SignIn("ann", "bad")}
NoOne == SignIn("nobody", "old")
AnnOnly == ("u1" :> Ann)

MCScenes ==
  {[Scene(Own, <<Tries, Tries, {}>>, AnnOnly, <<5, 2, 0>>) EXCEPT !.attempts = 2, !.age = 0],
   [Scene(Own, <<Tries, {}, {}>>, AnnOnly, <<6, 4, 1>>) EXCEPT !.attempts = 3, !.throttle = 2, !.age = 0],
   [Scene(Own, <<Tries, {SignIn("ann", "bad"), NoOne}, {}>>, AnnOnly, <<4, 2, 1>>) EXCEPT !.attempts = 1, !.age = 0],
   [Scene(One, <<{SignIn("ann", "old"), Post("logout"), Page(NoHeader)},
                 {Post("note"), Post("forget"), Page(NoHeader)}, {}>>, AnnOnly, <<4, 2, 1>>)
      EXCEPT !.age = 2, !.staff = {"delete"}],
   Scene(One, <<{SignIn("ann", "old"), SignIn("bob", "bobs")}, {Page(NoHeader), Post("logout")}, {}>>,
         AnnOnly @@ ("u2" :> Bob), <<5, 0, 0>>),
   [Scene(One, <<{Page(NoHeader), Post("note")}, {Page(NoHeader), [Post("note") EXCEPT !.via = "header"]},
                 {[Post("note") EXCEPT !.via = "json"]}>>, AnnOnly, <<5, 0, 0>>) EXCEPT !.csrf = TRUE],
   [Scene(Own, <<{Ask("ann"), Confirm("new"), SignIn("ann", "old")}, {SignIn("ann", "new")}, {}>>,
          AnnOnly, <<4, 1, 0>>) EXCEPT !.staff = {"edit"}, !.ttl = 1],
   [Scene(Own, <<{SignIn("ann", "old"), SignIn("bob", "bobs"), SignIn("eve", "old"), NoOne, Ask("ann")},
                 {Page(TokenHeader("k1")), Page(TokenHeader("k2")), Page(EncodeJwt("u2", 1, 3))}, {}>>,
          AnnOnly @@ ("u2" :> Bob) @@ ("u3" :> [Ann EXCEPT !.email = "ann2"])
            @@ ("u4" :> User("eve", [scheme |-> "broken", password |-> None], TRUE))
            @@ ("u5" :> [Bob EXCEPT !.name = "out", !.active = FALSE]),
          <<3, 2, 1>>) EXCEPT !.tokens = ("k1" :> "u5") @@ ("k2" :> "u1")],
   [Scene(Own, <<{On("grant"), On("check")}, {On("grant"), Elsewhere}, {On("revoke")}>>, AnnOnly, <<6, 0, 0>>)
      EXCEPT !.models = {"doc"}],
   [Scene(Own, <<{On("check")}, {On("revoke")}, {On("grant")}>>, AnnOnly, <<3, 0, 0>>)
      EXCEPT !.models = {"doc"},
             !.tables = [direct |-> {}, member |-> {<<"u1", "editors">>},
                         group |-> {<<"editors", <<"doc", "change">>>>}]]}

=============================================================================
