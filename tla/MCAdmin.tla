------------------------------- MODULE MCAdmin -------------------------------
(* Instances of Admin for TLC.                                             *)
EXTENDS Admin, TLC

CONSTANTS boss, clerk

MCNoDate == Null
MCMonthDays == <<31, 28, 31, 30, 31, 30, 31, 31, 30, 31, 30, 31>>
MCKind == [note |-> "text", count |-> "int", flag |-> "bool", due |-> "datetime",
           seen |-> "int", vip |-> "bool", team |-> "relation", owner |-> "relation"]
MCAccess ==
  (boss :> [staff |-> TRUE, superuser |-> TRUE, perms |-> {}, tenant |-> NoTenant]) @@
  (clerk :> [staff |-> TRUE, superuser |-> FALSE, perms |-> {"view", "change", "add", "delete"},
             tenant |-> 1])

D(y, m, d) == <<y, m, d, 0>>
R(note, count, flag, due, team) ==
  [note |-> note, count |-> count, flag |-> flag, due |-> due, seen |-> 3, vip |-> FALSE,
   team |-> team, owner |-> 1]

(* The first due date has a fraction of a second.  The rows of team 1 have *)
(* counts of their own, those of both teams do not.                        *)
Two == (1 :> R(Null, 0, TRUE, <<1, 1, 31, 5>>, 1)) @@ (2 :> R(7, 0, FALSE, D(1, 12, 1), 2))
Dated == (1 :> R(7, 2, TRUE, <<1, 1, 31, 5>>, 1)) @@ (2 :> R(8, 0, FALSE, D(1, 12, 31), 1))
           @@ (3 :> R(7, 1, FALSE, D(2, 2, 28), 1)) @@ (4 :> R(7, 1, FALSE, Null, 2))
           @@ (5 :> R(8, 3, TRUE, D(1, 12, 1), 1))

Scene(name, calls, table, edits, program, bounds) ==
  [name |-> name, calls |-> calls, rows |-> table, edits |-> edits, program |-> program,
   bounds |-> bounds, staff |-> Staff, children |-> <<>>, scoped |-> TRUE, postgres |-> TRUE, logged |-> TRUE,
   selections |-> IF calls \subseteq {"save", "bulk", "action"} THEN {<<>>, <<1>>, <<2, 1>>} ELSE {},
   views |-> IF name = "list" THEN {NoView, [NoView EXCEPT !.month = 2], [NoView EXCEPT !.page = 0],
                                    [NoView EXCEPT !.year = 1, !.month = 2, !.day = 30],
                                    [NoView EXCEPT !.filters = [flag |-> Bad]]}
             ELSE {},
   terms |-> {7}, pages |-> 3]

MCScenes ==
  {Scene("edit", {"change"}, Two, {<<>>, [count |-> 5, flag |-> FALSE], [count |-> Bad]},
         {"bump"}, <<2, 2, 1>>),
   [Scene("edit", {"change"}, Two, {[team |-> 2], [due |-> D(1, 1, 1)], [owner |-> Empty]}, {"drop"}, <<2, 2, 0>>)
      EXCEPT !.scoped = FALSE],
   Scene("save", {"save"}, Two, {[count |-> 5], [note |-> Empty], [count |-> Bad], [flag |-> TRUE]},
         {"bump"}, <<3, 2, 1>>),
   Scene("delete", {"delete"}, Two, {}, {"drop", "refer"}, <<2, 2, 1>>),
   Scene("bulk", {"bulk", "action"}, Two, {}, {"refer"}, <<3, 2, 0>>),
   [Scene("bulk", {"bulk"}, Two, {}, {"drop"}, <<2, 1, 1>>) EXCEPT !.logged = FALSE],
   [Scene("list", {"browse"}, Dated, {}, {"drop"}, <<1, 0, 0>>) EXCEPT !.staff = {boss}],
   [Scene("list", {"browse"}, Dated, {}, {"drop"}, <<1, 0, 0>>) EXCEPT !.staff = {clerk}],
   [Scene("list", {"browse"}, Two, {}, {}, <<0, 0, 0>>) EXCEPT !.staff = {boss}, !.postgres = FALSE],
   Scene("add", {"add"}, Two, {[note |-> 9, count |-> 5, owner |-> 1], [note |-> 9], [count |-> 5]}, {}, <<1, 2, 1>>),
   [Scene("add", {"add"}, Two, {[count |-> 5, team |-> 2, owner |-> 1]}, {}, <<1, 1, 0>>) EXCEPT !.postgres = FALSE]}

=============================================================================
