------------------------------ MODULE MCRestApi ------------------------------
(* RestApi on small instances. *)
EXTENDS RestApi, TLC

CONSTANTS ann, bob

MCColumns == {"flag", "owner", "note", "rank"}
MCBooleans == {"flag"}
MCRelations == {"owner"}
MCNullable == {"note", "owner", "rank"}
MCFlagRank == [f \in {"false", "true"} |-> IF f = "true" THEN 1 ELSE 0]

RowOf(flag, owner, note, rank) ==
  [flag |-> flag, owner |-> owner, note |-> note, rank |-> rank]
BodyOf(supplied, nulls, malformed, row) ==
  [supplied |-> supplied, nulls |-> nulls, malformed |-> malformed, row |-> row,
   breaksRule |-> FALSE]

Blank == RowOf("false", ann, "a", 0)

MCInitialRows ==
  [plain |-> {[p \in Pks |-> IF p = 1 THEN first ELSE Gone] : first \in {Blank, Gone}},
   scoped |-> {[p \in Pks |-> IF p = 1 THEN Blank ELSE Gone]},
   feed |-> {[p \in Pks |-> IF p = 4 THEN Gone
                 ELSE RowOf(IF p = 2 THEN "false" ELSE "true", ann, "a", r[p])] :
               r \in [1..3 -> 0..1]
                     \cup {<<2, 1, 0>>, <<0, 2, 1>>, <<NullValue, 1, 0>>, <<0, NullValue, NullValue>>}}]

PlainBodies ==
  {BodyOf({"flag"}, {}, {}, RowOf("true", ann, "a", 0)),
   BodyOf({"note", "owner", "rank"}, {}, {}, RowOf("true", bob, "b", 2))}

ScopedBodies ==
  {BodyOf({"flag", "owner", "rank"}, {}, {}, RowOf("true", ann, "a", 0)),
   BodyOf({"owner", "rank"}, {}, {}, RowOf("true", bob, "a", 0)),
   BodyOf({"flag", "rank"}, {}, {"rank"}, RowOf("true", ann, "a", 0))}

FeedBodies ==
  {BodyOf(MCColumns, {}, {}, RowOf("false", ann, "a", 1)),
   BodyOf({"rank"}, {}, {}, RowOf("false", ann, "a", 2)),
   BodyOf({"rank"}, {"rank"}, {}, RowOf("false", ann, "a", 2))}

MCBodies == [plain |-> PlainBodies, scoped |-> ScopedBodies, feed |-> FeedBodies]
MCFieldSets ==
  [plain |-> [AllFields EXCEPT !.readOnly = {"note"}],
   scoped |-> AllFields, feed |-> AllFields]

Walk(mode, asked, descending, byFlag, filters, nullsLow) ==
  [user |-> ann, mode |-> mode, asked |-> asked, descending |-> descending, byFlag |-> byFlag,
   filters |-> filters, nullsLow |-> nullsLow]
Param(field, lookup, raw, values) ==
  [field |-> field, lookup |-> lookup, raw |-> raw, values |-> values, fields |-> {field}]

(* One parameter that narrows, one that does not parse, an empty search.   *)
Narrowed == {Param("flag", "eq", "true", {"true"}), Param("flag", "ne", "maybe", {}),
             Param("note", "search", "", {})}
Ranged == {Param("rank", "gte", "1", {1}), Param("note", "isnull", "0", {}),
           Param("note", "search", "a", {"a"}), Param("rank", "in", "1,2", {1, 2})}

FeedWalks ==
  {Walk("cursor", 0, descending, FALSE, {}, nullsLow) : descending, nullsLow \in BOOLEAN}
  \cup {Walk("cursor", 1, FALSE, TRUE, {}, FALSE), Walk("cursor", 0, FALSE, FALSE, Ranged, TRUE),
        Walk("page", 0, FALSE, FALSE, {}, TRUE), Walk("offset", 1, TRUE, FALSE, Narrowed, FALSE)}

MCWalks == [plain |-> {}, scoped |-> {Walk("cursor", 1, FALSE, FALSE, {}, TRUE)}, feed |-> FeedWalks]

MCCallers == [plain |-> {ann}, scoped |-> {ann, bob}, feed |-> {ann}]
MCMaxRequests == [plain |-> 3, scoped |-> 2, feed |-> 1]
MCMaxFaults == [plain |-> 0, scoped |-> 1, feed |-> 0]
MCKeys == [plain |-> {1}, scoped |-> 1..2, feed |-> 1..4]
MCUsers == {ann, bob}
MCEndpoints == {"plain", "scoped", "feed"}
MCPks == 1..4

(* The connections are alike: every property here is one of safety.        *)
MCSymmetry == Permutations(Clients)

=============================================================================
