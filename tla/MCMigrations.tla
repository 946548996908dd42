---------------------------- MODULE MCMigrations ----------------------------
(* Instances of Migrations for TLC.                                        *)
EXTENDS Migrations

CONSTANTS dev, deploy

F(name, kind, len) ==
  [name |-> name, kind |-> kind, len |-> len, auto |-> FALSE, null |-> FALSE, pk |-> FALSE,
   unique |-> FALSE, choices |-> {}]
Id(kind) == [F("id", kind, 0) EXCEPT !.auto = TRUE, !.pk = TRUE]
Rel(name, target, kind, delete) ==
  [name |-> name, target |-> target, kind |-> kind, delete |-> delete]
Model(name, fields, relations, indexes) ==
  [name |-> name, table |-> <<name>>, fields |-> fields, relations |-> relations,
   indexes |-> indexes]

Status == [F("status", "char", 10) EXCEPT !.choices = {"open", "done"}]
Maybe == [F("maybe", "decimal", 5) EXCEPT !.null = TRUE]
Must == F("must", "bool", 0)
Name == [F("name", "char", 10) EXCEPT !.unique = TRUE]

Author(fields) == Model("author", <<Id("bigint")>> \o fields, <<>>, <<>>)
Book(fields) ==
  Model("book", <<Id("int")>> \o fields, <<Rel("author", "author", "foreign_key", "cascade")>>,
        <<[name |-> "by_author", fields |-> {"author"}], [name |-> "none", fields |-> {}]>>)
Club == Model("club", <<Id("int")>>, <<Rel("members", "guest", "many_to_many", "cascade")>>, <<>>)
Guest == Model("guest", <<Id("bigint"), Name>>, <<Rel("host", "guest", "one_to_one", "set_null")>>, <<>>)
Chapter == Model("chapter", <<Id("int")>>, <<Rel("book", "book", "foreign_key", "protect")>>, <<>>)
Hen == Model("hen", <<Id("int")>>, <<Rel("egg", "egg", "foreign_key", "nothing")>>, <<>>)
Egg == Model("egg", <<Id("int")>>, <<Rel("hen", "hen", "foreign_key", "cascade")>>, <<>>)
Member == Model("member", <<Id("bigint"), Name>>, <<>>, <<>>)
Badge == Model("badge", <<[F("id", "uuid", 0) EXCEPT !.pk = TRUE]>>, <<>>, <<>>)
Team(joins) ==
  Model("team", <<Id("int")>>, [i \in DOMAIN joins |-> Rel(joins[i] \o "s", joins[i], "many_to_many", "cascade")],
        <<>>)
Library == <<Book(<<>>), Author(<<Status>>)>>

Hand(up, down, nodown) == [up |-> up, down |-> down, nodown |-> nodown]
Tag == <<"tag">>
Made == CreateTable(Tag, FieldColumns(Author(<<Name>>), "postgres"))
HandFiles ==
  <<Hand(<<Made>>, <<DropTable(Tag)>>, FALSE),
    Hand(<<RenameColumn(Tag, "name", "label")>>, <<RenameColumn(Tag, "label", "name")>>, FALSE)>>

Scene(dialect, versions, tools, fill, bounds) ==
  [dialect |-> dialect, versions |-> versions, files |-> <<>>, dir |-> FALSE, fill |-> fill,
   tools |-> [c \in Clients |-> IF c = dev THEN tools[1] ELSE tools[2]],
   commands |-> bounds[1], crashes |-> bounds[2]]

Grow == <<Library, <<Book(<<Maybe>>), Author(<<Status, Maybe>>), Club, Guest>>>>

MCScenes ==
  {Scene("postgres", Grow, <<{"make", "migrate", "sql"}, {"migrate"}>>, {}, <<5, 1>>),
   Scene("sqlite", Grow, <<{"make", "migrate"}, {"rollback"}>>, {<<"author">>}, <<6, 0>>),
   Scene("postgres", <<Library, <<Book(<<>>), Author(<<Status, Must>>)>>>>,
         <<{"make", "migrate"}, {"migrate"}>>, {<<"author">>}, <<5, 0>>),
   Scene("postgres", <<Library, Library \o <<Chapter>>>>, <<{"make", "migrate"}, {"plan"}>>, {}, <<5, 0>>),
   Scene("postgres", <<Library>>, <<{"migrate", "fake"}, {"boot", "plan"}>>, {}, <<4, 1>>),
   Scene("postgres", <<<<Hen, Egg>>>>, <<{"migrate", "make"}, {"boot"}>>, {}, <<4, 0>>),
   Scene("sqlite", <<<<Hen, Egg>>>>, <<{"migrate"}, {"boot"}>>, {}, <<3, 0>>),
   Scene("postgres", <<<<Team(<<"member", "badge">>), Member, Badge>>>>,
         <<{"boot", "make"}, {"migrate"}>>, {}, <<4, 1>>),
   Scene("sqlite", <<<<Team(<<"badge">>), Badge>>, <<Team(<<"badge">>), Badge, Member>>>>,
         <<{"boot", "make"}, {"boot", "migrate", "rollback"}>>, {}, <<4, 0>>),
   Scene("sqlite", <<<<Team(<<"member">>), Member>>>>, <<{"boot"}, {"migrate"}>>, {}, <<3, 0>>),
   [Scene("postgres", <<Library>>, <<{"rollback", "fake", "migrate"}, {"migrate", "rollback", "show"}>>,
          {<<"tag">>}, <<6, 1>>) EXCEPT !.files = HandFiles],
   [Scene("sqlite", <<Library>>, <<{"rollback", "migrate"}, {"sql"}>>, {}, <<4, 0>>)
      EXCEPT !.files = HandFiles @@ (3 :> Hand(<<DropColumn(Tag, "label")>>, <<>>, TRUE))],
   [Scene("postgres", <<Library>>, <<{"migrate", "rollback", "fake"}, {}>>, {}, <<2, 0>>) EXCEPT !.dir = TRUE],
   Scene("postgres", <<Library, <<Author(<<[Status EXCEPT !.len = 20], Must>>), Guest>>,
                       <<Author(<<Name>>), Guest>>>>, <<{"detect"}, {}>>, {}, <<1, 0>>),
   Scene("sqlite", <<Library, <<Author(<<Maybe>>), Guest>>, <<Author(<<[Maybe EXCEPT !.len = 6]>>)>>>>,
         <<{"detect"}, {}>>, {}, <<1, 0>>)}

=============================================================================
