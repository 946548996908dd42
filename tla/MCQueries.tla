------------------------------ MODULE MCQueries ------------------------------
(* Instances of Queries for TLC.                                           *)
EXTENDS Queries

MCFields == [author |-> {"id", "title", "price"}, book |-> {"id", "author", "title", "price"},
             link |-> {"id", "book", "author"}]
MCLookups == {"eq", "ne", "lt", "gte", "in", "isnull", "icontains"}
(* Titles 1 and 2 contain the term 1, title 2 the term 2.                  *)
MCContaining == <<{1, 2}, {2}>>
MCMaxWrites == [query |-> 1, relate |-> 2, create |-> 4, modify |-> 4]
MCTag == [c \in Clients |-> 5]

T(base, suffix, value) == [base |-> base, suffix |-> suffix, value |-> value]
Price(suffix, v) == Q(<<T("price", suffix, <<v>>)>>)

BooksOfAuthor == QOuter("author", "eq", "id")
LinksOfBook == QOuter("book", "eq", "id")

Common == {
  Q(<<T("price", "none", <<1>>), T("title", "ne", <<2>>)>>),
  Q(<<T("price", "in", <<>>)>>),
  Both(Price("gte", 1), Either(Q(<<T("price", "in", <<0, 2>>)>>), Negate(Price("lt", 2)))),
  Either(Price("eq", 0), Either(Price("eq", 2), Q(<<T("title", "eq", <<Null>>)>>))),
  QF("price", "lt", "title"),
  Q(<<T("price", "isnull", <<0>>)>>)}
BookFilters == Common \cup {
  Q(<<T("author", "isnull", <<1>>)>>),
  Q(<<T("colour", "none", <<1>>)>>),
  Q(<<T("price", "near", <<1>>)>>),
  QOuter("author", "eq", "id"),
  ExistsQ(FALSE, "link", <<LinksOfBook, Q(<<T("author", "gte", <<2>>)>>)>>),
  ExistsQ(FALSE, "book", <<QOuter("price", "gt", "price")>>)}
AuthorFilters == Common \cup {
  ExistsQ(TRUE, "book", <<BooksOfAuthor, Price("in", 2)>>),
  ExistsQ(FALSE, "book", <<Negate(BooksOfAuthor), ExistsQ(FALSE, "link", <<>>)>>),
  ExistsQ(FALSE, "book", <<BooksOfAuthor, ExistsQ(FALSE, "link", <<LinksOfBook>>)>>)}

MCWindows == {
  [order |-> "price", descending |-> TRUE, limit |-> 1, offset |-> 0],
  [order |-> "", limit |-> 1, offset |-> 1],
  [order |-> "price", limit |-> -1, offset |-> 1],
  [order |-> "", term |-> 2],
  [order |-> "colour"],
  [order |-> "", locks |-> TRUE]}

Author(p, t, v) == p :> [id |-> p, title |-> t, price |-> v]
Book(p, a, t, v) == p :> [id |-> p, author |-> a, title |-> t, price |-> v]
Link(p, b, a) == p :> [id |-> p, book |-> b, author |-> a]

Library1 == [author |-> Author(1, 2, 1) @@ Author(2, 1, 0),
             book |-> Book(1, 1, 2, 1) @@ Book(2, Null, 1, 2) @@ Book(3, 2, 2, Null),
             link |-> Link(1, 1, 2) @@ Link(2, 3, 1)]
Library2 == [author |-> Author(1, Null, 2) @@ Author(2, 2, Null) @@ Author(3, 1, 1),
             book |-> Book(1, 2, 1, 0) @@ Book(2, 2, 2, 2),
             link |-> Link(1, 2, 3)]
Shelf == [author |-> Author(1, 2, 1) @@ Author(2, 1, 0),
          book |-> Book(1, 1, 2, 1) @@ Book(2, Null, 1, 2), link |-> Link(1, 1, 2)]
Empty == [author |-> <<>>, book |-> <<>>, link |-> <<>>]

Scene(name, model, postgres, unique, databases, filters) ==
  [name |-> name, clients |-> IF name = "query" THEN {CHOOSE c \in Clients : TRUE} ELSE Clients,
   model |-> model, postgres |-> postgres, unique |-> unique,
   databases |-> databases, filters |-> filters,
   windows |-> IF name = "query" THEN MCWindows ELSE {}, title |-> 1]

MCScenes ==
  {Scene("query", "book", TRUE, FALSE, {Library1}, BookFilters),
   Scene("query", "book", FALSE, FALSE, {Library2}, BookFilters),
   Scene("query", "author", TRUE, FALSE, {Library1}, AuthorFilters)}
  \cup {Scene("relate", "book", TRUE, FALSE, {Shelf}, {})}
  \cup {Scene("create", "book", TRUE, u, {Empty, [Empty EXCEPT !.book = Book(1, Null, 1, 0)]}, {}) :
          u \in BOOLEAN}
  \cup {Scene("modify", "book", pg, FALSE, {[Empty EXCEPT !.book = Book(1, Null, 1, 0)]}, {}) :
          pg \in BOOLEAN}

=============================================================================
