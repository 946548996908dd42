----------------------------- MODULE Changelist -----------------------------
(***************************************************************************)
(* The list page of the admin: what its query string selects, the links it *)
(* shows and the rows behind them.                                         *)
(*                                                                         *)
(* A view is the part of the query string that the page reads: the order,  *)
(* the search term, the filters, the steps of the date hierarchy and the   *)
(* page number; 0 and "none" stand for a key that is not there.  A date is *)
(* <<year, month, day, fraction>>: of its time of day only the fraction of *)
(* a second is kept, as that is what a form loses.  The column "count"     *)
(* stands for those that ?o= may name.                                     *)
(***************************************************************************)
EXTENDS Integers, Sequences, FiniteSets

CONSTANTS
  PerPage,        \* CHANGELIST_PER_PAGE
  MonthDays,      \* [month -> its days]
  ListFilter,     \* fields with a filter
  Choices,        \* those among them that have choices and are not boolean
  NoDate          \* the date of a row whose column is NULL

ASSUME CalendarAssumption ==
  DOMAIN MonthDays = 1..12 /\ \A m \in 1..12 : MonthDays[m] \in 1..31

NoView == [order |-> "none", term |-> 0, filters |-> <<>>, year |-> 0, month |-> 0, day |-> 0, page |-> 1]
Invalid == <<>>

(* with_ymd_and_hms(...).single(): a date of the calendar, or nothing.     *)
IsDate(y, m, d) == m \in DOMAIN MonthDays /\ d \in 1..MonthDays[m]
IsDay(date) ==
  date \in Nat \X Nat \X Nat \X Nat /\ date[1] > 0 /\ IsDate(date[1], date[2], date[3])
Day(y, m, d) == 372 * y + 31 * (m - 1) + d - 1

(* Variant: December has no successor.                                     *)
MonthEndInYear(y, m) == IF IsDate(y, m + 1, 1) THEN Day(y, m + 1, 1) ELSE 0

MonthEnd(y, m) == IF m = 12 THEN Day(y + 1, 1, 1) ELSE Day(y, m + 1, 1)

(* The half-open range of instants that year, month and day select: a      *)
(* month without a year and a day without a month are ignored.             *)
DateRange(v) ==
  CASE v.month = 0 -> <<Day(v.year, 1, 1), Day(v.year + 1, 1, 1)>>
    [] v.month # 0 /\ v.day = 0 ->
         IF IsDate(v.year, v.month, 1) /\ MonthEnd(v.year, v.month) # 0
           THEN <<Day(v.year, v.month, 1), MonthEnd(v.year, v.month)>>
           ELSE Invalid
    [] OTHER ->
         IF IsDate(v.year, v.month, v.day)
           THEN <<Day(v.year, v.month, v.day), Day(v.year, v.month, v.day) + 1>>
           ELSE Invalid

InRange(date, v) ==
  LET range == DateRange(v)
      at == Day(date[1], date[2], date[3]) IN
  v.year = 0 \/ (date # NoDate /\ range[1] <= at /\ at < range[2])

(* A view that is answered with 400.                                       *)
BadView(v) == v.page < 1 \/ (v.year # 0 /\ DateRange(v) = Invalid)

(* A value other than true and false is no filter.                         *)
Filters(v) ==
  [f \in {f \in ListFilter \cap DOMAIN v.filters : v.filters[f] \in BOOLEAN} |-> v.filters[f]]

(* A column is compared with a boolean, which on Sqlite is 1 or 0.  Where  *)
(* the column is not boolean Postgres refuses the statement.               *)
Holds(f, value) == IF f \in Choices THEN IF value THEN 1 ELSE 0 ELSE value
Mistyped(v) == DOMAIN Filters(v) \cap Choices # {}

(* build_filtered_queryset, without base filter and tenant.                *)
Selects(v, row) ==
  /\ v.term = 0 \/ v.term = row.note
  /\ \A f \in DOMAIN Filters(v) : row[f] = Holds(f, Filters(v)[f])
  /\ InRange(row.due, v)

Listed(v, rows) == {p \in DOMAIN rows : Selects(v, rows[p])}

(* ORDER BY the column that ?o= names, with nothing to break its ties; and *)
(* no ORDER BY at all without ?o=.                                         *)
SortsBefore(v, row, other) ==
  CASE v.order = "none" -> FALSE
    [] v.order = "count" -> row.count < other.count
    [] v.order = "-count" -> row.count > other.count

(* What the first n of the rows S may be: the database is free to put rows *)
(* that are not sorted in any order, another one in every statement.       *)
FirstOf(v, n, S, rows) ==
  {F \in SUBSET S :
     /\ Cardinality(F) = IF n < Cardinality(S) THEN n ELSE Cardinality(S)
     /\ \A p \in F, q \in S \ F : ~SortsBefore(v, rows[q], rows[p])}

(* OFFSET leaves out the rows of the earlier pages, LIMIT takes a page.    *)
PagesOf(v, S, rows) ==
  UNION {FirstOf(v, PerPage, S \ E, rows) : E \in FirstOf(v, PerPage * (v.page - 1), S, rows)}

-----------------------------------------------------------------------------
(* The links.  None of them but the pager's has a page; a column's header  *)
(* orders by it, or the other way round.                                   *)
FirstPage(v) == [v EXCEPT !.page = 1, !.filters = Filters(v)]
NextPage(v) == [v EXCEPT !.page = @ + 1, !.filters = Filters(v)]
HasNext(v, total) == v.page * PerPage < total
HeaderLink(v) == [FirstPage(v) EXCEPT !.order = IF v.order = "count" THEN "-count" ELSE "count"]

(* The search form's hidden inputs keep everything but term and page.      *)
SearchFor(v, term) == [FirstPage(v) EXCEPT !.term = term]

FilterLink(v, f, choice) ==
  LET others == [g \in DOMAIN Filters(v) \ {f} |-> Filters(v)[g]] IN
  [FirstPage(v) EXCEPT !.filters =
     [g \in DOMAIN others \cup (IF choice = "all" THEN {} ELSE {f}) |->
        IF g = f THEN choice = "yes" ELSE others[g]]]

(* date_hierarchy_drilldown_values: the years, the months of the year or   *)
(* the days of the month that the whole table has, whatever is filtered.   *)
Values(v, rows) ==
  LET dates == {rows[p].due : p \in DOMAIN rows} \ {NoDate} IN
  CASE v.year = 0 -> {d[1] : d \in dates}
    [] v.year # 0 /\ v.month = 0 -> {d[2] : d \in {e \in dates : e[1] = v.year}}
    [] OTHER -> {d[3] : d \in {e \in dates : e[1] = v.year /\ e[2] = v.month}}

DateLink(v, value) ==
  LET bare == [FirstPage(v) EXCEPT !.year = 0, !.month = 0, !.day = 0] IN
  CASE v.year = 0 -> [bare EXCEPT !.year = value]
    [] v.year # 0 /\ v.month = 0 -> [bare EXCEPT !.year = v.year, !.month = value]
    [] OTHER -> [bare EXCEPT !.year = v.year, !.month = v.month, !.day = value]

(* No date links once a day is given.                                      *)
DateLinks(v, rows) == IF v.day # 0 THEN {} ELSE {DateLink(v, x) : x \in Values(v, rows)}

(* The breadcrumbs: all dates, the year, the month.                        *)
Breadcrumbs(v) ==
  LET all == [FirstPage(v) EXCEPT !.year = 0, !.month = 0, !.day = 0]
      year == [all EXCEPT !.year = v.year]
      month == [year EXCEPT !.month = v.month] IN
  IF v.year = 0 THEN {}
  ELSE {all} \cup (IF v.month = 0 THEN {} ELSE {year})
             \cup (IF v.month = 0 \/ v.day = 0 THEN {} ELSE {month})

=============================================================================
