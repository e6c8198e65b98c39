----------------------------- MODULE MCServices -----------------------------
EXTENDS ServicesInvariant

CONSTANTS u1, u2, e1, e2, e3, c1, c2

Account(e, verified, code) == [email |-> e, verified |-> verified, code |-> code]

(* Signed up, or to be invited, with another whose code is the same;       *)
(* verified, with another.                                                 *)
SomeAccounts ==
  [verification |-> {(u1 :> Account(e1, FALSE, c1)) @@ (u2 :> NULL),
                     (u1 :> NULL) @@ (u2 :> Account(e2, FALSE, c1))},
   reset |-> {(u1 :> Account(e1, TRUE, NULL)) @@ (u2 :> Account(e2, TRUE, NULL))}]

(* One frees e1 and another takes it; two for one address.                 *)
SomeMoves == {<<u1, e3>>, <<u2, e3>>, <<u2, e1>>}

(* A month of three days, one of two: the third day runs over.             *)
Months == <<3, 2, 3, 3, 3, 3, 3, 3, 3>>
Today  == {6, 7}

Columns(id, org, text, number, date, flag) ==
  [id |-> id, org |-> org, text |-> text, number |-> number, date |-> date, flag |-> flag]

Table == <<Columns(1, "own", {"a"}, 0, 12, "true"),
           Columns(2, "own", {"a", "b"}, 2, 15, "false"),
           Columns(3, "own", {}, NULL, NULL, "false"),
           Columns(4, "other", {"a"}, 2, 14, "true")>>

Filter(id, operator, variant, many, value) ==
  [id |-> id, operator |-> operator, variant |-> variant, many |-> many,
   quoted |-> FALSE, value |-> value]

TextFilters ==
  {Filter("text", op, "text", FALSE, x) : op \in {"iLike", "notILike", "eq", "ne"}, x \in {{"a"}, {"b"}, {}}}
    \cup {Filter("text", op, "text", FALSE, {}) : op \in {"isEmpty", "isNotEmpty"}}
    \cup {Filter("text", "iLike", "number", FALSE, {"a"})}

Comparison == {"eq", "ne", "lt", "lte", "gt", "gte"}

NumberFilters ==
  {Filter("number", op, "number", FALSE, 2) : op \in Comparison}
    \cup {Filter("number", op, "select", TRUE, <<0, 1>>) : op \in {"inArray", "notInArray"}}
    \cup {[Filter("number", "isBetween", "range", TRUE, x) EXCEPT !.quoted = q] :
            x \in {<<0, 1>>, <<1, 2>>, <<NULL, 2>>, <<NULL, NULL>>}, q \in BOOLEAN}

DateFilters ==
  {Filter("date", op, "date", FALSE, x) : op \in Comparison, x \in {12, 14, NULL}}
    \cup {Filter("date", "isBetween", "dateRange", TRUE, x) : x \in {<<12>>, <<12, 14>>, <<NULL, 14>>}}
    \cup {Filter("date", "isRelativeToToday", "date", FALSE, <<n, unit>>) :
            n \in {-1, 0, 1}, unit \in {"days", "weeks", "months"}}

OtherFilters ==
  {Filter("flag", op, "boolean", FALSE, x) : op \in {"eq", "ne"}, x \in {"true", "no"}}
    \cup {Filter("unknown", "eq", "text", FALSE, {"a"}), Filter("number", "isEmpty", "number", FALSE, 0)}

Filters == TextFilters \cup NumberFilters \cup DateFilters \cup OtherFilters

Query(filters, joins, orders, numbers, days) ==
  [filters : filters, join : joins, sortBy : {"number", "unknown"}, sortOrder : orders,
   page : numbers, limit : {1}, today : days]

SomeQueries ==
  Query({{f} : f \in Filters}, {"and"}, {"asc"}, {1}, Today)
  \cup Query({{Filter("text", "iLike", "text", FALSE, {"b"}), f} : f \in NumberFilters},
             {"and", "or"}, {"desc"}, {2}, {6})
  \cup {[q EXCEPT !.limit = n] : n \in {1, 2},
          q \in Query({{}}, {"and"}, {"asc", "desc"}, {1, 2, 3}, {6})}
=============================================================================
