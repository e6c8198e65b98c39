--------------------------- MODULE FilterService ---------------------------
(***************************************************************************)
(* The filters of list requests, as conditions on the value of a column.   *)
(* A text is the set of the words it holds, so that containing a text is   *)
(* inclusion; an instant is a number, DayLength of them in a day; NULL is  *)
(* the SQL NULL, and in a filter what is no number.  A condition that is   *)
(* unknown selects nothing, as in WHERE.                                   *)
(***************************************************************************)
EXTENDS Integers, Sequences, FiniteSets

CONSTANTS
  NULL,
  DayLength,    \* instants in a day
  MonthLength   \* sequence of the days in each month of the calendar

(* A filter: [id, operator, variant, many, quoted, value].  many: value is *)
(* an array, here a sequence; quoted: its members are strings.             *)

ColumnType == [text |-> "text", number |-> "number", date |-> "date", flag |-> "boolean"]

isColumn(id) == id \in DOMAIN ColumnType

(* validateFilters: an empty array or an empty text is no filter.          *)
validates(f) ==
  \/ f.operator \in {"isEmpty", "isNotEmpty"}
  \/ IF f.many THEN f.value # <<>> ELSE f.variant = "text" => f.value # {}

-----------------------------------------------------------------------------
(* The calendar. *)

MonthStart[m \in 1..Len(MonthLength)] ==
  IF m = 1 THEN 0 ELSE MonthStart[m - 1] + MonthLength[m - 1]

MonthOf(day) == CHOOSE m \in DOMAIN MonthLength :
                  MonthStart[m] <= day /\ day < MonthStart[m] + MonthLength[m]

DayOfMonth(day) == day - MonthStart[MonthOf(day)]

(* setMonth: what exceeds the month runs over into the next.               *)
addMonths(day, n) == MonthStart[MonthOf(day) + n] + DayOfMonth(day)

(* isRelativeToToday: the days from the first to before the second.        *)
relative(today, amount, unit) ==
  CASE unit = "days"   -> <<today + amount, today + amount + 1>>
    [] unit = "weeks"  -> <<today + 7 * amount, today + 7 * amount + 7>>
    [] unit = "months" -> LET start == addMonths(today, amount) IN <<start, addMonths(start, 1)>>

-----------------------------------------------------------------------------
(* filterColumns. *)

(* A bound of a pair that is missing: NULL, and the number 0, but not "0". *)
bound(f, i) == IF f.value[i] = NULL THEN NULL
               ELSE IF f.value[i] = 0 /\ ~f.quoted THEN NULL ELSE f.value[i]

Numeric(f) == f.variant \in {"number", "range"}

(* Filters whose variant or value does not suit their operator select      *)
(* nothing and exclude nothing.                                            *)
applies(f) ==
  CASE f.operator \in {"iLike", "notILike"} -> f.variant = "text"
    [] f.operator \in {"eq", "ne"} -> f.variant = "date" => f.value # NULL
    [] f.operator \in {"inArray", "notInArray"} -> f.many
    [] f.operator \in {"lt", "lte", "gt", "gte"} ->
         Numeric(f) \/ (f.variant = "date" /\ f.value # NULL)
    [] f.operator = "isBetween" ->
         /\ f.many
         /\ \/ f.variant = "dateRange" /\ f.value[1] # NULL
            \/ Numeric(f) /\ Len(f.value) = 2 /\ {bound(f, 1), bound(f, 2)} # {NULL}
    [] f.operator = "isRelativeToToday" ->
         f.variant \in {"date", "dateRange"} /\ f.value # NULL /\ f.value[1] # NULL
           /\ f.value[2] \in {"days", "weeks", "months"}
    [] OTHER -> TRUE

within(from, until, v) == from <= v /\ v < until

(* A boolean column is compared with whether the string is 'true'.         *)
operand(f) == IF ColumnType[f.id] = "boolean" /\ f.value # "true" THEN "false" ELSE f.value

equals(f, v) == IF f.variant = "date" THEN within(f.value, f.value + DayLength, v)
                ELSE v = operand(f)

member(f, v) == \E i \in DOMAIN f.value : f.value[i] = v

(* For a date, both: until the end of that day.                            *)
(* Faulty variant: until its beginning.                                    *)
atMostStart(f, v, strict) == IF strict THEN v < f.value ELSE v <= f.value

atMost(f, v, strict) ==
  IF f.variant = "date" THEN v < f.value + DayLength
  ELSE IF strict THEN v < f.value ELSE v <= f.value

between(f, v) ==
  IF f.variant = "dateRange"
    THEN LET last == IF Len(f.value) < 2 THEN NULL ELSE bound(f, 2) IN
         within(f.value[1], (IF last = NULL THEN f.value[1] ELSE last) + DayLength, v)
    ELSE LET first == bound(f, 1)  second == bound(f, 2) IN
         IF NULL \in {first, second} THEN v \in {first, second} ELSE first <= v /\ v <= second

isEmpty(v) == v = NULL \/ v = {}

holds(f, v, today) ==
  IF f.operator = "isEmpty" THEN isEmpty(v)
  ELSE IF f.operator = "isNotEmpty" THEN ~isEmpty(v)
  ELSE /\ v # NULL
       /\ CASE f.operator = "iLike"      -> f.value \subseteq v
            [] f.operator = "notILike"   -> ~(f.value \subseteq v)
            [] f.operator = "eq"         -> equals(f, v)
            [] f.operator = "ne"         -> ~equals(f, v)
            [] f.operator = "inArray"    -> member(f, v)
            [] f.operator = "notInArray" -> ~member(f, v)
            [] f.operator = "lt"         -> atMost(f, v, TRUE)
            [] f.operator = "lte"        -> atMost(f, v, FALSE)
            [] f.operator = "gt"         -> v > f.value
            [] f.operator = "gte"        -> v >= f.value
            [] f.operator = "isBetween"  -> between(f, v)
            [] f.operator = "isRelativeToToday" ->
                 LET days == relative(today, f.value[1], f.value[2]) IN
                 within(days[1] * DayLength, days[2] * DayLength, v)

(* An unknown column throws, whatever its operator; the empty string is no *)
(* value of a column that is not text.                                     *)
throws(filters) ==
  \E f \in {x \in filters : validates(x)} :
    \/ ~isColumn(f.id)
    \/ f.operator \in {"isEmpty", "isNotEmpty"} /\ ColumnType[f.id] # "text"

Effective(filters) == {f \in filters : validates(f) /\ applies(f)}

(* Whether a row passes the filters, joined by and or by or.               *)
filterColumns(filters, joinOperator, row, today) ==
  LET valid == Effective(filters) IN
  \/ valid = {}
  \/ joinOperator = "and" /\ \A f \in valid : holds(f, row[f.id], today)
  \/ joinOperator = "or"  /\ \E f \in valid : holds(f, row[f.id], today)
=============================================================================
