---------------------------- MODULE ListQueries ----------------------------
(***************************************************************************)
(* FilterableQueryBuilder: a page of the rows that a policy and filters    *)
(* select, and their number, read by two statements while rows come and    *)
(* go.                                                                     *)
(***************************************************************************)
EXTENDS Requests, SequencesExt, FiniteSets, Naturals

CONSTANTS
  Content,      \* columns of the rows there may be: org and those filtered by
  MaxLimit,     \* 100: rows of a page
  DayLength, MonthLength

INSTANCE FilterService

VARIABLES
  table         \* the rows that are there

Row == DOMAIN Content

ListInit == table = Row

-----------------------------------------------------------------------------

Min2(a, b) == IF a < b THEN a ELSE b
Max2(a, b) == IF a < b THEN b ELSE a

(* where(policy) and filter(query) are joined by and.                      *)
policyWhere(r) == Content[r].org = "own"

(* Faulty variant: the filters join the policy by their own operator.      *)
combinedWhereJoined(r, q) ==
  IF q.join = "or" /\ Effective(q.filters) # {}
    THEN policyWhere(r) \/ filterColumns(q.filters, q.join, Content[r], q.today)
    ELSE policyWhere(r) /\ filterColumns(q.filters, q.join, Content[r], q.today)

combinedWhere(r, q) == policyWhere(r) /\ filterColumns(q.filters, q.join, Content[r], q.today)

(* What the statements range over: base rows.  The lists whose joins may   *)
(* repeat one (attachments) group by uniqueOn, and count distinct; the sort*)
(* key is the same throughout a group.                                     *)
items(q) == {r \in table : combinedWhere(r, q)}

(* orderByFromQuery: an unknown column gives the first of the table.       *)
sortKey(r, q) == IF isColumn(q.sortBy) THEN Content[r][q.sortBy] ELSE Content[r].id

(* asc puts NULL last, desc first.                                         *)
precedes(r, t, q) ==
  LET a == sortKey(r, q)  b == sortKey(t, q) IN
  IF NULL \in {a, b} THEN a # b /\ (b = NULL <=> q.sortOrder = "asc")
  ELSE IF q.sortOrder = "asc" THEN a < b ELSE b < a

(* Any order the key allows: nothing settles ties.                         *)
orderings(S, q) ==
  {o \in SetToSeqs(S) : \A i, j \in DOMAIN o : i < j => ~precedes(o[j], o[i], q)}

(* paginate; the DTO lets no other page or limit through.                  *)
pageOf(q)  == Max2(1, q.page)
limitOf(q) == Max2(1, Min2(MaxLimit, q.limit))
offset(q)  == (pageOf(q) - 1) * limitOf(q)

(* Bound of the model: one list at a time, from the whole table.           *)
list(s, q) ==
  /\ s = CHOOSE t \in Session : At(t, "idle")
  /\ NoRequests /\ table = Row
  /\ ~throws(q.filters)
  /\ Goto(s, "list.data", [query |-> q])
  /\ UNCHANGED table

selectPage(s) ==
  LET q == call[s].query IN
  /\ At(s, "list.data")
  /\ \E o \in orderings(items(q), q) :
       Goto(s, "list.count",
            [query |-> q, seen |-> table, changed |-> FALSE,
             data |-> SubSeq(o, offset(q) + 1, Min2(offset(q) + limitOf(q), Len(o)))])
  /\ UNCHANGED table

executeCount(s) ==
  LET c == call[s] IN
  /\ At(s, "list.count")
  /\ Goto(s, "list.done", [query |-> c.query, seen |-> c.seen, changed |-> c.changed,
                           data |-> c.data, total |-> Cardinality(items(c.query))])
  /\ UNCHANGED table

respondList(s) == At(s, "list.done") /\ Return(s) /\ UNCHANGED table

(* Another request inserts or removes a row.  Bound of the model: one,     *)
(* between the statements of a list.                                       *)
tableChanges ==
  /\ \E s \in Session : At(s, "list.count") /\ ~call[s].changed
  /\ \E r \in Row : table' = IF r \in table THEN table \ {r} ELSE table \cup {r}
  /\ call' = [s \in Session |->
       IF At(s, "list.count") THEN [call[s] EXCEPT !.changed = TRUE] ELSE call[s]]
  /\ UNCHANGED pc

ListStep(s) == selectPage(s) \/ executeCount(s) \/ respondList(s)

ListNext(queries) ==
  \/ \E s \in Session : ListStep(s) \/ \E q \in queries : list(s, q)
  \/ tableChanges

-----------------------------------------------------------------------------
(* Properties. *)

(* A page holds rows the policy admits and the filters select, none twice, *)
(* as many as are left for it, in order, and none that a row left out      *)
(* precedes without being on an earlier page; and the total is the number  *)
(* of such rows, unless the table changed between the two statements.      *)
ListsFaithful ==
  \A s \in Session : At(s, "list.done") =>
    LET c == call[s]  q == c.query
        expected == {r \in c.seen : Content[r].org = "own"
                                    /\ filterColumns(q.filters, q.join, Content[r], q.today)}
        n == Cardinality(expected)
    IN
    /\ \A i \in DOMAIN c.data :
         /\ c.data[i] \in expected
         /\ Cardinality({r \in expected : precedes(r, c.data[i], q)}) < offset(q) + i
         /\ \A j \in 1..i-1 : c.data[j] # c.data[i] /\ ~precedes(c.data[i], c.data[j], q)
    /\ Len(c.data) = Max2(0, Min2(limitOf(q), n - offset(q)))
    /\ ~c.changed => c.total = n

Values(id) == {Content[r][id] : r \in Row}
Selected(f, today) == {v \in Values(f.id) : holds(f, v, today)}

With(f, op, x)  == [f EXCEPT !.operator = op, !.value = x]
Relative(f, today, n, unit) == Selected(With(f, "isRelativeToToday", <<n, unit>>), today)

(* The operators mean what they say of each other, on every column: 'not'  *)
(* is the complement among the values that are there; a day is what is not *)
(* before it and not after it; a range is what its two ends select, except *)
(* that an end given as the number 0 counts as missing; a week is its days;*)
(* and, from a day every month has, the months around today follow on one  *)
(* another.                                                                *)
FilterLaws ==
  \A s \in Session : At(s, "list.data") =>
    LET q == call[s].query  today == q.today IN
    \A f \in Effective(q.filters) :
      LET Sel(op, x) == Selected(With(f, op, x), today)
          there      == Values(f.id) \ {NULL}
          Opposite(op, not) == f.operator \in {op, not} =>
            Sel(op, f.value) \cup Sel(not, f.value) = there
              /\ Sel(op, f.value) \cap Sel(not, f.value) = {}
      IN
      /\ Opposite("eq", "ne") /\ Opposite("iLike", "notILike") /\ Opposite("inArray", "notInArray")
      /\ Numeric(f) => Opposite("lt", "gte") /\ Opposite("lte", "gt")
      /\ f.operator = "eq" /\ f.variant = "date" =>
           Selected(f, today) = Sel("gte", f.value) \cap Sel("lte", f.value)
      /\ f.operator = "isBetween" /\ f.variant = "dateRange" /\ Len(f.value) = 2
           /\ bound(f, 2) # NULL =>
           Selected(f, today) = {v \in there : v >= f.value[1] /\ v < f.value[2] + DayLength}
      /\ f.operator = "isBetween" /\ Numeric(f) /\ (f.quoted \/ 0 \notin {f.value[1], f.value[2]})
           /\ NULL \notin {f.value[1], f.value[2]} =>
           Selected(f, today) = Sel("gte", f.value[1]) \cap Sel("lte", f.value[2])
      /\ f.operator = "isRelativeToToday" =>
           LET n == f.value[1] IN
           /\ Relative(f, today, 0, "weeks") = UNION {Relative(f, today, i, "days") : i \in 0..6}
           /\ (\A m \in DOMAIN MonthLength : DayOfMonth(today) < MonthLength[m]) =>
                relative(today, n, "months")[2] = relative(today, n + 1, "months")[1]
=============================================================================
