------------------------- MODULE ServicesInvariant -------------------------
(***************************************************************************)
(* The inductive invariant of Services, part by part: what each request    *)
(* has read, and what of it still holds.                                   *)
(***************************************************************************)
EXTENDS Services

AccountRow == [email : Email, verified : BOOLEAN, code : Code \cup {NULL}]

EmailsDistinct(rows) ==
  \A u, v \in User :
    rows[u] # NULL /\ rows[v] # NULL /\ rows[u].email = rows[v].email => u = v

ASSUME ServicesConstants ==
  /\ Written \subseteq Email /\ Moves \subseteq User \X Email
  /\ \A p \in {"verification", "reset"} : \A rows \in AccountRows[p] :
       rows \in [User -> AccountRow \cup {NULL}] /\ EmailsDistinct(rows)
  /\ Strikes \in Nat \ {0} /\ HardLock \in Nat \ {0}
  /\ IsFiniteSet(Session) /\ MaxAttempts \in Nat \ {0}
  /\ PoolSize \in Nat

ASSUME ServicesNull ==
  /\ NULL \notin Code /\ NULL \notin AccountRow /\ NULL \notin Email
  /\ NULL \notin [owner : Owner, isDefault : BOOLEAN]
  /\ NULL \notin Author /\ NULL \notin Address

(* What lists are asked for: pages, and rows ordered by numbers.           *)
ASSUME ListsConstants ==
  /\ IsFiniteSet(Row) /\ MaxLimit \in Nat
  /\ \A q \in Queries : /\ q.page \in Int /\ q.limit \in Int
                        /\ \A r \in Row : sortKey(r, q) \in Int \cup {NULL}

(* Filters are records; where values are compared, the column and what it  *)
(* is compared with are numbers; today is in the calendar, and so are the  *)
(* months asked for.                                                       *)
Comparing(f) ==
  \/ f.operator \in {"lt", "lte", "gt", "gte", "isBetween", "isRelativeToToday"}
  \/ f.operator = "eq" /\ f.variant = "date"

Operands(f) ==
  IF f.operator = "isBetween" THEN {f.value[i] : i \in DOMAIN f.value} \ {NULL}
  ELSE IF f.operator = "isRelativeToToday" THEN {f.value[1]}
  ELSE {f.value}

ASSUME FiltersConstants ==
  /\ DayLength \in Nat /\ MonthLength \in Seq(Nat)
  /\ \A q \in Queries :
       /\ q.today \in Int
       /\ \E m \in DOMAIN MonthLength :
            MonthStart[m] <= q.today /\ q.today < MonthStart[m] + MonthLength[m]
       /\ \A f \in Effective(q.filters) :
            /\ f = [id |-> f.id, operator |-> f.operator, variant |-> f.variant, many |-> f.many,
                    quoted |-> f.quoted, value |-> f.value]
            /\ Comparing(f) => Values(f.id) \ {NULL} \subseteq Int /\ Operands(f) \subseteq Int
            /\ f.operator = "isBetween" => DOMAIN f.value = 1..Len(f.value) /\ Len(f.value) \in {1, 2}
            /\ f.operator = "isRelativeToToday" =>
                 MonthOf(q.today) + f.value[1] \in DOMAIN MonthLength

-----------------------------------------------------------------------------
(* The labels of each part. *)

AccountLabels == {"verify.write", "accept.write", "token.write", "code.mail", "invite.insert",
                  "resend.find", "resend.incr", "resend.expire",
                  "otp.del", "otp.set", "reset.find", "reset.get", "reset.write", "reset.del",
                  "profile.write"}
JudgeLabels == {"intent.try", "failure.write", "success.write"}
VibeLabels  == JudgeLabels \cup {"layout.try", "page.write", "page.audit"}

AddressLabels == {"address.clear", "address.insert", "address.update", "address.delete"}
ListLabels == {"list.data", "list.count", "list.done"}
PoolLabels == {"pool.wait", "pool.wait.second", "pool.read", "pool.run"}

LabelsOf(p) ==
  CASE p \in {"verification", "reset"} -> AccountLabels
    [] p = "addresses" -> AddressLabels
    [] p \in {"prompts", "pages"} -> VibeLabels
    [] p = "lists" -> ListLabels
    [] p = "pool" -> PoolLabels

Part == {"verification", "reset", "addresses", "prompts", "pages", "lists", "pool"}

(* Requests are at statements of the part only. *)
Places ==
  /\ part \in Part
  /\ pc = [s \in Session |-> pc[s]] /\ call = [s \in Session |-> call[s]]
  /\ \A s \in Session : pc[s] \in LabelsOf(part) \cup {"idle"}

-----------------------------------------------------------------------------
(* AccountService. *)

AccountTypes ==
  /\ account \in [User -> AccountRow \cup {NULL}]
  /\ otp \in [User -> Code \cup {NULL}]
  /\ EmailsDistinct(account)

Finds(s, u) == account[u] # NULL /\ account[u].email = call[s].email

(* Users are never removed; what a code was drawn for is not forgotten;    *)
(* the user found by an address is still at it, if it has not moved.       *)
AccountCallOK(s) == LET c == call[s] IN
  /\ pc[s] \in {"verify.write", "accept.write"} => c.user \in Live /\ <<c.user, c.code, "verify">> \in drawn
  /\ pc[s] \in {"token.write", "code.mail"} => c.user \in Live /\ c.code \in Code
  /\ pc[s] \in {"invite.insert", "profile.write"} => c.email \in Email
  /\ pc[s] \in {"otp.del", "otp.set", "profile.write"} => c.user \in Live
  /\ pc[s] = "reset.find" =>
       /\ c = [user |-> c.user, code |-> c.code, email |-> c.email, moved |-> c.moved]
       /\ c.user \in Live /\ c.code \in Code /\ (c.moved \/ Finds(s, c.user))
  /\ pc[s] \in {"reset.get", "reset.write", "reset.del"} =>
       c.user \in Live /\ c.owner \in Live /\ c.code \in Code /\ (c.moved \/ c.user = c.owner)
  /\ pc[s] \in {"reset.write", "reset.del"} => <<c.owner, c.code, "reset">> \in drawn

StoredDrawn ==
  \A u \in User :
    /\ account[u] # NULL /\ account[u].code # NULL => <<u, account[u].code, "verify">> \in drawn
    /\ otp[u] # NULL => <<u, otp[u], "reset">> \in drawn

SpentGone ==
  \A p \in spent : /\ p \in User \X Code /\ <<p[1], p[2], "reset">> \in drawn
                   /\ otp[p[1]] # p[2]

Delivered(u, c) ==
  \/ <<u, c>> \in mailed \cup unsent
  \/ \E s \in Session : At(s, "code.mail") /\ call[s].user = u /\ call[s].code = c

StoredDelivered ==
  /\ unsent \cap mailed = {}
  /\ \A u \in User :
    /\ account[u] # NULL /\ account[u].code # NULL => Delivered(u, account[u].code)
    /\ otp[u] # NULL => Delivered(u, otp[u])

AccountInv ==
  /\ AccountTypes /\ (\A s \in Session : AccountCallOK(s))
  /\ StoredDrawn /\ SpentGone /\ StoredDelivered

(* The counter of verification mails: the requests past its limit's check, *)
(* counted with the mails, never exceed what the window allows.            *)
Resending(e) ==
  {s \in Session : pc[s] \in {"resend.find", "token.write", "code.mail", "resend.incr"} /\ call[s].email = e}

ResendTypes ==
  /\ resends \in [Email -> [n : Nat, ttl : BOOLEAN]] /\ resent \in [Email -> Nat]
  /\ \A s \in Session :
       /\ pc[s] \in {"resend.find", "resend.incr", "resend.expire"} => call[s].email \in Email
       /\ pc[s] \in {"token.write", "code.mail"} => call[s].email \in Email \cup {NULL}

Expiring(e) == \E s \in Session : At(s, "resend.expire") /\ call[s].email = e

ResendsOf(e) ==
  /\ resends[e].n <= MaxAttempts => resent[e] <= resends[e].n
  /\ resent[e] + Cardinality(Resending(e)) < MaxAttempts + Cardinality(Session)
  /\ resends[e].n > 0 => resends[e].ttl \/ e \in lost \/ Expiring(e)

ResendsInv == ResendTypes /\ \A e \in Email : ResendsOf(e)

-----------------------------------------------------------------------------
(* UserAddresses. *)

AddressRow == [owner : Owner, isDefault : BOOLEAN]

AddressTypes == addresses \in [Address -> AddressRow \cup {NULL}] /\ kept \subseteq Owner

(* An id a request knows is of an address of its user, or of none.         *)
AddressCallOK(s) == LET c == call[s] IN
  /\ pc[s] \in AddressLabels => c.owner \in Owner
  /\ pc[s] \in {"address.insert", "address.update"} => c.isDefault \in BOOLEAN
  /\ pc[s] = "address.clear" => c.isDefault = TRUE /\ c.address \in Address \cup {NULL}
  /\ pc[s] \in {"address.update", "address.delete"} => c.address \in Address
  /\ pc[s] \in AddressLabels \ {"address.insert"} /\ c.address # NULL =>
       addresses[c.address] = NULL \/ addresses[c.address].owner = c.owner

OneDefault == \A u \in Owner : \A a, b \in Defaults(u) : a = b

DefaultSurvives == \A u \in kept : Choosing(u) \/ Defaults(u) # {}

AddressInv ==
  /\ AddressTypes /\ (\A s \in Session : AddressCallOK(s))
  /\ OneDefault /\ DefaultSurvives

-----------------------------------------------------------------------------
(* VibeService. *)

VibeRow == [failCount : Nat, blocked : {"no", "minutes", "permanent"}]

Judged(s, u) == pc[s] \in JudgeLabels /\ call[s].user = u

PromptTypes ==
  /\ vibe \in [Author -> VibeRow] /\ refused \in [Author -> Nat]
  /\ \A s \in Session : pc[s] \in JudgeLabels => LET c == call[s] IN
       /\ c = [user |-> c.user, row |-> c.row, tries |-> c.tries]
       /\ c.user \in Author /\ c.row \in VibeRow

(* Prompts of a user are judged one at a time, each from the row as it is; *)
(* the exceptions are named.                                               *)
JudgedAlone ==
  \A u \in Author \ overlapped : \A s, t \in Session : Judged(s, u) /\ Judged(t, u) => s = t

JudgedCurrent ==
  \A u \in Author \ overlapped : \A s \in Session :
    Judged(s, u) => call[s].row = vibe[u] /\ vibe[u].blocked = "no"

PromptsInv == PromptTypes /\ JudgedAlone /\ JudgedCurrent /\ FailuresCounted

PageTypes ==
  /\ vibePages \in [Page -> Author \cup {NULL}] /\ made \subseteq Page
  /\ \A p \in Page : vibePages[p] # NULL => p \in made

PageCallOK(s) == LET c == call[s] IN
  /\ pc[s] = "page.write" => /\ c.page \in made /\ c.creator \in Author
                             /\ c.action \in {"UPDATE", "DELETE"}
  /\ pc[s] = "page.audit" => /\ c.page \in made /\ c.action \in {"INSERT", "UPDATE", "DELETE"}
                             /\ c.action = "DELETE" => vibePages[c.page] = NULL

(* The audit rows written, about to be written, or failed. *)
Told(p, action) ==
  \/ <<p, action>> \in audit \cup untold
  \/ \E s \in Session : At(s, "page.audit") /\ call[s].page = p /\ call[s].action = action

TrailOK ==
  /\ \A p \in made : Told(p, "INSERT") /\ (vibePages[p] = NULL => Told(p, "DELETE"))
  /\ \A p \in Page : vibePages[p] # NULL \/ p \notin made => <<p, "DELETE">> \notin audit \cup untold

PagesInv == PageTypes /\ (\A s \in Session : PageCallOK(s)) /\ TrailOK

-----------------------------------------------------------------------------
(* ListQueries. *)

matching(S, q) == {r \in S : combinedWhere(r, q)}

(* The data of a response are the page asked for of the rows S.            *)
PageOf(data, S, q) ==
  /\ \A i \in DOMAIN data :
       /\ data[i] \in matching(S, q)
       /\ Cardinality({r \in matching(S, q) : precedes(r, data[i], q)}) < offset(q) + i
       /\ \A j \in 1..i-1 : data[j] # data[i] /\ ~precedes(data[i], data[j], q)
  /\ Len(data) = Max2(0, Min2(limitOf(q), Cardinality(matching(S, q)) - offset(q)))

ListCallOK(s) == LET c == call[s] IN
  /\ pc[s] \in ListLabels => c.query \in Queries
  /\ pc[s] = "list.data" => ~throws(c.query.filters)
  /\ pc[s] \in {"list.count", "list.done"} => c.seen \subseteq Row /\ PageOf(c.data, c.seen, c.query)
  /\ pc[s] = "list.count" =>
       /\ c = [query |-> c.query, seen |-> c.seen, changed |-> c.changed, data |-> c.data]
       /\ c.changed \/ c.seen = table
  /\ pc[s] = "list.done" => c.changed \/ c.total = Cardinality(matching(c.seen, c.query))

ListInv == table \subseteq Row /\ \A s \in Session : ListCallOK(s)

-----------------------------------------------------------------------------

(* The inductive invariant: of a part, when behaviours are of that part;   *)
(* the variables of the others are as at first.                            *)
IInv ==
  /\ Places
  /\ IF part \in {"verification", "reset"} THEN AccountInv /\ ResendsInv
     ELSE AccountInit([u \in User |-> NULL])
  /\ IF part = "addresses" THEN AddressInv ELSE AddressesInit
  /\ IF part \in {"prompts", "pages"} THEN PromptsInv /\ PagesInv ELSE VibeInit
  /\ IF part = "lists" THEN ListInv ELSE ListInit

-----------------------------------------------------------------------------
(* A second invariant: the connections of the pool, and the tries of the   *)
(* language model.                                                         *)

(* What a request holds at each of its statements.                         *)
Holds(label) ==
  CASE label = "pool.read"                        -> 2
    [] label \in {"pool.wait.second", "pool.run"} -> 1
    [] OTHER                                      -> 0

(* A request holds what its next statement needs and gives it back when it *)
(* ends, however it ends; the pool never lends more than it has; and there *)
(* is no request before the process listens or after it exits.             *)
ConnectionsHeld ==
  /\ connected = [s \in Session |-> Holds(pc[s])]
  /\ InUse \in 0..PoolSize
  /\ part = "pool" => \A s \in Session : pc[s] # "idle" => boot = "listening"

(* The judge is asked twice, the designer three times.                     *)
TriesCounted ==
  \A s \in Session :
    pc[s] \in {"intent.try", "layout.try"} => LET c == call[s] IN
      /\ c = [user |-> c.user, row |-> c.row, tries |-> c.tries]
      /\ c.tries \in 1..(IF At(s, "intent.try") THEN 2 ELSE 3)

(* The statements, commands, calls and waits a request has left, at most.  *)
Left(label) ==
  CASE label = "resend.find" -> 5
    [] label \in {"otp.del", "reset.find"} -> 5
    [] label \in {"otp.set", "token.write", "invite.insert", "success.write", "reset.get", "pool.wait"} -> 4
    [] label \in {"code.mail", "list.data", "pool.wait.second"} -> 3
    [] label \in {"resend.incr", "reset.write", "address.clear", "page.write", "list.count", "pool.read"} -> 2
    [] label = "idle" -> 0
    [] OTHER -> 1

StatementsLeft(s) ==
  IF At(s, "intent.try") THEN 7 - call[s].tries
  ELSE IF At(s, "layout.try") THEN 4 - call[s].tries
  ELSE Left(pc[s])

(* No request waits or tries again without end: each step it takes, and    *)
(* any step that moves it, brings it nearer to its end.                    *)
RequestsAdvance ==
  [][\A s \in Session :
       Step(s) \/ (pc[s] # "idle" /\ pc'[s] # pc[s]) =>
         StatementsLeft(s)' \in 0..(StatementsLeft(s) - 1)]_vars
=============================================================================
