---------------------------- MODULE VibeService ----------------------------
(***************************************************************************)
(* Layouts generated by a language model, with the counter of refused      *)
(* prompts that blocks a user; and the pages kept of them, with their      *)
(* audit rows.                                                             *)
(***************************************************************************)
EXTENDS Requests, Naturals

CONSTANTS
  Author, Page,
  Strikes,      \* 3: refused prompts per block of ten minutes
  HardLock      \* 20: refused prompts until the block is permanent

VARIABLES
  vibe,         \* vibe columns of users: [failCount, blocked]
  vibePages,    \* rows of vibe_pages: the creator
  audit,        \* <<page, action>> of the rows of log_traceability
  refused,      \* history: refusals written since the last accepted prompt
  overlapped,   \* history: users who had two prompts judged at a time
  made, untold  \* history: pages ever; audit rows that failed

vibe_vars == <<vibe, vibePages, audit, refused, overlapped, made, untold>>
prompts   == <<vibe, refused, overlapped>>
pages     == <<vibePages, audit, made, untold>>

VibeInit ==
  /\ vibe = [u \in Author |-> [failCount |-> 0, blocked |-> "no"]]
  /\ vibePages = [p \in Page |-> NULL]
  /\ audit = {} /\ made = {} /\ untold = {}
  /\ refused = [u \in Author |-> 0]
  /\ overlapped = {}

-----------------------------------------------------------------------------
(* generateLayout. *)

Judging(u) == {s \in Session :
  pc[s] \in {"intent.try", "failure.write", "success.write"} /\ call[s].user = u}

generateLayout(s, u) ==
  /\ At(s, "idle")
  /\ vibe[u].blocked = "no"
  /\ Goto(s, "intent.try", [user |-> u, row |-> vibe[u], tries |-> 1])
  /\ overlapped' = IF Judging(u) = {} THEN overlapped ELSE overlapped \cup {u}
  /\ UNCHANGED <<vibe, refused, pages>>

(* What the model answers: a verdict, or an error that may pass.           *)
(* validateIntent tries twice; a judge that cannot answer accepts.         *)
validateIntent(s, outcome) ==
  /\ At(s, "intent.try")
  /\ CASE outcome = "refused" -> Goto(s, "failure.write", call[s])
       [] outcome = "busy" /\ call[s].tries < 2 ->
            Goto(s, "intent.try", [call[s] EXCEPT !.tries = @ + 1])
       [] OTHER -> Goto(s, "success.write", call[s])
  /\ UNCHANGED vibe_vars

(* Faulty variant: the hard lock comes one refusal late.                   *)
BlockAfterLate(n, row) ==
  IF n > HardLock THEN "permanent" ELSE IF n % Strikes = 0 THEN "minutes" ELSE row.blocked

(* The count after the row read before the judgement.                      *)
BlockAfter(n, row) ==
  IF n >= HardLock THEN "permanent" ELSE IF n % Strikes = 0 THEN "minutes" ELSE row.blocked

recordFailure(s) ==
  LET u == call[s].user  row == call[s].row IN
  /\ At(s, "failure.write")
  /\ vibe' = [vibe EXCEPT ![u] = [failCount |-> row.failCount + 1,
                                  blocked   |-> BlockAfter(row.failCount + 1, row)]]
  /\ refused' = [refused EXCEPT ![u] = IF @ < HardLock THEN @ + 1 ELSE @]
  /\ Return(s)
  /\ UNCHANGED <<overlapped, pages>>

resetFailures(s) ==
  LET u == call[s].user IN
  /\ At(s, "success.write")
  /\ vibe' = [vibe EXCEPT ![u] = [failCount |-> 0, blocked |-> "no"]]
  /\ refused' = [refused EXCEPT ![u] = 0]
  /\ Goto(s, "layout.try", [call[s] EXCEPT !.tries = 1])
  /\ UNCHANGED <<overlapped, pages>>

(* VibeProvider.generateLayout: three tries while the model is busy.  A    *)
(* layout, text without one, a forbidden term or another error ends it.    *)
(* Faulty variant: it is tried again as long as the model is busy.         *)
requestLayoutAgain(s, outcome) ==
  /\ At(s, "layout.try")
  /\ IF outcome = "busy" THEN Goto(s, "layout.try", call[s]) ELSE Return(s)
  /\ UNCHANGED vibe_vars

requestLayout(s, outcome) ==
  /\ At(s, "layout.try")
  /\ IF outcome = "busy" /\ call[s].tries < 3
       THEN Goto(s, "layout.try", [call[s] EXCEPT !.tries = @ + 1])
       ELSE Return(s)
  /\ UNCHANGED vibe_vars

(* Ten minutes pass.                                                       *)
blockEnds(u) ==
  /\ vibe[u].blocked = "minutes"
  /\ vibe' = [vibe EXCEPT ![u].blocked = "no"]
  /\ UNCHANGED <<refused, overlapped, pages, requests>>

-----------------------------------------------------------------------------
(* Pages: one statement, then the audit row in another. *)

createPage(s, u) ==
  /\ At(s, "idle")
  /\ \E p \in Page \ made :
       /\ vibePages' = [vibePages EXCEPT ![p] = u]
       /\ made' = made \cup {p}
       /\ Goto(s, "page.audit", [page |-> p, action |-> "INSERT"])
  /\ UNCHANGED <<audit, untold, prompts>>

(* canWriteRecord: by the creator only.                                    *)
changePage(s, u, p, action) ==
  /\ At(s, "idle")
  /\ vibePages[p] = u
  /\ Goto(s, "page.write", [page |-> p, action |-> action, by |-> u, creator |-> vibePages[p]])
  /\ UNCHANGED vibe_vars

(* Faulty variant: the page is inserted when it is gone.                   *)
upsertPage(s) ==
  LET p == call[s].page IN
  /\ At(s, "page.write") /\ call[s].action = "UPDATE"
  /\ vibePages' = [vibePages EXCEPT ![p] = call[s].creator]
  /\ Goto(s, "page.audit", call[s])
  /\ UNCHANGED <<audit, made, untold, prompts>>

(* updatePage of a page that is gone fails on the row it did not get.      *)
updatePage(s) ==
  LET p == call[s].page IN
  /\ At(s, "page.write") /\ call[s].action = "UPDATE"
  /\ \/ vibePages[p] = NULL /\ Return(s) /\ UNCHANGED vibePages
     \/ /\ vibePages[p] # NULL
        /\ vibePages' = [vibePages EXCEPT ![p] = call[s].creator]
        /\ Goto(s, "page.audit", call[s])
  /\ UNCHANGED <<audit, made, untold, prompts>>

deletePage(s) ==
  /\ At(s, "page.write") /\ call[s].action = "DELETE"
  /\ vibePages' = [vibePages EXCEPT ![call[s].page] = NULL]
  /\ Goto(s, "page.audit", call[s])
  /\ UNCHANGED <<audit, made, untold, prompts>>

recordChange(s) ==
  /\ At(s, "page.audit")
  /\ audit' = audit \cup {<<call[s].page, call[s].action>>}
  /\ Return(s)
  /\ UNCHANGED <<vibePages, made, untold, prompts>>

(* A statement fails; no transaction undoes the one before.                *)
vibeFails(s) ==
  /\ Abort(s)
  /\ untold' = untold \cup (IF At(s, "page.audit") THEN {<<call[s].page, call[s].action>>} ELSE {})
  /\ UNCHANGED <<vibePages, audit, made, prompts>>

-----------------------------------------------------------------------------

VibeStep(s) ==
  \/ \E outcome \in {"accepted", "refused", "busy", "error"} : validateIntent(s, outcome)
  \/ \E outcome \in {"layout", "busy", "error"} : requestLayout(s, outcome)
  \/ recordFailure(s) \/ resetFailures(s)
  \/ updatePage(s) \/ deletePage(s) \/ recordChange(s) \/ vibeFails(s)

PromptsNext ==
  \/ \E s \in Session : VibeStep(s) \/ \E u \in Author : generateLayout(s, u)
  \/ \E u \in Author : blockEnds(u)

PagesNext ==
  \E s \in Session :
    \/ VibeStep(s)
    \/ \E u \in Author :
         \/ createPage(s, u)
         \/ \E p \in Page, action \in {"UPDATE", "DELETE"} : changePage(s, u, p, action)

-----------------------------------------------------------------------------
(* Properties. *)

(* The strikes of generateLayout: the counter is the number of refusals    *)
(* since the last accepted prompt, and HardLock of them block for good,    *)
(* unless prompts of the user were judged at the same time, each from the  *)
(* row it had read before; that alone can hide refusals or lift the block. *)
FailuresCounted ==
  \A u \in Author \ overlapped :
    /\ vibe[u].failCount = refused[u]
    /\ refused[u] >= HardLock => vibe[u].blocked = "permanent"

(* A page that is there was created with its audit row and, deleted, stays *)
(* so with the row of that; the rows are written, about to be, or failed.  *)
PageTrail ==
  LET Told(p, action) ==
        \/ <<p, action>> \in audit \cup untold
        \/ \E s \in Session : At(s, "page.audit") /\ call[s].page = p /\ call[s].action = action
  IN
  \A p \in made :
    /\ Told(p, "INSERT")
    /\ IF vibePages[p] = NULL THEN Told(p, "DELETE") ELSE <<p, "DELETE">> \notin audit \cup untold
=============================================================================
