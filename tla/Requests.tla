------------------------------ MODULE Requests ------------------------------
(***************************************************************************)
(* Requests in flight, for the services that keep no row locks of their    *)
(* own modelling.  A request is one HTTP call (or event, or job) being     *)
(* served; it stops at every await, and any other may run there.           *)
(***************************************************************************)
CONSTANTS
  Session,      \* requests that may be in flight at the same time
  NULL          \* absent row, column or local

VARIABLES
  pc,           \* the label of the statement each request runs next
  call          \* its arguments and locals, NULL when it is not being served

requests == <<pc, call>>

NoRequests ==
  /\ pc   = [s \in Session |-> "idle"]
  /\ call = [s \in Session |-> NULL]

At(s, label) == pc[s] = label

Goto(s, label, c) ==
  /\ pc' = [pc EXCEPT ![s] = label]
  /\ call' = [call EXCEPT ![s] = c]

(* The response, or an error, is sent. *)
Return(s) ==
  /\ pc' = [pc EXCEPT ![s] = "idle"]
  /\ call' = [call EXCEPT ![s] = NULL]

(* The process stops, or the statement in course fails: what the request   *)
(* has committed stays.                                                    *)
Abort(s) == pc[s] # "idle" /\ Return(s)

-----------------------------------------------------------------------------
(* Lemmas on which the proofs about the services rest. *)

(* What a step of request s leaves to the others. *)
Others(s) == \A t \in Session \ {s} : pc'[t] = pc[t] /\ call'[t] = call[t]

Shape ==
  pc = [s \in Session |-> pc[s]] /\ call = [s \in Session |-> call[s]]

(* Going on to another statement. *)
LEMMA GotoEffect ==
  ASSUME Shape, NEW s \in Session, NEW l, NEW c, Goto(s, l, c)
  PROVE  Shape' /\ pc'[s] = l /\ call'[s] = c /\ Others(s)
BY DEF Shape, Goto, Others

(* Ending. *)
LEMMA ReturnEffect ==
  ASSUME Shape, NEW s \in Session, Return(s)
  PROVE  Shape' /\ pc'[s] = "idle" /\ call'[s] = NULL /\ Others(s)
BY DEF Shape, Return, Others
=============================================================================
