------------------------------- MODULE MCNode -------------------------------
(* Instances of NodeService and its invariant for TLC. *)
EXTENDS NodeInvariant

NoTime   == {}
OneTime  == {5}
Symmetry == Permutations(Node) \cup Permutations(Session)

(* What the steps read: with one organization to set up, none reads the    *)
(* setups so far, and none ever reads the audit row.                       *)
WithoutHistory == <<node, activity, org, used, irregular, requests>>
=============================================================================
