------------------------------- MODULE MCCore -------------------------------
(* Instances of MesCore for TLC: the operations of all services about one  *)
(* revision, and the numbering of several.                                 *)
EXTENDS MesCoreInvariant, FiniteSets, TLC

Nine  == {Plain(9, 0)}
Typed == Nine \cup {[zeros |-> 1, major |-> 1, minor |-> 0]}

VARIABLE part

Drawn == {r \in Revision : ~Fresh(r)}

(* It keeps requests from being made, and never one from going on.         *)
InPart ==
  CASE part = "services" -> Cardinality(Drawn) <= 1
    [] part = "numbers"  -> \A s \in Session : pc[s] \notin {"transaction", "product.update"}

PartsInit == Init /\ part \in {"services", "numbers"}
PartsNext == Next /\ UNCHANGED part /\ InPart'
PartsSpec == PartsInit /\ [][PartsNext]_<<vars, part>>

Symmetry == Permutations(Session) \cup Permutations(Revision) \cup Permutations(Name)
=============================================================================
