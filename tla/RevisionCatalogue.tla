------------------------- MODULE RevisionCatalogue -------------------------
(***************************************************************************)
(* What the BOM service promises of the numbers of revisions, whatever     *)
(* statements it takes: a revision enters the catalogue once and keeps its *)
(* product and version; its number is above all of its product's, or the   *)
(* next in the series of one major number.  The entries named irregular    *)
(* are numbered as they come.                                              *)
(***************************************************************************)
EXTENDS BomVersions

CONSTANTS Product, Revision, NULL

VARIABLES entry, irregular

Catalogued(p) ==
  {entry[r].version : r \in {q \in Revision : entry[q] # NULL /\ entry[q].product = p}}

Highest(p, v) == \A w \in Catalogued(p) : compareVersions(v, w) > 0

NextInSeries(p, v) ==
  /\ \E w \in Catalogued(p) : w.major = v.major
  /\ \A w \in Catalogued(p) : w.major = v.major => v.minor > w.minor

Init == entry = [r \in Revision |-> NULL] /\ irregular = {}

Enter(r) == LET new == entry'[r] IN
  /\ entry[r] = NULL
  /\ new.product \in Product /\ new.version \in Version
  /\ entry' = [entry EXCEPT ![r] = [product |-> new.product, version |-> new.version]]
  /\ \/ Highest(new.product, new.version) /\ UNCHANGED irregular
     \/ NextInSeries(new.product, new.version) /\ UNCHANGED irregular
     \/ irregular' = irregular \cup {r}

(* TLC and the proof evaluate it on steps that are given: entry' is known. *)
Next == \E r \in Revision : entry'[r] # entry[r] /\ Enter(r)

Spec == Init /\ [][Next]_<<entry, irregular>>
=============================================================================
