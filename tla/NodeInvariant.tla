--------------------------- MODULE NodeInvariant ---------------------------
(***************************************************************************)
(* The inductive invariant of NodeService, as far as rows and their locks  *)
(* go: what a request knows of the row it works on, and why nobody else    *)
(* changes that row meanwhile.                                             *)
(***************************************************************************)
EXTENDS NodeService

(* Steps of a request that has its row to itself: the row is not inserted  *)
(* yet, or it is locked.                                                   *)
Holding(s) == pc[s] \in {"create.insert", "move.descendants", "move.commit"}

RequestOK(s) == LET c == call[s] IN
  /\ pc[s] # "idle" => c \in NodeCall
  /\ pc[s] = "create.insert" =>
       c.new \in NodeRow /\ c.node \in used /\ node[c.node] = NULL
  /\ pc[s] = "update" => c.name \in Name
  /\ Moving(s) => c.old \in NodeRow /\ c.path \in Path
  /\ pc[s] = "move.parent" => c.parent # NULL
  /\ pc[s] \in {"move.descendants", "move.commit"} => Live(c.node)

RequestsOK == \A s \in Session : RequestOK(s)

HoldersDistinct ==
  \A s, t \in Session :
    s # t /\ Holding(s) /\ Holding(t) => call[s].node # call[t].node

(* No row has an identifier nobody has drawn. *)
FreshRows == \A n \in Node \ used : node[n] = NULL

(* The inductive invariant of rows and locks. *)
IInv == TypeOK /\ RequestsOK /\ HoldersDistinct /\ FreshRows

-----------------------------------------------------------------------------
(* Paths.  The last label of a path tells whose it is.  That of a default  *)
(* node is a time, and two setups may have been given the same one: there  *)
(* the label before it decides, the identifier of the node above once that *)
(* was moved, its own label until then.                                    *)

FacilityPath(d, p) == Len(p) = 1 /\ p[1] = d.labels[1]
AtFacility(d, p)   == Last(p) = d.facility \/ FacilityPath(d, p)
CenterPath(d, p)   == Len(p) > 1 /\ Last(p) = d.labels[2] /\ AtFacility(d, Front(p))
AtCenter(d, p)     == Last(p) = d.center \/ CenterPath(d, p)
StationPath(d, p)  == Len(p) > 1 /\ Last(p) = d.labels[3] /\ AtCenter(d, Front(p))

PathOf(D, n, p) ==
  \/ Last(p) = n
  \/ \E d \in D :
       \/ n = d.facility /\ FacilityPath(d, p)
       \/ n = d.center /\ CenterPath(d, p)
       \/ n = d.station /\ StationPath(d, p)

Defaults(d) == {d.facility, d.center, d.station}

SetupsApart ==
  /\ \A d \in made : Defaults(d) \subseteq used /\ d.facility # d.center
  /\ \A d, e \in made : d # e => /\ Defaults(d) \cap Defaults(e) = {}
                               /\ d.labels[1] # e.labels[1]

RowsPlaced == \A n \in Node : node[n] # NULL => PathOf(made, n, node[n].path)

RequestPlaced(s) == LET c == call[s] IN
  /\ pc[s] = "create.insert" => PathOf(made, c.node, c.new.path)
  /\ Moving(s) => PathOf(made, c.node, c.old.path) /\ Last(c.path) = c.node

(* The inductive invariant of paths, on top of the first.                  *)
Placed == SetupsApart /\ RowsPlaced /\ \A s \in Session : RequestPlaced(s)

-----------------------------------------------------------------------------
(* The shape of the tree.  What a request has read is still so, unless     *)
(* another has overtaken it; so what it writes then fits.                  *)

Informed(s) ==
  /\ "parent" \in irregular \/ ParentStillLive(s)
  /\ "paths" \in irregular \/ PathsStillSo(s)
  /\ "children" \in irregular \/ StillChildless(s)

Beside(s) ==
  Moving(s) /\ Placing(s) /\ call[s].parent # NULL =>
    "below" \in irregular \/ ~IsPrefix(call[s].old.path, Front(call[s].path))

(* A parent, even when its row is gone, has had one: no row inserted later *)
(* has its identifier.                                                     *)
Born(n) == n \in used /\ \A s \in Session : At(s, "create.insert") => call[s].node # n

ParentsBorn ==
  /\ \A n \in Node : node[n] # NULL /\ node[n].parent # NULL => Born(node[n].parent)
  /\ \A s \in Session : Placing(s) /\ Place(s).parent # NULL => Born(Place(s).parent)

Tree ==
  ParentsLive /\ PathsFollow /\ ParentsBorn /\ \A s \in Session : Informed(s) /\ Beside(s)
=============================================================================
