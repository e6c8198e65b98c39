---------------------------- MODULE NodeService ----------------------------
(***************************************************************************)
(* The factory node tree.  Every row has its parent and, redundantly, the  *)
(* ltree path of labels from a root down to it; moves rewrite the paths of *)
(* a whole subtree.  NodeService labels a node by its id; SetupService     *)
(* labels the three nodes of a new organization by the time.               *)
(*                                                                         *)
(* The first label of a path carries the prefix "root_", the others do     *)
(* not, so that labels at the same place compare as written here.          *)
(***************************************************************************)
EXTENDS Requests, SequencesExt, Integers

CONSTANTS
  Node,         \* identifiers of node rows
  Org,          \* organizations
  OldOrg,       \* those there at the start, their default nodes removed
  Name,         \* contents update may change
  Status,       \* "IDLE" and other statuses
  Time,         \* what Date.now() may return
  MaxDepth      \* bound on the labels of a path (ltree's own is 65535)

ASSUME NodeConstants ==
  /\ OldOrg \subseteq Org /\ "IDLE" \in Status
  /\ Time \subseteq Nat /\ MaxDepth \in Nat
  /\ NULL \notin Node /\ Node \cap {t + i : t \in Time, i \in 0..2} = {}

TimeLabel == {t + i : t \in Time, i \in 0..2}
Label == Node \cup TimeLabel
Path  == {p \in Seq(Label) : p # <<>>}

NodeRow ==
  [org : Org, name : Name, parent : Node \cup {NULL}, path : Path,
   status : Status, deleted : BOOLEAN]

(* The default nodes of an organization and the labels they were given.    *)
DefaultSetup ==
  [facility : Node, center : Node, station : Node, labels : [1..3 -> TimeLabel]]

(* A row is not mistaken for none.                                         *)
ASSUME NodeNull == NULL \notin NodeRow

(* What may go wrong with a request.  Another has, since this one read it, *)
(* "parent": removed the parent it puts a node under, "paths": given a row *)
(* it works on, or that row's descendants, other paths, or "children": put *)
(* a child under the node it removes.  "below": it moves a node below      *)
(* itself.                                                                 *)
Irregularity == {"parent", "paths", "children", "below"}

VARIABLES
  node,         \* the nodes table
  activity,     \* the nodes that activity_logs rows refer to
  org,          \* the organizations created so far
  used,         \* the identifiers drawn so far: a UUID is not drawn twice
  made,         \* the default setups so far: when each began is its own
  audit,        \* the log_traceability row of the last step, if it wrote one
  irregular     \* what has gone wrong with requests so far

vars == <<node, activity, org, used, made, audit, irregular, requests>>

Entry == [old : NodeRow \cup {NULL}, new : NodeRow \cup {NULL}]

NodeLabel ==
  {"create.insert", "create.audit", "update", "update.audit", "changeStatus",
   "move.parent", "move.update", "move.descendants", "move.commit",
   "delete.children", "delete.logs", "delete.hard", "delete.soft"}

(* org: the user's; node: the row; old: the row as it was read, NULL if it *)
(* was not; new: the row written; name: a new one; parent and path: where  *)
(* a move takes it; rows: the descendants it found.                        *)
NodeCall ==
  [org : Org, node : Node, old : NodeRow \cup {NULL}, new : NodeRow \cup {NULL},
   name : Name \cup {NULL}, parent : Node \cup {NULL}, path : Path \cup {NULL},
   rows : SUBSET Node]

TypeOK ==
  /\ node \in [Node -> NodeRow \cup {NULL}]
  /\ activity \subseteq Node
  /\ org \subseteq Org /\ used \subseteq Node /\ made \subseteq DefaultSetup
  /\ audit \in Entry \cup {NULL} /\ irregular \subseteq Irregularity
  /\ pc \in [Session -> {"idle"} \cup NodeLabel]
  /\ call \in [Session -> NodeCall \cup {NULL}]

Init ==
  /\ node = [n \in Node |-> NULL]
  /\ activity = {}
  /\ org = OldOrg /\ used = {} /\ made = {}
  /\ audit = NULL /\ irregular = {}
  /\ NoRequests

-----------------------------------------------------------------------------
(* Rows. *)

Live(n) == node[n] # NULL /\ ~node[n].deleted

(* Faulty variant: deleted rows are seen.                                   *)
VisibleOrDeleted(o, n) == node[n] # NULL /\ node[n].org = o

(* NodePolicy: the rows a user of organization o reads, updates, deletes.  *)
Visible(o, n) == Live(n) /\ node[n].org = o

Row(o, name, p, path, status) ==
  [org |-> o, name |-> name, parent |-> p, path |-> path, status |-> status,
   deleted |-> FALSE]

Call(o, n, old, new, name) ==
  [org |-> o, node |-> n, old |-> old, new |-> new, name |-> name,
   parent |-> NULL, path |-> NULL, rows |-> {}]

(* Faulty variant: the path of the parent, without the label of the child.  *)
ChildPathOfParent(n, p) == IF p = NULL THEN <<n>> ELSE node[p].path

ChildPath(n, p) == IF p = NULL THEN <<n>> ELSE Append(node[p].path, n)

(* Faulty variant: the first UPDATE of a move does not hold its row.        *)
LockedByNone(s) == {}

(* The row a transaction has locked: move, by its first UPDATE, until it   *)
(* commits.  Another UPDATE of that row waits.                             *)
Locked(s) ==
  IF pc[s] \in {"move.descendants", "move.commit"} THEN {call[s].node} ELSE {}
Free(s, n) == \A t \in Session \ {s} : n \notin Locked(t)

Unwritten == UNCHANGED <<node, activity, org, used, made>> /\ audit' = NULL

-----------------------------------------------------------------------------
(* What a request has read and relies on, as long as it is still so.       *)

(* Faulty variant: the paths of the descendants are not rewritten.          *)
UnderNone(n, old) == {}

(* path <@ old AND id != n, in every organization, deleted rows included.  *)
Under(n, old) == {m \in Node \ {n} : node[m] # NULL /\ IsPrefix(old, node[m].path)}

(* Faulty variant: deleted children are not told from live ones, and only   *)
(* deleted ones are found.                                                  *)
HasDeletedChildren(n) == \E m \in Node : node[m] # NULL /\ node[m].deleted /\ node[m].parent = n

HasChildren(n) == \E m \in Node : Live(m) /\ node[m].parent = n

Moving(s) == pc[s] \in {"move.parent", "move.update", "move.descendants", "move.commit"}
Placing(s) ==
  pc[s] \in {"create.insert", "move.update", "move.descendants", "move.commit"}
Removing(s) == pc[s] \in {"delete.logs", "delete.hard", "delete.soft"}

(* The parent and the path a request gives to its node.                    *)
Place(s) ==
  IF At(s, "create.insert")
  THEN [parent |-> call[s].new.parent, path |-> call[s].new.path]
  ELSE [parent |-> call[s].parent, path |-> call[s].path]

ParentStillLive(s) == Placing(s) /\ Place(s).parent # NULL => Live(Place(s).parent)

Fits(place, n) ==
  place.parent = NULL \/ node[place.parent] # NULL => place.path = ChildPath(n, place.parent)

PathsStillSo(s) == LET c == call[s] IN
  /\ Placing(s) => Fits(Place(s), c.node)
  /\ Moving(s) /\ node[c.node] # NULL => c.old.path = node[c.node].path
  /\ At(s, "move.commit") => Under(c.node, c.old.path) \subseteq c.rows

StillChildless(s) == Removing(s) => ~HasChildren(call[s].node)

StillSo(s) ==
  {k \in Irregularity : \/ k = "parent" /\ ParentStillLive(s)
                        \/ k = "paths" /\ PathsStillSo(s)
                        \/ k = "children" /\ StillChildless(s)}

(* The other requests that a step of s overtakes.                          *)
Overtakes(s) ==
  irregular' = irregular \cup UNION {StillSo(t) \ StillSo(t)' : t \in Session \ {s}}

(* TraceabilityService.recordChange.                                       *)
recordChange(old, new) == audit' = [old |-> old, new |-> new]

-----------------------------------------------------------------------------
(* create: read the parent (of any organization), insert, record.          *)

create(s, o, n, name, p, status) ==
  /\ At(s, "idle") /\ o \in org
  /\ n \notin used
  /\ p # NULL => Live(p) /\ Len(node[p].path) < MaxDepth
  /\ Goto(s, "create.insert",
          Call(o, n, NULL, Row(o, name, p, ChildPath(n, p), status), NULL))
  /\ used' = used \cup {n}
  /\ audit' = NULL
  /\ UNCHANGED <<node, activity, org, made, irregular>>

insertNode(s) ==
  /\ At(s, "create.insert")
  /\ node' = [node EXCEPT ![call[s].node] = call[s].new]
  /\ Goto(s, "create.audit", call[s])
  /\ audit' = NULL
  /\ UNCHANGED <<activity, org, used, made>>
  /\ Overtakes(s)

auditNode(s) ==
  /\ pc[s] \in {"create.audit", "update.audit"}
  /\ recordChange(call[s].old, call[s].new)
  /\ Return(s)
  /\ UNCHANGED <<node, activity, org, used, made, irregular>>

-----------------------------------------------------------------------------
(* update: read, UPDATE ... RETURNING, record: three statements.           *)

update(s, o, n, name) ==
  /\ At(s, "idle") /\ o \in org
  /\ Visible(o, n)
  /\ Goto(s, "update", Call(o, n, node[n], NULL, name))
  /\ Unwritten /\ UNCHANGED irregular

writeNode(s) ==
  LET n == call[s].node
      new == [node[n] EXCEPT !.name = call[s].name]
  IN
  /\ At(s, "update")
  /\ Free(s, n)
  /\ \/ ~Visible(call[s].org, n) /\ Return(s) /\ UNCHANGED node
     \/ /\ Visible(call[s].org, n)
        /\ node' = [node EXCEPT ![n] = new]
        /\ Goto(s, "update.audit", [call[s] EXCEPT !.new = new])
  /\ audit' = NULL
  /\ UNCHANGED <<activity, org, used, made, irregular>>

-----------------------------------------------------------------------------
(* changeStatus: a transaction begins and the policy is asked; then        *)
(* .forUpdate(), which the query builder of drizzle-orm 0.45.1 does not    *)
(* have, throws a TypeError, the transaction rolls back, and no row is     *)
(* read, locked or changed.                                                *)

changeStatus(s, o, n) ==
  /\ At(s, "idle") /\ o \in org
  /\ Goto(s, "changeStatus", Call(o, n, NULL, NULL, NULL))
  /\ Unwritten /\ UNCHANGED irregular

forUpdate(s) ==
  /\ At(s, "changeStatus")
  /\ Return(s)
  /\ Unwritten /\ UNCHANGED irregular

(* TraceabilityService.create: an activity_logs row that refers to a node. *)
recordActivity(s, n) ==
  /\ At(s, "idle")
  /\ node[n] # NULL
  /\ activity' = activity \cup {n}
  /\ audit' = NULL
  /\ UNCHANGED <<node, org, used, made, irregular, requests>>

-----------------------------------------------------------------------------
(* move: read the node and its new parent, rewrite the node, record, and   *)
(* rewrite the paths under the path the node was read with.                *)

move(s, o, n, p) ==
  /\ At(s, "idle") /\ o \in org
  /\ Visible(o, n)
  /\ Goto(s, IF p = NULL THEN "move.update" ELSE "move.parent",
          [Call(o, n, node[n], NULL, NULL) EXCEPT !.parent = p, !.path = <<n>>])
  /\ Unwritten /\ UNCHANGED irregular

(* Nothing keeps the new parent from being the node or one below it.       *)
readNewParent(s) ==
  LET p == call[s].parent
      below == IsPrefix(call[s].old.path, node[p].path)
  IN
  /\ At(s, "move.parent")
  /\ \/ ~Visible(call[s].org, p) /\ Return(s) /\ UNCHANGED irregular
     \/ /\ Visible(call[s].org, p) /\ Len(node[p].path) < MaxDepth
        /\ Goto(s, "move.update", [call[s] EXCEPT !.path = ChildPath(call[s].node, p)])
        /\ irregular' = irregular \cup (IF below THEN {"below"} ELSE {})
  /\ Unwritten

(* The first UPDATE locks the row; when no row matches, updated.id throws. *)
lockMoved(s) ==
  /\ At(s, "move.update")
  /\ Free(s, call[s].node)
  /\ \/ ~Visible(call[s].org, call[s].node) /\ Return(s)
     \/ Visible(call[s].org, call[s].node) /\ Goto(s, "move.descendants", call[s])
  /\ Unwritten /\ UNCHANGED irregular

(* The second UPDATE begins: it finds the rows it will write.              *)
findDescendants(s) ==
  /\ At(s, "move.descendants")
  /\ Goto(s, "move.commit",
          [call[s] EXCEPT !.rows = Under(call[s].node, call[s].old.path)])
  /\ Unwritten /\ UNCHANGED irregular

(* Faulty variant: the label of the moved node itself is kept.              *)
RebasedTwice(path, old, new) == new \o SubSeq(path, Len(old), Len(path))

(* newPath || subpath(path, nlevel(old)).                                  *)
Rebased(path, old, new) == new \o SubSeq(path, Len(old) + 1, Len(path))

(* It waits for those that are locked, writes those still below, and the   *)
(* transaction commits.  subpath() raises an error when nothing is left of *)
(* the path: no other node has the path the moved one had, since its last  *)
(* label is its own.                                                       *)
commitMove(s) ==
  LET n     == call[s].node
      old   == call[s].old.path
      new   == call[s].path
      moved == [node[n] EXCEPT !.parent = call[s].parent, !.path = new]
      below == call[s].rows \cap Under(n, old)
  IN
  /\ At(s, "move.commit")
  /\ \A m \in below : Free(s, m)
  /\ \A m \in below : Len(Rebased(node[m].path, old, new)) <= MaxDepth
  /\ node' = [m \in Node |->
                IF m = n THEN moved
                ELSE IF m \in below
                THEN [node[m] EXCEPT !.path = Rebased(node[m].path, old, new)]
                ELSE node[m]]
  /\ recordChange(call[s].old, moved)
  /\ Return(s)
  /\ UNCHANGED <<activity, org, used, made>>
  /\ Overtakes(s)

-----------------------------------------------------------------------------
(* delete: read the node, look for children (no code creates execution     *)
(* jobs, the second check), look for activity logs, and remove the row or  *)
(* mark it deleted.                                                        *)

delete(s, o, n) ==
  /\ At(s, "idle") /\ o \in org
  /\ Visible(o, n)
  /\ Goto(s, "delete.children",
          Call(o, n, node[n], NULL, NULL))
  /\ Unwritten /\ UNCHANGED irregular

checkChildren(s) ==
  /\ At(s, "delete.children")
  /\ \/ HasChildren(call[s].node) /\ Return(s)
     \/ ~HasChildren(call[s].node) /\ Goto(s, "delete.logs", call[s])
  /\ Unwritten /\ UNCHANGED irregular

readLogs(s) ==
  /\ At(s, "delete.logs")
  /\ Goto(s, IF call[s].node \notin activity /\ call[s].old.status = "IDLE"
             THEN "delete.hard" ELSE "delete.soft", call[s])
  /\ Unwritten /\ UNCHANGED irregular

(* DELETE.  A row that is still referenced by activity_logs is refused.    *)
hardDelete(s) ==
  LET n == call[s].node
      found == Visible(call[s].org, n)
  IN
  /\ At(s, "delete.hard")
  /\ Free(s, n)
  /\ \/ found /\ n \in activity /\ Unwritten
     \/ /\ found => n \notin activity
        /\ node' = [node EXCEPT ![n] = IF found THEN NULL ELSE @]
        /\ recordChange(call[s].old, NULL)
        /\ UNCHANGED <<activity, org, used, made>>
  /\ Return(s)
  /\ Overtakes(s)

softDelete(s) ==
  LET n == call[s].node
      found == Visible(call[s].org, n)
      new == [node[n] EXCEPT !.deleted = TRUE]
  IN
  /\ At(s, "delete.soft")
  /\ Free(s, n)
  /\ node' = IF found THEN [node EXCEPT ![n] = new] ELSE node
  /\ recordChange(call[s].old, IF found THEN new ELSE NULL)
  /\ Return(s)
  /\ UNCHANGED <<activity, org, used, made>>
  /\ Overtakes(s)

-----------------------------------------------------------------------------
(* SetupService.createDefaultSetup, in the transaction that creates the    *)
(* organization: a facility, a work center below it, a work station below  *)
(* that.  Date.now() is called before each INSERT.  Two organizations are  *)
(* taken not to be created in the same millisecond (FreshTime).            *)

FreshTime(t) == \A d \in made : d.labels[1] # t

createDefaultSetup(s, o, facility, center, station, t1, t2, t3, name) ==
  LET path1 == <<t1>>
      path2 == Append(path1, t2 + 1)
      path3 == Append(path2, t3 + 2)
  IN
  /\ At(s, "idle") /\ o \notin org
  /\ {facility, center, station} \cap used = {}
  /\ facility # center /\ station \notin {facility, center}
  /\ t1 <= t2 /\ t2 <= t3 /\ FreshTime(t1)
  /\ org' = org \cup {o}
  /\ used' = used \cup {facility, center, station}
  /\ made' = made \cup {[facility |-> facility, center |-> center, station |-> station,
                          labels |-> path3]}
  /\ node' = [node EXCEPT ![facility] = Row(o, name, NULL, path1, "IDLE"),
                          ![center]   = Row(o, name, facility, path2, "IDLE"),
                          ![station]  = Row(o, name, center, path3, "IDLE")]
  /\ audit' = NULL
  /\ UNCHANGED <<activity, requests>>
  /\ Overtakes(s)

-----------------------------------------------------------------------------

Fail(s) == Abort(s) /\ Unwritten /\ UNCHANGED irregular

Setup(s) ==
  \E o \in Org, f, c, w \in Node, t1, t2, t3 \in Time, name \in Name :
    createDefaultSetup(s, o, f, c, w, t1, t2, t3, name)

Step(s) ==
  \/ insertNode(s) \/ auditNode(s) \/ writeNode(s) \/ forUpdate(s)
  \/ readNewParent(s) \/ lockMoved(s) \/ findDescendants(s) \/ commitMove(s)
  \/ checkChildren(s) \/ readLogs(s) \/ hardDelete(s) \/ softDelete(s)

OtherRequest(s) ==
  \E o \in Org, n \in Node :
    \/ \E p \in Node \cup {NULL}, name \in Name, status \in Status :
         create(s, o, n, name, p, status)
    \/ \E name \in Name : update(s, o, n, name)
    \/ changeStatus(s, o, n)
    \/ recordActivity(s, n)
    \/ delete(s, o, n)

Move(s) == \E o \in Org, n \in Node, p \in Node \cup {NULL} : move(s, o, n, p)

Next == \E s \in Session : Setup(s) \/ OtherRequest(s) \/ Move(s) \/ Step(s) \/ Fail(s)

Spec == Init /\ [][Next]_vars

-----------------------------------------------------------------------------
(* Properties. *)

(* update, move, delete: a deleted node is never brought back, renamed,    *)
(* moved elsewhere or removed for good; only its path follows the          *)
(* ancestors it had.                                                       *)
DeletedStaysDeleted ==
  [][\A n \in Node :
       node[n] # NULL /\ node[n].deleted =>
         /\ node'[n] # NULL
         /\ [node'[n] EXCEPT !.path = node[n].path] = node[n]]_vars

(* 'Cannot delete node with active children': the parent of a live node is *)
(* a live node, unless a parent was removed between a request's look at it *)
(* and its write, or a child put there between the check for children and  *)
(* the removal.                                                            *)
ParentsLive ==
  irregular \cap {"parent", "children"} = {} =>
    \A n \in Node : Live(n) /\ node[n].parent # NULL => Live(node[n].parent)

(* The path of a live node is its parent's with one more label, and the    *)
(* path of a root is a single label ('Update all descendants' paths'),     *)
(* however requests overlap, unless a path changed, or a row came below    *)
(* it, between a request's read of it and its write, or a node was moved   *)
(* below itself.                                                           *)
PathsFollow ==
  irregular \cap {"paths", "below"} = {} =>
    \A n \in Node : Live(n) =>
      LET p == node[n].parent IN
      /\ p = NULL => Len(node[n].path) = 1
      /\ p # NULL /\ node[p] # NULL => node[p].path = Front(node[n].path)

(* 'Parent node ID (for hierarchy)': no node is above itself.              *)
Hierarchy ==
  ~\E C \in SUBSET Node : C # {} /\ \A n \in C : Live(n) /\ node[n].parent \in C

(* Moves that make a node its own ancestor are of those two kinds only: a  *)
(* move below itself as the tree was read, or one that another's move      *)
(* overtook.                                                               *)
HierarchyKept == irregular \cap {"paths", "below"} = {} => Hierarchy

(* move: no two rows have the same path, whatever is done at the same      *)
(* time, so that a path names one subtree and nothing else is rewritten.   *)
PathsDistinct ==
  \A n, m \in Node : n # m /\ node[n] # NULL /\ node[m] # NULL => node[n].path # node[m].path
=============================================================================
