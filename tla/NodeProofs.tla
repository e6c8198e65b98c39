----------------------------- MODULE NodeProofs -----------------------------
(***************************************************************************)
(* Proofs about NodeService for every number of requests, nodes and        *)
(* organizations, and every depth.                                         *)
(***************************************************************************)
EXTENDS NodeInvariant, TLAPS, SequenceTheorems

-----------------------------------------------------------------------------
(* Paths. *)

LEMMA SingleIsPath ==
  ASSUME NEW l \in Label
  PROVE  <<l>> \in Path
BY DEF Path

LEMMA AppendIsPath ==
  ASSUME NEW p \in Path, NEW l \in Label
  PROVE  Append(p, l) \in Path
<1>1. p \in Seq(Label)
  BY DEF Path
<1>2. Append(p, l) \in Seq(Label) /\ Len(Append(p, l)) = Len(p) + 1 /\ Len(p) \in Nat
  BY <1>1, AppendProperties
<1>3. Append(p, l) # <<>>
  BY <1>2
<1> QED BY <1>2, <1>3 DEF Path

(* The labels of a default setup, and the path of its station.             *)
LEMMA TimeLabels ==
  ASSUME NEW t1 \in Time, NEW t2 \in Time, NEW t3 \in Time
  PROVE  t1 \in TimeLabel /\ t2 + 1 \in TimeLabel /\ t3 + 2 \in TimeLabel
<1>1. t1 + 0 \in TimeLabel /\ t1 + 0 = t1
  BY NodeConstants DEF TimeLabel
<1> QED BY <1>1 DEF TimeLabel

LEMMA SetupLabels ==
  ASSUME NEW l1 \in TimeLabel, NEW l2 \in TimeLabel, NEW l3 \in TimeLabel
  PROVE  Append(Append(<<l1>>, l2), l3) \in [1..3 -> TimeLabel]
<1>1. <<l1>> \in Seq(TimeLabel) /\ Len(<<l1>>) = 1
  OBVIOUS
<1>2. Append(<<l1>>, l2) \in Seq(TimeLabel) /\ Len(Append(<<l1>>, l2)) = 2
  BY <1>1, AppendProperties
<1>3. Append(Append(<<l1>>, l2), l3) \in Seq(TimeLabel) /\ Len(Append(Append(<<l1>>, l2), l3)) = 3
  BY <1>2, AppendProperties
<1> QED BY <1>3, LenProperties

(* A path moved below another is a path. *)
LEMMA RebasedIsPath ==
  ASSUME NEW p \in Path, NEW old \in Path, NEW new \in Path
  PROVE  Rebased(p, old, new) \in Path
<1> DEFINE rest == SubSeq(p, Len(old) + 1, Len(p))
<1>1. /\ p \in Seq(Label) /\ old \in Seq(Label) /\ new \in Seq(Label) /\ new # <<>>
      /\ Len(p) \in Nat /\ Len(old) \in Nat
  BY DEF Path
<1>2. rest \in Seq(Label)
  <2>1. \A i \in Len(old) + 1 .. Len(p) : p[i] \in Label
    BY <1>1
  <2> QED BY <1>1, <2>1, SubSeqProperties
<1> HIDE DEF rest
<1>3. new \o rest \in Seq(Label) /\ new \o rest # <<>>
  BY <1>1, <1>2, ConcatProperties, ConcatEqualIffEmpty
<1> QED BY <1>3 DEF Rebased, Path, rest

(* The path of a child of a row of the table is a path. *)
LEMMA ChildIsPath ==
  ASSUME TypeOK, NEW n \in Node, NEW p \in Node \cup {NULL}, p # NULL => node[p] # NULL
  PROVE  ChildPath(n, p) \in Path
<1>1. n \in Label
  BY DEF Label
<1>2. p # NULL => node[p].path \in Path
  BY DEF TypeOK, NodeRow
<1> QED BY <1>1, <1>2, SingleIsPath, AppendIsPath DEF ChildPath

-----------------------------------------------------------------------------
(* What the other requests rely on: the row they hold. *)

Respects(t) == Holding(t) => node'[call[t].node] = node[call[t].node]

LEMMA RequestKept ==
  ASSUME NEW t \in Session, RequestOK(t), Respects(t), used \subseteq used',
         UNCHANGED <<pc[t], call[t]>>
  PROVE  RequestOK(t)'
BY DEF RequestOK, Moving, Respects, Holding, Live

(* What a step of request s has to show. *)
StepOK(s) ==
  /\ Shape' /\ Others(s) /\ TypeOK' /\ FreshRows' /\ RequestOK(s)' /\ used \subseteq used'
  /\ \A t \in Session \ {s} : Respects(t)
  /\ Holding(s)' => \A t \in Session \ {s} : Holding(t) => call[t].node # call'[s].node

LEMMA StepKeeps ==
  ASSUME IInv, NEW s \in Session, StepOK(s)
  PROVE  IInv'
<1>1. \A t \in Session \ {s} : RequestOK(t)'
  BY RequestKept DEF IInv, RequestsOK, StepOK, Others
<1>2. HoldersDistinct'
  BY DEF IInv, HoldersDistinct, StepOK, Others, Holding
<1> QED BY <1>1, <1>2 DEF IInv, StepOK, RequestsOK

(* A row that nobody has locked and that is not being inserted.            *)
LEMMA FreeIsUnheld ==
  ASSUME IInv, NEW s \in Session, NEW n \in Node, node[n] # NULL, Free(s, n)
  PROVE  \A t \in Session \ {s} : Holding(t) => call[t].node # n
BY DEF IInv, RequestsOK, RequestOK, Free, Locked, Holding

LEMMA LabelsKept ==
  ASSUME TypeOK, NEW s \in Session, Others(s), Shape',
         \/ pc'[s] = "idle" /\ call'[s] = NULL
         \/ pc'[s] \in NodeLabel /\ call'[s] \in NodeCall
  PROVE  pc' \in [Session -> {"idle"} \cup NodeLabel] /\ call' \in [Session -> NodeCall \cup {NULL}]
BY DEF TypeOK, Others, Shape

LEMMA OvertakesTyped ==
  ASSUME TypeOK, NEW s \in Session, Overtakes(s)
  PROVE  irregular' \subseteq Irregularity
BY DEF TypeOK, Overtakes, StillSo

LEMMA TypedShape ==
  ASSUME TypeOK
  PROVE  Shape
BY DEF TypeOK, Shape

(* A step that writes no node. *)
LEMMA NodesUnwritten ==
  ASSUME IInv, NEW s \in Session, Others(s), Shape', RequestOK(s)',
         \/ pc'[s] = "idle" /\ call'[s] = NULL
         \/ pc'[s] \in NodeLabel /\ call'[s] \in NodeCall,
         UNCHANGED <<node, org, made>>, used \subseteq used', used' \subseteq Node,
         activity' \subseteq Node, audit' \in Entry \cup {NULL}, irregular' \subseteq Irregularity,
         Holding(s)' => \A t \in Session \ {s} : Holding(t) => call[t].node # call'[s].node
  PROVE  IInv'
<1>1. TypeOK'
  BY LabelsKept DEF IInv, TypeOK
<1>2. FreshRows' /\ \A t \in Session \ {s} : Respects(t)
  BY DEF IInv, FreshRows, Respects
<1> QED BY <1>1, <1>2, StepKeeps DEF StepOK

-----------------------------------------------------------------------------
(* Requests that read, log or end. *)

LEMMA CreateStep ==
  ASSUME IInv, NEW s \in Session, NEW o \in Org, NEW n \in Node, NEW p \in Node \cup {NULL},
         NEW name \in Name, NEW status \in Status, create(s, o, n, name, p, status)
  PROVE  IInv'
<1> DEFINE row == Row(o, name, p, ChildPath(n, p), status)
<1> DEFINE c == Call(o, n, NULL, row, NULL)
<1>1. TypeOK /\ Shape
  BY TypedShape DEF IInv
<1>2. ChildPath(n, p) \in Path
  BY <1>1, ChildIsPath DEF create, Live
<1>3. row \in NodeRow
  BY <1>2 DEF Row, NodeRow
<1>4. c \in NodeCall /\ c.node = n /\ c.new = row
  BY <1>3 DEF Call, NodeCall
<1>5. /\ Goto(s, "create.insert", c) /\ n \notin used /\ used' = used \cup {n}
      /\ audit' = NULL /\ UNCHANGED <<node, activity, org, made, irregular>>
  BY DEF create
<1> HIDE DEF c, row
<1>6. Shape' /\ Others(s) /\ pc'[s] = "create.insert" /\ call'[s] = c
  BY <1>1, <1>5, GotoEffect
<1>7. node'[n] = NULL
  BY <1>5 DEF IInv, FreshRows
<1>8. RequestOK(s)'
  BY <1>3, <1>4, <1>5, <1>6, <1>7 DEF RequestOK, Moving
<1>9. \A t \in Session \ {s} : Holding(t) => call[t].node # n
  <2>1. \A t \in Session : Holding(t) => call[t].node \in used
    BY DEF IInv, RequestsOK, RequestOK, Holding, FreshRows, Live, NodeCall
  <2> QED BY <1>5, <2>1
<1> QED BY <1>1, <1>4, <1>5, <1>6, <1>8, <1>9, NodesUnwritten DEF TypeOK, NodeLabel

(* A request that looks at its row, or begins with it. *)
LEMMA BeginStep ==
  ASSUME IInv, NEW s \in Session, NEW o \in Org, NEW n \in Node,
         \/ \E name \in Name : update(s, o, n, name)
         \/ changeStatus(s, o, n)
         \/ delete(s, o, n)
         \/ \E p \in Node \cup {NULL} : move(s, o, n, p)
  PROVE  IInv'
<1>1. TypeOK /\ Shape
  BY TypedShape DEF IInv
<1>2. Unwritten /\ UNCHANGED irregular
  BY DEF update, changeStatus, delete, move
<1>3. /\ Shape' /\ Others(s) /\ RequestOK(s)' /\ pc'[s] \in NodeLabel /\ call'[s] \in NodeCall
      /\ ~Holding(s)'
  <2>1. CASE \E name \in Name : update(s, o, n, name)
    <3>1. PICK name \in Name : update(s, o, n, name)
      BY <2>1
    <3> DEFINE c == Call(o, n, node[n], NULL, name)
    <3>2. node[n] \in NodeRow
      BY <1>1, <3>1 DEF update, Visible, Live, TypeOK
    <3>3. c \in NodeCall /\ c.name = name
      BY <3>2 DEF Call, NodeCall
    <3>4. Goto(s, "update", c)
      BY <3>1 DEF update
    <3> HIDE DEF c
    <3> QED BY <1>1, <3>3, <3>4, GotoEffect DEF RequestOK, Moving, Holding, NodeLabel
  <2>2. CASE changeStatus(s, o, n)
    <3> DEFINE c == Call(o, n, NULL, NULL, NULL)
    <3>1. c \in NodeCall
      BY DEF Call, NodeCall
    <3>2. Goto(s, "changeStatus", c)
      BY <2>2 DEF changeStatus
    <3> HIDE DEF c
    <3> QED BY <1>1, <3>1, <3>2, GotoEffect DEF RequestOK, Moving, Holding, NodeLabel
  <2>3. CASE delete(s, o, n)
    <3> DEFINE c == Call(o, n, node[n], NULL, NULL)
    <3>1. node[n] \in NodeRow
      BY <1>1, <2>3 DEF delete, Visible, Live, TypeOK
    <3>2. c \in NodeCall
      BY <3>1 DEF Call, NodeCall
    <3>3. Goto(s, "delete.children", c)
      BY <2>3 DEF delete
    <3> HIDE DEF c
    <3> QED BY <1>1, <3>2, <3>3, GotoEffect DEF RequestOK, Moving, Holding, NodeLabel
  <2>4. CASE \E p \in Node \cup {NULL} : move(s, o, n, p)
    <3>1. PICK p \in Node \cup {NULL} : move(s, o, n, p)
      BY <2>4
    <3> DEFINE c == [Call(o, n, node[n], NULL, NULL) EXCEPT !.parent = p, !.path = <<n>>]
    <3>2. <<n>> \in Path
      BY SingleIsPath DEF Label
    <3>a. node[n] \in NodeRow
      BY <1>1, <3>1 DEF move, Visible, Live, TypeOK
    <3>3. c \in NodeCall /\ c.old = node[n] /\ c.path = <<n>> /\ c.parent = p
      BY <3>a, <3>2 DEF Call, NodeCall
    <3>4. Goto(s, IF p = NULL THEN "move.update" ELSE "move.parent", c)
      BY <3>1 DEF move
    <3> HIDE DEF c
    <3> QED BY <1>1, <3>a, <3>2, <3>3, <3>4, GotoEffect DEF RequestOK, Moving, Holding, NodeLabel
  <2> QED BY <2>1, <2>2, <2>3, <2>4
<1> QED BY <1>1, <1>2, <1>3, NodesUnwritten DEF Unwritten, TypeOK

(* A request that looks further, records what it did, or ends. *)
LEMMA GoOnStep ==
  ASSUME IInv, NEW s \in Session,
         \/ readNewParent(s) \/ lockMoved(s) \/ findDescendants(s)
         \/ checkChildren(s) \/ readLogs(s) \/ forUpdate(s)
         \/ auditNode(s) \/ Fail(s) \/ \E n \in Node : recordActivity(s, n)
  PROVE  IInv'
<1>1. TypeOK /\ Shape /\ RequestOK(s)
  BY TypedShape DEF IInv, RequestsOK
<1>2. /\ UNCHANGED <<node, org, used, made>> /\ activity' \subseteq Node
      /\ audit' \in Entry \cup {NULL} /\ irregular' \subseteq Irregularity
  <2>1. CASE auditNode(s)
    <3>1. call[s] \in NodeCall
      BY <1>1, <2>1 DEF RequestOK, auditNode
    <3> QED BY <1>1, <2>1, <3>1 DEF auditNode, recordChange, Entry, NodeCall, TypeOK
  <2>2. CASE \E n \in Node : recordActivity(s, n)
    BY <1>1, <2>2 DEF recordActivity, TypeOK
  <2>3. CASE readNewParent(s)
    BY <1>1, <2>3 DEF readNewParent, Irregularity, Unwritten, TypeOK
  <2>4. CASE \/ lockMoved(s) \/ findDescendants(s) \/ checkChildren(s) \/ readLogs(s)
             \/ forUpdate(s) \/ Fail(s)
    BY <1>1, <2>4 DEF lockMoved, findDescendants, checkChildren, readLogs, forUpdate, Fail, Unwritten, TypeOK
  <2> QED BY <2>1, <2>2, <2>3, <2>4
<1>3. CASE Return(s)
  BY <1>1, <1>2, <1>3, ReturnEffect, NodesUnwritten DEF RequestOK, Moving, Holding, TypeOK
<1>4. CASE readNewParent(s) /\ ~Return(s)
  <2> DEFINE path == ChildPath(call[s].node, call[s].parent)
  <2> DEFINE c == [call[s] EXCEPT !.path = path]
  <2>1. call[s] \in NodeCall /\ call[s].old \in NodeRow /\ call[s].parent # NULL
    BY <1>1, <1>4 DEF RequestOK, Moving, readNewParent, At
  <2>2. path \in Path
    BY <1>1, <1>4, <2>1, ChildIsPath DEF readNewParent, Visible, Live, NodeCall
  <2>3. Goto(s, "move.update", c)
    BY <1>4 DEF readNewParent
  <2> HIDE DEF path
  <2>4. c \in NodeCall /\ c.old = call[s].old /\ c.path = path
    BY <2>1, <2>2 DEF NodeCall
  <2> HIDE DEF c
  <2>5. Shape' /\ Others(s) /\ pc'[s] = "move.update" /\ call'[s] = c
    BY <1>1, <2>3, GotoEffect
  <2>6. RequestOK(s)'
    BY <2>1, <2>2, <2>4, <2>5 DEF RequestOK, Moving
  <2> QED BY <1>1, <1>2, <2>4, <2>5, <2>6, NodesUnwritten DEF Holding, NodeLabel, TypeOK
<1>5. CASE lockMoved(s) /\ ~Return(s)
  <2>1. call[s] \in NodeCall /\ call[s].old \in NodeRow /\ call[s].path \in Path
    BY <1>1, <1>5 DEF RequestOK, Moving, lockMoved, At
  <2>2. Goto(s, "move.descendants", call[s]) /\ Live(call[s].node) /\ Free(s, call[s].node)
    BY <1>5 DEF lockMoved, Visible
  <2>3. Shape' /\ Others(s) /\ pc'[s] = "move.descendants" /\ call'[s] = call[s]
    BY <1>1, <2>2, GotoEffect
  <2>4. RequestOK(s)'
    BY <1>2, <2>1, <2>2, <2>3 DEF RequestOK, Moving, Live
  <2>5. \A t \in Session \ {s} : Holding(t) => call[t].node # call'[s].node
    BY <2>1, <2>2, <2>3, FreeIsUnheld DEF Live, NodeCall
  <2> QED BY <1>1, <1>2, <2>1, <2>3, <2>4, <2>5, NodesUnwritten DEF NodeLabel, TypeOK
<1>a. CASE findDescendants(s)
  <2> DEFINE c == [call[s] EXCEPT !.rows = Under(call[s].node, call[s].old.path)]
  <2>1. /\ call[s] \in NodeCall /\ call[s].old \in NodeRow /\ call[s].path \in Path
        /\ Live(call[s].node) /\ pc[s] = "move.descendants"
    BY <1>1, <1>a DEF RequestOK, Moving, findDescendants, At
  <2>2. Under(call[s].node, call[s].old.path) \subseteq Node
    BY DEF Under
  <2>3. c \in NodeCall /\ c.node = call[s].node /\ c.old = call[s].old /\ c.path = call[s].path
    BY <2>1, <2>2 DEF NodeCall
  <2>4. Goto(s, "move.commit", c)
    BY <1>a DEF findDescendants
  <2> HIDE DEF c
  <2>5. Shape' /\ Others(s) /\ pc'[s] = "move.commit" /\ call'[s] = c
    BY <1>1, <2>4, GotoEffect
  <2>6. RequestOK(s)'
    BY <1>2, <2>1, <2>3, <2>5 DEF RequestOK, Moving, Live
  <2>7. \A t \in Session \ {s} : Holding(t) => call[t].node # call'[s].node
    BY <2>1, <2>3, <2>5 DEF IInv, HoldersDistinct, Holding
  <2> QED BY <1>1, <1>2, <2>3, <2>5, <2>6, <2>7, NodesUnwritten DEF NodeLabel, TypeOK
<1>6. CASE (checkChildren(s) \/ readLogs(s)) /\ ~Return(s)
  <2>1. call[s] \in NodeCall
    BY <1>1, <1>6 DEF RequestOK, checkChildren, readLogs, At
  <2>2. /\ Shape' /\ Others(s) /\ call'[s] = call[s]
        /\ pc'[s] \in {"delete.logs", "delete.hard", "delete.soft"}
    BY <1>1, <1>6, GotoEffect DEF checkChildren, readLogs
  <2> QED BY <1>1, <1>2, <2>1, <2>2, NodesUnwritten DEF RequestOK, Moving, Holding, NodeLabel, TypeOK
<1>7. CASE \E n \in Node : recordActivity(s, n)
  <2>1. UNCHANGED requests /\ pc[s] = "idle"
    BY <1>7 DEF recordActivity, At
  <2>2. TypeOK' /\ HoldersDistinct' /\ FreshRows'
    BY <1>1, <1>2, <2>1 DEF IInv, TypeOK, HoldersDistinct, FreshRows, Holding, requests
  <2>3. RequestsOK'
    BY <1>2, <2>1, RequestKept DEF IInv, RequestsOK, Respects, requests
  <2> QED BY <2>2, <2>3 DEF IInv
<1> QED BY <1>3, <1>4, <1>5, <1>a, <1>6, <1>7 DEF auditNode, forUpdate, Fail, Abort

-----------------------------------------------------------------------------
(* Requests that write the node they work on. *)

(* A step that writes one row, which no other request holds.               *)
LEMMA RowWritten ==
  ASSUME IInv, NEW s \in Session, NEW n \in Node, NEW row \in NodeRow \cup {NULL},
         node' = [node EXCEPT ![n] = row], n \in used,
         \A t \in Session \ {s} : Holding(t) => call[t].node # n,
         activity' \subseteq Node, audit' \in Entry \cup {NULL}, irregular' \subseteq Irregularity,
         UNCHANGED <<org, used, made>>,
         Shape', Others(s), RequestOK(s)', ~Holding(s)',
         \/ pc'[s] = "idle" /\ call'[s] = NULL
         \/ pc'[s] \in NodeLabel /\ call'[s] \in NodeCall
  PROVE  IInv'
<1>1. TypeOK'
  BY LabelsKept DEF IInv, TypeOK
<1>2. \A m \in Node : m # n => node'[m] = node[m]
  BY DEF IInv, TypeOK
<1>3. FreshRows'
  BY <1>2 DEF IInv, FreshRows
<1>4. \A t \in Session \ {s} : Respects(t)
  BY <1>2 DEF IInv, RequestsOK, RequestOK, Respects, Holding, NodeCall
<1> QED BY <1>1, <1>3, <1>4, StepKeeps DEF StepOK

LEMMA InsertStep ==
  ASSUME IInv, NEW s \in Session, insertNode(s)
  PROVE  IInv'
<1>1. TypeOK /\ Shape /\ RequestOK(s) /\ pc[s] = "create.insert"
  BY TypedShape DEF IInv, RequestsOK, insertNode, At
<1>2. call[s] \in NodeCall /\ call[s].node \in Node /\ call[s].node \in used /\ call[s].new \in NodeRow
  BY <1>1 DEF RequestOK, NodeCall
<1>3. Shape' /\ Others(s) /\ pc'[s] = "create.audit" /\ call'[s] = call[s]
  BY <1>1, GotoEffect DEF insertNode
<1>4. \A t \in Session \ {s} : Holding(t) => call[t].node # call[s].node
  BY <1>1 DEF IInv, HoldersDistinct, Holding
<1>5. RequestOK(s)' /\ ~Holding(s)'
  BY <1>2, <1>3 DEF RequestOK, Moving, Holding
<1>6. irregular' \subseteq Irregularity
  BY <1>1, OvertakesTyped DEF insertNode
<1> QED BY <1>1, <1>2, <1>3, <1>4, <1>5, <1>6, RowWritten DEF insertNode, TypeOK, NodeLabel

LEMMA UpdateStep ==
  ASSUME IInv, NEW s \in Session, writeNode(s)
  PROVE  IInv'
<1> DEFINE n == call[s].node
           new == [node[n] EXCEPT !.name = call[s].name]
<1>1. /\ TypeOK /\ Shape /\ RequestOK(s) /\ pc[s] = "update" /\ Free(s, n)
      /\ audit' = NULL /\ UNCHANGED <<activity, org, used, made, irregular>>
  BY TypedShape DEF IInv, RequestsOK, writeNode, At
<1>2. call[s] \in NodeCall /\ n \in Node /\ call[s].name \in Name
  BY <1>1 DEF RequestOK, NodeCall
<1>3. CASE Return(s) /\ UNCHANGED node
  BY <1>1, <1>3, ReturnEffect, NodesUnwritten DEF RequestOK, Moving, Holding, TypeOK
<1>4. CASE Live(n) /\ node' = [node EXCEPT ![n] = new]
           /\ Goto(s, "update.audit", [call[s] EXCEPT !.new = new])
  <2>1. new \in NodeRow
    BY <1>1, <1>2, <1>4 DEF Live, TypeOK, NodeRow
  <2> HIDE DEF new
  <2>2. [call[s] EXCEPT !.new = new] \in NodeCall
    BY <1>2, <2>1 DEF NodeCall
  <2>3. Shape' /\ Others(s) /\ pc'[s] = "update.audit" /\ call'[s] \in NodeCall
    BY <1>1, <1>4, <2>2, GotoEffect
  <2>4. RequestOK(s)' /\ ~Holding(s)'
    BY <2>3 DEF RequestOK, Moving, Holding
  <2>5. n \in used /\ \A t \in Session \ {s} : Holding(t) => call[t].node # n
    BY <1>1, <1>2, <1>4, FreeIsUnheld DEF IInv, FreshRows, Live
  <2> QED BY <1>1, <1>2, <1>4, <2>1, <2>3, <2>4, <2>5, RowWritten DEF TypeOK, NodeLabel
<1> QED BY <1>3, <1>4 DEF writeNode, Visible

LEMMA DeleteStep ==
  ASSUME IInv, NEW s \in Session, hardDelete(s) \/ softDelete(s)
  PROVE  IInv'
<1> DEFINE n == call[s].node
           new == [node[n] EXCEPT !.deleted = TRUE]
<1>1. TypeOK /\ Shape /\ RequestOK(s) /\ pc[s] \in {"delete.hard", "delete.soft"} /\ Free(s, n)
  BY TypedShape DEF IInv, RequestsOK, hardDelete, softDelete, At
<1>2. n \in Node /\ call[s].old \in NodeRow \cup {NULL}
  BY <1>1 DEF RequestOK, NodeCall
<1>3. Live(n) => new \in NodeRow
  BY <1>1, <1>2 DEF Live, TypeOK, NodeRow
<1> HIDE DEF new
<1>4. Shape' /\ Others(s) /\ pc'[s] = "idle" /\ call'[s] = NULL
  BY <1>1, ReturnEffect DEF hardDelete, softDelete
<1>5. RequestOK(s)' /\ ~Holding(s)'
  BY <1>4 DEF RequestOK, Moving, Holding
<1>6. /\ UNCHANGED <<activity, org, used, made>> /\ audit' \in Entry \cup {NULL}
      /\ irregular' \subseteq Irregularity
      /\ \/ node' = node
         \/ Live(n) /\ \E row \in {new, NULL} : node' = [node EXCEPT ![n] = row]
  <2>a. irregular' \subseteq Irregularity
    BY <1>1, OvertakesTyped DEF hardDelete, softDelete
  <2>1. CASE hardDelete(s)
    <3>1. UNCHANGED <<activity, org, used, made>>
      BY <2>1 DEF hardDelete, Unwritten
    <3>2. audit' = NULL \/ audit' = [old |-> call[s].old, new |-> NULL]
      BY <2>1 DEF hardDelete, Unwritten, recordChange
    <3>3. node' = node \/ node' = [node EXCEPT ![n] = IF Visible(call[s].org, n) THEN NULL ELSE @]
      BY <2>1 DEF hardDelete, Unwritten
    <3> QED BY <1>1, <1>2, <2>a, <3>1, <3>2, <3>3 DEF Entry, Visible, TypeOK
  <2>2. CASE softDelete(s)
    <3>1. /\ UNCHANGED <<activity, org, used, made>>
          /\ audit' = [old |-> call[s].old, new |-> IF Visible(call[s].org, n) THEN new ELSE NULL]
          /\ node' = IF Visible(call[s].org, n) THEN [node EXCEPT ![n] = new] ELSE node
      BY <2>2 DEF softDelete, recordChange, new
    <3> QED BY <1>2, <1>3, <2>a, <3>1 DEF Entry, Visible
  <2> QED BY <2>1, <2>2
<1>7. CASE node' = node
  BY <1>1, <1>4, <1>5, <1>6, <1>7, NodesUnwritten DEF TypeOK
<1>8. CASE Live(n) /\ \E row \in {new, NULL} : node' = [node EXCEPT ![n] = row]
  <2>1. n \in used /\ \A t \in Session \ {s} : Holding(t) => call[t].node # n
    BY <1>1, <1>2, <1>8, FreeIsUnheld DEF IInv, FreshRows, Live
  <2> QED BY <1>1, <1>2, <1>3, <1>4, <1>5, <1>6, <1>8, <2>1, RowWritten DEF TypeOK
<1> QED BY <1>6, <1>7, <1>8

-----------------------------------------------------------------------------
(* Moves, and the setup of an organization. *)

LEMMA MoveStep ==
  ASSUME IInv, NEW s \in Session, commitMove(s)
  PROVE  IInv'
<1> DEFINE n     == call[s].node
           old   == call[s].old.path
           new   == call[s].path
           moved == [node[n] EXCEPT !.parent = call[s].parent, !.path = new]
           below == call[s].rows \cap Under(n, old)
           Moved(m) == [node[m] EXCEPT !.path = Rebased(node[m].path, old, new)]
<1>1. TypeOK /\ Shape /\ RequestOK(s) /\ pc[s] = "move.commit"
  BY TypedShape DEF IInv, RequestsOK, commitMove, At
<1>2. /\ n \in Node /\ call[s].parent \in Node \cup {NULL} /\ Live(n) /\ node[n] \in NodeRow
      /\ new \in Path /\ call[s].old \in NodeRow /\ old \in Path
  BY <1>1 DEF RequestOK, Moving, NodeCall, Live, TypeOK, NodeRow
<1>3. moved \in NodeRow
  BY <1>2 DEF NodeRow
<1>4. ASSUME NEW m \in below
      PROVE  m \in Node \ {n} /\ node[m] # NULL /\ Moved(m) \in NodeRow
  <2>1. m \in Node \ {n} /\ node[m] \in NodeRow /\ node[m] # NULL
    BY <1>1 DEF Under, TypeOK
  <2>2. Rebased(node[m].path, old, new) \in Path
    BY <1>2, <2>1, RebasedIsPath DEF NodeRow
  <2> HIDE DEF old, new
  <2> QED BY <2>1, <2>2 DEF NodeRow
<1>5. /\ \A m \in below : Free(s, m)
      /\ node' = [m \in Node |-> IF m = n THEN moved ELSE IF m \in below THEN Moved(m) ELSE node[m]]
      /\ audit' = [old |-> call[s].old, new |-> moved] /\ Return(s)
      /\ UNCHANGED <<activity, org, used, made>>
  BY DEF commitMove, recordChange
<1> HIDE DEF old, new, moved, below, Moved
<1>6. Shape' /\ Others(s) /\ pc'[s] = "idle" /\ call'[s] = NULL
  BY <1>1, <1>5, ReturnEffect
<1>7. RequestOK(s)' /\ ~Holding(s)'
  BY <1>6 DEF RequestOK, Moving, Holding
<1>8. TypeOK'
  <2>1. node' \in [Node -> NodeRow \cup {NULL}]
    BY <1>1, <1>3, <1>4, <1>5 DEF TypeOK
  <2>2. audit' \in Entry
    BY <1>2, <1>3, <1>5 DEF Entry
  <2>3. irregular' \subseteq Irregularity
    BY <1>1, OvertakesTyped DEF commitMove
  <2> QED BY <1>1, <1>5, <1>6, <2>1, <2>2, <2>3, LabelsKept DEF TypeOK
<1>9. FreshRows'
  <2>1. n \in used /\ below \subseteq used
    BY <1>1, <1>2, <1>4 DEF IInv, FreshRows, Live
  <2> QED BY <1>5, <2>1 DEF IInv, FreshRows
<1>10. ASSUME NEW t \in Session \ {s}
       PROVE  Respects(t)
  <2>1. SUFFICES ASSUME Holding(t) PROVE node'[call[t].node] = node[call[t].node]
    BY DEF Respects
  <2>2. call[t].node \in Node /\ call[t].node # n
    BY <1>1, <2>1 DEF IInv, RequestsOK, RequestOK, HoldersDistinct, Holding, NodeCall
  <2>3. call[t].node \notin below
    BY <1>4, <1>5, <2>1, <2>2, FreeIsUnheld
  <2> QED BY <1>5, <2>2, <2>3
<1> QED BY <1>5, <1>6, <1>7, <1>8, <1>9, <1>10, StepKeeps DEF StepOK

LEMMA SetupStep ==
  ASSUME IInv, NEW s \in Session, NEW o \in Org, NEW f \in Node, NEW c \in Node, NEW w \in Node,
         NEW t1 \in Time, NEW t2 \in Time, NEW t3 \in Time, NEW name \in Name,
         createDefaultSetup(s, o, f, c, w, t1, t2, t3, name)
  PROVE  IInv'
<1> DEFINE path1 == <<t1>>
           path2 == Append(path1, t2 + 1)
           path3 == Append(path2, t3 + 2)
           row1 == Row(o, name, NULL, path1, "IDLE")
           row2 == Row(o, name, f, path2, "IDLE")
           row3 == Row(o, name, c, path3, "IDLE")
<1>1. TypeOK
  BY DEF IInv
<1>2. t1 \in TimeLabel /\ t2 + 1 \in TimeLabel /\ t3 + 2 \in TimeLabel
  BY TimeLabels
<1>3. path1 \in Path /\ path2 \in Path /\ path3 \in Path
  BY <1>2, SingleIsPath, AppendIsPath DEF Label
<1>a. [facility |-> f, center |-> c, station |-> w, labels |-> path3] \in DefaultSetup
  BY <1>2, SetupLabels DEF DefaultSetup
<1> HIDE DEF path1, path2, path3
<1>4. row1 \in NodeRow /\ row2 \in NodeRow /\ row3 \in NodeRow
  BY <1>3, NodeConstants DEF Row, NodeRow
<1>5. /\ {f, c, w} \cap used = {} /\ f # c /\ w \notin {f, c}
      /\ org' = org \cup {o} /\ used' = used \cup {f, c, w}
      /\ node' = [node EXCEPT ![f] = row1, ![c] = row2, ![w] = row3]
      /\ made' = made \cup {[facility |-> f, center |-> c, station |-> w, labels |-> path3]}
      /\ audit' = NULL /\ UNCHANGED <<activity, requests>>
  BY DEF createDefaultSetup, path1, path2, path3
<1> HIDE DEF row1, row2, row3
<1>6. TypeOK'
  <2>1. made' \subseteq DefaultSetup
    BY <1>1, <1>5, <1>a DEF TypeOK
  <2>2. irregular' \subseteq Irregularity
    BY <1>1, OvertakesTyped DEF createDefaultSetup
  <2> QED BY <1>1, <1>4, <1>5, <2>1, <2>2 DEF TypeOK, requests
<1>7. \A m \in Node \ {f, c, w} : node'[m] = node[m]
  BY <1>1, <1>5 DEF TypeOK
<1>8. \A t \in Session : Respects(t)
  <2>1. \A t \in Session : Holding(t) => call[t].node \in used /\ call[t].node \in Node
    BY DEF IInv, RequestsOK, RequestOK, Holding, FreshRows, Live, NodeCall
  <2> QED BY <1>5, <1>7, <2>1 DEF Respects
<1>9. RequestsOK'
  BY <1>5, <1>8, RequestKept DEF IInv, RequestsOK, requests
<1>10. HoldersDistinct' /\ FreshRows'
  BY <1>5, <1>7 DEF IInv, HoldersDistinct, Holding, FreshRows, requests
<1> QED BY <1>6, <1>9, <1>10 DEF IInv

-----------------------------------------------------------------------------
(* The theorems. *)

LEMMA NextKeeps ==
  ASSUME IInv, [Next]_vars
  PROVE  IInv'
<1>1. ASSUME NEW s \in Session, Setup(s) PROVE IInv'
  BY <1>1, SetupStep DEF Setup
<1>2. ASSUME NEW s \in Session, OtherRequest(s) \/ Move(s) PROVE IInv'
  BY <1>2, CreateStep, BeginStep, GoOnStep DEF OtherRequest, Move
<1>3. ASSUME NEW s \in Session, Step(s) \/ Fail(s) PROVE IInv'
  BY <1>3, InsertStep, GoOnStep, UpdateStep, MoveStep, DeleteStep DEF Step
<1>4. ASSUME UNCHANGED vars PROVE IInv'
  <2>1. TypeOK' /\ HoldersDistinct' /\ FreshRows'
    BY <1>4 DEF IInv, TypeOK, HoldersDistinct, Holding, FreshRows, vars, requests
  <2>2. RequestsOK'
    BY <1>4, RequestKept DEF IInv, RequestsOK, Respects, vars, requests
  <2> QED BY <2>1, <2>2 DEF IInv
<1> QED BY <1>1, <1>2, <1>3, <1>4 DEF Next

(* The invariant holds at first, and every statement of every request,     *)
(* moves below a node itself included, keeps it.                           *)
THEOREM Invariance == Spec => []IInv
<1>1. Init => IInv
  BY NodeConstants DEF Init, NoRequests, IInv, TypeOK, RequestsOK, RequestOK, Moving, HoldersDistinct, Holding, FreshRows
<1> QED BY <1>1, NextKeeps, PTL DEF Spec

(* Rows, logs, audit rows and requests keep their types; in particular     *)
(* every path that is moved is a path.                                     *)
THEOREM TypeCorrect == Spec => []TypeOK
BY Invariance, PTL DEF IInv

(* What a step does to a row that exists.                                  *)
LiveChanged(n) ==
  /\ Live(n)
  /\ \/ node'[n] = NULL
     \/ \E name \in Name : node'[n] = [node[n] EXCEPT !.name = name]
     \/ node'[n] = [node[n] EXCEPT !.deleted = TRUE]
     \/ \E p \in Node \cup {NULL}, path \in Path :
          node'[n] = [node[n] EXCEPT !.parent = p, !.path = path]

PathChanged(n) == \E path \in Path : node'[n] = [node[n] EXCEPT !.path = path]

LEMMA RowChanges ==
  ASSUME IInv, [Next]_vars, NEW n \in Node, node[n] # NULL
  PROVE  node'[n] = node[n] \/ LiveChanged(n) \/ PathChanged(n)
<1>1. TypeOK /\ n \in used
  BY DEF IInv, FreshRows
<1>2. CASE UNCHANGED node
  BY <1>2
<1>3. ASSUME NEW s \in Session, insertNode(s) PROVE node'[n] = node[n]
  BY <1>1, <1>3 DEF IInv, RequestsOK, RequestOK, insertNode, At, TypeOK
<1>4. ASSUME NEW s \in Session, writeNode(s) PROVE node'[n] = node[n] \/ LiveChanged(n)
  <2>1. call[s].name \in Name
    BY <1>4 DEF IInv, RequestsOK, RequestOK, writeNode, At
  <2> QED BY <1>1, <1>4, <2>1 DEF writeNode, LiveChanged, Visible, TypeOK
<1>6. ASSUME NEW s \in Session, commitMove(s)
      PROVE  node'[n] = node[n] \/ LiveChanged(n) \/ PathChanged(n)
  <2> DEFINE m   == call[s].node
             old == call[s].old.path
             new == call[s].path
  <2>1. /\ m \in Node /\ call[s].parent \in Node \cup {NULL} /\ Live(m)
        /\ new \in Path /\ old \in Path
    BY <1>1, <1>6 DEF IInv, RequestsOK, RequestOK, Moving, commitMove, At, NodeCall, NodeRow
  <2>2. node[n].path \in Path
    BY <1>1 DEF TypeOK, NodeRow
  <2>3. Rebased(node[n].path, old, new) \in Path
    BY <2>1, <2>2, RebasedIsPath
  <2>4. node' = [k \in Node |->
           IF k = m THEN [node[m] EXCEPT !.parent = call[s].parent, !.path = new]
           ELSE IF k \in call[s].rows \cap Under(m, old)
           THEN [node[k] EXCEPT !.path = Rebased(node[k].path, old, new)]
           ELSE node[k]]
    BY <1>6 DEF commitMove
  <2> HIDE DEF old, new
  <2>5. CASE n = m
    BY <2>1, <2>4, <2>5 DEF LiveChanged
  <2>6. CASE n # m
    BY <2>3, <2>4, <2>6 DEF PathChanged
  <2> QED BY <2>5, <2>6
<1>7. ASSUME NEW s \in Session, hardDelete(s) \/ softDelete(s) PROVE node'[n] = node[n] \/ LiveChanged(n)
  <2>1. CASE hardDelete(s)
    BY <1>1, <2>1 DEF hardDelete, Unwritten, LiveChanged, Visible, TypeOK
  <2>2. CASE softDelete(s)
    BY <1>1, <2>2 DEF softDelete, LiveChanged, Visible, TypeOK
  <2> QED BY <1>7, <2>1, <2>2
<1>8. ASSUME NEW s \in Session, Setup(s) PROVE node'[n] = node[n]
  BY <1>1, <1>8 DEF Setup, createDefaultSetup, TypeOK
<1>9. ASSUME NEW s \in Session, OtherRequest(s) \/ Move(s) \/ Fail(s) PROVE UNCHANGED node
  BY <1>9 DEF OtherRequest, Move, create, update, changeStatus, recordActivity, delete, move, Fail, Unwritten
<1>10. ASSUME NEW s \in Session,
              \/ auditNode(s) \/ readNewParent(s) \/ lockMoved(s) \/ findDescendants(s)
              \/ checkChildren(s) \/ readLogs(s) \/ forUpdate(s)
       PROVE  UNCHANGED node
  BY <1>10 DEF auditNode, readNewParent, lockMoved, findDescendants, checkChildren, readLogs, forUpdate, Unwritten
<1> QED BY <1>2, <1>3, <1>4, <1>6, <1>7, <1>8, <1>9, <1>10 DEF Next, Step, vars

(* update, move, delete: a deleted node is never brought back, renamed,    *)
(* moved elsewhere or removed; its path alone follows those of its         *)
(* ancestors.                                                              *)
THEOREM DeletedNodesStay == Spec => DeletedStaysDeleted
<1> DEFINE Kept(n) ==
      node[n] # NULL /\ node[n].deleted =>
        /\ node'[n] # NULL
        /\ [node'[n] EXCEPT !.path = node[n].path] = node[n]
<1>1. ASSUME IInv, [Next]_vars, NEW n \in Node PROVE Kept(n)
  <2>1. SUFFICES ASSUME node[n] # NULL, node[n].deleted PROVE Kept(n)
    OBVIOUS
  <2>2. node[n] \in NodeRow /\ ~LiveChanged(n)
    BY <1>1, <2>1 DEF IInv, TypeOK, LiveChanged, Live
  <2>3. CASE node'[n] = node[n]
    BY <2>1, <2>2, <2>3 DEF NodeRow
  <2>4. CASE PathChanged(n)
    BY <2>1, <2>2, <2>4, NodeNull DEF PathChanged, NodeRow
  <2> QED BY <1>1, <2>1, <2>2, <2>3, <2>4, RowChanges
<1>2. IInv /\ [Next]_vars => [\A n \in Node : Kept(n)]_vars
  BY <1>1
<1> QED BY <1>2, Invariance, PTL DEF Spec, DeletedStaysDeleted
=============================================================================
