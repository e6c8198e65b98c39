----------------------------- MODULE BomService -----------------------------
(***************************************************************************)
(* BomService: revisions of a product's bill of materials.  createRevision *)
(* runs outside a transaction, and the reads of createAlternative before   *)
(* its; every other operation ends at forUpdate().                         *)
(***************************************************************************)
EXTENDS MesDatabase

CONSTANT UserVersion    \* the versions a user may type in

(* bom.dto.ts: /^\d+\.\d+$/. *)
ASSUME UserVersionIsVersion == UserVersion \subseteq [zeros : Nat, major : Nat, minor : Nat]

RevisionsOf(p) == {r \in Revision : revision[r] # NULL /\ revision[r].product = p}
VersionsOf(p)  == {revision[r].version : r \in RevisionsOf(p)}

NewRevision(p, v) == [product |-> p, version |-> v, status |-> "draft"]

(* What a number was chosen from: the versions of the product at that time *)
(* (seen), and whether the rule that chose it read them as the numbers     *)
(* they are (sure).                                                        *)
Numbered(s, label, r, p, v, sure) ==
  Proceed(s, label,
    [row |-> r, product |-> p, version |-> v, seen |-> VersionsOf(p), sure |-> sure])

(* INSERT of a draft with the number chosen for it. *)
insertDraft(c) ==
  /\ revision' = [revision EXCEPT ![c.row] = NewRevision(c.product, c.version)]
  /\ misnumbered' = IF c.sure /\ VersionsOf(c.product) \subseteq c.seen
                    THEN misnumbered ELSE misnumbered \cup {c.row}

-----------------------------------------------------------------------------
(* createRevision: read the product, read its latest revision, insert the  *)
(* new one, record it: four autocommitted statements.                      *)

createRevision(s, r, p, v) ==
  /\ At(s, "idle")
  /\ product[p] # NULL
  /\ Fresh(r)
  /\ Proceed(s, "createRevision.number", [row |-> r, product |-> p, typed |-> v])
  /\ UNCHANGED <<tables, history>>

(* The latest revision is the one with the greatest text; a typed version  *)
(* is compared with that one alone.                                        *)
numberRevision(s) ==
  LET c == call[s]
      versions == VersionsOf(c.product)
      take(v, sure) == Numbered(s, "createRevision.insert", c.row, c.product, v, sure)
      highest(v) == \A w \in versions : compareVersions(v, w) >= 0
  IN
  /\ At(s, "createRevision.number")
  /\ \/ versions = {} /\ take(IF c.typed = NULL THEN Plain(1, 0) ELSE c.typed, TRUE)
     \/ \E latest \in Latest(versions) :
          \/ c.typed = NULL /\ take(NextMajor(latest), highest(latest))
          \/ /\ c.typed # NULL /\ compareVersions(c.typed, latest) > 0
             /\ take(c.typed, highest(latest))
          \/ /\ c.typed # NULL /\ compareVersions(c.typed, latest) <= 0
             /\ Respond(s, "refused")
  /\ UNCHANGED <<tables, history>>

insertRevision(s) ==
  LET c == call[s] IN
  /\ At(s, "createRevision.insert")
  /\ insertDraft(c)
  /\ Proceed(s, "createRevision.audit",
             [row |-> c.row, new |-> NewRevision(c.product, c.version)])
  /\ UNCHANGED <<product, audit, unlogged>>

auditRevision(s) ==
  /\ At(s, "createRevision.audit")
  /\ audit' = [audit EXCEPT !.bom_revision[call[s].row] = recordChange(NULL, call[s].new)]
  /\ Respond(s, "ok")
  /\ UNCHANGED <<product, revision, history>>

-----------------------------------------------------------------------------
(* createAlternative: read the base revision, number the alternative after *)
(* the related ones, then insert and record it in a transaction.  The base *)
(* has no materials to copy.                                               *)

createAlternative(s, r, b) ==
  /\ At(s, "idle")
  /\ revision[b] # NULL
  /\ Fresh(r)
  /\ Proceed(s, "createAlternative.number", [row |-> r, base |-> revision[b]])
  /\ UNCHANGED <<tables, history>>

numberAlternative(s) ==
  LET c == call[s]
      p == c.base.product
      major  == c.base.version.major
      minors == {v.minor : v \in Like(VersionsOf(p), major)}
  IN
  /\ At(s, "createAlternative.number")
  /\ \E latest \in LatestMinor(minors) :
       Numbered(s, "createAlternative.commit", c.row, p, Plain(major, NextMinor(latest)),
                \A v \in VersionsOf(p) : v.major = major => v.zeros = 0)
  /\ UNCHANGED <<tables, history>>

commitAlternative(s) ==
  LET c == call[s] IN
  /\ At(s, "createAlternative.commit")
  /\ insertDraft(c)
  /\ audit' = [audit EXCEPT !.bom_revision[c.row] =
                 recordChange(NULL, NewRevision(c.product, c.version))]
  /\ Respond(s, "ok")
  /\ UNCHANGED <<product, unlogged>>

-----------------------------------------------------------------------------
(* The operations on one revision, and on its materials: each a            *)
(* transaction whose first statement would lock the revision.              *)

ensureDraft(s, operation, r) == Transaction(s, operation, r)

updateRevision(s, r)   == ensureDraft(s, "updateRevision", r)
deleteRevision(s, r)   == Transaction(s, "deleteRevision", r)
submitRevision(s, r)   == ensureDraft(s, "submitRevision", r)
approveRevision(s, r)  == Transaction(s, "approveRevision", r)
activateRevision(s, r) == Transaction(s, "activateRevision", r)
addMaterial(s, r)      == ensureDraft(s, "addMaterial", r)
updateMaterial(s, r)   == ensureDraft(s, "updateMaterial", r)
deleteMaterial(s, r)   == ensureDraft(s, "deleteMaterial", r)

BomStep(s) ==
  \/ numberRevision(s) \/ insertRevision(s) \/ auditRevision(s)
  \/ numberAlternative(s) \/ commitAlternative(s)

BomRequest(s) ==
  \E r \in Revision :
    \/ \E p \in Product, v \in UserVersion \cup {NULL} : createRevision(s, r, p, v)
    \/ \E b \in Revision : createAlternative(s, r, b)
    \/ updateRevision(s, r) \/ deleteRevision(s, r) \/ submitRevision(s, r)
    \/ approveRevision(s, r) \/ activateRevision(s, r)
    \/ addMaterial(s, r) \/ updateMaterial(s, r) \/ deleteMaterial(s, r)
=============================================================================
