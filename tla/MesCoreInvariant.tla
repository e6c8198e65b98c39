-------------------------- MODULE MesCoreInvariant --------------------------
(* The inductive invariant of MesCore.                                     *)
EXTENDS MesCore

(* What a request knows of its own locals, at each step.                   *)
Chosen ==
  [row : Revision, product : Product, version : Version, seen : SUBSET Version,
   sure : BOOLEAN]
Operation ==
  {"updateRevision", "deleteRevision", "submitRevision", "approveRevision",
   "activateRevision", "addMaterial", "updateMaterial", "deleteMaterial",
   "product.delete", "releaseWorkOrder"}

CallType(s) == LET c == call[s] IN
  \/ pc[s] = "idle" /\ c = NULL
  \/ /\ pc[s] = "transaction"
     /\ c \in [operation : Operation, row : Product \cup Revision \cup {NULL}]
  \/ /\ pc[s] = "createRevision.number"
     /\ c \in [row : Revision, product : Product, typed : UserVersion \cup {NULL}]
  \/ pc[s] = "createAlternative.number" /\ c \in [row : Revision, base : RevisionRow]
  \/ pc[s] \in {"createRevision.insert", "createAlternative.commit"} /\ c \in Chosen
  \/ pc[s] = "createRevision.audit" /\ c \in [row : Revision, new : RevisionRow]
  \/ /\ pc[s] \in {"product.create.audit", "product.update.audit"}
     /\ c \in [row : Product, old : ProductRow \cup {NULL}, new : ProductRow]
  \/ /\ pc[s] = "product.update"
     /\ c \in [row : Product, old : ProductRow, name : Name]

TypeOK ==
  /\ product  \in [Product -> ProductRow \cup {NULL}]
  /\ revision \in [Revision -> RevisionRow \cup {NULL}]
  /\ audit \in Audit
  /\ answer \in [Session -> Answer]
  /\ misnumbered \subseteq Revision /\ unlogged \subseteq Product \cup Revision
  /\ Shape /\ \A s \in Session : CallType(s)

(* The identifier of a row that is being made is nobody else's; the base   *)
(* of an alternative, once read, stays.                                    *)
MakersDistinct ==
  \A s, t \in Session :
    s # t /\ pc[s] \in Making /\ pc[t] \in Making => call[s].row # call[t].row

MakingOK(s) == LET c == call[s] IN
  /\ pc[s] \in Making => revision[c.row] = NULL
  /\ pc[s] = "createAlternative.number" => \E r \in Revision : revision[r] = c.base

(* A number of which its request is sure is above all it has seen, or is   *)
(* the next of its series; "-Infinity" was drawn beside typed zeros only.  *)
(* What has been seen is still there.                                      *)
NumberOK(s) == LET c == call[s] IN
  /\ pc[s] \in {"createRevision.insert", "createAlternative.commit"} =>
       c.seen \subseteq VersionsOf(c.product)
  /\ pc[s] = "createRevision.insert" =>
       /\ c.sure => \A v \in c.seen : compareVersions(c.version, v) > 0
       /\ c.version.minor \in Nat
  /\ pc[s] = "createAlternative.commit" =>
       /\ c.sure =>
            /\ \E v \in c.seen : v.major = c.version.major
            /\ \A v \in c.seen : v.major = c.version.major => v.minor < c.version.minor
       /\ c.version.minor = NegInfinity =>
            \E v \in c.seen : v.major = c.version.major /\ v.zeros > 0

(* An update writes a row that is there; the audit row about to be written *)
(* holds the row as it is, unless the log of the row is already off.       *)
RecordOK(s) == LET c == call[s] IN
  /\ pc[s] = "product.update" => product[c.row] # NULL
  /\ pc[s] \in {"product.create.audit", "product.update.audit"} =>
       product[c.row] # NULL /\ (c.row \in unlogged \/ c.new = product[c.row])
  /\ pc[s] = "createRevision.audit" => c.new = revision[c.row]

IInv ==
  /\ TypeOK
  /\ MakersDistinct
  /\ \A s \in Session : MakingOK(s) /\ NumberOK(s) /\ RecordOK(s)
  /\ VersionsDistinct /\ MinorsAreNumbers /\ LogEndsCurrent
=============================================================================
