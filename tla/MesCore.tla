------------------------------ MODULE MesCore ------------------------------
(***************************************************************************)
(* The product, BOM and work-order services over one database: every       *)
(* interleaving of their requests, statement by statement, with failures.  *)
(***************************************************************************)
EXTENDS BomService, ProductService, WorkOrderService

Next ==
  \E s \in Session :
    \/ BomRequest(s) \/ ProductRequest(s) \/ WorkOrderRequest(s)
    \/ BomStep(s) \/ ProductStep(s) \/ forUpdate(s)
    \/ Fail(s)

Spec == Init /\ [][Next]_vars

-----------------------------------------------------------------------------
(* Properties. *)

(* Two revisions of a product never have the same number, however their    *)
(* makings overlap, unless one was numbered without having seen a revision *)
(* that was there when it was inserted, by a latest version that is the    *)
(* greatest text and not the highest number, or in a series that holds a   *)
(* version typed with zeros.  (createRevision's and createAlternative's    *)
(* reads, and the INSERT two awaits later.)                                *)
VersionsDistinct ==
  \A r, q \in Revision :
    /\ r # q /\ revision[r] # NULL /\ revision[q] # NULL
    /\ revision[r].product = revision[q].product
    /\ compareVersions(revision[r].version, revision[q].version) = 0
    => r \in misnumbered \/ q \in misnumbered

(* A version reads as two numbers, except in a series that holds a version *)
(* typed with zeros, which `LIKE '<major>.%'` does not find:               *)
(* createAlternative then stores "1.-Infinity" (Math.max() of nothing).    *)
MinorsAreNumbers ==
  \A r \in Revision : revision[r] # NULL /\ revision[r].version.minor = NegInfinity =>
    \E v \in VersionsOf(revision[r].product) :
      v.major = revision[r].version.major /\ v.zeros > 0

(* The newest audit row of a product or revision holds the row as it is,   *)
(* unless that audit row is still to be written, was lost to a failure, or *)
(* two updates wrote the product before either was recorded.  (create,     *)
(* update and createRevision commit the change before recordChange.)       *)
Current(table, log, x) ==
  \/ table[x] = NULL \/ x \in unlogged
  \/ \E s \in Session : Records(s, x)
  \/ log[x] # NULL /\ log[x].new = table[x]
LogEndsCurrent ==
  /\ \A p \in Product : Current(product, audit.product, p)
  /\ \A r \in Revision : Current(revision, audit.bom_revision, r)

(* The BOM service implements RevisionCatalogue: revisions keep their      *)
(* numbers, and each new one is above the others or next in its series,    *)
(* but for those VersionsDistinct excepts.                                 *)
Entered ==
  [r \in Revision |->
     IF revision[r] = NULL THEN NULL
     ELSE [product |-> revision[r].product, version |-> revision[r].version]]

ASSUME EntriesNotNull == NULL \notin [product : Product, version : Version]

Catalogue == INSTANCE RevisionCatalogue WITH entry <- Entered, irregular <- misnumbered

ImplementsCatalogue == Catalogue!Spec

-----------------------------------------------------------------------------
(* What the tests say of the program, and the code does not keep to.       *)

(* test/unit/bom.service.spec.ts:56 'should bump major version if          *)
(* revisions exist': the version createRevision draws is above all there   *)
(* are.                                                                    *)
CreateBumps ==
  [][\A s \in Session : insertRevision(s) =>
       \A v \in VersionsOf(call[s].product) : compareVersions(call[s].version, v) > 0]_vars

(* test/unit/bom.service.spec.ts:87 'should allow material addition if     *)
(* status is draft': the call is not answered by an internal error.        *)
DraftsTakeMaterials ==
  [][\A s \in Session, r \in Revision :
       /\ At(s, "transaction") /\ call[s] = [operation |-> "addMaterial", row |-> r]
       /\ revision[r] # NULL /\ revision[r].status = "draft"
       => answer'[s] # "thrown"]_vars
=============================================================================
