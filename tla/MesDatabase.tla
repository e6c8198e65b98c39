---------------------------- MODULE MesDatabase ----------------------------
(***************************************************************************)
(* The PostgreSQL tables that the product, BOM and work-order services     *)
(* share, the audit log, and what a request may do to them.                *)
(*                                                                         *)
(* Most of what these services offer begins a transaction and reads a row  *)
(* by `(... as any).forUpdate()`.  The query builder of drizzle-orm 0.45.1 *)
(* (package.json:61) has no such method, and nothing in the repository     *)
(* defines it: the call throws a TypeError, the transaction is rolled back *)
(* and the request fails.  So no revision leaves draft, no material is     *)
(* stored, no product is deleted, no work order released; the tables of    *)
(* materials and work orders stay empty and are left out.                  *)
(*                                                                         *)
(* All rows belong to one organization and all requests are made by its    *)
(* members.                                                                *)
(***************************************************************************)
EXTENDS Requests, BomVersions

CONSTANTS
  Product,      \* identifiers of product rows
  Revision,     \* identifiers of BOM revision rows
  Name          \* contents of a product row (name, sku)

(* Identifiers are UUIDs: no two tables share one. *)
ASSUME IdentifiersDistinct == Product \cap Revision = {}

ProductRow  == [name : Name]
RevisionRow == [product : Product, version : Version, status : {"draft"}]

(* A row of log_traceability: its old_data and new_data columns.           *)
Entry(R) == [old : R \cup {NULL}, new : R]

ASSUME NullDistinct ==
  NULL \notin Product \cup Revision \cup ProductRow \cup RevisionRow \cup Version
               \cup Entry(ProductRow) \cup Entry(RevisionRow)

VARIABLES
  product, revision,    \* the tables
  audit,        \* the latest row of log_traceability of every entity
  answer,       \* how the last request of every idle session was answered
  misnumbered,  \* history: revisions whose number was chosen from too little
  unlogged      \* history: rows whose last change is missing in the log, or
                \* was recorded while another change of them was

tables  == <<product, revision, audit>>
history == <<misnumbered, unlogged>>
vars    == <<requests, tables, answer, history>>

(* The latest row of every entity, by entityType. *)
Audit ==
  [product      : [Product -> Entry(ProductRow) \cup {NULL}],
   bom_revision : [Revision -> Entry(RevisionRow) \cup {NULL}]]

(* "thrown": an internal error; "cut": the process stopped or a statement  *)
(* failed.                                                                 *)
Answer == {"none", "ok", "refused", "thrown", "cut"}

Init ==
  /\ product  = [p \in Product |-> NULL]
  /\ revision = [r \in Revision |-> NULL]
  /\ audit = [product      |-> [p \in Product |-> NULL],
              bom_revision |-> [r \in Revision |-> NULL]]
  /\ NoRequests
  /\ answer = [s \in Session |-> "none"]
  /\ misnumbered = {} /\ unlogged = {}

-----------------------------------------------------------------------------
(* The course of a request. *)

(* Labels of the requests that hold the identifier of a row they create,   *)
(* and of those whose next statement is the audit row of their change.     *)
Making    == {"createRevision.number", "createRevision.insert",
              "createAlternative.number", "createAlternative.commit"}
Recording == {"createRevision.audit", "product.create.audit", "product.update.audit"}

Fresh(r) ==
  /\ revision[r] = NULL
  /\ \A s \in Session : pc[s] \in Making => call[s].row # r

Records(s, x) == pc[s] \in Recording /\ call[s].row = x

Respond(s, a) == Return(s) /\ answer' = [answer EXCEPT ![s] = a]

(* A request that is being served has no answer yet. *)
Proceed(s, label, c) == Goto(s, label, c) /\ answer' = [answer EXCEPT ![s] = "none"]

(* db.transaction: BEGIN, then the callback runs up to its forUpdate().    *)
Transaction(s, operation, x) ==
  /\ At(s, "idle")
  /\ Proceed(s, "transaction", [operation |-> operation, row |-> x])
  /\ UNCHANGED <<tables, history>>

(* `forUpdate` is not a function: TypeError, ROLLBACK.                     *)
forUpdate(s) ==
  /\ At(s, "transaction")
  /\ Respond(s, "thrown")
  /\ UNCHANGED <<tables, history>>

(* The process stops, or the statement in course fails: what the request   *)
(* has committed stays, and its audit row is never written.                *)
Fail(s) ==
  /\ pc[s] # "idle"
  /\ Respond(s, "cut")
  /\ unlogged' = unlogged \cup {x \in Product \cup Revision : Records(s, x)}
  /\ UNCHANGED <<tables, misnumbered>>

(* Faulty variant: oldData and newData are exchanged.                       *)
recordChangeSwapped(old, new) == [old |-> new, new |-> old]

(* TraceabilityService.recordChange.                                       *)
recordChange(old, new) == [old |-> old, new |-> new]
=============================================================================
