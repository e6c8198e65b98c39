--------------------------- MODULE ProductService ---------------------------
(***************************************************************************)
(* ProductService: create and update commit each statement on its own;     *)
(* delete is a transaction that ends at forUpdate().                       *)
(***************************************************************************)
EXTENDS MesDatabase

(* create: INSERT, then the audit row. *)
product_create(s, p, name) ==
  LET new == [name |-> name] IN
  /\ At(s, "idle")
  /\ product[p] = NULL
  /\ product' = [product EXCEPT ![p] = new]
  /\ Proceed(s, "product.create.audit", [row |-> p, old |-> NULL, new |-> new])
  /\ UNCHANGED <<revision, audit, history>>

(* The last statement of create and of update: recordChange, outside a     *)
(* transaction, of the row as the request read it and as it wrote it.      *)
auditProduct(s, label) ==
  /\ At(s, label)
  /\ audit' = [audit EXCEPT !.product[call[s].row] = recordChange(call[s].old, call[s].new)]
  /\ Respond(s, "ok")
  /\ UNCHANGED <<product, revision, history>>

auditProductCreate(s) == auditProduct(s, "product.create.audit")

(* update: findOne, UPDATE ... RETURNING, then the audit row.  No product  *)
(* is ever deleted, so the UPDATE finds the row.                           *)
product_update(s, p, name) ==
  /\ At(s, "idle")
  /\ product[p] # NULL
  /\ Proceed(s, "product.update", [row |-> p, old |-> product[p], name |-> name])
  /\ UNCHANGED <<tables, history>>

writeProductUpdate(s) ==
  LET p   == call[s].row
      new == [product[p] EXCEPT !.name = call[s].name]
  IN
  /\ At(s, "product.update")
  /\ product' = [product EXCEPT ![p] = new]
  /\ unlogged' = IF \E t \in Session : Records(t, p) THEN unlogged \cup {p}
                 ELSE unlogged \ {p}
  /\ Proceed(s, "product.update.audit", [row |-> p, old |-> call[s].old, new |-> new])
  /\ UNCHANGED <<revision, audit, misnumbered>>

auditProductUpdate(s) == auditProduct(s, "product.update.audit")

product_delete(s, p) == Transaction(s, "product.delete", p)

ProductStep(s) ==
  auditProductCreate(s) \/ writeProductUpdate(s) \/ auditProductUpdate(s)

ProductRequest(s) ==
  \E p \in Product :
    \/ \E name \in Name : product_create(s, p, name) \/ product_update(s, p, name)
    \/ product_delete(s, p)
=============================================================================
