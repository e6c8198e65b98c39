-------------------------- MODULE WorkOrderService --------------------------
(***************************************************************************)
(* WorkOrderService: createWorkOrder is always refused, and release ends   *)
(* at forUpdate().                                                         *)
(***************************************************************************)
EXTENDS MesDatabase

CONSTANT Permission     \* the permissions of the users making the requests

(* BasePolicy.canWrite of WorkOrderPolicy, whose resource is 'work-order': *)
(* common/permissions.ts declares 'work_orders' only.                      *)
canWrite == Permission \cap {"work-order.write", "work-order.write.all"} # {}

(* PermissionGuard with RequiresPermissions(Permissions.work_orders.Write). *)
mayCallCreate == "work_orders.write" \in Permission

(* Refused by the policy; and were it not, by the status of the revision,  *)
(* which is never active.  The INSERT is not reached.                      *)
createWorkOrder(s, r) ==
  /\ At(s, "idle") /\ mayCallCreate
  /\ canWrite /\ revision[r] # NULL => revision[r].status # "active"
  /\ Respond(s, "refused")
  /\ UNCHANGED <<tables, history>>

(* The work order may have any identifier: there is none.                  *)
releaseWorkOrder(s) == Transaction(s, "releaseWorkOrder", NULL)

WorkOrderRequest(s) ==
  releaseWorkOrder(s) \/ \E r \in Revision : createWorkOrder(s, r)
=============================================================================
