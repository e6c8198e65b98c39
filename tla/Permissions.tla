---------------------------- MODULE Permissions ----------------------------
(***************************************************************************)
(* The permission surface.  A permission is the sequence of the parts of   *)
(* its name: resource, action and, for some, an extension.                 *)
(***************************************************************************)
EXTENDS Integers, Sequences

CRUD == {"read", "write", "update", "delete"}

(* The actions declared for each resource, and those declared with '.all'. *)
BaseActions ==
  [orders |-> CRUD \cup {"assign_workflow", "write_product",
                         "activate_product", "cancel_product"},
   users |-> CRUD,
   tickets |-> {"read", "update", "delete", "update_status", "add_message"},
   roles |-> CRUD \cup {"change", "change_permissions"},
   attachments |-> CRUD,
   notifications |-> {"read", "update", "delete"},
   organizations |-> CRUD, nodes |-> CRUD, bom_products |-> CRUD,
   bom_products_revisions |-> CRUD, bom |-> CRUD, products |-> CRUD,
   work_orders |-> CRUD \cup {"release"}, user_addresses |-> CRUD,
   traceability |-> {"read", "write"}, execution |-> {"read", "write"},
   connectivity |-> {"read", "write", "ingest"},
   inventory |-> CRUD, vibe |-> CRUD]

AllActions ==
  [r \in DOMAIN BaseActions |->
     CASE r \in {"orders", "users", "attachments"} -> {"read", "update", "delete"}
       [] r = "tickets" -> BaseActions[r]
       [] r \in {"roles", "connectivity"} -> {}
       [] OTHER -> {"read"}]

(* flattenPermissions(Permissions).                                        *)
Declared ==
       (UNION {{<<r, a>> : a \in BaseActions[r]} : r \in DOMAIN BaseActions})
  \cup (UNION {{<<r, a, "all">> : a \in AllActions[r]} : r \in DOMAIN AllActions})
  \cup {<<"tickets", "read", "quotation">>, <<"traceability", "audit", "read">>}

-----------------------------------------------------------------------------
(* PermissionGuard.                                                        *)

SameAction(p, q) == p[1] = q[1] /\ p[2] = q[2]

(* Faulty variant: the resource alone is compared under '.all'.            *)
coversResource(p, required) ==
  /\ {p, required} \subseteq Declared
  /\ \/ p = required
     \/ Len(p) = 3 /\ p[3] = "all" /\ p[1] = required[1]

covers(p, required) ==
  /\ {p, required} \subseteq Declared
  /\ \/ p = required
     \/ Len(p) = 3 /\ p[3] = "all" /\ SameAction(p, required)
     \/ Len(p) > 2 /\ Len(required) = 2 /\ SameAction(p, required)

(* Whether a user with these permissions passes; a user with none does not.*)
permits(permissions, required) ==
  /\ permissions # {}
  /\ \A q \in required : \E p \in permissions : covers(p, q)
=============================================================================
