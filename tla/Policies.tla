----------------------------- MODULE Policies -----------------------------
(***************************************************************************)
(* The policies: which rows of a resource a user may reach.  A policy      *)
(* gives a condition for the WHERE clause or throws; the condition is      *)
(* represented by the scope it selects:                                    *)
(*   all, organization (rows of the user's organization), own (rows whose  *)
(*   owner column is the user), self (the user's own row), public (own     *)
(*   rows and those of a public type), or refused.                         *)
(***************************************************************************)
EXTENDS Permissions

Refused == "refused"

hasAll(user, r, action)  == <<r, action, "all">> \in user.permissions
hasBase(user, r, action) == <<r, action>> \in user.permissions

(* What a base scope and the scope of the extra hook make together, when   *)
(* the base semantics refuse and when they do not.                         *)
orAll(base, extra) ==
  IF base = Refused THEN extra
  ELSE IF base = "own" /\ extra # Refused THEN extra ELSE base

ownership(user, r, action) ==
  IF hasAll(user, r, action) THEN "all"
  ELSE IF hasBase(user, r, action) THEN "own" ELSE Refused

(* The extra hooks: attachments add the public types to what may be read.  *)
readExtra(r) == IF r = "attachments" THEN "public" ELSE Refused

(* Faulty variant: the base permission is asked again, of the policy's     *)
(* own name for the resource.                                              *)
byOrganizationWithBase(user, r, action) ==
  IF hasAll(user, r, action) THEN "all"
  ELSE IF user.organization /\ hasBase(user, r, action) THEN "organization" ELSE Refused

(* The policies of the resources kept by organization: the base permission *)
(* is not asked again, the guard has.                                      *)
byOrganization(user, r, action) ==
  IF hasAll(user, r, action) THEN "all"
  ELSE IF user.organization THEN "organization" ELSE Refused

OrganizationResource ==
  {"bom", "nodes", "products", "work-order", "traceability", "execution"}

usersRead(user) ==
  IF user.organization THEN "organization"
  ELSE IF hasAll(user, "users", "read") THEN "all" ELSE "self"

readOverride(user, r) ==
  IF r \in OrganizationResource THEN byOrganization(user, r, "read")
  ELSE IF r = "users" THEN usersRead(user)
  ELSE orAll(ownership(user, r, "read"), readExtra(r))

(* Users are owned by the organization: 'own' there compares the           *)
(* organization of a row with the id of the user.                          *)
updateOverride(user, r) ==
  IF r \in OrganizationResource THEN byOrganization(user, r, "update")
  ELSE ownership(user, r, "update")

deleteOverride(user, r) ==
  IF r \in OrganizationResource THEN byOrganization(user, r, "delete")
  ELSE ownership(user, r, "delete")

canWriteResource(user, r) ==
  IF hasAll(user, r, "write") \/ hasBase(user, r, "write") THEN "all" ELSE Refused

(* TicketPolicy: the ticket is the user's own or not, the message internal *)
(* or not.                                                                 *)
canAddMessage(user, isOwner, isInternal) ==
  /\ isInternal => hasAll(user, "tickets", "add_message")
  /\ IF isOwner THEN hasBase(user, "tickets", "add_message")
                ELSE hasAll(user, "tickets", "add_message")

canReadMessageAttachment(user, isOwner, isInternal) ==
  \/ hasAll(user, "tickets", "read")
  \/ hasBase(user, "tickets", "read") /\ isOwner /\ ~isInternal

updateTicketStatus(user) == ownership(user, "tickets", "update_status")

(* readInternalMessage: the messages of a ticket that are listed.          *)
readInternalMessage(user) ==
  IF hasAll(user, "tickets", "read") THEN "all" ELSE "external"

(* VibePolicy: records are checked once read.                              *)
canWriteRecord(page) == page.own

-----------------------------------------------------------------------------
(* The scope of an access: what a route asks of which policy.              *)
scope(user, access) ==
  CASE access.action = "read"   -> readOverride(user, access.resource)
    [] access.action = "update" -> updateOverride(user, access.resource)
    [] access.action = "delete" -> deleteOverride(user, access.resource)
    [] access.action = "write"  -> canWriteResource(user, access.resource)
    [] access.action = "update_status" -> updateTicketStatus(user)
    [] access.action = "add_message" ->
         IF canAddMessage(user, access.own, access.internal) THEN "all" ELSE Refused
    [] access.action = "attachment" ->
         IF canReadMessageAttachment(user, access.own, access.internal)
           THEN "all" ELSE Refused
    [] access.action = "writeRecord" -> IF canWriteRecord(access) THEN "all" ELSE Refused
    [] OTHER -> "unscoped"
=============================================================================
