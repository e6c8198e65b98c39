---------------------------- MODULE RolesService ----------------------------
(***************************************************************************)
(* Roles, the permissions they hold (table role_permissions) and the copy  *)
(* of those in Redis, key perms:<role>, which every request is judged by.  *)
(* Who has which role is in the users table; a change of role ends the     *)
(* session of the user, through the event auth.roleChanged.                *)
(*                                                                         *)
(* The permissions of a role change in a transaction, the copy afterwards: *)
(* a query, then a SET.                                                    *)
(***************************************************************************)
EXTENDS Requests, FiniteSets

CONSTANTS
  Role,
  SystemRole,   \* predefined roles: no organization owns them
  Permission,   \* the canonical permissions; system roles hold them all
  User,
  Password

ASSUME RoleConstants ==
  /\ SystemRole # {} /\ SystemRole \subseteq Role

(* No value is mistaken for an absent one. *)
ASSUME RoleNull ==
  /\ NULL \notin {"live", "deleted"} /\ \A names \in SUBSET Permission : names # NULL
  /\ NULL \notin [role : Role, password : Password, active : BOOLEAN]

VARIABLES
  role,           \* "live", "deleted" (deletedAt is set), NULL before it is created
  rolePermission, \* what each role holds
  perms,          \* Redis perms:<role>, NULL while the key is not there
  user,           \* the users table
  drawn,          \* identifiers of users drawn so far
  token,          \* Redis token:<user>: what the stored token says, or NULL
  refreshToken,   \* the users with a key refresh_token:<user>
  skewed,         \* ghost: roles whose last change met a refresh of the copy, or lost its own
  lapsed          \* ghost: users whose last change met a login, or did not end the session

accounts == <<user, drawn, token, refreshToken, lapsed>>
rbac == <<role, rolePermission, perms, skewed>>
vars == <<accounts, rbac, requests>>

-----------------------------------------------------------------------------
(* Types. *)

RoleState == {"live", "deleted"}

UserRow == [role : Role, password : Password, active : BOOLEAN]

Claim == [role : Role, password : Password]

(* What setToken is given: the role goes into the token, the password the  *)
(* session was opened with is remembered for the properties only.          *)
Claims(row) == [role |-> row.role, password |-> row.password]

findOne(r) == role[r] = "live"

(* Requests on their way to refresh the copy of r, after its change.       *)
Refreshing(r) ==
  {s \in Session : pc[s] \in {"permissions.read", "permissions.set"} /\ call[s].role = r}

(* Requests that hold a row of u read earlier, and will issue tokens.      *)
Issuing(u) ==
  {s \in Session : pc[s] \in {"signup.mail", "token.set"} /\ call[s].user = u}

(* Requests on their way to delete the token of u.                         *)
Ending(u) ==
  {s \in Session : pc[s] \in {"logout.find", "logout.token"} /\ call[s].user = u}

(* Ghost bookkeeping of a committed change.                                *)
RoleChanged(s, r) ==
  skewed' = IF Refreshing(r) \subseteq {s} THEN skewed \ {r} ELSE skewed \cup {r}

UserChanged(u) ==
  lapsed' = IF Issuing(u) = {} THEN lapsed \ {u} ELSE lapsed \cup {u}

-----------------------------------------------------------------------------
(* The copy in Redis. *)

(* setPermissionToken: the query,                                          *)
selectPermissions(s) ==
  /\ At(s, "permissions.read")
  /\ Goto(s, "permissions.set",
          [role |-> call[s].role, permissions |-> rolePermission[call[s].role]])
  /\ UNCHANGED <<rbac, accounts>>

(* then the SET.                                                           *)
setPermissions(s) ==
  /\ At(s, "permissions.set")
  /\ perms' = [perms EXCEPT ![call[s].role] = call[s].permissions]
  /\ Return(s)
  /\ UNCHANGED <<role, rolePermission, skewed, accounts>>

(* What PermissionSeederService makes a role hold: it only adds, and only  *)
(* to predefined roles.                                                    *)
Seeded(r) == IF r \in SystemRole THEN rolePermission[r] \cup Permission ELSE rolePermission[r]

(* syncAll, of each role in the table, deleted ones too.                   *)
syncAll(r) == IF role[r] # NULL THEN Seeded(r) ELSE perms[r]

-----------------------------------------------------------------------------
(* Roles. *)

create(r) ==
  /\ role[r] = NULL
  /\ role' = [role EXCEPT ![r] = "live"]
  /\ UNCHANGED <<rolePermission, perms, skewed, accounts, requests>>

duplicate(s, r) ==
  /\ At(s, "idle")
  /\ findOne(r)
  /\ Goto(s, "duplicate.insert", [permissions |-> rolePermission[r]])
  /\ UNCHANGED <<rbac, accounts>>

(* One transaction; new is the identifier the copy gets.                   *)
insertDuplicate(s, new) ==
  /\ At(s, "duplicate.insert")
  /\ role[new] = NULL
  /\ role' = [role EXCEPT ![new] = "live"]
  /\ rolePermission' = [rolePermission EXCEPT ![new] = call[s].permissions]
  /\ RoleChanged(s, new)
  /\ Goto(s, "permissions.read", [role |-> new])
  /\ UNCHANGED <<perms, accounts>>

(* The list of names is not empty, and all of them are known.              *)
updatePermissions(s, r, names) ==
  /\ At(s, "idle")
  /\ names # {}
  /\ findOne(r) /\ r \notin SystemRole
  /\ Goto(s, "update.existing", [role |-> r, names |-> names])
  /\ UNCHANGED <<rbac, accounts>>

(* The transaction first reads what the role holds, without a lock,        *)
existingPermissions(s) ==
  LET c == call[s] IN
  /\ At(s, "update.existing")
  /\ Goto(s, "update.write",
          [role |-> c.role,
           toDelete |-> rolePermission[c.role] \ c.names,
           toInsert |-> c.names \ rolePermission[c.role]])
  /\ UNCHANGED <<rbac, accounts>>

(* Faulty variant: the copy in Redis is left alone.                         *)
writePermissionsOnly(s) ==
  LET c == call[s] IN
  /\ At(s, "update.write")
  /\ c.toInsert \cap rolePermission[c.role] = {}
  /\ rolePermission' = [rolePermission EXCEPT ![c.role] = (@ \ c.toDelete) \cup c.toInsert]
  /\ RoleChanged(s, c.role)
  /\ Return(s)
  /\ UNCHANGED <<role, perms, accounts>>

(* then deletes and inserts.  What another request has inserted meanwhile  *)
(* violates the primary key and rolls back.                                *)
writePermissions(s) ==
  LET c == call[s] IN
  /\ At(s, "update.write")
  /\ \/ /\ c.toInsert \cap rolePermission[c.role] = {}
        /\ rolePermission' = [rolePermission EXCEPT ![c.role] = (@ \ c.toDelete) \cup c.toInsert]
        /\ RoleChanged(s, c.role)
        /\ Goto(s, "permissions.read", [role |-> c.role])
     \/ /\ c.toInsert \cap rolePermission[c.role] # {}
        /\ Return(s)
        /\ UNCHANGED <<rolePermission, skewed>>
  /\ UNCHANGED <<role, perms, accounts>>

(* delete: it is found, nobody active has it, its row is marked.           *)
delete(s, r) ==
  /\ At(s, "idle")
  /\ findOne(r) /\ r \notin SystemRole
  /\ Goto(s, "delete.users", [role |-> r])
  /\ UNCHANGED <<rbac, accounts>>

InUse(r) == \E u \in User : user[u] # NULL /\ user[u].role = r /\ user[u].active

activeUsers(s) ==
  /\ At(s, "delete.users")
  /\ IF InUse(call[s].role) THEN Return(s) ELSE Goto(s, "delete.write", call[s])
  /\ UNCHANGED <<rbac, accounts>>

deleteRole(s) ==
  /\ At(s, "delete.write")
  /\ role' = [role EXCEPT ![call[s].role] = "deleted"]
  /\ Return(s)
  /\ UNCHANGED <<rolePermission, perms, skewed, accounts>>

-----------------------------------------------------------------------------
(* Who has a role. *)

assignToUser(s, u, r) ==
  /\ At(s, "idle")
  /\ user[u] # NULL /\ user[u].role # r
  /\ Goto(s, "assign.write", [user |-> u, role |-> r])
  /\ UNCHANGED <<rbac, accounts>>

(* Faulty variant: the listener is not told.                                *)
assignSilently(s) ==
  LET u == call[s].user
      r == call[s].role IN
  /\ At(s, "assign.write")
  /\ user[u] # NULL /\ role[r] # NULL
  /\ user' = [user EXCEPT ![u].role = r]
  /\ UserChanged(u)
  /\ Return(s)
  /\ UNCHANGED <<drawn, token, refreshToken, rbac>>

(* The UPDATE, and the event: its listener, modelled as the rest of this   *)
(* request, runs while the response is sent.  The foreign key refuses a    *)
(* role that is not there; nothing refuses a deleted one.                  *)
assignRole(s) ==
  LET u == call[s].user
      r == call[s].role IN
  /\ At(s, "assign.write")
  /\ \/ /\ user[u] # NULL /\ role[r] # NULL
        /\ user' = [user EXCEPT ![u].role = r]
        /\ UserChanged(u)
        /\ Goto(s, "logout.find", [user |-> u])
     \/ /\ user[u] = NULL \/ role[r] = NULL
        /\ Return(s)
        /\ UNCHANGED <<user, lapsed>>
  /\ UNCHANGED <<drawn, token, refreshToken, rbac>>

(* AuthEventsListener.handleRoleChange: the user is looked up, then logged *)
(* out.                                                                    *)
handleRoleChange(s) ==
  /\ At(s, "logout.find")
  /\ IF user[call[s].user] # NULL THEN Goto(s, "logout.token", call[s]) ELSE Return(s)
  /\ UNCHANGED <<rbac, accounts>>

(* UsersService.updateStatus, softDelete and restore: sessions are left.   *)
updateStatus(u, active) ==
  /\ user[u] # NULL
  /\ user' = [user EXCEPT ![u].active = active]
  /\ UNCHANGED <<drawn, token, refreshToken, lapsed, rbac, requests>>
=============================================================================
