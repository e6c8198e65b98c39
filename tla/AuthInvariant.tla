--------------------------- MODULE AuthInvariant ---------------------------
(***************************************************************************)
(* The inductive invariant of AuthService: what each request has read, and *)
(* why that still agrees with the tables.                                  *)
(***************************************************************************)
EXTENDS AuthService

(* Steps of requests that work on a role, and on a user. *)
OnRole == {"permissions.read", "permissions.set", "update.existing", "update.write",
           "delete.users", "delete.write"}
OnUser == {"assign.write", "logout.find", "logout.token", "logout.refresh", "refresh.find",
           "password.write", "signup.mail", "signup.remove", "token.set", "refresh.set"}

LocalsOK(s) == LET c == call[s] IN
  /\ pc[s] \in OnRole => c.role \in Role /\ role[c.role] # NULL
  /\ pc[s] \in {"permissions.set", "duplicate.insert"} => c.permissions \in SUBSET Permission
  /\ pc[s] = "update.existing" => c.names \in SUBSET Permission
  /\ pc[s] = "update.write" => c.toInsert \in SUBSET Permission
  /\ pc[s] \in OnUser => c.user \in User
  /\ pc[s] = "assign.write" => c.role \in Role
  /\ pc[s] = "password.write" => c.password \in Password
  /\ pc[s] \in {"signup.mail", "token.set", "refresh.set"} => c.row \in UserRow
  /\ pc[s] \in {"signup.mail", "token.set"} => c.user \in drawn

RequestsOK ==
  /\ pc = [s \in Session |-> pc[s]] /\ call = [s \in Session |-> call[s]]
  /\ \A s \in Session : LocalsOK(s)

(* A user nobody has signed up as yet has no token. *)
FreshUsers == \A u \in User \ drawn : token[u] = NULL

(* Of a role that is not skewed, one request at most is refreshing the     *)
(* copy, and what it has read is what the role holds.                      *)
RefreshesAlone ==
  \A r \in Role \ skewed : \A s, t \in Refreshing(r) : s = t

ReadsCurrent ==
  \A s \in Session :
    pc[s] = "permissions.set" /\ call[s].role \notin skewed =>
      call[s].permissions = rolePermission[call[s].role]

(* Of a user who has not lapsed, the rows read to issue tokens for are     *)
(* current.                                                                *)
IssuesCurrent ==
  \A s \in Session :
    pc[s] \in {"signup.mail", "token.set"} /\ call[s].user \notin lapsed
      /\ user[call[s].user] # NULL =>
        Claims(call[s].row) = Claims(user[call[s].user])

(* The inductive invariant.  PermissionsCurrent alone does not survive the *)
(* SET, SessionsCurrent not the issue of a token: both need to know what   *)
(* the request has read before.                                            *)
IInv ==
  /\ TypeOK /\ RequestsOK /\ FreshUsers
  /\ PermissionsCurrent /\ RefreshesAlone /\ ReadsCurrent
  /\ SessionsCurrent /\ IssuesCurrent
=============================================================================
