----------------------------- MODULE AuthProofs -----------------------------
(***************************************************************************)
(* Proofs about AuthService for every number of requests, roles and users. *)
(***************************************************************************)
EXTENDS AuthInvariant, TLAPS

-----------------------------------------------------------------------------
(* Types. *)

(* Tables only grow: roles are not removed, users not forgotten.  So what  *)
(* the other requests have read keeps its type.                            *)
Grows ==
  /\ \A r \in Role : role[r] # NULL => role'[r] # NULL
  /\ drawn \subseteq drawn'

LEMMA LocalsKept ==
  ASSUME RequestsOK, NEW s \in Session, Others(s), Grows, Shape', LocalsOK(s)'
  PROVE  RequestsOK'
<1>1. ASSUME NEW t \in Session, t # s PROVE LocalsOK(t)'
  <2>1. pc'[t] = pc[t] /\ call'[t] = call[t] /\ LocalsOK(t)
    BY <1>1 DEF Others, RequestsOK
  <2> QED BY <2>1 DEF LocalsOK, Grows
<1> QED BY <1>1 DEF RequestsOK, Shape

TypesOK == TypeOK /\ RequestsOK /\ FreshUsers

LEMMA InitTypes == Init => TypesOK
<1> USE RoleConstants, RoleNull DEF Init, NoRequests
<1>1. Init => TypeOK
  BY DEF TypeOK, RoleState
<1>2. Init => RequestsOK
  BY DEF RequestsOK, LocalsOK, OnRole, OnUser
<1>3. Init => FreshUsers
  BY DEF FreshUsers
<1> QED BY <1>1, <1>2, <1>3 DEF TypesOK

(* Steps of roles that read only. *)
RoleReads(s) ==
  \/ \E r \in Role :
       \/ duplicate(s, r) \/ delete(s, r)
       \/ \E names \in SUBSET Permission : updatePermissions(s, r, names)
       \/ \E u \in User : assignToUser(s, u, r)
  \/ selectPermissions(s) \/ existingPermissions(s) \/ activeUsers(s) \/ handleRoleChange(s)

LEMMA RoleReadsTyped ==
  ASSUME TypesOK, NEW s \in Session, RoleReads(s)
  PROVE  TypesOK'
<1> USE DEF TypesOK
<1>1. Shape
  BY DEF RequestsOK, Shape
<1>2. UNCHANGED <<rbac, accounts>>
  BY DEF RoleReads, duplicate, delete, updatePermissions, assignToUser, selectPermissions,
         existingPermissions, activeUsers, handleRoleChange
<1>3. TypeOK' /\ FreshUsers' /\ Grows
  BY <1>2 DEF TypeOK, FreshUsers, Grows, rbac, accounts, Refreshing
<1>4. LocalsOK(s)
  BY DEF RequestsOK
<1>5. Shape' /\ Others(s) /\ LocalsOK(s)'
  <2> USE <1>1, <1>2, <1>4, GotoEffect, ReturnEffect, RoleNull
      DEF TypeOK, LocalsOK, OnRole, OnUser, rbac, accounts, At, RoleState
  <2>1. CASE \E r \in Role : duplicate(s, r)
    BY <2>1 DEF duplicate
  <2>2. CASE \E r \in Role : delete(s, r)
    BY <2>2 DEF delete, findOne
  <2>3. CASE \E r \in Role, names \in SUBSET Permission : updatePermissions(s, r, names)
    BY <2>3 DEF updatePermissions, findOne
  <2>4. CASE \E r \in Role, u \in User : assignToUser(s, u, r)
    BY <2>4 DEF assignToUser
  <2>5. CASE selectPermissions(s)
    BY <2>5 DEF selectPermissions
  <2>6. CASE existingPermissions(s)
    BY <2>6 DEF existingPermissions
  <2>7. CASE activeUsers(s)
    BY <2>7 DEF activeUsers
  <2>8. CASE handleRoleChange(s)
    BY <2>8 DEF handleRoleChange
  <2> QED BY <2>1, <2>2, <2>3, <2>4, <2>5, <2>6, <2>7, <2>8 DEF RoleReads
<1> QED BY <1>3, <1>5, LocalsKept

(* Steps of roles that write. *)
RoleWrites(s) ==
  \/ \E new \in Role : insertDuplicate(s, new)
  \/ setPermissions(s) \/ writePermissions(s) \/ deleteRole(s) \/ assignRole(s)

LEMMA RoleWritesTyped ==
  ASSUME TypesOK, NEW s \in Session, RoleWrites(s)
  PROVE  TypesOK'
<1> USE DEF TypesOK
<1>1. Shape /\ LocalsOK(s)
  BY DEF RequestsOK, Shape
<1>2. Shape' /\ Others(s) /\ LocalsOK(s)' /\ Grows /\ TypeOK' /\ FreshUsers'
  <2> USE <1>1, GotoEffect, ReturnEffect, RoleNull
      DEF TypeOK, FreshUsers, Grows, LocalsOK, OnRole, OnUser, At, RoleState,
          RoleChanged, UserChanged
  <2>1. CASE \E new \in Role : insertDuplicate(s, new)
    BY <2>1 DEF insertDuplicate, accounts
  <2>2. CASE setPermissions(s)
    BY <2>2 DEF setPermissions, accounts
  <2>3. CASE writePermissions(s)
    BY <2>3 DEF writePermissions, accounts
  <2>4. CASE deleteRole(s)
    BY <2>4 DEF deleteRole, accounts
  <2>5. CASE assignRole(s)
    BY <2>5 DEF assignRole, rbac, UserRow
  <2> QED BY <2>1, <2>2, <2>3, <2>4, <2>5 DEF RoleWrites
<1> QED BY <1>2, LocalsKept

(* Steps of sessions that read only. *)
SessionReads(s) ==
  \/ \E u \in User :
       \/ logout(s, u) \/ refresh(s, u)
       \/ \E password, new \in Password : changePassword(s, u, password, new)
       \/ \E password \in Password : login(s, u, password)
  \/ refreshUser(s) \/ sendVerification(s) \/ signupFails(s)

LEMMA SessionReadsTyped ==
  ASSUME TypesOK, NEW s \in Session, SessionReads(s)
  PROVE  TypesOK'
<1> USE DEF TypesOK
<1>1. Shape /\ LocalsOK(s)
  BY DEF RequestsOK, Shape
<1>2. UNCHANGED <<rbac, accounts>>
  BY DEF SessionReads, logout, refresh, changePassword, login, refreshUser, sendVerification,
         signupFails
<1>3. TypeOK' /\ FreshUsers' /\ Grows
  BY <1>2 DEF TypeOK, FreshUsers, Grows, rbac, accounts
<1>4. Shape' /\ Others(s) /\ LocalsOK(s)'
  <2> USE <1>1, <1>2, GotoEffect, ReturnEffect
      DEF TypeOK, LocalsOK, OnRole, OnUser, rbac, accounts, At
  <2>1. CASE \E u \in User : logout(s, u) \/ refresh(s, u)
    BY <2>1 DEF logout, refresh
  <2>2. CASE \E u \in User, password, new \in Password : changePassword(s, u, password, new)
    BY <2>2 DEF changePassword
  <2>3. CASE \E u \in User, password \in Password : login(s, u, password)
    BY <2>3 DEF login
  <2>4. CASE refreshUser(s)
    BY <2>4 DEF refreshUser
  <2>5. CASE sendVerification(s)
    BY <2>5 DEF sendVerification
  <2>6. CASE signupFails(s)
    BY <2>6 DEF signupFails, InSignup
  <2> QED BY <2>1, <2>2, <2>3, <2>4, <2>5, <2>6 DEF SessionReads
<1> QED BY <1>3, <1>4, LocalsKept

(* Steps of sessions that write. *)
SessionWrites(s) ==
  \/ \E u \in User, password \in Password, r \in Role : signup(s, u, r, password)
  \/ setAccess(s) \/ setRefresh(s) \/ deleteAccess(s) \/ deleteRefresh(s)
  \/ writePassword(s) \/ remove(s)

LEMMA SessionWritesTyped ==
  ASSUME TypesOK, NEW s \in Session, SessionWrites(s)
  PROVE  TypesOK'
<1> USE DEF TypesOK
<1>1. Shape /\ LocalsOK(s)
  BY DEF RequestsOK, Shape
<1>2. Shape' /\ Others(s) /\ LocalsOK(s)' /\ Grows /\ TypeOK' /\ FreshUsers'
  <2> USE <1>1, GotoEffect, ReturnEffect, RoleNull
      DEF TypeOK, FreshUsers, Grows, LocalsOK, OnRole, OnUser, At, rbac, UserRow, UserChanged
  <2>1. CASE \E u \in User, password \in Password, r \in Role : signup(s, u, r, password)
    <3>1. PICK u \in User, password \in Password, r \in Role : signup(s, u, r, password)
      BY <2>1
    <3> DEFINE row == [role |-> r, password |-> password, active |-> TRUE]
    <3>2. /\ u \notin drawn /\ r \in SystemRole
          /\ Goto(s, "signup.mail", [user |-> u, row |-> row, new |-> TRUE])
          /\ user' = [user EXCEPT ![u] = row] /\ drawn' = drawn \cup {u}
          /\ UNCHANGED <<token, refreshToken, lapsed, role, rolePermission, perms, skewed>>
      BY <3>1 DEF signup
    <3>3. r \in Role /\ row \in UserRow /\ row.role = r
      BY <3>2, RoleConstants
    <3> HIDE DEF row
    <3>4. Shape' /\ Others(s) /\ LocalsOK(s)'
      BY <3>2, <3>3
    <3>5. TypeOK' /\ Grows /\ FreshUsers'
      BY <3>2, <3>3
    <3> QED BY <3>4, <3>5
  <2>2. CASE setAccess(s)
    BY <2>2 DEF setAccess, Claims, Claim
  <2>3. CASE setRefresh(s)
    BY <2>3 DEF setRefresh
  <2>4. CASE deleteAccess(s)
    BY <2>4 DEF deleteAccess
  <2>5. CASE deleteRefresh(s)
    BY <2>5 DEF deleteRefresh
  <2>6. CASE writePassword(s)
    BY <2>6 DEF writePassword
  <2>7. CASE remove(s)
    BY <2>7 DEF remove
  <2> QED BY <2>1, <2>2, <2>3, <2>4, <2>5, <2>6, <2>7 DEF SessionWrites
<1> QED BY <1>2, LocalsKept

LEMMA OneStatementTyped ==
  ASSUME TypesOK, OneStatement
  PROVE  TypesOK'
<1> USE RoleNull DEF TypesOK
<1>1. UNCHANGED requests /\ Grows /\ TypeOK' /\ FreshUsers'
  <2> USE DEF TypeOK, FreshUsers, Grows, rbac, accounts
  <2>1. CASE \E r \in Role : create(r)
    BY <2>1 DEF create, RoleState
  <2>2. CASE \E u \in User : expire(u)
    BY <2>2 DEF expire
  <2>3. CASE \E u \in User, active \in BOOLEAN : updateStatus(u, active)
    BY <2>3 DEF updateStatus, UserRow
  <2> QED BY <2>1, <2>2, <2>3 DEF OneStatement
<1>2. RequestsOK'
  BY <1>1 DEF RequestsOK, LocalsOK, Grows, requests
<1> QED BY <1>1, <1>2

LEMMA FailTyped ==
  ASSUME TypesOK, NEW s \in Session, Fail(s)
  PROVE  TypesOK'
<1> USE DEF TypesOK
<1>1. Shape' /\ Others(s) /\ LocalsOK(s)'
  BY ReturnEffect DEF RequestsOK, Shape, Fail, Abort, LocalsOK, OnRole, OnUser
<1>2. TypeOK' /\ FreshUsers' /\ Grows
  BY DEF Fail, TypeOK, FreshUsers, Grows
<1> QED BY <1>1, <1>2, LocalsKept

LEMMA RestartTyped ==
  ASSUME TypesOK, Restart
  PROVE  TypesOK'
<1> USE DEF TypesOK
<1>1. TypeOK'
  BY RoleConstants DEF Restart, TypeOK, syncAll, Seeded
<1>2. FreshUsers' /\ RequestsOK'
  BY DEF Restart, FreshUsers, RequestsOK, LocalsOK, OnRole, OnUser
<1> QED BY <1>1, <1>2

LEMMA NextTyped ==
  ASSUME TypesOK, [Next]_vars
  PROVE  TypesOK'
<1>1. CASE UNCHANGED vars
  BY <1>1 DEF TypesOK, TypeOK, RequestsOK, LocalsOK, FreshUsers, vars, accounts, rbac, requests
<1>2. ASSUME NEW s \in Session, Roles(s) PROVE TypesOK'
  BY <1>2, RoleReadsTyped, RoleWritesTyped DEF Roles, RoleReads, RoleWrites
<1>3. ASSUME NEW s \in Session, Sessions(s) PROVE TypesOK'
  BY <1>3, SessionReadsTyped, SessionWritesTyped DEF Sessions, SessionReads, SessionWrites
<1> QED BY <1>1, <1>2, <1>3, RestartTyped, OneStatementTyped, FailTyped DEF Next

-----------------------------------------------------------------------------
(* The copy of the permissions. *)

PermInv == PermissionsCurrent /\ RefreshesAlone /\ ReadsCurrent

Refresh == {"permissions.read", "permissions.set"}

(* A step that has nothing to do with permissions. *)
LEMMA PermissionsAside ==
  ASSUME PermInv, NEW s \in Session, Others(s),
         UNCHANGED <<rolePermission, perms, skewed>>,
         pc[s] \notin Refresh, pc'[s] \notin Refresh
  PROVE  PermInv'
<1>1. \A r \in Role : Refreshing(r)' = Refreshing(r)
  BY DEF Refreshing, Others, Refresh
<1>2. PermissionsCurrent' /\ RefreshesAlone'
  BY <1>1 DEF PermInv, PermissionsCurrent, RefreshesAlone, Held
<1>3. ReadsCurrent'
  BY DEF PermInv, ReadsCurrent, Others, Refresh
<1> QED BY <1>2, <1>3 DEF PermInv

(* The commit of a change of role r, by the request that then refreshes.   *)
LEMMA PermissionsCommit ==
  ASSUME TypesOK, PermInv, NEW s \in Session, NEW r \in Role, Others(s),
         pc[s] \notin Refresh, pc'[s] = "permissions.read", call'[s].role = r,
         RoleChanged(s, r), UNCHANGED perms,
         \A q \in Role \ {r} : rolePermission'[q] = rolePermission[q]
  PROVE  PermInv'
<1> USE DEF Refresh
<1>1. /\ \A q \in Role \ {r} : Refreshing(q)' = Refreshing(q)
      /\ Refreshing(r)' = Refreshing(r) \cup {s} /\ s \notin Refreshing(r)
  BY DEF Refreshing, Others
<1>2. r \notin skewed' => Refreshing(r)' = {s}
  BY <1>1 DEF RoleChanged
<1>3. \A q \in Role \ {r} : q \in skewed' <=> q \in skewed
  BY DEF RoleChanged
<1>4. PermissionsCurrent'
  BY <1>1, <1>3 DEF PermInv, PermissionsCurrent, Held
<1>5. RefreshesAlone'
  BY <1>1, <1>2, <1>3 DEF PermInv, RefreshesAlone
<1>6. ASSUME NEW t \in Session, pc'[t] = "permissions.set", call'[t].role \notin skewed'
      PROVE  call'[t].permissions = rolePermission'[call'[t].role]
  <2>1. t # s /\ pc[t] = pc'[t] /\ call[t] = call'[t]
    BY <1>6 DEF Others
  <2>2. call[t].role \in Role /\ t \in Refreshing(call[t].role)
    BY <1>6, <2>1 DEF TypesOK, RequestsOK, LocalsOK, OnRole, Refreshing
  <2>3. call[t].role # r
    BY <1>1, <1>2, <1>6, <2>1, <2>2
  <2> QED BY <1>3, <1>6, <2>1, <2>2, <2>3 DEF PermInv, ReadsCurrent
<1>7. ReadsCurrent'
  BY <1>6 DEF ReadsCurrent
<1> QED BY <1>4, <1>5, <1>7 DEF PermInv

LEMMA PermissionsQuery ==
  ASSUME TypesOK, PermInv, NEW s \in Session, selectPermissions(s)
  PROVE  PermInv'
<1> USE DEF selectPermissions, rbac, accounts, At
<1>1. pc'[s] = "permissions.set" /\ Others(s) /\ call[s].role \in Role
      /\ call'[s] = [role |-> call[s].role, permissions |-> rolePermission[call[s].role]]
  BY GotoEffect DEF TypesOK, RequestsOK, Shape, LocalsOK, OnRole
<1>2. \A r \in Role : Refreshing(r)' = Refreshing(r)
  BY <1>1 DEF Refreshing, Others
<1>3. PermissionsCurrent' /\ RefreshesAlone'
  BY <1>2 DEF PermInv, PermissionsCurrent, RefreshesAlone, Held
<1>4. ReadsCurrent'
  BY <1>1 DEF PermInv, ReadsCurrent, Others
<1> QED BY <1>3, <1>4 DEF PermInv

LEMMA PermissionsSet ==
  ASSUME TypesOK, PermInv, NEW s \in Session, setPermissions(s)
  PROVE  PermInv'
<1>1. PICK r \in Role : /\ call[s].role = r /\ pc[s] = "permissions.set"
                         /\ call[s].permissions \in SUBSET Permission
  BY DEF setPermissions, At, TypesOK, RequestsOK, LocalsOK, OnRole
<1>2. Others(s) /\ pc'[s] = "idle"
  BY ReturnEffect DEF setPermissions, TypesOK, RequestsOK, Shape
<1>3. /\ perms' = [perms EXCEPT ![r] = call[s].permissions]
      /\ UNCHANGED <<rolePermission, skewed>>
  BY <1>1 DEF setPermissions
<1>4. /\ \A q \in Role \ {r} : Refreshing(q)' = Refreshing(q)
      /\ Refreshing(r)' = Refreshing(r) \ {s}
  BY <1>1, <1>2 DEF Refreshing, Others
<1>5. r \notin skewed => call[s].permissions = rolePermission[r]
  BY <1>1 DEF PermInv, ReadsCurrent
<1>6. perms \in [Role -> (SUBSET Permission) \cup {NULL}]
  BY DEF TypesOK, TypeOK
<1>7. Held(r)' = call[s].permissions /\ \A q \in Role \ {r} : Held(q)' = Held(q)
  BY <1>1, <1>3, <1>6, RoleNull DEF Held
<1>8. PermissionsCurrent'
  BY <1>3, <1>4, <1>5, <1>7 DEF PermInv, PermissionsCurrent
<1>9. RefreshesAlone'
  BY <1>3, <1>4 DEF PermInv, RefreshesAlone
<1>10. ReadsCurrent'
  BY <1>2, <1>3 DEF PermInv, ReadsCurrent, Others
<1> QED BY <1>8, <1>9, <1>10 DEF PermInv

LEMMA PermissionsFail ==
  ASSUME TypesOK, PermInv, NEW s \in Session, Fail(s)
  PROVE  PermInv'
<1>1. Others(s) /\ pc'[s] = "idle"
  BY ReturnEffect DEF Fail, Abort, TypesOK, RequestsOK, Shape
<1>2. /\ \A r \in Role : Refreshing(r)' = Refreshing(r) \ {s}
      /\ \A r \in Role : r \notin skewed' => r \notin skewed /\ s \notin Refreshing(r)
  BY <1>1 DEF Fail, Refreshing, Others
<1>3. UNCHANGED <<rolePermission, perms>> /\ skewed \subseteq skewed'
  BY DEF Fail
<1>4. PermissionsCurrent' /\ RefreshesAlone'
  BY <1>2, <1>3 DEF PermInv, PermissionsCurrent, RefreshesAlone, Held
<1>5. ReadsCurrent'
  BY <1>1, <1>3 DEF PermInv, ReadsCurrent, Others
<1> QED BY <1>4, <1>5 DEF PermInv

LEMMA PermissionsRestart ==
  ASSUME TypesOK, PermInv, Restart
  PROVE  PermInv'
<1>1. PermissionsCurrent'
  BY RoleNull DEF Restart, PermissionsCurrent, Held, syncAll, Seeded, TypesOK, TypeOK
<1>2. RefreshesAlone' /\ ReadsCurrent'
  BY DEF Restart, RefreshesAlone, ReadsCurrent, Refreshing
<1> QED BY <1>1, <1>2 DEF PermInv

-----------------------------------------------------------------------------
(* Tokens. *)

SessInv == SessionsCurrent /\ IssuesCurrent

Issue == {"signup.mail", "token.set"}
End   == {"logout.find", "logout.token"}

(* What request s is to issue a token for is current. *)
IssueOK(s) ==
  pc[s] \in Issue /\ call[s].user \notin lapsed /\ user[call[s].user] # NULL =>
    Claims(call[s].row) = Claims(user[call[s].user])

(* A step that changes neither users nor tokens. *)
LEMMA SessionsAside ==
  ASSUME SessInv, NEW s \in Session, Others(s), UNCHANGED <<user, token, lapsed>>,
         \/ pc[s] \notin End
         \/ pc'[s] \in End /\ call'[s].user = call[s].user
         \/ user[call[s].user] = NULL,
         IssueOK(s)'
  PROVE  SessInv'
<1>1. \A u \in User : user[u] # NULL /\ Ending(u)' = {} => Ending(u) = {}
  BY DEF Ending, Others, End
<1>2. SessionsCurrent'
  BY <1>1 DEF SessInv, SessionsCurrent
<1>3. IssuesCurrent'
  BY DEF SessInv, IssuesCurrent, IssueOK, Others, Issue
<1> QED BY <1>2, <1>3 DEF SessInv

(* An UPDATE of role or password, by the request that then ends the        *)
(* session.                                                                *)
LEMMA UserCommit ==
  ASSUME TypesOK, SessInv, NEW s \in Session, NEW u \in User, Others(s),
         pc[s] \notin Issue \cup End, pc'[s] \in End, call'[s].user = u,
         UserChanged(u), UNCHANGED token,
         \A v \in User \ {u} : user'[v] = user[v]
  PROVE  SessInv'
<1>1. s \in Ending(u)' /\ \A v \in User \ {u} : Ending(v)' = Ending(v)
  BY DEF Ending, Others, End
<1>2. \A v \in User \ {u} : v \in lapsed' <=> v \in lapsed
  BY DEF UserChanged
<1>3. SessionsCurrent'
  BY <1>1, <1>2 DEF SessInv, SessionsCurrent
<1>4. ASSUME NEW t \in Session, pc'[t] \in Issue PROVE IssueOK(t)'
  <2>1. t # s /\ pc[t] = pc'[t] /\ call[t] = call'[t]
    BY <1>4 DEF Others, Issue, End
  <2>2. call[t].user \in User /\ t \in Issuing(call[t].user)
    BY <1>4, <2>1 DEF TypesOK, RequestsOK, LocalsOK, OnUser, Issuing, Issue
  <2>3. call[t].user = u => u \in lapsed'
    BY <2>2 DEF UserChanged
  <2> QED BY <1>2, <1>4, <2>1, <2>2, <2>3 DEF SessInv, IssuesCurrent, IssueOK, Issue
<1>5. IssuesCurrent'
  BY <1>4 DEF IssuesCurrent, IssueOK, Issue
<1> QED BY <1>3, <1>5 DEF SessInv

LEMMA TokenSet ==
  ASSUME TypesOK, SessInv, NEW s \in Session, setAccess(s)
  PROVE  SessInv'
<1>1. Others(s) /\ pc[s] = "token.set" /\ pc'[s] = "refresh.set"
  BY GotoEffect DEF setAccess, At, TypesOK, RequestsOK, Shape
<1>2. PICK u \in User : call[s].user = u
  BY <1>1 DEF TypesOK, RequestsOK, LocalsOK, OnUser
<1>3. token' = [token EXCEPT ![u] = Claims(call[s].row)] /\ UNCHANGED <<user, lapsed>>
  BY <1>2 DEF setAccess
<1>4. \A v \in User : Ending(v)' = Ending(v)
  BY <1>1 DEF Ending, Others
<1>5. u \notin lapsed /\ user[u] # NULL => Claims(call[s].row) = Claims(user[u])
  BY <1>1, <1>2 DEF SessInv, IssuesCurrent
<1>6. SessionsCurrent'
  BY <1>3, <1>4, <1>5 DEF SessInv, SessionsCurrent, TypesOK, TypeOK, Claims
<1>7. IssuesCurrent'
  BY <1>1, <1>3 DEF SessInv, IssuesCurrent, Others, Claims
<1> QED BY <1>6, <1>7 DEF SessInv

LEMMA TokenDeleted ==
  ASSUME TypesOK, SessInv, NEW s \in Session, deleteAccess(s)
  PROVE  SessInv'
<1>1. Others(s) /\ pc[s] = "logout.token" /\ pc'[s] = "logout.refresh"
  BY GotoEffect DEF deleteAccess, At, TypesOK, RequestsOK, Shape
<1>2. PICK u \in User : call[s].user = u
  BY <1>1 DEF TypesOK, RequestsOK, LocalsOK, OnUser
<1>3. /\ token' = [token EXCEPT ![u] = NULL] /\ token'[u] = NULL
      /\ UNCHANGED <<user, lapsed>>
  BY <1>2 DEF deleteAccess, TypesOK, TypeOK
<1>4. \A v \in User \ {u} : Ending(v)' = Ending(v)
  BY <1>1, <1>2 DEF Ending, Others
<1>5. SessionsCurrent'
  BY <1>3, <1>4 DEF SessInv, SessionsCurrent, TypesOK, TypeOK, Claims
<1>6. IssuesCurrent'
  BY <1>1, <1>3 DEF SessInv, IssuesCurrent, Others, Claims
<1> QED BY <1>5, <1>6 DEF SessInv

LEMMA UserRemoved ==
  ASSUME TypesOK, SessInv, NEW s \in Session, remove(s)
  PROVE  SessInv'
<1>1. Others(s) /\ pc[s] = "signup.remove" /\ pc'[s] = "idle"
  BY ReturnEffect DEF remove, At, TypesOK, RequestsOK, Shape
<1>2. PICK u \in User : call[s].user = u
  BY <1>1 DEF TypesOK, RequestsOK, LocalsOK, OnUser
<1>3. /\ user'[u] = NULL /\ \A v \in User \ {u} : user'[v] = user[v]
      /\ UNCHANGED <<token, lapsed>>
  BY <1>2 DEF remove, TypesOK, TypeOK
<1>4. \A v \in User : Ending(v)' = Ending(v)
  BY <1>1 DEF Ending, Others
<1>5. SessionsCurrent'
  BY <1>3, <1>4 DEF SessInv, SessionsCurrent
<1>6. ASSUME NEW t \in Session, pc'[t] \in Issue PROVE IssueOK(t)'
  <2>1. t # s /\ pc[t] = pc'[t] /\ call[t] = call'[t] /\ call[t].user \in User
    BY <1>1, <1>6 DEF Others, Issue, TypesOK, RequestsOK, LocalsOK, OnUser
  <2> QED BY <1>3, <1>6, <2>1 DEF SessInv, IssuesCurrent, IssueOK, Issue
<1>7. IssuesCurrent'
  BY <1>6 DEF IssuesCurrent, IssueOK, Issue
<1> QED BY <1>5, <1>7 DEF SessInv

LEMMA UserSignedUp ==
  ASSUME TypesOK, SessInv, NEW s \in Session, NEW u \in User, NEW r \in Role,
         NEW password \in Password, signup(s, u, r, password)
  PROVE  SessInv'
<1> DEFINE row == [role |-> r, password |-> password, active |-> TRUE]
<1>0. Shape /\ pc[s] = "idle"
      /\ Goto(s, "signup.mail", [user |-> u, row |-> row, new |-> TRUE])
  BY DEF signup, At, TypesOK, RequestsOK, Shape
<1>1. Others(s) /\ pc'[s] = "signup.mail" /\ call'[s].user = u /\ call'[s].row = row
  <2>1. Others(s) /\ pc'[s] = "signup.mail" /\ call'[s] = [user |-> u, row |-> row, new |-> TRUE]
    BY <1>0, GotoEffect
  <2> QED BY <2>1
<1>2. /\ user'[u] = row /\ \A v \in User \ {u} : user'[v] = user[v]
      /\ token[u] = NULL /\ u \notin drawn /\ UNCHANGED <<token, lapsed>>
  BY DEF signup, TypesOK, TypeOK, FreshUsers
<1> HIDE DEF row
<1>3. \A v \in User : Ending(v)' = Ending(v)
  BY <1>0, <1>1 DEF Ending, Others
<1>4. SessionsCurrent'
  BY <1>2, <1>3 DEF SessInv, SessionsCurrent
<1>5. ASSUME NEW t \in Session, pc'[t] \in Issue PROVE IssueOK(t)'
  <2>1. CASE t = s
    BY <1>1, <1>2, <2>1 DEF IssueOK
  <2>2. CASE t # s
    <3>1. pc[t] = pc'[t] /\ call[t] = call'[t]
      BY <1>1, <2>2 DEF Others
    <3>2. call[t].user \in drawn /\ call[t].user \in User
      BY <1>5, <3>1 DEF Issue, TypesOK, RequestsOK, LocalsOK, OnUser
    <3> QED BY <1>2, <1>5, <3>1, <3>2 DEF SessInv, IssuesCurrent, IssueOK, Issue
  <2> QED BY <2>1, <2>2
<1>6. IssuesCurrent'
  BY <1>5 DEF IssuesCurrent, IssueOK, Issue
<1> QED BY <1>4, <1>6 DEF SessInv

LEMMA SessionsOneStatement ==
  ASSUME TypesOK, SessInv, OneStatement
  PROVE  SessInv'
<1>1. UNCHANGED <<requests, lapsed>>
  BY DEF OneStatement, create, expire, updateStatus, accounts
<1>2. \A u \in User : Ending(u)' = Ending(u)
  BY <1>1 DEF Ending, requests
<1>3. \A u \in User : token'[u] = token[u] \/ token'[u] = NULL
  BY DEF OneStatement, create, expire, updateStatus, accounts, TypesOK, TypeOK
<1>4. \A u \in User : (user'[u] = NULL <=> user[u] = NULL)
                      /\ (user[u] # NULL => Claims(user'[u]) = Claims(user[u]))
  BY RoleNull DEF OneStatement, create, expire, updateStatus, accounts, TypesOK, TypeOK, Claims, UserRow
<1>5. SessionsCurrent'
  BY <1>1, <1>2, <1>3, <1>4 DEF SessInv, SessionsCurrent
<1>6. ASSUME NEW t \in Session, pc'[t] \in Issue PROVE IssueOK(t)'
  <2>1. pc[t] = pc'[t] /\ call[t] = call'[t] /\ call[t].user \in User
    BY <1>1, <1>6 DEF requests, Issue, TypesOK, RequestsOK, LocalsOK, OnUser
  <2>2. Claims(call[t].row)' = Claims(call[t].row)
    BY <2>1 DEF Claims
  <2> QED BY <1>1, <1>4, <1>6, <2>1, <2>2 DEF SessInv, IssuesCurrent, IssueOK, Issue
<1>7. IssuesCurrent'
  BY <1>6 DEF IssuesCurrent, IssueOK, Issue
<1> QED BY <1>5, <1>7 DEF SessInv

LEMMA SessionsFail ==
  ASSUME TypesOK, SessInv, NEW s \in Session, Fail(s)
  PROVE  SessInv'
<1>1. Others(s) /\ pc'[s] = "idle"
  BY ReturnEffect DEF Fail, Abort, TypesOK, RequestsOK, Shape
<1>2. \A u \in User : u \notin lapsed' => u \notin lapsed /\ Ending(u)' = Ending(u)
  BY <1>1 DEF Fail, Ending, Others
<1>3. UNCHANGED <<user, token>> /\ lapsed \subseteq lapsed'
  BY DEF Fail
<1>4. SessionsCurrent'
  BY <1>2, <1>3 DEF SessInv, SessionsCurrent
<1>5. IssuesCurrent'
  BY <1>1, <1>3 DEF SessInv, IssuesCurrent, Others
<1> QED BY <1>4, <1>5 DEF SessInv

LEMMA SessionsRestart ==
  ASSUME TypesOK, SessInv, Restart
  PROVE  SessInv'
<1>1. UNCHANGED <<user, token>> /\ \A s \in Session : pc'[s] = "idle"
  BY DEF Restart
<1>2. \A u \in User : u \notin lapsed' => u \notin lapsed /\ Ending(u) = {}
  BY DEF Restart
<1>3. SessionsCurrent'
  BY <1>1, <1>2 DEF SessInv, SessionsCurrent
<1>4. IssuesCurrent'
  BY <1>1 DEF IssuesCurrent
<1> QED BY <1>3, <1>4 DEF SessInv

-----------------------------------------------------------------------------
(* Every step, by what it does to permissions and to tokens. *)

LEMMA StepShape ==
  ASSUME TypesOK, NEW s \in Session
  PROVE  Shape /\ LocalsOK(s)
BY DEF TypesOK, RequestsOK, Shape

(* The actions of a request that leave the permissions of roles and their  *)
(* copy alone.                                                             *)
LEMMA PermissionsElsewhere ==
  ASSUME TypesOK, PermInv, NEW s \in Session,
         \/ RoleReads(s) /\ ~selectPermissions(s)
         \/ SessionReads(s) \/ SessionWrites(s) \/ deleteRole(s) \/ assignRole(s)
  PROVE  PermInv'
<1> USE StepShape, GotoEffect, ReturnEffect DEF At, Refresh
<1>1. UNCHANGED <<rolePermission, perms, skewed>>
  BY DEF RoleReads, duplicate, delete, updatePermissions, assignToUser, selectPermissions,
         existingPermissions, activeUsers, handleRoleChange, deleteRole, assignRole,
         SessionReads, logout, refresh, changePassword, login, refreshUser, sendVerification,
         signupFails, SessionWrites, signup, setAccess, setRefresh, deleteAccess, deleteRefresh,
         writePassword, remove, rbac
<1>2. CASE RoleReads(s) /\ ~selectPermissions(s)
  <2> USE <1>1, PermissionsAside
  <2>1. CASE \E r \in Role : duplicate(s, r) \/ delete(s, r)
    <3>1. Others(s) /\ pc[s] \notin Refresh /\ pc'[s] \notin Refresh
      BY <2>1 DEF duplicate, delete
    <3> QED BY <3>1
  <2>2. CASE \E r \in Role, names \in SUBSET Permission : updatePermissions(s, r, names)
    <3>1. Others(s) /\ pc[s] \notin Refresh /\ pc'[s] \notin Refresh
      BY <2>2 DEF updatePermissions
    <3> QED BY <3>1
  <2>3. CASE \E r \in Role, u \in User : assignToUser(s, u, r)
    <3>1. Others(s) /\ pc[s] \notin Refresh /\ pc'[s] \notin Refresh
      BY <2>3 DEF assignToUser
    <3> QED BY <3>1
  <2>4. CASE existingPermissions(s)
    <3>1. Others(s) /\ pc[s] \notin Refresh /\ pc'[s] \notin Refresh
      BY <2>4 DEF existingPermissions
    <3> QED BY <3>1
  <2>5. CASE activeUsers(s)
    <3>1. Others(s) /\ pc[s] \notin Refresh /\ pc'[s] \notin Refresh
      BY <2>5 DEF activeUsers
    <3> QED BY <3>1
  <2>6. CASE handleRoleChange(s)
    <3>1. Others(s) /\ pc[s] \notin Refresh /\ pc'[s] \notin Refresh
      BY <2>6 DEF handleRoleChange
    <3> QED BY <3>1
  <2> QED BY <1>2, <2>1, <2>2, <2>3, <2>4, <2>5, <2>6 DEF RoleReads
<1>3. CASE SessionReads(s)
  <2> USE <1>1, PermissionsAside
  <2>1. CASE \E u \in User : logout(s, u) \/ refresh(s, u)
    <3>1. Others(s) /\ pc[s] \notin Refresh /\ pc'[s] \notin Refresh
      BY <2>1 DEF logout, refresh
    <3> QED BY <3>1
  <2>2. CASE \E u \in User, password, new \in Password : changePassword(s, u, password, new)
    <3>1. Others(s) /\ pc[s] \notin Refresh /\ pc'[s] \notin Refresh
      BY <2>2 DEF changePassword
    <3> QED BY <3>1
  <2>3. CASE \E u \in User, password \in Password : login(s, u, password)
    <3>1. Others(s) /\ pc[s] \notin Refresh /\ pc'[s] \notin Refresh
      BY <2>3 DEF login
    <3> QED BY <3>1
  <2>4. CASE refreshUser(s)
    <3>1. Others(s) /\ pc[s] \notin Refresh /\ pc'[s] \notin Refresh
      BY <2>4 DEF refreshUser
    <3> QED BY <3>1
  <2>5. CASE sendVerification(s)
    <3>1. Others(s) /\ pc[s] \notin Refresh /\ pc'[s] \notin Refresh
      BY <2>5 DEF sendVerification
    <3> QED BY <3>1
  <2>6. CASE signupFails(s)
    <3>1. Others(s) /\ pc[s] \notin Refresh /\ pc'[s] \notin Refresh
      BY <2>6 DEF signupFails, InSignup
    <3> QED BY <3>1
  <2> QED BY <1>3, <2>1, <2>2, <2>3, <2>4, <2>5, <2>6 DEF SessionReads
<1>4. CASE SessionWrites(s)
  <2> USE <1>1, PermissionsAside
  <2>1. CASE \E u \in User, password \in Password, r \in Role : signup(s, u, r, password)
    <3>1. Others(s) /\ pc[s] \notin Refresh /\ pc'[s] \notin Refresh
      BY <2>1 DEF signup
    <3> QED BY <3>1
  <2>2. CASE setAccess(s) \/ setRefresh(s)
    <3>1. Others(s) /\ pc[s] \notin Refresh /\ pc'[s] \notin Refresh
      BY <2>2 DEF setAccess, setRefresh
    <3> QED BY <3>1
  <2>3. CASE deleteAccess(s) \/ deleteRefresh(s)
    <3>1. Others(s) /\ pc[s] \notin Refresh /\ pc'[s] \notin Refresh
      BY <2>3 DEF deleteAccess, deleteRefresh
    <3> QED BY <3>1
  <2>4. CASE writePassword(s) \/ remove(s)
    <3>1. Others(s) /\ pc[s] \notin Refresh /\ pc'[s] \notin Refresh
      BY <2>4 DEF writePassword, remove
    <3> QED BY <3>1
  <2> QED BY <1>4, <2>1, <2>2, <2>3, <2>4 DEF SessionWrites
<1>5. CASE deleteRole(s) \/ assignRole(s)
  <2>1. Others(s) /\ pc[s] \notin Refresh /\ pc'[s] \notin Refresh
    BY <1>5 DEF deleteRole, assignRole
  <2> QED BY <1>1, <2>1, PermissionsAside
<1> QED BY <1>2, <1>3, <1>4, <1>5

LEMMA PermissionsWritten ==
  ASSUME TypesOK, PermInv, NEW s \in Session,
         (\E new \in Role : insertDuplicate(s, new)) \/ writePermissions(s)
  PROVE  PermInv'
<1> USE StepShape, GotoEffect, ReturnEffect DEF At, Refresh
<1>1. CASE \E new \in Role : insertDuplicate(s, new)
  <2>1. PICK new \in Role : insertDuplicate(s, new)
    BY <1>1
  <2>2. /\ Others(s) /\ pc[s] \notin Refresh /\ pc'[s] = "permissions.read"
        /\ call'[s].role = new /\ RoleChanged(s, new) /\ UNCHANGED perms
        /\ \A q \in Role \ {new} : rolePermission'[q] = rolePermission[q]
    BY <2>1 DEF insertDuplicate, TypesOK, TypeOK
  <2> QED BY <2>2, PermissionsCommit
<1>2. CASE writePermissions(s) /\ call[s].toInsert \cap rolePermission[call[s].role] = {}
  <2>1. PICK r \in Role : r = call[s].role
    BY <1>2 DEF writePermissions, LocalsOK, OnRole
  <2>2. /\ Others(s) /\ pc[s] \notin Refresh /\ pc'[s] = "permissions.read"
        /\ call'[s].role = r /\ RoleChanged(s, r) /\ UNCHANGED perms
        /\ \A q \in Role \ {r} : rolePermission'[q] = rolePermission[q]
    BY <1>2, <2>1 DEF writePermissions, TypesOK, TypeOK
  <2> QED BY <2>2, PermissionsCommit
<1>3. CASE writePermissions(s) /\ call[s].toInsert \cap rolePermission[call[s].role] # {}
  <2>1. /\ Others(s) /\ pc[s] \notin Refresh /\ pc'[s] \notin Refresh
        /\ UNCHANGED <<rolePermission, perms, skewed>>
    BY <1>3 DEF writePermissions
  <2> QED BY <2>1, PermissionsAside
<1> QED BY <1>1, <1>2, <1>3

LEMMA PermissionsIdle ==
  ASSUME PermInv, UNCHANGED <<rolePermission, perms, skewed, requests>>
  PROVE  PermInv'
BY DEF PermInv, PermissionsCurrent, RefreshesAlone, ReadsCurrent, Refreshing, Held, requests

LEMMA NextPermissions ==
  ASSUME TypesOK, PermInv, [Next]_vars
  PROVE  PermInv'
<1>1. CASE UNCHANGED vars
  BY <1>1, PermissionsIdle DEF vars, rbac
<1>2. CASE OneStatement
  BY <1>2, PermissionsIdle DEF OneStatement, create, expire, updateStatus, rbac
<1>3. ASSUME NEW s \in Session, Roles(s) PROVE PermInv'
  BY <1>3, PermissionsElsewhere, PermissionsQuery, PermissionsSet, PermissionsWritten
     DEF Roles, RoleReads
<1>4. ASSUME NEW s \in Session, Sessions(s) PROVE PermInv'
  BY <1>4, PermissionsElsewhere DEF Sessions, SessionReads, SessionWrites
<1> QED BY <1>1, <1>2, <1>3, <1>4, PermissionsFail, PermissionsRestart DEF Next

SessionsUntouched(s) ==
  /\ Others(s) /\ UNCHANGED <<user, token, lapsed>>
  /\ \/ pc[s] \notin End
     \/ pc'[s] \in End /\ call'[s].user = call[s].user
     \/ user[call[s].user] = NULL
  /\ IssueOK(s)'

(* The actions of a request that change neither users nor tokens. *)
LEMMA SessionsElsewhere ==
  ASSUME TypesOK, SessInv, NEW s \in Session,
         \/ RoleReads(s)
         \/ RoleWrites(s) /\ ~assignRole(s)
         \/ SessionReads(s) \/ setRefresh(s) \/ deleteRefresh(s)
  PROVE  SessInv'
<1> USE StepShape, GotoEffect, ReturnEffect
    DEF At, Issue, End, IssueOK, SessionsUntouched, rbac, accounts, Claims
<1>1. CASE RoleReads(s)
  <2>1. CASE \E r \in Role : duplicate(s, r) \/ delete(s, r)
    <3>1. SessionsUntouched(s)
      BY <2>1 DEF duplicate, delete
    <3> QED BY <3>1, SessionsAside DEF SessionsUntouched
  <2>2. CASE \E r \in Role, names \in SUBSET Permission : updatePermissions(s, r, names)
    <3>1. SessionsUntouched(s)
      BY <2>2 DEF updatePermissions
    <3> QED BY <3>1, SessionsAside DEF SessionsUntouched
  <2>3. CASE \E r \in Role, u \in User : assignToUser(s, u, r)
    <3>1. SessionsUntouched(s)
      BY <2>3 DEF assignToUser
    <3> QED BY <3>1, SessionsAside DEF SessionsUntouched
  <2>4. CASE selectPermissions(s) \/ existingPermissions(s)
    <3>1. SessionsUntouched(s)
      BY <2>4 DEF selectPermissions, existingPermissions
    <3> QED BY <3>1, SessionsAside DEF SessionsUntouched
  <2>5. CASE activeUsers(s)
    <3>1. SessionsUntouched(s)
      BY <2>5 DEF activeUsers
    <3> QED BY <3>1, SessionsAside DEF SessionsUntouched
  <2>6. CASE handleRoleChange(s)
    <3>1. SessionsUntouched(s)
      BY <2>6 DEF handleRoleChange
    <3> QED BY <3>1, SessionsAside DEF SessionsUntouched
  <2> QED BY <1>1, <2>1, <2>2, <2>3, <2>4, <2>5, <2>6 DEF RoleReads
<1>2. CASE RoleWrites(s) /\ ~assignRole(s)
  <2>1. CASE \E new \in Role : insertDuplicate(s, new)
    <3>1. SessionsUntouched(s)
      BY <2>1 DEF insertDuplicate
    <3> QED BY <3>1, SessionsAside DEF SessionsUntouched
  <2>2. CASE setPermissions(s)
    <3>1. SessionsUntouched(s)
      BY <2>2 DEF setPermissions
    <3> QED BY <3>1, SessionsAside DEF SessionsUntouched
  <2>3. CASE writePermissions(s)
    <3>1. SessionsUntouched(s)
      BY <2>3 DEF writePermissions
    <3> QED BY <3>1, SessionsAside DEF SessionsUntouched
  <2>4. CASE deleteRole(s)
    <3>1. SessionsUntouched(s)
      BY <2>4 DEF deleteRole
    <3> QED BY <3>1, SessionsAside DEF SessionsUntouched
  <2> QED BY <1>2, <2>1, <2>2, <2>3, <2>4 DEF RoleWrites
<1>3. CASE SessionReads(s)
  <2>1. CASE \E u \in User : logout(s, u) \/ refresh(s, u)
    <3>1. SessionsUntouched(s)
      BY <2>1 DEF logout, refresh
    <3> QED BY <3>1, SessionsAside DEF SessionsUntouched
  <2>2. CASE \E u \in User, password, new \in Password : changePassword(s, u, password, new)
    <3>1. SessionsUntouched(s)
      BY <2>2 DEF changePassword
    <3> QED BY <3>1, SessionsAside DEF SessionsUntouched
  <2>3. CASE \E u \in User, password \in Password : login(s, u, password)
    <3>1. SessionsUntouched(s)
      BY <2>3 DEF login
    <3> QED BY <3>1, SessionsAside DEF SessionsUntouched
  <2>4. CASE refreshUser(s)
    <3>1. SessionsUntouched(s)
      BY <2>4 DEF refreshUser
    <3> QED BY <3>1, SessionsAside DEF SessionsUntouched
  <2>5. CASE sendVerification(s)
    <3>1. SessionsUntouched(s)
      BY <2>5 DEF sendVerification, SessInv, IssuesCurrent
    <3> QED BY <3>1, SessionsAside DEF SessionsUntouched
  <2>6. CASE signupFails(s)
    <3>1. SessionsUntouched(s)
      BY <2>6 DEF signupFails, InSignup
    <3> QED BY <3>1, SessionsAside DEF SessionsUntouched
  <2> QED BY <1>3, <2>1, <2>2, <2>3, <2>4, <2>5, <2>6 DEF SessionReads
<1>4. CASE setRefresh(s) \/ deleteRefresh(s)
  <2>1. SessionsUntouched(s)
    BY <1>4 DEF setRefresh, deleteRefresh
  <2> QED BY <2>1, SessionsAside DEF SessionsUntouched
<1> QED BY <1>1, <1>2, <1>3, <1>4

LEMMA SessionsWritten ==
  ASSUME TypesOK, SessInv, NEW s \in Session, assignRole(s) \/ writePassword(s)
  PROVE  SessInv'
<1> USE StepShape, GotoEffect, ReturnEffect DEF At, Issue, End, rbac
<1>1. PICK u \in User : call[s].user = u
  BY DEF assignRole, writePassword, LocalsOK, OnUser
<1>2. CASE UNCHANGED <<user, lapsed>>
  <2>1. Others(s) /\ UNCHANGED <<user, token, lapsed>> /\ pc[s] \notin End /\ pc'[s] \notin Issue
    BY <1>2 DEF assignRole, writePassword
  <2> QED BY <2>1, SessionsAside DEF IssueOK
<1>3. CASE ~UNCHANGED <<user, lapsed>>
  <2>1. /\ Others(s) /\ pc[s] \notin Issue \cup End /\ pc'[s] \in End /\ call'[s].user = u
        /\ UserChanged(u) /\ UNCHANGED token
        /\ \A v \in User \ {u} : user'[v] = user[v]
    BY <1>1, <1>3 DEF assignRole, writePassword, TypesOK, TypeOK
  <2> QED BY <2>1, UserCommit
<1> QED BY <1>2, <1>3

LEMMA SessionsIdle ==
  ASSUME SessInv, UNCHANGED <<user, token, lapsed, requests>>
  PROVE  SessInv'
BY DEF SessInv, SessionsCurrent, IssuesCurrent, Ending, Claims, requests

LEMMA NextSessions ==
  ASSUME TypesOK, SessInv, [Next]_vars
  PROVE  SessInv'
<1>1. CASE UNCHANGED vars
  BY <1>1, SessionsIdle DEF vars, accounts
<1>2. ASSUME NEW s \in Session, Roles(s) PROVE SessInv'
  BY <1>2, SessionsElsewhere, SessionsWritten DEF Roles, RoleReads, RoleWrites
<1>3. ASSUME NEW s \in Session, Sessions(s) PROVE SessInv'
  <2>1. CASE SessionReads(s) \/ setRefresh(s) \/ deleteRefresh(s)
    BY <2>1, SessionsElsewhere
  <2>2. CASE writePassword(s) \/ setAccess(s) \/ deleteAccess(s) \/ remove(s)
    BY <2>2, SessionsWritten, TokenSet, TokenDeleted, UserRemoved
  <2>3. CASE \E u \in User, password \in Password, r \in Role : signup(s, u, r, password)
    BY <2>3, UserSignedUp
  <2> QED BY <1>3, <2>1, <2>2, <2>3 DEF Sessions, SessionReads
<1> QED BY <1>1, <1>2, <1>3, SessionsOneStatement, SessionsFail, SessionsRestart DEF Next

-----------------------------------------------------------------------------
(* The theorems. *)

(* The invariant holds when the process has started for the first time,    *)
(* and every statement of every request, failure and restart keeps it.     *)
THEOREM Invariance == Spec => []IInv
<1>1. Init => IInv
  <2>1. Init => PermInv
    BY RoleNull DEF Init, NoRequests, PermInv, PermissionsCurrent, RefreshesAlone, ReadsCurrent,
                    Refreshing, Held
  <2>2. Init => SessInv
    BY DEF Init, NoRequests, SessInv, SessionsCurrent, IssuesCurrent
  <2> QED BY <2>1, <2>2, InitTypes DEF IInv, TypesOK, PermInv, SessInv
<1>2. IInv /\ [Next]_vars => IInv'
  BY NextTyped, NextPermissions, NextSessions DEF IInv, TypesOK, PermInv, SessInv
<1> QED BY <1>1, <1>2, PTL DEF Spec

(* Roles, users, copies and tokens keep their types, and no user has a     *)
(* role that is not in the table.                                          *)
THEOREM TypeCorrect == Spec => []TypeOK
BY Invariance, PTL DEF IInv

(* setPermissionToken, syncAll: the copy of the permissions of a role in   *)
(* Redis is what the role holds, but for refreshes that are under way,     *)
(* have met or have failed.                                                *)
THEOREM PermissionsStayCurrent == Spec => []PermissionsCurrent
BY Invariance, PTL DEF IInv

(* setToken, handleRoleChange, changePassword: the stored token of a user  *)
(* was issued for the role and password the user has, but for logouts      *)
(* under way or cut short, and logins that have read an older row.         *)
THEOREM SessionsStayCurrent == Spec => []SessionsCurrent
BY Invariance, PTL DEF IInv
=============================================================================
