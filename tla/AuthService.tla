---------------------------- MODULE AuthService ----------------------------
(***************************************************************************)
(* Sessions: tokens in Redis, written by a request that read the row of    *)
(* the user earlier, deleted by one that has changed that row.             *)
(***************************************************************************)
EXTENDS RolesService

-----------------------------------------------------------------------------
(* Tokens. *)

(* setToken: the access token, then the refresh token.                     *)
setAccess(s) ==
  /\ At(s, "token.set")
  /\ token' = [token EXCEPT ![call[s].user] = Claims(call[s].row)]
  /\ Goto(s, "refresh.set", call[s])
  /\ UNCHANGED <<user, drawn, refreshToken, lapsed, rbac>>

setRefresh(s) ==
  /\ At(s, "refresh.set")
  /\ refreshToken' = refreshToken \cup {call[s].user}
  /\ Return(s)
  /\ UNCHANGED <<user, drawn, token, lapsed, rbac>>

(* Two keys are deleted, one after the other.                              *)
deleteAccess(s) ==
  /\ At(s, "logout.token")
  /\ token' = [token EXCEPT ![call[s].user] = NULL]
  /\ Goto(s, "logout.refresh", call[s])
  /\ UNCHANGED <<user, drawn, refreshToken, lapsed, rbac>>

deleteRefresh(s) ==
  /\ At(s, "logout.refresh")
  /\ refreshToken' = refreshToken \ {call[s].user}
  /\ Return(s)
  /\ UNCHANGED <<user, drawn, token, lapsed, rbac>>

(* The time to live of a key ends.                                         *)
expire(u) ==
  /\ \/ token' = [token EXCEPT ![u] = NULL] /\ UNCHANGED refreshToken
     \/ refreshToken' = refreshToken \ {u} /\ UNCHANGED token
  /\ UNCHANGED <<user, drawn, lapsed, rbac, requests>>

-----------------------------------------------------------------------------
(* Operations. *)

(* validateUser: the row is read and the password compared.                *)
login(s, u, password) ==
  /\ At(s, "idle")
  /\ user[u] # NULL /\ user[u].password = password
  /\ Goto(s, "token.set", [user |-> u, row |-> user[u], new |-> FALSE])
  /\ UNCHANGED <<rbac, accounts>>

logout(s, u) ==
  /\ At(s, "idle")
  /\ Goto(s, "logout.token", [user |-> u])
  /\ UNCHANGED <<rbac, accounts>>

(* The token presented is the stored one.                                  *)
refresh(s, u) ==
  /\ At(s, "idle")
  /\ u \in refreshToken
  /\ Goto(s, "refresh.find", [user |-> u])
  /\ UNCHANGED <<rbac, accounts>>

refreshUser(s) ==
  LET u == call[s].user IN
  /\ At(s, "refresh.find")
  /\ IF user[u] # NULL
       THEN Goto(s, "token.set", [user |-> u, row |-> user[u], new |-> FALSE])
       ELSE Return(s)
  /\ UNCHANGED <<rbac, accounts>>

changePassword(s, u, old, new) ==
  /\ At(s, "idle")
  /\ user[u] # NULL /\ user[u].password = old /\ new # old
  /\ Goto(s, "password.write", [user |-> u, password |-> new])
  /\ UNCHANGED <<rbac, accounts>>

(* Faulty variant: the tokens are kept.                                     *)
writePasswordOnly(s) ==
  LET u == call[s].user IN
  /\ At(s, "password.write")
  /\ user[u] # NULL
  /\ user' = [user EXCEPT ![u].password = call[s].password]
  /\ UserChanged(u)
  /\ Return(s)
  /\ UNCHANGED <<drawn, token, refreshToken, rbac>>

(* An UPDATE of a row that is gone changes nothing.                        *)
writePassword(s) ==
  LET u == call[s].user IN
  /\ At(s, "password.write")
  /\ \/ /\ user[u] # NULL
        /\ user' = [user EXCEPT ![u].password = call[s].password]
        /\ UserChanged(u)
     \/ user[u] = NULL /\ UNCHANGED <<user, lapsed>>
  /\ Goto(s, "logout.token", [user |-> u])
  /\ UNCHANGED <<drawn, token, refreshToken, rbac>>

-----------------------------------------------------------------------------
(* Signing up: the row, a mail, the tokens; the row is removed again when  *)
(* one of the later two fails.                                             *)

signup(s, u, r, password) ==
  /\ At(s, "idle")
  /\ u \notin drawn /\ r \in SystemRole
  /\ LET row == [role |-> r, password |-> password, active |-> TRUE] IN
       /\ user' = [user EXCEPT ![u] = row]
       /\ Goto(s, "signup.mail", [user |-> u, row |-> row, new |-> TRUE])
  /\ drawn' = drawn \cup {u}
  /\ UNCHANGED <<token, refreshToken, lapsed, rbac>>

sendVerification(s) ==
  /\ At(s, "signup.mail")
  /\ Goto(s, "token.set", call[s])
  /\ UNCHANGED <<rbac, accounts>>

InSignup(s) == pc[s] \in {"signup.mail", "token.set", "refresh.set"} /\ call[s].new

(* The mail or a SET fails, and the request goes on to clean up.           *)
signupFails(s) ==
  /\ InSignup(s)
  /\ Goto(s, "signup.remove", [user |-> call[s].user])
  /\ UNCHANGED <<rbac, accounts>>

(* tokenData is not set yet when setToken fails: no token is deleted.      *)
remove(s) ==
  /\ At(s, "signup.remove")
  /\ user' = [user EXCEPT ![call[s].user] = NULL]
  /\ Return(s)
  /\ UNCHANGED <<drawn, token, refreshToken, lapsed, rbac>>

-----------------------------------------------------------------------------

Init ==
  /\ role = [r \in Role |-> IF r \in SystemRole THEN "live" ELSE NULL]
  /\ rolePermission = [r \in Role |-> IF r \in SystemRole THEN Permission ELSE {}]
  /\ perms = [r \in Role |-> IF r \in SystemRole THEN Permission ELSE NULL]
  /\ user = [u \in User |-> NULL] /\ drawn = {}
  /\ token = [u \in User |-> NULL] /\ refreshToken = {}
  /\ skewed = {} /\ lapsed = {}
  /\ NoRequests

(* A statement fails, outside signup's try block.                          *)
Fail(s) ==
  /\ ~InSignup(s) /\ Abort(s)
  /\ skewed' = skewed \cup {r \in Role : s \in Refreshing(r)}
  /\ lapsed' = lapsed \cup {u \in User : s \in Ending(u)}
  /\ UNCHANGED <<role, rolePermission, perms, user, drawn, token, refreshToken>>

(* The process stops; as it starts again PermissionSeederService adds what *)
(* system roles lack and syncs Redis, before any request is served.        *)
Restart ==
  /\ pc' = [s \in Session |-> "idle"] /\ call' = [s \in Session |-> NULL]
  /\ rolePermission' = [r \in Role |-> Seeded(r)]
  /\ perms' = [r \in Role |-> syncAll(r)]
  /\ skewed' = {}
  /\ lapsed' = lapsed \cup {u \in User : Ending(u) # {}}
  /\ UNCHANGED <<role, user, drawn, token, refreshToken>>

Roles(s) ==
  \/ \E r \in Role :
       \/ duplicate(s, r) \/ insertDuplicate(s, r) \/ delete(s, r)
       \/ \E names \in SUBSET Permission : updatePermissions(s, r, names)
       \/ \E u \in User : assignToUser(s, u, r)
  \/ selectPermissions(s) \/ setPermissions(s) \/ existingPermissions(s)
  \/ writePermissions(s) \/ activeUsers(s) \/ deleteRole(s)
  \/ assignRole(s) \/ handleRoleChange(s)

Sessions(s) ==
  \/ \E u \in User :
       \/ logout(s, u) \/ refresh(s, u)
       \/ \E password, new \in Password : changePassword(s, u, password, new)
       \/ \E password \in Password :
            login(s, u, password) \/ \E r \in Role : signup(s, u, r, password)
  \/ setAccess(s) \/ setRefresh(s) \/ deleteAccess(s) \/ deleteRefresh(s)
  \/ refreshUser(s) \/ writePassword(s)
  \/ sendVerification(s) \/ signupFails(s) \/ remove(s)

OneStatement ==
  \/ \E r \in Role : create(r)
  \/ \E u \in User : expire(u) \/ \E active \in BOOLEAN : updateStatus(u, active)

Next == Restart \/ OneStatement \/ \E s \in Session : Roles(s) \/ Sessions(s) \/ Fail(s)

Spec == Init /\ [][Next]_vars

-----------------------------------------------------------------------------
(* Properties. *)

TypeOK ==
  /\ role \in [Role -> RoleState \cup {NULL}]
  /\ \A r \in SystemRole : role[r] # NULL
  /\ rolePermission \in [Role -> SUBSET Permission]
  /\ perms \in [Role -> (SUBSET Permission) \cup {NULL}]
  /\ user \in [User -> UserRow \cup {NULL}]
  /\ drawn \subseteq User
  /\ token \in [User -> Claim \cup {NULL}]
  /\ refreshToken \subseteq User
  /\ skewed \subseteq Role /\ lapsed \subseteq User
  /\ \A r \in Role : role[r] = NULL => rolePermission[r] = {} /\ perms[r] = NULL
  /\ \A u \in User : user[u] # NULL => u \in drawn /\ role[user[u].role] # NULL

Held(r) == IF perms[r] = NULL THEN {} ELSE perms[r]

(* setPermissionToken, syncAll (README.md: 'Token Invalidation', through   *)
(* Redis): when no refresh is under way, and the last one neither failed   *)
(* nor met another, requests are judged by what the role holds.            *)
PermissionsCurrent ==
  \A r \in Role : Refreshing(r) = {} /\ r \notin skewed => Held(r) = rolePermission[r]

(* 'auth.roleChanged', changePassword ('Please log in again with your new  *)
(* password'): the token stored for a user was issued for the role and     *)
(* the password of the row, unless the logout is under way, was cut short  *)
(* or met a login that had read the row before.                            *)
SessionsCurrent ==
  \A u \in User :
    token[u] # NULL /\ user[u] # NULL /\ Ending(u) = {} /\ u \notin lapsed =>
      token[u] = Claims(user[u])

(* updatePermissions ('Permission list cannot be empty.'): a role that     *)
(* holds permissions never comes to hold none.                             *)
NeverEmptied ==
  [][\A r \in Role : rolePermission[r] # {} => rolePermission'[r] # {}]_vars
=============================================================================
