--------------------------- MODULE AccountService ---------------------------
(***************************************************************************)
(* The codes that open an account: verification and invitation codes, in   *)
(* the row of the user and looked up by the code alone; reset codes, in    *)
(* Redis by user; the counter of verification mails, by e-mail.  Passwords *)
(* are not kept here: what matters is who may come to write one.           *)
(* E-mails that differ in case only are one e-mail, as for findByEmail and *)
(* the unique index.                                                       *)
(***************************************************************************)
EXTENDS Requests, FiniteSets, Naturals

CONSTANTS
  User, Email, Code,
  Written,      \* bound of the model: the e-mails that requests name,
  Moves,        \* and the <<user, e-mail>> of the updates of a profile
  MaxAttempts   \* VERIFICATION_MAX_ATTEMPT_LIMIT

VARIABLES
  account,      \* rows of users: [email, verified, code]
  otp,          \* otp:<user>
  resends,      \* resend_verification:<e-mail>: [n, ttl]
  drawn,        \* history: codes ever drawn for a user, and for what
  mailed,       \* history: <<user, code>> stored and handed to the mail server,
  unsent,       \* and stored by requests that ended before handing it over
  spent,        \* history: <<user, code>> of the resets completed
  resent,       \* history: mails resent and counted since the counter began
  lost          \* history: e-mails whose counter got no expiry

codes   == <<drawn, mailed, unsent, spent, resent, lost>>
account_vars == <<account, otp, resends, codes>>

NoCounter == [n |-> 0, ttl |-> FALSE]

(* A signup leaves a row with a code, and mails it only if asked to.       *)
AccountInit(rows) ==
  LET coded == {<<u, rows[u].code>> : u \in {v \in User : rows[v] # NULL /\ rows[v].code # NULL}} IN
  /\ account = rows
  /\ otp = [u \in User |-> NULL]
  /\ resends = [e \in Email |-> NoCounter]
  /\ drawn = {<<p[1], p[2], "verify">> : p \in coded}
  /\ unsent \in SUBSET coded /\ mailed = coded \ unsent
  /\ spent = {} /\ lost = {}
  /\ resent = [e \in Email |-> 0]

(* What is stored, and what is known of it: history is no longer kept of a *)
(* code once it is not.                                                    *)
Stored ==
  {p \in User \X Code : \/ account[p[1]] # NULL /\ account[p[1]].code = p[2]
                        \/ otp[p[1]] = p[2]}
forget == mailed' = mailed \cap Stored' /\ unsent' = unsent \cap Stored'

Live == {u \in User : account[u] # NULL}

findByEmail(e)             == {u \in Live : account[u].email = e}
findByVerificationToken(c) == {u \in Live : account[u].code = c}

(* generateSecure.  Assumed: the code is not one this user had before;     *)
(* another user may have it.                                               *)
Drawable(u) == {c \in Code : \A use \in {"verify", "reset"} : <<u, c, use>> \notin drawn}

-----------------------------------------------------------------------------
(* Verification and invitation. *)

verifyEmail(s, c) ==
  /\ At(s, "idle")
  /\ \E u \in findByVerificationToken(c) : Goto(s, "verify.write", [user |-> u, code |-> c])
  /\ UNCHANGED account_vars

acceptInvitation(s, c) ==
  /\ At(s, "idle")
  /\ \E u \in findByVerificationToken(c) : Goto(s, "accept.write", [user |-> u, code |-> c])
  /\ UNCHANGED account_vars

(* verify and updateInternal; an invitation also sets the password, then   *)
(* the tokens.                                                             *)
open(s) ==
  /\ pc[s] \in {"verify.write", "accept.write"}
  /\ account' = [account EXCEPT ![call[s].user].verified = TRUE, ![call[s].user].code = NULL]
  /\ Return(s)
  /\ UNCHANGED <<otp, resends, drawn, spent, resent, lost>>
  /\ forget

(* login of a user who is not verified: a code replaces the one stored.    *)
loginUnverified(s, u) ==
  /\ At(s, "idle")
  /\ u \in Live /\ ~account[u].verified
  /\ \E c \in Drawable(u) : Goto(s, "token.write", [user |-> u, code |-> c, email |-> NULL])
  /\ UNCHANGED account_vars

(* Faulty variant: no mail follows.                                        *)
updateVerificationTokenOnly(s) ==
  LET u == call[s].user IN
  /\ At(s, "token.write")
  /\ account' = [account EXCEPT ![u].code = call[s].code]
  /\ drawn' = drawn \cup {<<u, call[s].code, "verify">>}
  /\ Return(s)
  /\ UNCHANGED <<otp, resends, spent, resent, lost>>
  /\ forget

updateVerificationToken(s) ==
  LET u == call[s].user IN
  /\ At(s, "token.write")
  /\ account' = [account EXCEPT ![u].code = call[s].code]
  /\ drawn' = drawn \cup {<<u, call[s].code, "verify">>}
  /\ Goto(s, "code.mail", call[s])
  /\ UNCHANGED <<otp, resends, spent, resent, lost>>
  /\ forget

(* inviteUser: the address is free when looked up; the unique index        *)
(* refuses the row if it no longer is.                                     *)
inviteUser(s, e) ==
  /\ At(s, "idle") /\ findByEmail(e) = {}
  /\ Goto(s, "invite.insert", [email |-> e])
  /\ UNCHANGED account_vars

insertInvited(s) ==
  LET e == call[s].email IN
  /\ At(s, "invite.insert")
  /\ \/ findByEmail(e) # {} /\ Return(s) /\ UNCHANGED account_vars
     \/ /\ findByEmail(e) = {}
        /\ \E u \in User \ Live : \E c \in Drawable(u) :
             /\ account' = [account EXCEPT ![u] = [email |-> e, verified |-> FALSE, code |-> c]]
             /\ drawn' = drawn \cup {<<u, c, "verify">>}
             /\ Goto(s, "code.mail", [user |-> u, code |-> c, email |-> NULL])
        /\ UNCHANGED <<otp, resends, mailed, unsent, spent, resent, lost>>

(* sendVerification, sendInvitation, sendPasswordReset.                    *)
sendCode(s) ==
  /\ At(s, "code.mail")
  /\ mailed' = mailed \cup ({<<call[s].user, call[s].code>>} \cap Stored)
  /\ unsent' = unsent \ {<<call[s].user, call[s].code>>}
  /\ IF call[s].email = NULL
       THEN Return(s)
       ELSE Goto(s, "resend.incr", call[s])
  /\ UNCHANGED <<account, otp, resends, drawn, spent, resent, lost>>

-----------------------------------------------------------------------------
(* resendVerificationEmail. *)

(* Faulty variant: one mail too many.                                      *)
resendOnceMore(s, e) ==
  /\ At(s, "idle")
  /\ resends[e].n <= MaxAttempts
  /\ Goto(s, "resend.find", [email |-> e])
  /\ UNCHANGED account_vars

resend(s, e) ==
  /\ At(s, "idle")
  /\ resends[e].n < MaxAttempts
  /\ Goto(s, "resend.find", [email |-> e])
  /\ UNCHANGED account_vars

(* The code stored is sent again; a row without one gets one.  An unknown  *)
(* address and a verified one are counted all the same.                    *)
resendFind(s) ==
  LET e == call[s].email  found == {u \in findByEmail(e) : ~account[u].verified} IN
  /\ At(s, "resend.find")
  /\ \/ found = {} /\ Goto(s, "resend.incr", [email |-> e, user |-> NULL])
     \/ \E u \in found : \E c \in IF account[u].code # NULL THEN {account[u].code} ELSE Drawable(u) :
          Goto(s, IF account[u].code # NULL THEN "code.mail" ELSE "token.write",
               [user |-> u, code |-> c, email |-> e])
  /\ UNCHANGED account_vars

(* incrementResendAttempts: INCR, then EXPIRE by the first.                *)
incrementResendAttempts(s) ==
  LET e == call[s].email IN
  /\ At(s, "resend.incr")
  /\ resends' = [resends EXCEPT ![e].n = IF @ <= MaxAttempts THEN @ + 1 ELSE @]
  /\ resent' = [resent EXCEPT ![e] = IF call[s].user # NULL /\ @ < MaxAttempts + Cardinality(Session)
                                        THEN @ + 1 ELSE @]
  /\ IF resends[e].n = 0 THEN Goto(s, "resend.expire", call[s]) ELSE Return(s)
  /\ UNCHANGED <<account, otp, drawn, mailed, unsent, spent, lost>>

expireResends(s) ==
  LET e == call[s].email IN
  /\ At(s, "resend.expire")
  /\ resends' = [resends EXCEPT ![e].ttl = resends[e].n > 0]
  /\ Return(s)
  /\ UNCHANGED <<account, otp, codes>>

(* Redis: the key ends.                                                    *)
resendsEnd(e) ==
  /\ resends[e].ttl
  /\ resends' = [resends EXCEPT ![e] = NoCounter]
  /\ resent' = [resent EXCEPT ![e] = 0]
  /\ UNCHANGED <<account, otp, drawn, mailed, unsent, spent, lost, requests>>

-----------------------------------------------------------------------------
(* Resetting the password. *)

forgotPassword(s, e) ==
  /\ At(s, "idle")
  /\ \E u \in findByEmail(e) : Goto(s, "otp.del", [user |-> u])
  /\ UNCHANGED account_vars

deleteOtp(s) ==
  /\ At(s, "otp.del")
  /\ otp' = [otp EXCEPT ![call[s].user] = NULL]
  /\ Goto(s, "otp.set", call[s])
  /\ UNCHANGED <<account, resends, drawn, spent, resent, lost>>
  /\ forget

setOtp(s) ==
  LET u == call[s].user IN
  /\ At(s, "otp.set")
  /\ \E c \in Drawable(u) :
       /\ otp' = [otp EXCEPT ![u] = c]
       /\ drawn' = drawn \cup {<<u, c, "reset">>}
       /\ Goto(s, "code.mail", [user |-> u, code |-> c, email |-> NULL])
  /\ UNCHANGED <<account, resends, spent, resent, lost>>
  /\ forget

(* Redis: the key ends.                                                    *)
otpEnds(u) ==
  /\ otp[u] # NULL
  /\ otp' = [otp EXCEPT ![u] = NULL]
  /\ UNCHANGED <<account, resends, drawn, spent, resent, lost, requests>>
  /\ forget

(* constantTimeStringCompare.                                              *)
matches(u, c) == otp[u] # NULL /\ otp[u] = c

validateResetCode(e, c) == \E u \in findByEmail(e) : matches(u, c)

(* The user is looked up by e-mail, and by verifyOTP once more.            *)
resetPassword(s, e, c) ==
  /\ At(s, "idle")
  /\ \E u \in findByEmail(e) :
       Goto(s, "reset.find", [user |-> u, code |-> c, email |-> e, moved |-> FALSE])
  /\ UNCHANGED account_vars

verifyOTP(s) ==
  LET found == findByEmail(call[s].email) IN
  /\ At(s, "reset.find")
  /\ \/ found = {} /\ Return(s)
     \/ \E u \in found :
          Goto(s, "reset.get", [user |-> call[s].user, code |-> call[s].code,
                                moved |-> call[s].moved, owner |-> u])
  /\ UNCHANGED account_vars

(* Faulty variant: any stored code will do.                                *)
compareStored(s) ==
  /\ At(s, "reset.get")
  /\ IF otp[call[s].owner] # NULL THEN Goto(s, "reset.write", call[s]) ELSE Return(s)
  /\ UNCHANGED account_vars

compareOtp(s) ==
  /\ At(s, "reset.get")
  /\ IF matches(call[s].owner, call[s].code)
       THEN Goto(s, "reset.write", call[s]) ELSE Return(s)
  /\ UNCHANGED account_vars

(* The password, then (see AuthService) the tokens, then the code.         *)
writeReset(s) ==
  /\ At(s, "reset.write")
  /\ Goto(s, "reset.del", call[s])
  /\ UNCHANGED account_vars

deleteUsed(s) ==
  LET u == call[s].user IN
  /\ At(s, "reset.del")
  /\ otp' = [otp EXCEPT ![u] = NULL]
  /\ spent' = spent \cup {<<u, call[s].code>> : v \in {u} \cap {call[s].owner}}
  /\ Return(s)
  /\ UNCHANGED <<account, resends, drawn, resent, lost>>
  /\ forget

-----------------------------------------------------------------------------
(* updateProfile: the new address is free when looked up; the unique index *)
(* refuses the UPDATE if it no longer is.  The row stays verified.         *)

updateProfile(s, u, e) ==
  /\ At(s, "idle") /\ u \in Live /\ findByEmail(e) = {}
  /\ Goto(s, "profile.write", [user |-> u, email |-> e])
  /\ UNCHANGED account_vars

writeProfile(s) ==
  LET u == call[s].user  e == call[s].email IN
  /\ At(s, "profile.write")
  /\ pc' = [pc EXCEPT ![s] = "idle"]
  /\ IF findByEmail(e) \subseteq {u}
       THEN /\ account' = [account EXCEPT ![u].email = e]
            /\ call' = [t \in Session |->
                 IF t = s THEN NULL
                 ELSE IF At(t, "reset.find") THEN [call[t] EXCEPT !.moved = TRUE] ELSE call[t]]
       ELSE call' = [call EXCEPT ![s] = NULL] /\ UNCHANGED account
  /\ UNCHANGED <<otp, resends, codes>>

(* A statement, a command of Redis or a mail fails, or the process stops:  *)
(* the request ends, with an error, with a generic answer, or uncounted.   *)
(* One that stored a code and ends before its mail, as inviteUser does too *)
(* when its query for the inviter fails, leaves the code behind unsent.    *)
accountFails(s) ==
  /\ Abort(s)
  /\ lost' = lost \cup {call[t].email : t \in {s} \cap {x \in Session : At(x, "resend.expire")}}
  /\ unsent' = unsent \cup {p \in Stored \ mailed : At(s, "code.mail") /\ p = <<call[s].user, call[s].code>>}
  /\ UNCHANGED <<account, otp, resends, drawn, mailed, spent, resent>>

-----------------------------------------------------------------------------

AccountStep(s) ==
  \/ open(s) \/ updateVerificationToken(s) \/ insertInvited(s) \/ sendCode(s)
  \/ resendFind(s) \/ incrementResendAttempts(s) \/ expireResends(s)
  \/ deleteOtp(s) \/ setOtp(s)
  \/ verifyOTP(s) \/ compareOtp(s) \/ writeReset(s) \/ deleteUsed(s)
  \/ writeProfile(s) \/ accountFails(s)

Verification(s) ==
  \/ \E c \in Code : verifyEmail(s, c) \/ acceptInvitation(s, c)
  \/ \E u \in User : loginUnverified(s, u)
  \/ \E e \in Written : inviteUser(s, e) \/ resend(s, e)

Reset(s) ==
  \/ \E e \in Written : forgotPassword(s, e) \/ \E c \in Code : resetPassword(s, e, c)
  \/ \E m \in Moves : updateProfile(s, m[1], m[2])

(* Bound of the model: requests of one group are in flight in a behaviour; *)
(* the two share the rows, but no code and no key of Redis.                *)
VerificationNext ==
  \/ \E s \in Session : AccountStep(s) \/ Verification(s)
  \/ \E e \in Written : resendsEnd(e)

ResetNext ==
  \/ \E s \in Session : AccountStep(s) \/ Reset(s)
  \/ \E u \in User : otpEnds(u)

-----------------------------------------------------------------------------
(* Properties. *)

(* An account is opened, by verification or invitation, with a code that   *)
(* was drawn for that user; a password is reset for the user whose stored  *)
(* code was presented, unless the address moved between the two look-ups   *)
(* of resetPassword; and a code that reset a password no longer validates. *)
CodesAuthorize ==
  /\ \A s \in Session :
       /\ pc[s] \in {"verify.write", "accept.write"} =>
            <<call[s].user, call[s].code, "verify">> \in drawn
       /\ pc[s] \in {"reset.write", "reset.del"} =>
            /\ <<call[s].owner, call[s].code, "reset">> \in drawn
            /\ call[s].moved \/ call[s].user = call[s].owner
  /\ \A p \in spent : p[1] \in Live => ~matches(p[1], p[2])

(* A code that is stored was handed to the mail server, or a request that  *)
(* will do so is under way, whatever overlaps with it; but for the codes   *)
(* of requests that ended before their mail, and of signups without one,   *)
(* as long as no other request has mailed the code since.                  *)
CodesDelivered ==
  /\ unsent \cap mailed = {}
  /\ \A u \in Live : \A c \in {account[u].code, otp[u]} \ {NULL} :
       \/ <<u, c>> \in mailed \cup unsent
       \/ \E s \in Session : At(s, "code.mail") /\ call[s].user = u /\ call[s].code = c

(* Verification mails are resent to an address at most MaxAttempts times   *)
(* per window, and once more for each other request under way meanwhile    *)
(* (those whose INCR failed are not counted, by the code either); and a    *)
(* counter has an expiry, or is about to get it, or that failed.           *)
ResendsBounded ==
  \A e \in Email :
    LET sent == {s \in Session : At(s, "resend.incr") /\ call[s].email = e /\ call[s].user # NULL} IN
    /\ resent[e] + Cardinality(sent) < MaxAttempts + Cardinality(Session)
    /\ resends[e].n > 0 =>
         \/ resends[e].ttl \/ e \in lost
         \/ \E s \in Session : At(s, "resend.expire") /\ call[s].email = e
=============================================================================
