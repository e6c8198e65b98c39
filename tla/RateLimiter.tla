---------------------------- MODULE RateLimiter ----------------------------
(***************************************************************************)
(* RateLimitGuard: a counter in Redis for each endpoint, address and       *)
(* e-mail.  It is incremented, then given its time to live when it was the *)
(* first attempt, then the time to live is read for the message: three     *)
(* commands, any of which may fail.                                        *)
(***************************************************************************)
EXTENDS Integers, Requests

CONSTANTS
  MaxAttempts,  \* attempts let through in a window
  MaxCount      \* bound of the model: attempts are not told apart beyond

VARIABLES
  counter,      \* attempts counted under each key in use, and its expiry
  stranded      \* keys whose first attempt ended before EXPIRE was issued

limiter == <<counter, stranded>>

(* sanitizeEmail: what is not text, not an address, or the address in      *)
(* lower case.                                                             *)
sanitizeEmail(email) ==
  IF email = NULL THEN "unknown"
  ELSE IF ~email.valid THEN "invalid" ELSE email.lower

(* extractSecureIP: the address of the connection, except in development,  *)
(* where the first forwarded one is taken; no proxy is trusted.            *)
isTrustedProxy == FALSE

extractSecureIP(development, headers, remote) ==
  IF development /\ headers.forwarded # NULL THEN headers.forwarded
  ELSE IF headers.real # NULL /\ isTrustedProxy THEN headers.real ELSE remote

createSecureKey(ip, email, endpoint) ==
  [endpoint |-> endpoint, ip |-> ip, email |-> email]

Counted(key) == key \in DOMAIN counter

(* INCR creates the counter, without expiry, when it does not exist.       *)
INCR(key) ==
  IF Counted(key) THEN [counter EXCEPT ![key].n = IF @ < MaxCount THEN @ + 1 ELSE @]
  ELSE [k \in DOMAIN counter \cup {key} |->
          IF k = key THEN [n |-> 1, ttl |-> FALSE] ELSE counter[k]]

(* Faulty variant: the window starts with the first attempt refused.       *)
expireRefused(s) == call[s].attempts > MaxAttempts

firstAttempt(s) == call[s].attempts = 1

(* getAndIncrementAttempts.                                                *)
incrementAttempts(s) ==
  LET key == call[s].key IN
  /\ At(s, "rate.incr")
  /\ counter' = INCR(key)
  /\ Goto(s, "rate.expire", [call[s] EXCEPT !.attempts = counter'[key].n])
  /\ UNCHANGED stranded

(* EXPIRE of a key that is gone changes nothing.                           *)
expireAttempts(s) ==
  LET key == call[s].key IN
  /\ At(s, "rate.expire")
  /\ IF firstAttempt(s) /\ Counted(key)
       THEN counter' = [counter EXCEPT ![key].ttl = TRUE]
       ELSE UNCHANGED counter
  /\ Goto(s, "rate.ttl", call[s])
  /\ UNCHANGED stranded

exceeded(s) == call[s].attempts > MaxAttempts

(* The window of a key ends.                                               *)
windowEnds(key) ==
  /\ Counted(key) /\ counter[key].ttl
  /\ counter' = [k \in DOMAIN counter \ {key} |-> counter[k]]
  /\ stranded' = stranded \ {key}
  /\ UNCHANGED requests

(* The request that counted the first attempt ends before EXPIRE.          *)
Stranding(s) ==
  IF At(s, "rate.expire") /\ firstAttempt(s)
    THEN stranded \cup {call[s].key} ELSE stranded
=============================================================================
