-------------------------- MODULE SecurityHeaders --------------------------
(***************************************************************************)
(* The security headers of an answer: a policy found by the first rule     *)
(* whose patterns match the path, adapted to the method, and kept in a     *)
(* bounded cache.  A path is the sequence of its segments.                 *)
(***************************************************************************)
EXTENDS Integers, Sequences, FiniteSets, SequencesExt

CONSTANT CacheSize      \* policies the cache keeps

ASSUME CacheSizeAssumption == CacheSize \in Nat

VARIABLE policyCache    \* policies by method and path

(* What a policy gives that an answer depends on: framing, caching, and    *)
(* the origins that may read it.                                           *)
Policy(frame, cache, origin) == [frame |-> frame, cache |-> cache, origin |-> origin]

strict       == Policy("DENY", "no-store", "none")
moderate     == Policy("SAMEORIGIN", "private, max-age=300", "none")
minimal      == Policy("SAMEORIGIN", "public", "none")
staticAssets == Policy("DENY", "public", "allowed")

(* The wildcard patterns used: '/x*', '*/x/*' and '*/x'.  The prefixes     *)
(* compared here are whole first segments.                                 *)
Starts(path, names)   == path # <<>> /\ path[1] \in names
Crosses(path, names)  == \E i \in 1..Len(path) - 1 : path[i] \in names
EndsWith(path, names) == path # <<>> /\ path[Len(path)] \in names

isAuth(path) ==
  \/ Starts(path, {"auth", "password", "login", "signup", "reset", "verify"})
  \/ Crosses(path, {"auth"})
  \/ EndsWith(path, {"login", "register"}) /\ Len(path) > 1

isAdmin(path) == Starts(path, {"admin"}) \/ Crosses(path, {"admin"})

isDocs(path) == Starts(path, {"docs", "swagger", "api-docs", "health", "status", "metrics"})

isAsset(path) ==
  Starts(path, {"assets", "uploads", "static", "public"}) /\ Len(path) > 1

isSensitive(path) ==
  \/ Starts(path, {"orders", "account", "settings"}) /\ Len(path) > 1
  \/ Starts(path, {"users"}) /\ Len(path) > 1 /\ path[2] \in {"profile", "me"}
  \/ EndsWith(path, {"profile", "dashboard", "checkout"}) /\ Len(path) > 1
  \/ Len(path) > 1 /\ path[Len(path) - 1] = "users"

isApi(path) == Starts(path, {"api"}) \/ Crosses(path, {"api"})

Rule(name, matches, policy) == [name |-> name, matches |-> matches, policy |-> policy]

(* By priority.                                                            *)
routeSecurityMap(path) ==
  << Rule("auth", isAuth(path), strict),
     Rule("admin", isAdmin(path), strict),
     Rule("apiDocs", isDocs(path), [minimal EXCEPT !.origin = "*"]),
     Rule("publicAssets", isAsset(path), staticAssets),
     Rule("sensitive", isSensitive(path), [moderate EXCEPT !.cache = strict.cache]),
     Rule("api", isApi(path), moderate) >>

defaultPolicy == Policy("SAMEORIGIN", "private, max-age=0", "none")

customizeApiPolicy(method, path, base) ==
  IF isSensitive(path) THEN [base EXCEPT !.cache = "no-store"]
  ELSE IF method = "GET" THEN base ELSE [base EXCEPT !.cache = "no-cache"]

PolicyOf(method, path) ==
  LET rules == routeSecurityMap(path)
      i     == SelectInSeq(rules, LAMBDA r : r.matches)
  IN  IF i = 0 THEN defaultPolicy
      ELSE IF rules[i].name = "api" THEN customizeApiPolicy(method, path, rules[i].policy)
      ELSE rules[i].policy

cacheKey(method, path) == <<method, path>>

(* A cached policy is returned as it is; another is computed and kept, and *)
(* an old one gives way when the cache is full.                            *)
getPolicyForRoute(method, path, policy) ==
  LET key == cacheKey(method, path) IN
  IF key \in DOMAIN policyCache
    THEN policy = policyCache[key] /\ UNCHANGED policyCache
    ELSE /\ policy = PolicyOf(method, path)
         /\ \E kept \in SUBSET DOMAIN policyCache :
              /\ IF Cardinality(DOMAIN policyCache) < CacheSize
                   THEN kept = DOMAIN policyCache
                   ELSE Cardinality(kept) = CacheSize - 1
              /\ policyCache' = [k \in kept \cup {key} |->
                                   IF k = key THEN policy ELSE policyCache[k]]

-----------------------------------------------------------------------------
(* The headers set on every answer, then those of the policy, which may    *)
(* replace them.                                                           *)
applyGlobalHeaders(secure) ==
  [nosniff |-> TRUE, referrer |-> "strict-origin-when-cross-origin", hsts |-> secure]

applyPolicy(headers, policy) ==
  [h \in DOMAIN headers \cup DOMAIN policy |->
     IF h \in DOMAIN policy THEN policy[h] ELSE headers[h]]
=============================================================================
