--------------------------- MODULE HttpInvariant ---------------------------
(***************************************************************************)
(* The inductive invariant of HttpPipeline: at each step of a request,     *)
(* what of the session and of the permissions it has seen, and why that    *)
(* covers the route it is on.                                              *)
(***************************************************************************)
EXTENDS HttpPipeline

-----------------------------------------------------------------------------
(* What the decorators declare. *)

(* The permissions declared with more than a resource and an action are    *)
(* two.                                                                    *)
Plain(q) ==
  Len(q) = 2 \/ q \in {<<"attachments", "read", "all">>, <<"traceability", "audit", "read">>}

(* A route asks for permissions that are covered by no more than their     *)
(* extensions, and the status of tickets alone is changed under a policy;  *)
(* what it lets anybody cache is a thumbnail.                              *)
WellDeclared(r) ==
  /\ \A q \in r.endpoint.needs : Plain(q)
  /\ r.handler.cache # "none" =>
       r.handler.name = "streamThumbnail" /\ r.handler.path[1] # "auth"
  /\ \A a \in r.handler.calls : a[1] = "update_status" => a[2] = "tickets"

RoutesWellDeclared == \A i \in DOMAIN Routing : WellDeclared(Routing[i])

-----------------------------------------------------------------------------
(* The course of a request. *)

Fields == {"route", "method", "user", "seen", "headers", "attempts", "scopes", "answer", "key"}

Labels == {"idle", "token.get", "perms.get", "rate.incr", "rate.expire", "rate.ttl",
           "handler", "answered"}

Admitted == {"rate.incr", "rate.expire", "rate.ttl", "handler"}

(* The user of a request has the permissions of a moment it has seen.      *)
Known(c) ==
  \/ c.user = Nobody
  \/ \E o \in c.seen : o.perms # NULL /\ o.perms = c.user.permissions

(* A scope of every organization was taken with '.all'.                    *)
ScopesHeld(c) ==
  \A e \in c.scopes :
    e[1][1] \in {"read", "update", "delete", "update_status"} /\ e[2] = "all" =>
      \E o \in c.seen : o.perms # NULL /\ <<e[1][2], e[1][1], "all">> \in o.perms

RequestOK(s) == LET c == call[s] IN
  pc[s] # "idle" =>
    /\ DOMAIN c = Fields
    /\ Now \in c.seen
    /\ Known(c)
    /\ pc[s] # "answered" => c.scopes = {} /\ c.route \in DOMAIN Routing
    /\ pc[s] = "perms.get" => SessionSeen(c) /\ c.user = Nobody
    /\ pc[s] = "token.get" => c.user = Nobody
    /\ pc[s] \in Admitted => Authorized(c)
    /\ c.scopes # {} => Authorized(c) /\ ScopesHeld(c)

Shaped ==
  /\ pc = [s \in Session |-> pc[s]] /\ call = [s \in Session |-> call[s]]
  /\ \A s \in Session : pc[s] \in Labels

CountersTyped ==
  /\ counter = [k \in DOMAIN counter |-> counter[k]]
  /\ \A k \in DOMAIN counter : DOMAIN counter[k] = {"n", "ttl"}

(* The inductive invariant. *)
IInv ==
  /\ RoutesWellDeclared /\ target.routes \subseteq DOMAIN Routing
  /\ Shaped
  /\ \A s \in Session : RequestOK(s)
  /\ CountersTyped /\ CountersEnd

-----------------------------------------------------------------------------
(* A second invariant, which rests on the first: what a request is         *)
(* answered, and by whom.                                                  *)

(* A route begins with a word; it asks for no session below 'health'; its  *)
(* handler throws, or returns what it declares, except one; its accesses   *)
(* are known.                                                              *)
Accesses ==
  {"read", "update", "delete"} \X {"bom", "nodes", "work-order", "users", "products",
                                   "attachments", "notifications"}
    \cup {"read", "write"} \X {"bom", "traceability", "attachments", "work-order"}
    \cup {<<"read", "tickets">>, <<"add_message", "tickets">>, <<"update_status", "tickets">>,
          <<"attachment", "tickets">>, <<"sender", "tickets">>, <<"read", "execution">>,
          <<"view", "users">>, <<"edit", "users">>, <<"member", "users">>, <<"other", "users">>,
          <<"member", "products">>, <<"writeRecord", "vibe">>}

WellServed(r) == LET path == r.handler.path IN
  /\ Len(path) \in Nat \ {0} /\ DOMAIN path = 1..Len(path)
  /\ path[1] # Param /\ (path[1] = "auth" => Len(path) > 1)
  /\ "jwt" \in r.endpoint.guards => path[1] # "health"
  /\ \/ conforms(envelope(r.handler.returns), r.endpoint.declares)
     \/ r.handler.returns = "nothing" \/ r.handler.name = "markAllAsRead"
  /\ r.handler.calls \subseteq Accesses

RoutesWellServed == \A i \in DOMAIN Routing : WellServed(Routing[i])

(* Of two routes of a method that match one path, the first registered has *)
(* a word wherever the other has.                                          *)
Overlap(q, r) ==
  /\ q.handler.method = r.handler.method
  /\ Len(q.handler.path) = Len(r.handler.path)
  /\ \A i \in DOMAIN q.handler.path :
       q.handler.path[i] = r.handler.path[i] \/ Param \in {q.handler.path[i], r.handler.path[i]}

Precedes(q, r) ==
  Overlap(q, r) =>
    \A i \in DOMAIN q.handler.path : r.handler.path[i] # Param => q.handler.path[i] # Param

RoutesOrdered == \A i, j \in DOMAIN Routing : i < j => Precedes(Routing[i], Routing[j])

TargetOK == target \in {[path |-> p, routes |-> RoutesAt(p), stripped |-> b] :
                          p \in Paths, b \in BOOLEAN}

(* The cache holds what would be computed again. *)
CacheOK ==
  /\ IsFiniteSet(DOMAIN policyCache) /\ Cardinality(DOMAIN policyCache) <= CacheSize
  /\ \A k \in DOMAIN policyCache : policyCache[k] = PolicyOf(k[1], k[2])

RightRoute(c) == c.route # 0 /\ c.route = Served(c.method, target.routes)

(* The headers of a request: its own, until its handler sets others.       *)
Headed(c) ==
  c.headers = setHeaders(OwnHeaders(c.method), Routing[c.route].handler)

(* And those of an answer: of an origin refused, of a guard or the router, *)
(* or of a handler that its guards let the request to.                     *)
AnswerHeaded(c) ==
  \/ c.headers = applyPolicy(applyGlobalHeaders(Production), defaultPolicy)
  \/ c.route = 0
  \/ RightRoute(c) /\ c.headers = OwnHeaders(c.method)
  \/ RightRoute(c) /\ Headed(c) /\ Authorized(c)

(* What is sent and what is logged of it. *)
AnswerFits(c, a) == LET route == Routing[c.route] IN
  /\ a.status = 200 => conforms(a.envelope, route.endpoint.declares)
  /\ a.log # NULL =>
       /\ a.log.status # 200 => a.log.status = a.status
       /\ a.log.level = "success" /\ a.status # 200 => route.handler.name = "markAllAsRead"
       /\ a.log.level = "error" => a.status # 200
  /\ a.status = 200 /\ target.path[1] # "health" => a.log # NULL

(* The scopes a handler took are those its policies gave it. *)
ScopesGiven(c) ==
  c.scopes # {} =>
    /\ RightRoute(c)
    /\ \E subject \in Subject :
         \A e \in c.scopes : /\ e[1] \in Routing[c.route].handler.calls
                              /\ e[2] = scopeOf(c.user, e[1], subject)

CourseOK(s) == LET c == call[s] IN
  /\ pc[s] \notin {"idle", "answered"} =>
       RightRoute(c) /\ (IF pc[s] = "handler" THEN Headed(c)
                                               ELSE c.headers = OwnHeaders(c.method))
  /\ pc[s] = "answered" => AnswerFits(c, c.answer) /\ ScopesGiven(c) /\ AnswerHeaded(c)

CourseInv ==
  /\ TargetOK /\ CacheOK
  /\ \A s \in Session : CourseOK(s)

-----------------------------------------------------------------------------
(* The stages a request has before it, at most. *)
StagesLeft(label) ==
  CASE label = "token.get"   -> 7
    [] label = "perms.get"   -> 6
    [] label = "rate.incr"   -> 5
    [] label = "rate.expire" -> 4
    [] label = "rate.ttl"    -> 3
    [] label = "handler"     -> 2
    [] label = "answered"    -> 1
    [] OTHER                 -> 0

(* No guard, interceptor or filter sends a request back: each step it      *)
(* takes, and any step that moves it, brings it nearer to its answer.      *)
StagesAdvance ==
  [][\A s \in Session :
       Step(s) \/ (pc[s] # "idle" /\ pc'[s] # pc[s]) =>
         StagesLeft(pc'[s]) < StagesLeft(pc[s])]_vars
=============================================================================
