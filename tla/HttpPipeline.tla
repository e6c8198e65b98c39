---------------------------- MODULE HttpPipeline ----------------------------
(***************************************************************************)
(* One HTTP request from its arrival to its answer: CORS, the headers      *)
(* middleware, routing, the guards of the route with their reads of Redis, *)
(* validation, the handler with the policies it asks, the interceptors and *)
(* the filter.  The requests are of one user; meanwhile the user's session *)
(* may end or begin and the permissions of the user's role may change.     *)
(***************************************************************************)
EXTENDS Routes, SecurityHeaders, RateLimiter

CONSTANTS
  Production,   \* whether NODE_ENV is production
  Sent,         \* the e-mails requests carry
  MaxChanges,   \* bound of the model: changes of the session or permissions
  Together      \* bound of the model: whether requests meet on every route, and
                \* users of every kind where the router strips the path

ASSUME HttpConstants == Together \in BOOLEAN

VARIABLES
  target,       \* the path requested, below the global prefix, its routes, and
                \* whether the router strips it from what the middleware sees
  member,       \* whether the claims of the user name an organization
  token,        \* whether token:<user> is stored
  perms,        \* perms:<role>, NULL when the key is missing
  changes

session == <<target, member, token, perms, changes>>
vars    == <<requests, limiter, policyCache, session>>

OtherError == 0     \* what is thrown is not an HttpException

Status == {200, 400, 401, 403, 404, 422, 429, 500}

ASSUME NullIsNoLog == NULL \notin [level : {"success", "error"}, status : Status]

-----------------------------------------------------------------------------
(* main.ts. *)

(* The configured client, by either scheme, and local ones outside         *)
(* production; a request without origin passes.                            *)
corsAllows(origin) == origin \in {"none", "client"} \/ ~Production

GlobalPrefix(p) == IF p[1] = "health" THEN p ELSE <<"api">> \o p

(* req.path in a middleware mounted on '*': the whole path, or '/' where   *)
(* the router strips what the mount matched.                               *)
PathSeen == IF target.stripped THEN <<>> ELSE GlobalPrefix(target.path)

(* createValidationException: invalid values prevail over unknown fields.  *)
validation(issues) == IF "invalid" \in issues THEN 422
                      ELSE IF "unknown" \in issues THEN 400 ELSE 200

-----------------------------------------------------------------------------
(* The way out: interceptors, then the filter. *)

(* OkResponseBuilder and ResponseInterceptor: all handlers return a        *)
(* builder.                                                                *)
envelope(returns) ==
  [data |-> IF returns = "page" THEN "list" ELSE returns,
   pagination |-> returns = "page"]

(* createApiResponseSchema and createApiPaginatedResponseSchema.           *)
conforms(e, declares) ==
  CASE declares \in {"undeclared", "any"} -> TRUE
    [] declares = "page" -> e.data = "list" /\ e.pagination
    [] OTHER -> e.data = declares

(* LoggingInterceptor.shouldSkipLogging.                                   *)
shouldSkipLogging(p) == p[1] = "health"

Log(p, level, status) ==
  IF shouldSkipLogging(p) THEN NULL ELSE [level |-> level, status |-> status]

Answer(status, log) == [status |-> status, log |-> log, envelope |-> NULL]

(* A returned value is wrapped, logged, and checked against the            *)
(* declaration; a stream may defy being written to the log.  The log of an *)
(* error that is not an HttpException has the status set beforehand.       *)
(* Faulty variant: an answer that defies the declaration is sent.          *)
interceptedUnchecked(route, p, outcome, loggable) ==
  LET e == envelope(route.handler.returns) IN
  CASE outcome = OtherError -> Answer(500, Log(p, "error", 200))
    [] outcome \in Status \ {200} -> Answer(outcome, Log(p, "error", outcome))
    [] OTHER -> [Answer(200, Log(p, "success", 200)) EXCEPT !.envelope = e]

intercepted(route, p, outcome, loggable) ==
  LET e == envelope(route.handler.returns) IN
  CASE outcome = OtherError -> Answer(500, Log(p, "error", 200))
    [] outcome \in Status \ {200} -> Answer(outcome, Log(p, "error", outcome))
    [] outcome = 200 /\ e.data = "file" /\ ~loggable ->
         Answer(500, Log(p, "error", 200))
    [] outcome = 200 /\ ~conforms(e, route.endpoint.declares) ->
         Answer(500, Log(p, "success", 200))
    [] OTHER -> [Answer(200, Log(p, "success", 200)) EXCEPT !.envelope = e]

Send(s, c, answer) ==
  Goto(s, "answered", [c EXCEPT !.answer = answer, !.attempts = 0, !.key = NULL])

(* Guards run before the interceptors: what they refuse is not logged.     *)
Refuse(s, c, status) == Send(s, c, Answer(status, NULL))

-----------------------------------------------------------------------------
(* The guards. *)

Route(s) == Routing[call[s].route]
Guards(s) == Route(s).endpoint.guards

(* PermissionGuard.canActivate.                                            *)
mayActivate(user, endpoint) ==
  "permission" \in endpoint.guards => permits(user.permissions, endpoint.needs)

(* The handler's own @Header replaces the one of the policy, after the     *)
(* guards and before anything else: errors bear it as well.                *)
setHeaders(headers, handler) ==
  IF handler.cache = "none" THEN headers ELSE [headers EXCEPT !.cache = handler.cache]

Enter(s, c) ==
  Goto(s, "handler", [c EXCEPT !.headers = setHeaders(@, Routing[c.route].handler)])

(* Faulty variant: the handler's header is set before its guards.          *)
AdmitHeaded(s, c) ==
  LET d == [c EXCEPT !.headers = setHeaders(@, Routing[c.route].handler)] IN
  IF ~mayActivate(c.user, Routing[c.route].endpoint) THEN Refuse(s, d, 403) ELSE Enter(s, c)

(* Once the user is known, or known to be unknown.                         *)
Admit(s, c) ==
  LET endpoint == Routing[c.route].endpoint IN
  IF ~mayActivate(c.user, endpoint) THEN Refuse(s, c, 403)
  ELSE IF "rate" \in endpoint.guards THEN Goto(s, "rate.incr", c) ELSE Enter(s, c)

Nobody == [permissions |-> {}, organization |-> FALSE]

(* JwtAuthGuard.handleRequest rejects; OptionalJwtAuthGuard goes on        *)
(* without a user.                                                         *)
(* Faulty variant: what failed is tried again.                             *)
UnauthenticatedRetries(s, c, status) ==
  IF status = 500 THEN Goto(s, "token.get", c) ELSE Refuse(s, c, status)

Unauthenticated(s, c, status) ==
  IF "jwt" \in Routing[c.route].endpoint.guards
    THEN Refuse(s, c, status) ELSE Admit(s, c)

(* JwtAuthGuard.canActivate and OptionalJwtAuthGuard.canActivate: the      *)
(* header, then the signature.                                             *)
authenticate(s, c, credentials) ==
  IF {"jwt", "optional"} \cap Routing[c.route].endpoint.guards = {} THEN Admit(s, c)
  ELSE IF credentials = "signed" THEN Goto(s, "token.get", c)
  ELSE Unauthenticated(s, c, 401)

Now == [token |-> token, perms |-> perms]

(* Whether the user matters: elsewhere the model does not vary it.         *)
Guarded(routes) ==
  \E i \in routes : {"jwt", "optional"} \cap Routing[i].endpoint.guards # {}

(* Requests share the counters of attempts, and nothing else they use both *)
(* before and after an await: unless Together, those of other routes are   *)
(* served one at a time, as one session.                                   *)
Crowded(s) ==
  /\ ~Together
  /\ s # CHOOSE t \in Session : TRUE
  /\ Guarded(target.routes) \/ \A i \in target.routes : "rate" \notin Routing[i].endpoint.guards

Proxied == [forwarded |-> "forwarded", real |-> "real"]   \* headers anyone may set

(* The first part of a request runs without interruption.                  *)
arrive(s, method, origin, credentials, email) ==
  LET i == Served(method, target.routes) IN
  /\ At(s, "idle") /\ ~Crowded(s)
  /\ \E policy \in {PolicyOf(method, PathSeen)} \cup
                   {policyCache[k] : k \in DOMAIN policyCache} :
       LET c == [route |-> i, method |-> method, user |-> Nobody, seen |-> {Now},
                 headers |-> applyPolicy(applyGlobalHeaders(Production), policy), attempts |-> 0, scopes |-> {}, answer |-> NULL,
                 key |-> IF i # 0 /\ "rate" \in Routing[i].endpoint.guards
                           THEN createSecureKey(extractSecureIP(~Production, Proxied, "connection"),
                                                sanitizeEmail(email), target.path)
                           ELSE NULL]
       IN
       IF ~corsAllows(origin)
         THEN policy = defaultPolicy /\ UNCHANGED policyCache /\ Refuse(s, c, 500)
         ELSE /\ getPolicyForRoute(method, PathSeen, policy)
              /\ IF i = 0 THEN Refuse(s, c, 404) ELSE authenticate(s, c, credentials)
  /\ UNCHANGED <<limiter, session>>

(* JwtStrategy.validate: two reads of Redis.                               *)
getToken(s) ==
  /\ At(s, "token.get")
  /\ \/ token /\ Goto(s, "perms.get", call[s])
     \/ ~token /\ Unauthenticated(s, call[s], 401)
     \/ Unauthenticated(s, call[s], 500)                  \* Redis fails
  /\ UNCHANGED <<limiter, policyCache, session>>

getPermissions(s) ==
  /\ At(s, "perms.get")
  /\ \/ perms # NULL
        /\ Admit(s, [call[s] EXCEPT !.user = [permissions |-> perms,
                                              organization |-> member]])
     \/ perms = NULL /\ Unauthenticated(s, call[s], 403)
     \/ Unauthenticated(s, call[s], 500)
  /\ UNCHANGED <<limiter, policyCache, session>>

(* RateLimitGuard: a command of Redis that fails lets the request through. *)
countAttempt(s)  == incrementAttempts(s) /\ UNCHANGED <<policyCache, session>>
setWindow(s)     == expireAttempts(s) /\ UNCHANGED <<policyCache, session>>

readWindow(s) ==
  /\ At(s, "rate.ttl")
  /\ IF exceeded(s) THEN Refuse(s, call[s], 429) ELSE Enter(s, call[s])
  /\ UNCHANGED <<limiter, policyCache, session>>

failOpen(s) ==
  /\ pc[s] \in {"rate.incr", "rate.expire", "rate.ttl"}
  /\ stranded' = Stranding(s)
  /\ Enter(s, call[s])
  /\ UNCHANGED <<counter, policyCache, session>>

-----------------------------------------------------------------------------
(* The handler. *)

(* What the request is about: a record of the user's own or of another, an *)
(* internal message or not.                                                *)
Subject == [own : BOOLEAN, internal : BOOLEAN]

(* The checks the controllers make themselves.                             *)
checked(user, check, subject) ==
  CASE check = "view"   -> subject.own \/ hasAll(user, "users", "read")
    [] check = "edit"   -> subject.own \/ hasAll(user, "users", "update")
    [] check = "member" -> user.organization
    [] check = "other"  -> ~subject.own
    [] check = "sender" -> subject.own
    [] OTHER            -> TRUE

scopeOf(user, access, subject) ==
  IF ~checked(user, access[1], subject) THEN Refused
  ELSE scope(user, [action |-> access[1], resource |-> access[2],
                    own |-> subject.own, internal |-> subject.internal])

(* The pipe rejects the parameters or the body.                            *)
reject(s, issues) ==
  /\ At(s, "handler")
  /\ Send(s, call[s], intercepted(Route(s), target.path, validation(issues), TRUE))
  /\ UNCHANGED <<limiter, policyCache, session>>

(* What a handler that was refused an access throws: one's own status is a *)
(* bad request, and is looked at first.                                    *)
refusal(refused) == IF <<"other", "users">> \in refused THEN 400 ELSE 403

(* The checks and policies, and the service, which returns or throws an    *)
(* HttpException or another error; then the way out.                       *)
serve(s, subject, outcome, loggable) ==
  LET scopes  == {<<a, scopeOf(call[s].user, a, subject)>> : a \in Route(s).handler.calls}
      refused == {a \in Route(s).handler.calls : <<a, Refused>> \in scopes}
      result  == IF refused # {} THEN refusal(refused) ELSE outcome
  IN
  /\ At(s, "handler")
  /\ loggable \/ Route(s).handler.returns = "file"
  /\ outcome = OtherError \/ Route(s).handler.returns # "nothing"
  /\ Send(s, [call[s] EXCEPT !.scopes = scopes],
          intercepted(Route(s), target.path, result, loggable))
  /\ UNCHANGED <<limiter, policyCache, session>>

respond(s) ==
  /\ At(s, "answered")
  /\ Return(s)
  /\ UNCHANGED <<limiter, policyCache, session>>

(* The process stops: its cache is lost with its requests.                 *)
stop ==
  /\ \E s \in Session : pc[s] # "idle"
  /\ pc' = [s \in Session |-> "idle"]
  /\ call' = [s \in Session |-> NULL]
  /\ policyCache' = <<>>
  /\ stranded' = stranded \cup UNION {Stranding(s) : s \in Session}
  /\ UNCHANGED <<counter, session>>

-----------------------------------------------------------------------------
(* The environment of the pipeline. *)

(* Every request being served sees the new state of the session.           *)
Witnessed ==
  /\ call' = [s \in Session |->
       IF At(s, "idle") THEN call[s]
       ELSE [call[s] EXCEPT !.seen = @ \cup {[token |-> token', perms |-> perms']}]]
  /\ UNCHANGED pc

sessionChanges ==
  /\ changes < MaxChanges /\ changes' = changes + 1
  /\ token' = ~token /\ UNCHANGED perms
  /\ Witnessed
  /\ UNCHANGED <<limiter, policyCache, target, member>>

permissionsChange(held) ==
  /\ changes < MaxChanges /\ changes' = changes + 1
  /\ perms' = held /\ perms' # perms /\ UNCHANGED token
  /\ Witnessed
  /\ UNCHANGED <<limiter, policyCache, target, member>>

windowPasses(key) == windowEnds(key) /\ UNCHANGED <<policyCache, session>>

-----------------------------------------------------------------------------
Concrete(p) == [i \in DOMAIN p |-> IF p[i] = Param THEN "id" ELSE p[i]]

Paths == {Concrete(Routing[i].handler.path) : i \in DOMAIN Routing}
           \cup {<<"unknown">>, <<"auth", "register">>}

Methods(routes) == {Routing[i].handler.method : i \in routes} \cup {"GET"}
Needed(routes)  == UNION {Routing[i].endpoint.needs : i \in routes}

(* What the role may hold: nothing, what the routes need, '.all' of that,  *)
(* what is extended otherwise, everything; or the key is missing.          *)
Holdings(routes) ==
  LET needed == Needed(routes)
      all    == {<<q[1], q[2], "all">> : q \in needed} \cap Declared
      other  == {q \in Declared : Len(q) = 3 /\ \E n \in needed : n[1] = q[1]} \ all
  IN  {NULL, {}, needed, all, other, Declared}

Init ==
  /\ NoRequests
  /\ counter = <<>> /\ stranded = {}
  /\ policyCache = <<>>
  /\ target \in {[path |-> p, routes |-> RoutesAt(p), stripped |-> b] :
                   p \in Paths, b \in BOOLEAN}
  /\ member \in BOOLEAN /\ token \in BOOLEAN
  /\ perms \in Holdings(target.routes)
  /\ changes \in {0, MaxChanges}
  /\ changes = 0 <=> Guarded(target.routes)
  /\ ~Guarded(target.routes) => ~member /\ ~token /\ perms = NULL
  /\ target.stripped /\ ~Together => ~member /\ perms \in {NULL, Declared}

Step(s) ==
  \/ getToken(s) \/ getPermissions(s)
  \/ countAttempt(s) \/ setWindow(s) \/ readWindow(s) \/ failOpen(s)
  \/ \E issues \in {{"unknown"}, {"unknown", "invalid"}} : reject(s, issues)
  \/ \E subject \in Subject, outcome \in {200, 404, OtherError}, loggable \in BOOLEAN :
       serve(s, subject, outcome, loggable)
  \/ respond(s)

Next ==
  \/ \E s \in Session : Step(s)
  \/ \E s \in Session, method \in Methods(target.routes), origin \in {"none", "client", "other"},
        credentials \in {"none", "malformed", "forged", "signed"}, email \in Sent :
       arrive(s, method, origin, credentials, email)
  \/ stop
  \/ sessionChanges
  \/ \E held \in Holdings(target.routes) : permissionsChange(held)
  \/ \E key \in DOMAIN counter : windowPasses(key)

(* The event loop serves every request it has accepted.                    *)
Spec == Init /\ [][Next]_vars /\ \A s \in Session : WF_vars(Step(s))

-----------------------------------------------------------------------------
(* Properties. *)

(* A permission is held as it is, or with an extension.                    *)
Held(held, q) ==
  q \in held \/ (Len(q) = 2 /\ \E x \in {"all", "quotation"} : Append(q, x) \in held)

HandlerReached(s) ==
  \/ At(s, "handler")
  \/ At(s, "answered") /\ call[s].scopes # {}

(* A handler is reached only if, at some time since the request arrived,   *)
(* the session of the user was stored and the role held permissions that   *)
(* cover the route's; and rows of every organization or owner are reached  *)
(* only if it then held '.all' of that action.                             *)
SessionSeen(c) == \E o \in c.seen : o.token

Authorized(c) == LET endpoint == Routing[c.route].endpoint IN
  /\ "jwt" \in endpoint.guards => SessionSeen(c)
  /\ "permission" \in endpoint.guards =>
       \E o \in c.seen : o.perms # NULL /\ \A q \in endpoint.needs : Held(o.perms, q)

HandlerAuthorized ==
  \A s \in Session : HandlerReached(s) =>
    /\ Authorized(call[s])
    /\ \A e \in call[s].scopes :
         e[1][1] \in {"read", "update", "delete", "update_status"} /\ e[2] = "all" =>
           \E o \in call[s].seen : o.perms # NULL /\ <<e[1][2], e[1][1], "all">> \in o.perms

(* A member of an organization whose role holds every declared permission  *)
(* is refused by no policy, except when creating a work order and where    *)
(* the subject is somebody else's record, or has to be.                    *)
RightsSuffice ==
  \A s \in Session :
    At(s, "answered") /\ call[s].user = [permissions |-> Declared, organization |-> TRUE] =>
      \A e \in call[s].scopes :
        e[2] = Refused =>
          e[1] \in {<<"write", "work-order">>, <<"writeRecord", "vibe">>,
                    <<"sender", "tickets">>, <<"other", "users">>}

(* The handler that serves a request is the one with the most literal path *)
(* of those that match it; the second handler of GET health is never one.  *)
Literals(r) == Cardinality({i \in DOMAIN r.handler.path : r.handler.path[i] # Param})

RightHandler ==
  \A s \in Session : HandlerReached(s) =>
    \A i \in target.routes :
      Routing[i].handler.method = call[s].method => Literals(Routing[i]) <= Literals(Route(s))

(* A request bears the headers its own method and path ask for, whatever   *)
(* the cache holds, which stays within its size; under 'auth' they forbid  *)
(* storing, where the middleware sees the path.  On a route that needs a   *)
(* session, what is sent with leave for anybody to cache it, an error too, *)
(* is of a thumbnail, and of a request that its guards let through.        *)
Public == {"public", OneHour}

OwnHeaders(method) == applyPolicy(applyGlobalHeaders(Production), PolicyOf(method, PathSeen))

HeadersFit ==
  /\ Cardinality(DOMAIN policyCache) <= CacheSize
  /\ \A s \in Session : pc[s] \notin {"idle", "answered"} =>
       /\ call[s].headers = IF At(s, "handler")
                              THEN setHeaders(OwnHeaders(call[s].method), Route(s).handler)
                              ELSE OwnHeaders(call[s].method)
       /\ target.path[1] = "auth" /\ ~target.stripped => call[s].headers.cache = "no-store"
  /\ \A s \in Session :
       pc[s] # "idle" /\ call[s].route # 0 /\ "jwt" \in Guards(s)
         /\ call[s].headers.cache \in Public =>
           Route(s).handler.name = "streamThumbnail" /\ Authorized(call[s])

(* A counter of attempts has an expiry, or is about to get it, or the      *)
(* request that made it ended in between.                                  *)
CountersEnd ==
  \A k \in DOMAIN counter :
    \/ counter[k].ttl
    \/ k \in stranded
    \/ \E s \in Session : At(s, "rate.expire") /\ call[s].key = k /\ firstAttempt(s)

(* A success has the declared envelope; what is logged is what is sent,    *)
(* except for the errors that are not HttpExceptions and for answers that  *)
(* defy the declaration; and of the handlers that return only those of     *)
(* markAllAsRead and of the thumbnails are answered with an error.         *)
AnswerMatches ==
  \A s \in Session : At(s, "answered") =>
    LET a == call[s].answer IN
    /\ a.status = 200 => conforms(a.envelope, Route(s).endpoint.declares)
    /\ a.log # NULL =>
         /\ a.log.status # 200 => a.log.status = a.status
         /\ a.log.level = "success" /\ a.status # 200 =>
              Route(s).handler.name = "markAllAsRead"
         /\ a.log.level = "error" => a.status # 200
    /\ a.status = 200 /\ target.path[1] # "health" => a.log # NULL

(* Every request accepted is answered, or the process stops.               *)
RequestsAnswered == \A s \in Session : ~At(s, "idle") ~> At(s, "idle")
=============================================================================
