------------------------------- MODULE Routes -------------------------------
(***************************************************************************)
(* The routes.  For each controller an operator gives what the decorators  *)
(* declare of an endpoint (guards, permission, shape of the response), and *)
(* one gives its handlers in the order they are registered: method, path,  *)
(* policy accesses and checks made, shape of what is returned.             *)
(***************************************************************************)
EXTENDS Policies, SequencesExt

Open(shape)     == [guards |-> {}, needs |-> {}, declares |-> shape]
Limited(shape)  == [Open(shape) EXCEPT !.guards = {"rate"}]
LoggedIn(shape) == [Open(shape) EXCEPT !.guards = {"jwt"}]
Holding(resource, action, shape) ==
  [guards |-> {"jwt", "permission"}, needs |-> {<<resource, action>>},
   declares |-> shape]

Param == ":"        \* a segment that any value matches

Handler(name, method, path, calls, returns) ==
  [name |-> name, method |-> method, path |-> path, calls |-> calls,
   returns |-> returns, cache |-> "none"]

OneHour == "public, max-age=3600"

(* A handler under @Header('Cache-Control', 'public, max-age=3600').       *)
Cached(name, method, path, calls, returns) ==
  [name |-> name, method |-> method, path |-> path, calls |-> calls,
   returns |-> returns, cache |-> OneHour]

(* A handler that ends at .forUpdate(), which the query builder of the     *)
(* pinned drizzle-orm lacks: it throws, and the accesses written after it  *)
(* are not asked.                                                          *)
Throwing(name, method, path, calls) == Handler(name, method, path, calls, "nothing")

Names(controller) == {controller[i].name : i \in DOMAIN controller}

-----------------------------------------------------------------------------
TicketController ==
  LET read == {<<"read", "tickets">>} IN
  << Handler("create", "POST", <<"ticket", "create">>, {<<"sender", "tickets">>}, "row"),
     Handler("list", "GET", <<"ticket", "list">>, read, "page"),
     Handler("my-tickets", "GET", <<"ticket", "my-tickets">>, {}, "page"),
     Handler("findOne", "GET", <<"ticket", Param>>, read, "row"),
     Handler("addMessage", "POST", <<"ticket", Param, "message">>,
             read \cup {<<"add_message", "tickets">>}, "boolean"),
     Handler("updateTicketStatus", "PUT", <<"ticket", Param, "status">>,
             {<<"update_status", "tickets">>}, "row"),
     Handler("getTicketMessages", "GET", <<"ticket", Param, "messages">>, read, "row"),
     Handler("getMessageAttachmentDownloadUrl", "GET",
             <<"ticket", Param, "download-url">>, {<<"attachment", "tickets">>}, "row"),
     Cached("streamThumbnail", "GET", <<"ticket", Param, "thumbnail">>,
             {<<"attachment", "tickets">>}, "file") >>

TicketEndpoint == [name \in Names(TicketController) |->
  CASE name = "create" -> [Open("row") EXCEPT !.guards = {"optional", "rate"}]
    [] name \in {"list", "my-tickets"} -> Holding("tickets", "read", "page")
    [] name = "addMessage" -> Holding("tickets", "add_message", "boolean")
    [] name = "updateTicketStatus" -> Holding("tickets", "update_status", "row")
    [] name = "streamThumbnail" -> Holding("tickets", "read", "undeclared")
    [] OTHER -> Holding("tickets", "read", "row")]

BomUpdate == {<<"update", "bom">>}
BomDraft  == {<<"read", "bom">>}      \* ensureDraft

RevisionController ==
  LET revisions == <<"products", Param, "revisions">>
      one == Append(revisions, Param)
  IN
  << Handler("getRevisions", "GET", revisions, {<<"read", "bom">>}, "page"),
     Handler("createRevision", "POST", revisions, {}, "row"),
     Handler("createAlternative", "POST", Append(one, "alternative"),
             {<<"read", "bom">>}, "row"),
     Throwing("updateRevision", "PUT", one, BomDraft),
     Throwing("deleteRevision", "DELETE", one, {<<"delete", "bom">>}),
     Throwing("submitRevision", "POST", Append(one, "submit"), BomDraft),
     Throwing("approveRevision", "POST", Append(one, "approve"), BomUpdate),
     Throwing("activateRevision", "POST", Append(one, "activate"), BomUpdate) >>

MaterialController ==
  LET materials == <<"products", Param, "revisions", Param, "materials">>
      one == Append(materials, Param)
  IN
  << Handler("getMaterials", "GET", materials, {<<"read", "bom">>}, "page"),
     Throwing("addMaterial", "POST", materials, BomDraft),
     Throwing("updateMaterial", "PUT", one, BomDraft),
     Throwing("deleteMaterial", "DELETE", one, BomDraft),
     Handler("searchParts", "GET", Append(materials, "search-parts"), {}, "list") >>

BomEndpoint == [name \in Names(RevisionController) \cup Names(MaterialController) |->
  CASE name \in {"getRevisions", "getMaterials"} -> Holding("bom", "read", "page")
    [] name = "searchParts" -> Holding("bom", "read", "undeclared")
    [] name \in {"createRevision", "createAlternative"} -> Holding("bom", "write", "row")
    [] name = "deleteRevision" -> Holding("bom", "delete", "undeclared")
    [] name \in {"updateRevision", "addMaterial", "updateMaterial"} ->
         Holding("bom", "update", "row")
    [] OTHER -> Holding("bom", "update", "undeclared")]

-----------------------------------------------------------------------------
AuthController ==
  << Handler("signup", "POST", <<"auth", "signup">>, {}, "row"),
     Handler("verifyEmail", "GET", <<"auth", "verify", Param>>, {}, "row"),
     Handler("login", "POST", <<"auth", "login">>, {}, "row"),
     Handler("refreshToken", "POST", <<"auth", "refresh">>, {}, "row"),
     Handler("logout", "DELETE", <<"auth", "logout">>, {}, "row"),
     Handler("changePassword", "POST", <<"auth", "change-password">>, {}, "row"),
     Handler("forgotPassword", "POST", <<"auth", "password", "reset-link">>, {}, "row"),
     Handler("validateResetCode", "POST", <<"auth", "validate-reset-code">>, {}, "row"),
     Handler("resetPassword", "POST", <<"auth", "password", "reset-password">>, {}, "row"),
     Handler("resendVerification", "POST", <<"auth", "resend-verification">>, {}, "row"),
     Handler("resendStatus", "GET",
             <<"auth", "resend-verification", "status", Param>>, {}, "row"),
     Handler("acceptInvitation", "POST", <<"auth", "accept-invitation">>, {}, "row") >>

AuthEndpoint == [name \in Names(AuthController) |->
  CASE name \in {"logout", "changePassword"} -> LoggedIn("any")
    [] name \in {"forgotPassword", "validateResetCode", "resetPassword",
                 "resendVerification"} -> Limited("any")
    [] OTHER -> Open("any")]

UsersController ==
  LET read == {<<"read", "users">>} IN
  << Handler("list", "GET", <<"users">>, read, "page"),
     Handler("profileSelf", "GET", <<"users", "profile">>, read, "row"),
     Handler("findOne", "GET", <<"users", Param>>, read \cup {<<"view", "users">>}, "row"),
     Handler("updateProfile", "PUT", <<"users", "profile", Param>>,
             {<<"update", "users">>, <<"edit", "users">>}, "row"),
     Handler("invite", "POST", <<"users", "invite">>,
             read \cup {<<"member", "users">>}, "row"),
     Handler("updateStatus", "PATCH", <<"users", Param, "status">>,
             read \cup {<<"other", "users">>}, "row"),
     Handler("deactivate", "DELETE", <<"users", Param>>,
             read \cup {<<"other", "users">>}, "row") >>

UsersEndpoint == [name \in Names(UsersController) |->
  CASE name = "list"        -> Holding("users", "read", "page")
    [] name = "profileSelf" -> LoggedIn("row")
    [] name = "findOne"     -> Holding("users", "read", "row")
    [] name = "invite"      -> Holding("users", "write", "row")
    [] name = "deactivate"  -> Holding("users", "delete", "row")
    [] OTHER                -> Holding("users", "update", "row")]

UserAddressesController ==
  LET addresses == <<"account", "addresses">>
      one == Append(addresses, Param)
  IN
  << Handler("list", "GET", addresses, {}, "page"),
     Handler("findOne", "GET", one, {}, "row"),
     Handler("create", "POST", addresses, {}, "row"),
     Handler("update", "PUT", one, {}, "row"),
     Handler("setDefault", "PATCH", Append(one, "default"), {}, "row"),
     Handler("remove", "DELETE", one, {}, "row") >>

UserAddressesEndpoint == [name \in Names(UserAddressesController) |->
  CASE name = "list"    -> Holding("user_addresses", "read", "page")
    [] name = "findOne" -> Holding("user_addresses", "read", "row")
    [] name = "create"  -> Holding("user_addresses", "write", "row")
    [] name = "remove"  -> Holding("user_addresses", "delete", "row")
    [] OTHER            -> Holding("user_addresses", "update", "row")]

RolesController ==
  << Handler("create", "POST", <<"roles", "create">>, {}, "row"),
     Handler("duplicate", "POST", <<"roles", Param, "duplicate">>, {}, "row"),
     Handler("lookup", "GET", <<"roles", "lookup">>, {}, "list"),
     Handler("list", "GET", <<"roles", "list">>, {}, "page"),
     Handler("findOne", "GET", <<"roles", Param>>, {}, "row"),
     Handler("assign", "PUT", <<"roles", "assign">>, {}, "row"),
     Handler("update-permissions", "PUT", <<"roles", "update-permissions", Param>>,
             {}, "boolean"),
     Handler("update-details", "PUT", <<"roles", "update-details", Param>>, {}, "row"),
     Handler("delete", "DELETE", <<"roles", Param>>, {}, "boolean") >>

RolesEndpoint == [name \in Names(RolesController) |->
  CASE name \in {"create", "duplicate"} -> Holding("roles", "write", "row")
    [] name = "lookup"  -> Holding("roles", "read", "any")
    [] name = "findOne" -> Holding("roles", "read", "row")
    [] name = "list"    -> Holding("roles", "read", "page")
    [] name = "assign"  -> Holding("roles", "change", "row")
    [] name = "update-permissions" -> Holding("roles", "change_permissions", "boolean")
    [] name = "update-details"     -> Holding("roles", "update", "row")
    [] name = "delete"  -> Holding("roles", "delete", "boolean")]

-----------------------------------------------------------------------------
AttachmentController ==
  LET read == {<<"read", "attachments">>} IN
  << Handler("upload", "POST", <<"attachments", "upload">>,
             {<<"write", "attachments">>}, "row"),
     Handler("confirm", "POST", <<"attachments", Param, "confirm">>, {}, "row"),
     Handler("list", "GET", <<"attachments", "list">>, read, "page"),
     Handler("my-files", "GET", <<"attachments", "my-files">>, read, "page"),
     Handler("get", "GET", <<"attachments", Param>>, read, "row"),
     Handler("delete", "DELETE", <<"attachments", Param>>,
             {<<"delete", "attachments">>}, "row"),
     Cached("streamThumbnail", "GET", <<"attachments", Param, "thumbnail">>,
             read, "file") >>

AttachmentsEndpoint == [name \in Names(AttachmentController) |->
  CASE name \in {"upload", "confirm"} -> Holding("attachments", "write", "row")
    [] name = "get"      -> Holding("attachments", "read", "row")
    [] name = "delete"   -> Holding("attachments", "delete", "row")
    [] name = "list"     -> [Holding("attachments", "read", "page") EXCEPT
                               !.needs = {<<"attachments", "read", "all">>}]
    [] name = "my-files" -> Holding("attachments", "read", "page")
    [] name = "streamThumbnail" -> Holding("attachments", "read", "undeclared")]

NodeController ==
  LET one    == <<"nodes", Param>>
      update == {<<"update", "nodes">>}
      read   == {<<"read", "nodes">>}
  IN
  << Handler("list", "GET", <<"nodes">>, read, "list"),
     Handler("create", "POST", <<"nodes">>, {}, "row"),
     Handler("findOne", "GET", one, read, "row"),
     Throwing("changeStatus", "PATCH", Append(one, "status"), update),
     Handler("update", "PUT", one, update, "row"),
     Handler("move", "PATCH", Append(one, "move"), read \cup update, "row"),
     Handler("delete", "DELETE", one, {<<"delete", "nodes">>}, "row") >>

NodeEndpoint == [name \in Names(NodeController) |->
  CASE name \in {"list", "findOne"} -> Holding("nodes", "read", "undeclared")
    [] name = "create" -> Holding("nodes", "write", "undeclared")
    [] name = "delete" -> Holding("nodes", "delete", "undeclared")
    [] OTHER           -> Holding("nodes", "update", "undeclared")]

VibeController ==
  << Handler("generateLayout", "POST", <<"vibe", "generate">>, {}, "row"),
     Handler("createPage", "POST", <<"vibe", "pages">>, {}, "row"),
     Handler("getPages", "GET", <<"vibe", "pages">>, {}, "list"),
     Handler("updatePage", "PATCH", <<"vibe", "pages", Param>>,
             {<<"writeRecord", "vibe">>}, "row"),
     Handler("deletePage", "DELETE", <<"vibe", "pages", Param>>,
             {<<"writeRecord", "vibe">>}, "row") >>

VibeEndpoint == [name \in Names(VibeController) |->
  CASE name = "getPages"   -> Holding("vibe", "read", "undeclared")
    [] name = "deletePage" -> Holding("vibe", "delete", "undeclared")
    [] OTHER               -> Holding("vibe", "write", "undeclared")]

NotificationController ==
  << Handler("list", "GET", <<"notifications">>, {<<"read", "notifications">>}, "page"),
     Handler("markAllAsRead", "PATCH", <<"notifications", "read-all">>, {}, "success"),
     Handler("markAsRead", "PATCH", <<"notifications", Param, "read">>,
             {<<"update", "notifications">>}, "row"),
     Handler("delete", "DELETE", <<"notifications", Param>>,
             {<<"delete", "notifications">>}, "row") >>

NotificationsEndpoint == [name \in Names(NotificationController) |->
  CASE name = "list"   -> Holding("notifications", "read", "page")
    [] name = "delete" -> Holding("notifications", "delete", "row")
    [] OTHER           -> Holding("notifications", "update", "row")]

-----------------------------------------------------------------------------
ProductController ==
  LET read == {<<"read", "products">>} IN
  << Handler("list", "GET", <<"products">>, read, "page"),
     Handler("create", "POST", <<"products">>, {<<"member", "products">>}, "row"),
     Handler("findOne", "GET", <<"products", Param>>, read, "row"),
     Handler("update", "PUT", <<"products", Param>>, {<<"update", "products">>}, "row"),
     Throwing("delete", "DELETE", <<"products", Param>>, read) >>

ProductEndpoint == [name \in Names(ProductController) |->
  CASE name = "list"    -> Holding("products", "read", "page")
    [] name = "findOne" -> Holding("products", "read", "row")
    [] name = "create"  -> Holding("products", "write", "row")
    [] name = "update"  -> Holding("products", "update", "row")
    [] name = "delete"  -> Holding("products", "delete", "undeclared")]

TraceabilityController ==
  LET read == {<<"read", "traceability">>} IN
  << Handler("list", "GET", <<"trace", "activities">>, read, "page"),
     Handler("listAuditLogs", "GET", <<"trace", "audit-logs">>, read, "page"),
     Handler("getById", "GET", <<"trace", "activities", Param>>, read, "row"),
     Handler("create", "POST", <<"trace", "activities">>,
             {<<"write", "traceability">>}, "row") >>

TraceabilityEndpoint == [name \in Names(TraceabilityController) |->
  CASE name = "list"    -> Holding("traceability", "read", "page")
    [] name = "getById" -> Holding("traceability", "read", "row")
    [] name = "create"  -> Holding("traceability", "write", "row")
    [] name = "listAuditLogs" ->
         [Holding("traceability", "read", "page") EXCEPT
            !.needs = {<<"traceability", "audit", "read">>}]]

WorkOrderController ==
  << Handler("createWorkOrder", "POST", <<"work-orders">>,
             {<<"write", "work-order">>}, "row"),
     Throwing("releaseWorkOrder", "POST", <<"work-orders", "release", Param>>,
              {<<"update", "work-order">>}),
     Handler("listWorkOrders", "GET", <<"work-orders">>,
             {<<"read", "work-order">>}, "page") >>

WorkOrderEndpoint == [name \in Names(WorkOrderController) |->
  CASE name = "createWorkOrder"  -> Holding("work_orders", "write", "row")
    [] name = "releaseWorkOrder" -> Holding("work_orders", "release", "undeclared")
    [] name = "listWorkOrders"   -> Holding("work_orders", "read", "page")]

ExecutionController ==
  << Handler("list", "GET", <<"execution">>, {<<"read", "execution">>}, "page"),
     Handler("get", "GET", <<"execution", Param>>, {<<"read", "execution">>}, "row") >>

ExecutionEndpoint == [name \in Names(ExecutionController) |->
  Holding("execution", "read", IF name = "list" THEN "page" ELSE "row")]

ConnectivityController ==
  << Handler("ingest", "POST", <<"connectivity", "mqtt", "ingest">>, {}, "row") >>

ConnectivityEndpoint == [name \in Names(ConnectivityController) |->
  Holding("connectivity", "ingest", "undeclared")]

OrganizationController ==
  << Handler("create", "POST", <<"organization">>, {}, "row"),
     Handler("update", "PATCH", <<"organization">>, {}, "row") >>

OrganizationEndpoint == [name \in Names(OrganizationController) |->
  Holding("organizations", IF name = "create" THEN "write" ELSE "update", "undeclared")]

(* Two controllers serve 'health'; that of the root module comes first.    *)
AppController == << Handler("getHello", "GET", <<"health">>, {}, "row") >>

HealthController ==
  << Handler("check", "GET", <<"health">>, {}, "row"),
     Handler("readiness", "GET", <<"health", "ready">>, {}, "row"),
     Handler("detailedHealth", "GET", <<"health", "detailed">>, {}, "row") >>

HealthEndpoint == [name \in Names(AppController) \cup Names(HealthController) |->
  Open("undeclared")]

-----------------------------------------------------------------------------
Declare(controller, endpoint) ==
  [i \in DOMAIN controller |->
     [handler |-> controller[i], endpoint |-> endpoint[controller[i].name]]]

(* The routes of the application, in the order they are registered.        *)
Routing ==
     Declare(AppController, HealthEndpoint)
  \o Declare(AttachmentController, AttachmentsEndpoint)
  \o Declare(AuthController, AuthEndpoint)
  \o Declare(UsersController, UsersEndpoint)
  \o Declare(UserAddressesController, UserAddressesEndpoint)
  \o Declare(TicketController, TicketEndpoint)
  \o Declare(RevisionController, BomEndpoint)
  \o Declare(MaterialController, BomEndpoint)
  \o Declare(WorkOrderController, WorkOrderEndpoint)
  \o Declare(RolesController, RolesEndpoint)
  \o Declare(NotificationController, NotificationsEndpoint)
  \o Declare(OrganizationController, OrganizationEndpoint)
  \o Declare(NodeController, NodeEndpoint)
  \o Declare(ProductController, ProductEndpoint)
  \o Declare(ExecutionController, ExecutionEndpoint)
  \o Declare(TraceabilityController, TraceabilityEndpoint)
  \o Declare(ConnectivityController, ConnectivityEndpoint)
  \o Declare(VibeController, VibeEndpoint)
  \o Declare(HealthController, HealthEndpoint)

Matches(route, path) ==
  /\ Len(route.handler.path) = Len(path)
  /\ \A i \in DOMAIN path : route.handler.path[i] \in {path[i], Param}

RoutesAt(path) == {i \in DOMAIN Routing : Matches(Routing[i], path)}

(* Faulty variant: the last one registered serves.                         *)
ServedLast(method, routes) ==
  LET matching == {i \in routes : Routing[i].handler.method = method} IN
  IF matching = {} THEN 0 ELSE CHOOSE i \in matching : \A j \in matching : i >= j

(* Of those, the first registered for a method serves it; 0 if there is    *)
(* none.                                                                   *)
Served(method, routes) ==
  LET matching == {i \in routes : Routing[i].handler.method = method} IN
  IF matching = {} THEN 0 ELSE CHOOSE i \in matching : \A j \in matching : i <= j
=============================================================================
