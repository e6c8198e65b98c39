----------------------------- MODULE HttpProofs -----------------------------
(***************************************************************************)
(* The proof of the invariant of HttpPipeline, and of what follows from it.*)
(***************************************************************************)
EXTENDS HttpInvariant, TLAPS, SequenceTheorems, FiniteSetTheorems, WellFoundedInduction

-----------------------------------------------------------------------------
(* The routes. *)

AllPlain(endpoint) == \A name \in DOMAIN endpoint : \A q \in endpoint[name].needs : Plain(q)

(* What the accesses of the handlers of a controller have to be.           *)
AllFit(controller) ==
  /\ Len(controller) \in Nat /\ DOMAIN controller = 1..Len(controller)
  /\ \A i \in DOMAIN controller :
       /\ \A a \in controller[i].calls : a[1] = "update_status" => a[2] = "tickets"
       /\ controller[i].cache # "none" =>
            controller[i].name = "streamThumbnail" /\ controller[i].path[1] # "auth"

LEMMA HoldingPlain ==
  ASSUME NEW r, NEW a, NEW d
  PROVE  \A q \in Holding(r, a, d).needs : Plain(q)
BY DEF Holding, Plain

LEMMA OpenPlain ==
  ASSUME NEW d
  PROVE  /\ Open(d).needs = {} /\ LoggedIn(d).needs = {} /\ Limited(d).needs = {}
BY DEF Open, LoggedIn, Limited

LEMMA HealthPlain == AllPlain(HealthEndpoint)
BY HoldingPlain, OpenPlain DEF AllPlain, HealthEndpoint

LEMMA AttachmentNames ==
  Names(AttachmentController) =
    {"upload", "confirm", "list", "my-files",
        "get", "delete", "streamThumbnail"}
<1>1. DOMAIN AttachmentController = 1..7
  BY DEF AttachmentController
<1>2. /\ AttachmentController[1].name = "upload"
      /\ AttachmentController[2].name = "confirm"
      /\ AttachmentController[3].name = "list"
      /\ AttachmentController[4].name = "my-files"
      /\ AttachmentController[5].name = "get"
      /\ AttachmentController[6].name = "delete"
      /\ AttachmentController[7].name = "streamThumbnail"
  BY SMTT(60) DEF AttachmentController, Handler, Cached
<1> QED BY <1>1, <1>2 DEF Names

LEMMA AttachmentsPlain == AllPlain(AttachmentsEndpoint)
BY AttachmentNames, HoldingPlain DEF AllPlain, AttachmentsEndpoint, Holding, Plain

LEMMA AuthPlain == AllPlain(AuthEndpoint)
BY HoldingPlain, OpenPlain DEF AllPlain, AuthEndpoint

LEMMA UsersPlain == AllPlain(UsersEndpoint)
BY HoldingPlain, OpenPlain DEF AllPlain, UsersEndpoint

LEMMA UserAddressesPlain == AllPlain(UserAddressesEndpoint)
BY HoldingPlain, OpenPlain DEF AllPlain, UserAddressesEndpoint

LEMMA TicketPlain == AllPlain(TicketEndpoint)
BY HoldingPlain, OpenPlain DEF AllPlain, TicketEndpoint

LEMMA BomPlain == AllPlain(BomEndpoint)
BY HoldingPlain, OpenPlain DEF AllPlain, BomEndpoint

LEMMA WorkOrderNames ==
  Names(WorkOrderController) =
    {"createWorkOrder", "releaseWorkOrder", "listWorkOrders"}
<1>1. DOMAIN WorkOrderController = 1..3
  BY DEF WorkOrderController
<1>2. /\ WorkOrderController[1].name = "createWorkOrder"
      /\ WorkOrderController[2].name = "releaseWorkOrder"
      /\ WorkOrderController[3].name = "listWorkOrders"
  BY DEF WorkOrderController, Handler, Throwing
<1> QED BY <1>1, <1>2 DEF Names

LEMMA WorkOrderPlain == AllPlain(WorkOrderEndpoint)
BY WorkOrderNames, HoldingPlain DEF AllPlain, WorkOrderEndpoint

LEMMA RolesNames ==
  Names(RolesController) =
    {"create", "duplicate", "lookup", "list", "findOne",
        "assign", "update-permissions", "update-details", "delete"}
<1>1. DOMAIN RolesController = 1..9
  BY DEF RolesController
<1>2. /\ RolesController[1].name = "create"
      /\ RolesController[2].name = "duplicate"
      /\ RolesController[3].name = "lookup"
      /\ RolesController[4].name = "list"
      /\ RolesController[5].name = "findOne"
      /\ RolesController[6].name = "assign"
      /\ RolesController[7].name = "update-permissions"
      /\ RolesController[8].name = "update-details"
      /\ RolesController[9].name = "delete"
  BY DEF RolesController, Handler
<1> QED BY <1>1, <1>2 DEF Names

LEMMA RolesPlain == AllPlain(RolesEndpoint)
BY RolesNames, HoldingPlain DEF AllPlain, RolesEndpoint

LEMMA NotificationsPlain == AllPlain(NotificationsEndpoint)
BY HoldingPlain, OpenPlain DEF AllPlain, NotificationsEndpoint

LEMMA OrganizationPlain == AllPlain(OrganizationEndpoint)
BY HoldingPlain, OpenPlain DEF AllPlain, OrganizationEndpoint

LEMMA NodePlain == AllPlain(NodeEndpoint)
BY HoldingPlain, OpenPlain DEF AllPlain, NodeEndpoint

LEMMA ProductNames ==
  Names(ProductController) =
    {"list", "create", "findOne", "update", "delete"}
<1>1. DOMAIN ProductController = 1..5
  BY DEF ProductController
<1>2. /\ ProductController[1].name = "list"
      /\ ProductController[2].name = "create"
      /\ ProductController[3].name = "findOne"
      /\ ProductController[4].name = "update"
      /\ ProductController[5].name = "delete"
  BY DEF ProductController, Handler, Throwing
<1> QED BY <1>1, <1>2 DEF Names

LEMMA ProductPlain == AllPlain(ProductEndpoint)
BY ProductNames, HoldingPlain DEF AllPlain, ProductEndpoint

LEMMA ExecutionPlain == AllPlain(ExecutionEndpoint)
BY HoldingPlain, OpenPlain DEF AllPlain, ExecutionEndpoint

LEMMA TraceabilityNames ==
  Names(TraceabilityController) =
    {"list", "listAuditLogs", "getById", "create"}
<1>1. DOMAIN TraceabilityController = 1..4
  BY DEF TraceabilityController
<1>2. /\ TraceabilityController[1].name = "list"
      /\ TraceabilityController[2].name = "listAuditLogs"
      /\ TraceabilityController[3].name = "getById"
      /\ TraceabilityController[4].name = "create"
  BY DEF TraceabilityController, Handler
<1> QED BY <1>1, <1>2 DEF Names

LEMMA TraceabilityPlain == AllPlain(TraceabilityEndpoint)
BY TraceabilityNames, HoldingPlain DEF AllPlain, TraceabilityEndpoint, Holding, Plain

LEMMA ConnectivityPlain == AllPlain(ConnectivityEndpoint)
BY HoldingPlain, OpenPlain DEF AllPlain, ConnectivityEndpoint

LEMMA VibePlain == AllPlain(VibeEndpoint)
BY HoldingPlain, OpenPlain DEF AllPlain, VibeEndpoint

LEMMA AppFits == AllFit(AppController)
BY DEF AllFit, AppController, Handler

LEMMA AttachmentFits == AllFit(AttachmentController)
BY SMTT(60) DEF AllFit, AttachmentController, Handler, Cached

LEMMA AuthFits == AllFit(AuthController)
BY DEF AllFit, AuthController, Handler

LEMMA UsersFits == AllFit(UsersController)
BY DEF AllFit, UsersController, Handler

LEMMA UserAddressesFits == AllFit(UserAddressesController)
BY DEF AllFit, UserAddressesController, Handler

LEMMA TicketFits == AllFit(TicketController)
BY SMTT(60) DEF AllFit, TicketController, Handler, Cached

LEMMA RevisionFits == AllFit(RevisionController)
BY DEF AllFit, RevisionController, Handler, Throwing, BomDraft, BomUpdate

LEMMA MaterialFits == AllFit(MaterialController)
BY DEF AllFit, MaterialController, Handler, Throwing, BomDraft, BomUpdate

LEMMA WorkOrderFits == AllFit(WorkOrderController)
BY DEF AllFit, WorkOrderController, Handler, Throwing

LEMMA RolesFits == AllFit(RolesController)
BY DEF AllFit, RolesController, Handler

LEMMA NotificationFits == AllFit(NotificationController)
BY DEF AllFit, NotificationController, Handler

LEMMA OrganizationFits == AllFit(OrganizationController)
BY DEF AllFit, OrganizationController, Handler

LEMMA NodeFits == AllFit(NodeController)
BY DEF AllFit, NodeController, Handler, Throwing

LEMMA ProductFits == AllFit(ProductController)
BY DEF AllFit, ProductController, Handler, Throwing

LEMMA ExecutionFits == AllFit(ExecutionController)
BY DEF AllFit, ExecutionController, Handler

LEMMA TraceabilityFits == AllFit(TraceabilityController)
BY DEF AllFit, TraceabilityController, Handler

LEMMA ConnectivityFits == AllFit(ConnectivityController)
BY DEF AllFit, ConnectivityController, Handler

LEMMA VibeFits == AllFit(VibeController)
BY DEF AllFit, VibeController, Handler

LEMMA HealthFits == AllFit(HealthController)
BY DEF AllFit, HealthController, Handler

(* A sequence of good routes; that of a controller; and two joined.        *)
Good(routes) == \E S : routes \in Seq(S) /\ \A r \in S : WellDeclared(r)

LEMMA DeclareGood ==
  ASSUME NEW controller, NEW endpoint, AllFit(controller), AllPlain(endpoint),
         Names(controller) \subseteq DOMAIN endpoint
  PROVE  Good(Declare(controller, endpoint))
<1> DEFINE routes == Declare(controller, endpoint)
<1>1. routes \in Seq({routes[i] : i \in 1..Len(controller)})
  BY DEF Declare, AllFit
<1>2. ASSUME NEW i \in 1..Len(controller) PROVE WellDeclared(routes[i])
  <2>1. controller[i].name \in DOMAIN endpoint
    BY DEF Names, AllFit
  <2> QED BY <2>1 DEF Declare, AllFit, AllPlain, WellDeclared
<1> QED BY <1>1, <1>2 DEF Good

LEMMA JoinedGood ==
  ASSUME NEW a, NEW b, Good(a), Good(b)
  PROVE  Good(a \o b)
<1>1. PICK S : a \in Seq(S) /\ \A r \in S : WellDeclared(r)
  BY DEF Good
<1>2. PICK T : b \in Seq(T) /\ \A r \in T : WellDeclared(r)
  BY DEF Good
<1>3. a \in Seq(S \cup T) /\ b \in Seq(S \cup T)
  BY <1>1, <1>2
<1>4. a \o b \in Seq(S \cup T)
  BY <1>3
<1> QED BY <1>1, <1>2, <1>4 DEF Good

LEMMA RoutingGood == RoutesWellDeclared /\ DOMAIN Routing \subseteq Nat
<1>1. Good(Declare(AppController, HealthEndpoint))
  BY DeclareGood, AppFits, HealthPlain DEF HealthEndpoint, Names
<1>2. Good(Declare(AttachmentController, AttachmentsEndpoint))
  BY DeclareGood, AttachmentFits, AttachmentsPlain DEF AttachmentsEndpoint, Names
<1>3. Good(Declare(AuthController, AuthEndpoint))
  BY DeclareGood, AuthFits, AuthPlain DEF AuthEndpoint, Names
<1>4. Good(Declare(UsersController, UsersEndpoint))
  BY DeclareGood, UsersFits, UsersPlain DEF UsersEndpoint, Names
<1>5. Good(Declare(UserAddressesController, UserAddressesEndpoint))
  BY DeclareGood, UserAddressesFits, UserAddressesPlain DEF UserAddressesEndpoint, Names
<1>6. Good(Declare(TicketController, TicketEndpoint))
  BY DeclareGood, TicketFits, TicketPlain DEF TicketEndpoint, Names
<1>7. Good(Declare(RevisionController, BomEndpoint))
  BY DeclareGood, RevisionFits, BomPlain DEF BomEndpoint, Names
<1>8. Good(Declare(MaterialController, BomEndpoint))
  BY DeclareGood, MaterialFits, BomPlain DEF BomEndpoint, Names
<1>9. Good(Declare(WorkOrderController, WorkOrderEndpoint))
  BY DeclareGood, WorkOrderFits, WorkOrderPlain DEF WorkOrderEndpoint, Names
<1>10. Good(Declare(RolesController, RolesEndpoint))
  BY DeclareGood, RolesFits, RolesPlain DEF RolesEndpoint, Names
<1>11. Good(Declare(NotificationController, NotificationsEndpoint))
  BY DeclareGood, NotificationFits, NotificationsPlain DEF NotificationsEndpoint, Names
<1>12. Good(Declare(OrganizationController, OrganizationEndpoint))
  BY DeclareGood, OrganizationFits, OrganizationPlain DEF OrganizationEndpoint, Names
<1>13. Good(Declare(NodeController, NodeEndpoint))
  BY DeclareGood, NodeFits, NodePlain DEF NodeEndpoint, Names
<1>14. Good(Declare(ProductController, ProductEndpoint))
  BY DeclareGood, ProductFits, ProductPlain DEF ProductEndpoint, Names
<1>15. Good(Declare(ExecutionController, ExecutionEndpoint))
  BY DeclareGood, ExecutionFits, ExecutionPlain DEF ExecutionEndpoint, Names
<1>16. Good(Declare(TraceabilityController, TraceabilityEndpoint))
  BY DeclareGood, TraceabilityFits, TraceabilityPlain DEF TraceabilityEndpoint, Names
<1>17. Good(Declare(ConnectivityController, ConnectivityEndpoint))
  BY DeclareGood, ConnectivityFits, ConnectivityPlain DEF ConnectivityEndpoint, Names
<1>18. Good(Declare(VibeController, VibeEndpoint))
  BY DeclareGood, VibeFits, VibePlain DEF VibeEndpoint, Names
<1>19. Good(Declare(HealthController, HealthEndpoint))
  BY DeclareGood, HealthFits, HealthPlain DEF HealthEndpoint, Names
<1>20. Good(Routing)
  BY <1>1, <1>2, <1>3, <1>4, <1>5, <1>6, <1>7, <1>8, <1>9, <1>10, <1>11, <1>12, <1>13, <1>14, <1>15, <1>16, <1>17, <1>18, <1>19, JoinedGood DEF Routing
<1> QED BY <1>20 DEF Good, RoutesWellDeclared

-----------------------------------------------------------------------------
(* The order of the routes. *)

(* Where a handler is: controllers that share the first word of their paths*)
(* are told apart by the length and the fifth.                             *)
Class(path) ==
  IF path[1] = "products"
    THEN IF Len(path) < 3 THEN "product"
         ELSE IF Len(path) \in {5, 6}
             /\ path[5] = "materials" THEN "materials" ELSE "revisions"
  ELSE IF path[1] = "health" /\ Len(path) > 1 THEN "health detail" ELSE path[1]

Laid(path) ==
  /\ Len(path) \in Nat \ {0} /\ DOMAIN path = 1..Len(path)
  /\ path[1] # Param /\ (path[1] = "auth" => Len(path) > 1)
  /\ path[1] = "products" /\ Len(path) \in {5, 6} => path[5] # Param

AllLaid(controller, classes) ==
  /\ Len(controller) \in Nat /\ DOMAIN controller = 1..Len(controller)
  /\ \A i \in DOMAIN controller :
       /\ Laid(controller[i].path) /\ Class(controller[i].path) \in classes
       /\ controller[i].calls \subseteq Accesses

(* How a handler is told apart from one registered later.                  *)
Words(h)      == Len(h.path)
SecondWord(h) == h.path[2]
LastWord(h)   == h.path[Len(h.path)]

Told(q, r) ==
  \/ q.method # r.method \/ Words(q) # Words(r)
  \/ LastWord(q) # LastWord(r) /\ LastWord(q) # Param /\ LastWord(r) # Param
  \/ Words(q) = 2 /\ LastWord(r) = Param
  \/ Words(q) = 3 /\ SecondWord(q) # SecondWord(r) /\ SecondWord(q) # Param
      /\ SecondWord(r) # Param

AllTold(controller) == \A i, j \in DOMAIN controller : i < j => Told(controller[i],
    controller[j])

AllConform(controller, endpoint) ==
  \A i \in DOMAIN controller :
    \/ conforms(envelope(controller[i].returns), endpoint[controller[i].name].declares)
    \/ controller[i].returns = "nothing" \/ controller[i].name = "markAllAsRead"

LEMMA Conforming ==
  ASSUME NEW x, NEW d,
         \/ d \in {"undeclared", "any"}
         \/ d = "page" /\ x = "page"
         \/ d # "page" /\ d = x
  PROVE  conforms(envelope(x), d)
BY DEF conforms, envelope

LEMMA Classes ==
  ASSUME NEW path
  PROVE  /\ path[1] = "products" /\ Len(path) \in {1, 2} => Class(path) = "product"
         /\ path[1] = "products" /\ Len(path) \in {3, 4, 5} /\ (Len(path) = 5
              => path[5] # "materials") =>
              Class(path) = "revisions"
         /\ path[1] = "products" /\ Len(path) \in {5, 6} /\ path[5] = "materials"
              => Class(path) = "materials"
         /\ path[1] = "health" /\ Len(path) = 1 => Class(path) = "health"
         /\ path[1] = "health" => Class(path) \in {"health", "health detail"}
<1>1. ASSUME path[1] = "products", Len(path) \in {1, 2} PROVE Class(path) = "product"
  <2>1. \A n \in {1, 2} : n < 3
    OBVIOUS
  <2>2. Len(path) < 3
    BY <1>1, <2>1
  <2> QED BY <1>1, <2>2, Zenon DEF Class
<1>2. ASSUME path[1] = "products", Len(path) \in {3, 4, 5}, Len(path) = 5
          => path[5] # "materials"
      PROVE  Class(path) = "revisions"
  <2>1. ~(Len(path) < 3) /\ ~(Len(path) \in {5, 6} /\ path[5] = "materials")
    BY <1>2
  <2> QED BY <1>2, <2>1, Zenon DEF Class
<1>3. ASSUME path[1] = "products", Len(path) \in {5, 6}, path[5] = "materials"
      PROVE  Class(path) = "materials"
  BY <1>3 DEF Class
<1>4. ASSUME path[1] = "health", Len(path) = 1 PROVE Class(path) = "health"
  <2>1. ~(Len(path) > 1)
    BY <1>4
  <2> QED BY <1>4, <2>1, Zenon DEF Class
<1>5. ASSUME path[1] = "health" PROVE Class(path) \in {"health", "health detail"}
  BY <1>5 DEF Class
<1> QED BY <1>1, <1>2, <1>3, <1>4, <1>5

LEMMA Longer2 ==
  ASSUME NEW a, NEW b, NEW x
  PROVE  Append(<<a, b>>, x) = <<a, b, x>>
<1> DEFINE S == {a, b, x}
<1>1. <<a, b>> \in Seq(S) /\ <<a, b, x>> \in Seq(S)
  OBVIOUS
<1>2. /\ Append(<<a, b>>, x) \in Seq(S)
      /\ Len(Append(<<a, b>>, x)) = 3
      /\ \A i \in 1..3 : Append(<<a, b>>, x)[i] = <<a, b, x>>[i]
  BY <1>1
<1> QED BY <1>1, <1>2, SeqEqual

LEMMA Longer3 ==
  ASSUME NEW a, NEW b, NEW c, NEW x
  PROVE  Append(<<a, b, c>>, x) = <<a, b, c, x>>
<1> DEFINE S == {a, b, c, x}
<1>1. <<a, b, c>> \in Seq(S) /\ <<a, b, c, x>> \in Seq(S)
  OBVIOUS
<1>2. /\ Append(<<a, b, c>>, x) \in Seq(S)
      /\ Len(Append(<<a, b, c>>, x)) = 4
      /\ \A i \in 1..4 : Append(<<a, b, c>>, x)[i] = <<a, b, c, x>>[i]
  BY <1>1
<1> QED BY <1>1, <1>2, SeqEqual

LEMMA Longer4 ==
  ASSUME NEW a, NEW b, NEW c, NEW d, NEW x
  PROVE  Append(<<a, b, c, d>>, x) = <<a, b, c, d, x>>
<1> DEFINE S == {a, b, c, d, x}
<1>1. <<a, b, c, d>> \in Seq(S) /\ <<a, b, c, d, x>> \in Seq(S)
  OBVIOUS
<1>2. /\ Append(<<a, b, c, d>>, x) \in Seq(S)
      /\ Len(Append(<<a, b, c, d>>, x)) = 5
      /\ \A i \in 1..5 : Append(<<a, b, c, d>>, x)[i] = <<a, b, c, d, x>>[i]
  BY <1>1
<1> QED BY <1>1, <1>2, SeqEqual

LEMMA Longer5 ==
  ASSUME NEW a, NEW b, NEW c, NEW d, NEW e, NEW x
  PROVE  Append(<<a, b, c, d, e>>, x) = <<a, b, c, d, e, x>>
<1> DEFINE S == {a, b, c, d, e, x}
<1>1. <<a, b, c, d, e>> \in Seq(S) /\ <<a, b, c, d, e, x>> \in Seq(S)
  OBVIOUS
<1>2. /\ Append(<<a, b, c, d, e>>, x) \in Seq(S)
      /\ Len(Append(<<a, b, c, d, e>>, x)) = 6
      /\ \A i \in 1..6 : Append(<<a, b, c, d, e>>, x)[i] = <<a, b, c, d, e, x>>[i]
  BY <1>1
<1> QED BY <1>1, <1>2, SeqEqual

LEMMA UserAddressesFlat ==
  UserAddressesController =
    << Handler("list", "GET", <<"account", "addresses">>, {}, "page"),
       Handler("findOne", "GET", <<"account", "addresses", Param>>, {}, "row"),
       Handler("create", "POST", <<"account", "addresses">>, {}, "row"),
       Handler("update", "PUT", <<"account", "addresses", Param>>, {}, "row"),
       Handler("setDefault", "PATCH", <<"account", "addresses", Param, "default">>, {},
           "row"),
       Handler("remove", "DELETE", <<"account", "addresses", Param>>, {}, "row") >>
<1>1. /\ Append(<<"account", "addresses">>, Param) = <<"account", "addresses", Param>>
      /\ Append(<<"account", "addresses", Param>>, "default") =
           <<"account", "addresses", Param, "default">>
  BY Longer2, Longer3
<1> QED BY <1>1, Zenon DEF UserAddressesController

LEMMA RevisionFlat ==
  RevisionController =
    << Handler("getRevisions", "GET", <<"products", Param, "revisions">>, {<<"read",
        "bom">>}, "page"),
       Handler("createRevision", "POST", <<"products", Param, "revisions">>, {}, "row"),
       Handler("createAlternative", "POST", <<"products", Param, "revisions", Param,
           "alternative">>,
               {<<"read", "bom">>}, "row"),
       Throwing("updateRevision", "PUT", <<"products", Param, "revisions", Param>>,
                BomDraft),
       Throwing("deleteRevision", "DELETE", <<"products", Param, "revisions", Param>>,
                {<<"delete", "bom">>}),
       Throwing("submitRevision", "POST", <<"products", Param, "revisions", Param,
           "submit">>, BomDraft),
       Throwing("approveRevision", "POST", <<"products", Param, "revisions", Param,
           "approve">>, BomUpdate),
       Throwing("activateRevision", "POST", <<"products", Param, "revisions", Param,
           "activate">>, BomUpdate) >>
<1>1. /\ Append(<<"products", Param, "revisions">>, Param) = <<"products", Param,
          "revisions", Param>>
      /\ \A x : Append(<<"products", Param, "revisions", Param>>, x) =
                  <<"products", Param, "revisions", Param, x>>
  BY Longer3, Longer4
<1> QED BY <1>1, Zenon DEF RevisionController

LEMMA NodeFlat ==
  NodeController =
    << Handler("list", "GET", <<"nodes">>, {<<"read", "nodes">>}, "list"),
       Handler("create", "POST", <<"nodes">>, {}, "row"),
       Handler("findOne", "GET", <<"nodes", Param>>, {<<"read", "nodes">>}, "row"),
       Throwing("changeStatus", "PATCH", <<"nodes", Param, "status">>, {<<"update",
           "nodes">>}),
       Handler("update", "PUT", <<"nodes", Param>>, {<<"update", "nodes">>}, "row"),
       Handler("move", "PATCH", <<"nodes", Param, "move">>,
               {<<"read", "nodes">>} \cup {<<"update", "nodes">>}, "row"),
       Handler("delete", "DELETE", <<"nodes", Param>>, {<<"delete", "nodes">>}, "row") >>
<1>1. /\ Append(<<"nodes", Param>>, "status") = <<"nodes", Param, "status">>
      /\ Append(<<"nodes", Param>>, "move") = <<"nodes", Param, "move">>
  BY Longer2
<1> QED BY <1>1, Zenon DEF NodeController

LEMMA MaterialFlat ==
  MaterialController =
    << Handler("getMaterials", "GET", <<"products", Param, "revisions", Param,
        "materials">>,
               {<<"read", "bom">>}, "page"),
       Throwing("addMaterial", "POST", <<"products", Param, "revisions", Param,
           "materials">>, BomDraft),
       Throwing("updateMaterial", "PUT", <<"products", Param, "revisions", Param,
           "materials", Param>>, BomDraft),
       Throwing("deleteMaterial", "DELETE", <<"products", Param, "revisions", Param,
           "materials", Param>>, BomDraft),
       Handler("searchParts", "GET", <<"products", Param, "revisions", Param, "materials",
           "search-parts">>,
               {}, "list") >>
<1>1. /\ Append(<<"products", Param, "revisions", Param, "materials">>, Param) =
            <<"products", Param, "revisions", Param, "materials", Param>>
      /\ Append(<<"products", Param, "revisions", Param, "materials">>, "search-parts") =
            <<"products", Param, "revisions", Param, "materials", "search-parts">>
  BY Longer5
<1> QED BY <1>1, Zenon DEF MaterialController

LEMMA AppLaid == AllLaid(AppController, {"health"})
<1>1. Len(AppController) \in Nat /\ DOMAIN AppController = 1..Len(AppController)
  BY DEF AppController
<1>2. \A i \in DOMAIN AppController : LET path == AppController[i].path IN
        /\ Len(path) \in Nat \ {0} /\ DOMAIN path = 1..Len(path)
        /\ path[1] = "health"
  BY DEF AppController, Handler
<1>3. \A i \in DOMAIN AppController : LET path == AppController[i].path IN Len(path) = 1
          /\ path = <<"health">>
  BY DEF AppController, Handler
<1>4. ASSUME NEW i \in DOMAIN AppController
      PROVE  Class(AppController[i].path) \in {"health"}
  <2> DEFINE path == AppController[i].path
  <2>1. path[1] = "health" /\ Len(path) \in Nat /\ Len(path) = 1 /\ path = <<"health">>
    BY <1>3, <1>2
  <2> QED BY <2>1, Classes
<1>5. \A i \in DOMAIN AppController : LET path == AppController[i].path IN
        Len(path) \in {5, 6} => path[5] # Param
  BY DEF AppController, Handler, Param
<1>6. \A i \in DOMAIN AppController : AppController[i].calls \subseteq Accesses
  BY DEF AppController, Handler, Accesses
<1> QED BY <1>1, <1>2, <1>5, <1>6, <1>4 DEF AllLaid, Laid, Param

LEMMA AppTold == AllTold(AppController)
BY DEF AppController, AllTold, Handler, Words, SecondWord, LastWord, Told, Param

LEMMA AppConforms == AllConform(AppController, HealthEndpoint)
<1>1. \A name \in Names(AppController) : HealthEndpoint[name].declares \in {"undeclared",
          "any"}
  BY DEF HealthEndpoint, Open, LoggedIn, Limited, Holding
<1> QED BY <1>1, Conforming DEF AllConform, Names

LEMMA AttachmentLaid == AllLaid(AttachmentController, {"attachments"})
<1>1. Len(AttachmentController) \in Nat
          /\ DOMAIN AttachmentController = 1..Len(AttachmentController)
  BY DEF AttachmentController
<1>2. \A i \in DOMAIN AttachmentController : LET path == AttachmentController[i].path IN
        /\ Len(path) \in Nat \ {0} /\ DOMAIN path = 1..Len(path)
        /\ path[1] = "attachments"
  BY SMTT(60) DEF AttachmentController, Handler, Cached
<1>3. \A i \in DOMAIN AttachmentController : AttachmentController[i].calls \subseteq Accesses
  BY SMTT(60) DEF AttachmentController, Handler, Cached, Accesses
<1> QED BY <1>1, <1>2, <1>3 DEF AllLaid, Laid, Class, Param

LEMMA AttachmentTold == AllTold(AttachmentController)
<1> DEFINE h == AttachmentController
<1>1. /\ h[1].method = "POST" /\ Words(h[1]) = 2 /\ LastWord(h[1]) = "upload"
      /\ h[2].method = "POST" /\ Words(h[2]) = 3 /\ LastWord(h[2]) = "confirm"
      /\ h[3].method = "GET" /\ Words(h[3]) = 2 /\ LastWord(h[3]) = "list"
      /\ h[4].method = "GET" /\ Words(h[4]) = 2 /\ LastWord(h[4]) = "my-files"
      /\ h[5].method = "GET" /\ Words(h[5]) = 2 /\ LastWord(h[5]) = Param
      /\ h[6].method = "DELETE" /\ Words(h[6]) = 2 /\ LastWord(h[6]) = Param
      /\ h[7].method = "GET" /\ Words(h[7]) = 3 /\ LastWord(h[7]) = "thumbnail"
  <2>1. h[1].method = "POST" /\ Words(h[1]) = 2 /\ LastWord(h[1]) = "upload"
    BY DEF AttachmentController, Handler, Cached, Words, SecondWord, LastWord
  <2>2. h[2].method = "POST" /\ Words(h[2]) = 3 /\ LastWord(h[2]) = "confirm"
    BY DEF AttachmentController, Handler, Cached, Words, SecondWord, LastWord
  <2>3. h[3].method = "GET" /\ Words(h[3]) = 2 /\ LastWord(h[3]) = "list"
    BY DEF AttachmentController, Handler, Cached, Words, SecondWord, LastWord
  <2>4. h[4].method = "GET" /\ Words(h[4]) = 2 /\ LastWord(h[4]) = "my-files"
    BY DEF AttachmentController, Handler, Cached, Words, SecondWord, LastWord
  <2>5. h[5].method = "GET" /\ Words(h[5]) = 2 /\ LastWord(h[5]) = Param
    BY DEF AttachmentController, Handler, Cached, Words, SecondWord, LastWord
  <2>6. h[6].method = "DELETE" /\ Words(h[6]) = 2 /\ LastWord(h[6]) = Param
    BY DEF AttachmentController, Handler, Cached, Words, SecondWord, LastWord
  <2>7. h[7].method = "GET" /\ Words(h[7]) = 3 /\ LastWord(h[7]) = "thumbnail"
    BY DEF AttachmentController, Handler, Cached, Words, SecondWord, LastWord
  <2> QED BY <2>1, <2>2, <2>3, <2>4, <2>5, <2>6, <2>7
<1>2. DOMAIN h = 1..7
  BY DEF AttachmentController
<1> HIDE DEF h
<1>3. ASSUME NEW i \in 1..7, NEW j \in 1..7, i < j PROVE Told(h[i], h[j])
  <2>1. CASE i = 1
    BY <1>1, <1>3, <2>1 DEF Told, Param
  <2>2. CASE i = 2
    BY <1>1, <1>3, <2>2 DEF Told, Param
  <2>3. CASE i = 3
    BY <1>1, <1>3, <2>3 DEF Told, Param
  <2>4. CASE i = 4
    BY <1>1, <1>3, <2>4 DEF Told, Param
  <2>5. CASE i = 5
    BY <1>1, <1>3, <2>5 DEF Told, Param
  <2>6. CASE i = 6
    BY <1>1, <1>3, <2>6 DEF Told, Param
  <2> QED BY <1>3, <2>1, <2>2, <2>3, <2>4, <2>5, <2>6
<1> QED BY <1>2, <1>3 DEF AllTold, h

LEMMA AttachmentConforms == AllConform(AttachmentController, AttachmentsEndpoint)
<1>1. \A name \in Names(AttachmentController) :
        /\ name \in {"upload", "confirm", "get", "delete"}
             => AttachmentsEndpoint[name].declares = "row"
        /\ name \in {"list", "my-files"} => AttachmentsEndpoint[name].declares = "page"
        /\ name = "streamThumbnail" => AttachmentsEndpoint[name].declares = "undeclared"
  BY DEF AttachmentsEndpoint, Open, LoggedIn, Limited, Holding
<1>2. \A i \in DOMAIN AttachmentController : LET h == AttachmentController[i] IN
        /\ h.name \in {"upload", "confirm", "list", "my-files", "get", "delete",
             "streamThumbnail"}
        /\ h.name \in {"upload", "confirm", "get", "delete"} => h.returns = "row"
        /\ h.name \in {"list", "my-files"} => h.returns = "page"
        /\ h.name = "streamThumbnail" => h.returns = "file"
  BY SMTT(60) DEF AttachmentController, Handler, Cached
<1> QED BY <1>1, <1>2, Conforming DEF AllConform, Names

LEMMA AuthLaid == AllLaid(AuthController, {"auth"})
<1>1. Len(AuthController) \in Nat /\ DOMAIN AuthController = 1..Len(AuthController)
  BY DEF AuthController
<1>2. ASSUME NEW i \in DOMAIN AuthController PROVE LET path == AuthController[i].path IN
        /\ Len(path) \in Nat \ {0} /\ DOMAIN path = 1..Len(path)
        /\ path[1] = "auth" /\ Len(path) > 1
  <2>0. i \in 1..12
    BY DEF AuthController
  <2>1. CASE i = 1
    BY <2>1 DEF AuthController, Handler
  <2>2. CASE i = 2
    BY <2>2 DEF AuthController, Handler
  <2>3. CASE i = 3
    BY <2>3 DEF AuthController, Handler
  <2>4. CASE i = 4
    BY <2>4 DEF AuthController, Handler
  <2>5. CASE i = 5
    BY <2>5 DEF AuthController, Handler
  <2>6. CASE i = 6
    BY <2>6 DEF AuthController, Handler
  <2>7. CASE i = 7
    BY <2>7 DEF AuthController, Handler
  <2>8. CASE i = 8
    BY <2>8 DEF AuthController, Handler
  <2>9. CASE i = 9
    BY <2>9 DEF AuthController, Handler
  <2>10. CASE i = 10
    BY <2>10 DEF AuthController, Handler
  <2>11. CASE i = 11
    BY <2>11 DEF AuthController, Handler
  <2>12. CASE i = 12
    BY <2>12 DEF AuthController, Handler
  <2> QED BY <2>0, <2>1, <2>2, <2>3, <2>4, <2>5, <2>6, <2>7, <2>8, <2>9, <2>10, <2>11, <2>12
<1>3. ASSUME NEW i \in DOMAIN AuthController
      PROVE  AuthController[i].calls \subseteq Accesses
  <2>0. i \in 1..12
    BY DEF AuthController
  <2>1. CASE i = 1
    BY <2>1 DEF AuthController, Handler, Accesses
  <2>2. CASE i = 2
    BY <2>2 DEF AuthController, Handler, Accesses
  <2>3. CASE i = 3
    BY <2>3 DEF AuthController, Handler, Accesses
  <2>4. CASE i = 4
    BY <2>4 DEF AuthController, Handler, Accesses
  <2>5. CASE i = 5
    BY <2>5 DEF AuthController, Handler, Accesses
  <2>6. CASE i = 6
    BY <2>6 DEF AuthController, Handler, Accesses
  <2>7. CASE i = 7
    BY <2>7 DEF AuthController, Handler, Accesses
  <2>8. CASE i = 8
    BY <2>8 DEF AuthController, Handler, Accesses
  <2>9. CASE i = 9
    BY <2>9 DEF AuthController, Handler, Accesses
  <2>10. CASE i = 10
    BY <2>10 DEF AuthController, Handler, Accesses
  <2>11. CASE i = 11
    BY <2>11 DEF AuthController, Handler, Accesses
  <2>12. CASE i = 12
    BY <2>12 DEF AuthController, Handler, Accesses
  <2> QED BY <2>0, <2>1, <2>2, <2>3, <2>4, <2>5, <2>6, <2>7, <2>8, <2>9, <2>10, <2>11, <2>12
<1> QED BY <1>1, <1>2, <1>3 DEF AllLaid, Laid, Class, Param

LEMMA AuthTold == AllTold(AuthController)
<1> DEFINE h == AuthController
<1>1. /\ h[1].method = "POST" /\ Words(h[1]) = 2 /\ LastWord(h[1]) = "signup"
      /\ h[2].method = "GET" /\ Words(h[2]) = 3 /\ LastWord(h[2]) = Param
      /\ h[3].method = "POST" /\ Words(h[3]) = 2 /\ LastWord(h[3]) = "login"
      /\ h[4].method = "POST" /\ Words(h[4]) = 2 /\ LastWord(h[4]) = "refresh"
      /\ h[5].method = "DELETE" /\ Words(h[5]) = 2 /\ LastWord(h[5]) = "logout"
      /\ h[6].method = "POST" /\ Words(h[6]) = 2 /\ LastWord(h[6]) = "change-password"
      /\ h[7].method = "POST" /\ Words(h[7]) = 3 /\ LastWord(h[7]) = "reset-link"
      /\ h[8].method = "POST" /\ Words(h[8]) = 2 /\ LastWord(h[8]) = "validate-reset-code"
      /\ h[9].method = "POST" /\ Words(h[9]) = 3 /\ LastWord(h[9]) = "reset-password"
      /\ h[10].method = "POST" /\ Words(h[10]) = 2
           /\ LastWord(h[10]) = "resend-verification"
      /\ h[11].method = "GET" /\ Words(h[11]) = 4 /\ LastWord(h[11]) = Param
      /\ h[12].method = "POST" /\ Words(h[12]) = 2 /\ LastWord(h[12]) = "accept-invitation"
  BY DEF AuthController, Handler, Words, SecondWord, LastWord
<1>2. DOMAIN h = 1..12
  BY DEF AuthController
<1> HIDE DEF h
<1>3. ASSUME NEW i \in 1..12, NEW j \in 1..12, i < j PROVE Told(h[i], h[j])
  <2>1. CASE i = 1
    BY <1>1, <1>3, <2>1 DEF Told, Param
  <2>2. CASE i = 2
    BY <1>1, <1>3, <2>2 DEF Told, Param
  <2>3. CASE i = 3
    BY <1>1, <1>3, <2>3 DEF Told, Param
  <2>4. CASE i = 4
    BY <1>1, <1>3, <2>4 DEF Told, Param
  <2>5. CASE i = 5
    BY <1>1, <1>3, <2>5 DEF Told, Param
  <2>6. CASE i = 6
    BY <1>1, <1>3, <2>6 DEF Told, Param
  <2>7. CASE i = 7
    BY <1>1, <1>3, <2>7 DEF Told, Param
  <2>8. CASE i = 8
    BY <1>1, <1>3, <2>8 DEF Told, Param
  <2>9. CASE i = 9
    BY <1>1, <1>3, <2>9 DEF Told, Param
  <2>10. CASE i = 10
    BY <1>1, <1>3, <2>10 DEF Told, Param
  <2>11. CASE i = 11
    BY <1>1, <1>3, <2>11 DEF Told, Param
  <2> QED BY <1>3, <2>1, <2>2, <2>3, <2>4, <2>5, <2>6, <2>7, <2>8, <2>9, <2>10, <2>11
<1> QED BY <1>2, <1>3 DEF AllTold, h

LEMMA AuthConforms == AllConform(AuthController, AuthEndpoint)
<1>1. \A name \in Names(AuthController) : AuthEndpoint[name].declares \in {"undeclared",
          "any"}
  BY DEF AuthEndpoint, Open, LoggedIn, Limited, Holding
<1> QED BY <1>1, Conforming DEF AllConform, Names

LEMMA UsersLaid == AllLaid(UsersController, {"users"})
<1>1. Len(UsersController) \in Nat /\ DOMAIN UsersController = 1..Len(UsersController)
  BY DEF UsersController
<1>2. ASSUME NEW i \in DOMAIN UsersController PROVE LET path == UsersController[i].path IN
        /\ Len(path) \in Nat \ {0} /\ DOMAIN path = 1..Len(path)
        /\ path[1] = "users"
  <2>0. i \in 1..7
    BY DEF UsersController
  <2>1. CASE i = 1
    BY <2>1 DEF UsersController, Handler
  <2>2. CASE i = 2
    BY <2>2 DEF UsersController, Handler
  <2>3. CASE i = 3
    BY <2>3 DEF UsersController, Handler
  <2>4. CASE i = 4
    BY <2>4 DEF UsersController, Handler
  <2>5. CASE i = 5
    BY <2>5 DEF UsersController, Handler
  <2>6. CASE i = 6
    BY <2>6 DEF UsersController, Handler
  <2>7. CASE i = 7
    BY <2>7 DEF UsersController, Handler
  <2> QED BY <2>0, <2>1, <2>2, <2>3, <2>4, <2>5, <2>6, <2>7
<1>3. \A i \in DOMAIN UsersController : UsersController[i].calls \subseteq Accesses
  BY SMTT(30) DEF UsersController, Handler, Accesses
<1> QED BY <1>1, <1>2, <1>3 DEF AllLaid, Laid, Class, Param

LEMMA UsersTold == AllTold(UsersController)
<1> DEFINE h == UsersController
<1>1. /\ h[1].method = "GET" /\ Words(h[1]) = 1 /\ LastWord(h[1]) = "users"
      /\ h[2].method = "GET" /\ Words(h[2]) = 2 /\ LastWord(h[2]) = "profile"
      /\ h[3].method = "GET" /\ Words(h[3]) = 2 /\ LastWord(h[3]) = Param
      /\ h[4].method = "PUT" /\ Words(h[4]) = 3 /\ LastWord(h[4]) = Param
      /\ h[5].method = "POST" /\ Words(h[5]) = 2 /\ LastWord(h[5]) = "invite"
      /\ h[6].method = "PATCH" /\ Words(h[6]) = 3 /\ LastWord(h[6]) = "status"
      /\ h[7].method = "DELETE" /\ Words(h[7]) = 2 /\ LastWord(h[7]) = Param
  <2>1. h[1].method = "GET" /\ Words(h[1]) = 1 /\ LastWord(h[1]) = "users"
    BY DEF UsersController, Handler, Words, SecondWord, LastWord
  <2>2. h[2].method = "GET" /\ Words(h[2]) = 2 /\ LastWord(h[2]) = "profile"
    BY DEF UsersController, Handler, Words, SecondWord, LastWord
  <2>3. h[3].method = "GET" /\ Words(h[3]) = 2 /\ LastWord(h[3]) = Param
    BY DEF UsersController, Handler, Words, SecondWord, LastWord
  <2>4. h[4].method = "PUT" /\ Words(h[4]) = 3 /\ LastWord(h[4]) = Param
    BY DEF UsersController, Handler, Words, SecondWord, LastWord
  <2>5. h[5].method = "POST" /\ Words(h[5]) = 2 /\ LastWord(h[5]) = "invite"
    BY DEF UsersController, Handler, Words, SecondWord, LastWord
  <2>6. h[6].method = "PATCH" /\ Words(h[6]) = 3 /\ LastWord(h[6]) = "status"
    BY DEF UsersController, Handler, Words, SecondWord, LastWord
  <2>7. h[7].method = "DELETE" /\ Words(h[7]) = 2 /\ LastWord(h[7]) = Param
    BY DEF UsersController, Handler, Words, SecondWord, LastWord
  <2> QED BY <2>1, <2>2, <2>3, <2>4, <2>5, <2>6, <2>7
<1>2. DOMAIN h = 1..7
  BY DEF UsersController
<1> HIDE DEF h
<1>3. ASSUME NEW i \in 1..7, NEW j \in 1..7, i < j PROVE Told(h[i], h[j])
  <2>1. CASE i = 1
    BY <1>1, <1>3, <2>1 DEF Told, Param
  <2>2. CASE i = 2
    BY <1>1, <1>3, <2>2 DEF Told, Param
  <2>3. CASE i = 3
    BY <1>1, <1>3, <2>3 DEF Told, Param
  <2>4. CASE i = 4
    BY <1>1, <1>3, <2>4 DEF Told, Param
  <2>5. CASE i = 5
    BY <1>1, <1>3, <2>5 DEF Told, Param
  <2>6. CASE i = 6
    BY <1>1, <1>3, <2>6 DEF Told, Param
  <2> QED BY <1>3, <2>1, <2>2, <2>3, <2>4, <2>5, <2>6
<1> QED BY <1>2, <1>3 DEF AllTold, h

LEMMA UsersConforms == AllConform(UsersController, UsersEndpoint)
<1>1. \A name \in Names(UsersController) :
        /\ name = "list" => UsersEndpoint[name].declares = "page"
        /\ name \in {"profileSelf", "findOne", "updateProfile", "invite", "updateStatus",
             "deactivate"} => UsersEndpoint[name].declares = "row"
  BY DEF UsersEndpoint, Open, LoggedIn, Limited, Holding
<1>2. \A i \in DOMAIN UsersController : LET h == UsersController[i] IN
        /\ h.name \in {"list", "profileSelf", "findOne", "updateProfile", "invite",
             "updateStatus", "deactivate"}
        /\ h.name = "list" => h.returns = "page"
        /\ h.name \in {"profileSelf", "findOne", "updateProfile", "invite", "updateStatus",
             "deactivate"} => h.returns = "row"
  BY SMTT(30) DEF UsersController, Handler
<1> QED BY <1>1, <1>2, Conforming DEF AllConform, Names

LEMMA UserAddressesLaid == AllLaid(UserAddressesController, {"account"})
<1>1. Len(UserAddressesController) \in Nat
          /\ DOMAIN UserAddressesController = 1..Len(UserAddressesController)
  BY UserAddressesFlat
<1>2. ASSUME NEW i \in DOMAIN UserAddressesController PROVE LET path == UserAddressesController[i].path IN
        /\ Len(path) \in Nat \ {0} /\ DOMAIN path = 1..Len(path)
        /\ path[1] = "account"
  <2>0. i \in 1..6
    BY UserAddressesFlat
  <2>1. CASE i = 1
    BY <2>1, UserAddressesFlat DEF Handler
  <2>2. CASE i = 2
    BY <2>2, UserAddressesFlat DEF Handler
  <2>3. CASE i = 3
    BY <2>3, UserAddressesFlat DEF Handler
  <2>4. CASE i = 4
    BY <2>4, UserAddressesFlat DEF Handler
  <2>5. CASE i = 5
    BY <2>5, UserAddressesFlat DEF Handler
  <2>6. CASE i = 6
    BY <2>6, UserAddressesFlat DEF Handler
  <2> QED BY <2>0, <2>1, <2>2, <2>3, <2>4, <2>5, <2>6
<1>3. \A i \in DOMAIN UserAddressesController : UserAddressesController[i].calls \subseteq Accesses
  BY UserAddressesFlat DEF Handler, Accesses
<1> QED BY <1>1, <1>2, <1>3 DEF AllLaid, Laid, Class, Param

LEMMA UserAddressesTold == AllTold(UserAddressesController)
<1> DEFINE h == UserAddressesController
<1>1. /\ h[1].method = "GET" /\ Words(h[1]) = 2 /\ LastWord(h[1]) = "addresses"
      /\ h[2].method = "GET" /\ Words(h[2]) = 3 /\ LastWord(h[2]) = Param
      /\ h[3].method = "POST" /\ Words(h[3]) = 2 /\ LastWord(h[3]) = "addresses"
      /\ h[4].method = "PUT" /\ Words(h[4]) = 3 /\ LastWord(h[4]) = Param
      /\ h[5].method = "PATCH" /\ Words(h[5]) = 4 /\ LastWord(h[5]) = "default"
      /\ h[6].method = "DELETE" /\ Words(h[6]) = 3 /\ LastWord(h[6]) = Param
  BY UserAddressesFlat DEF Handler, Words, SecondWord, LastWord
<1>2. DOMAIN h = 1..6
  BY UserAddressesFlat DEF UserAddressesController
<1> HIDE DEF h
<1>3. ASSUME NEW i \in 1..6, NEW j \in 1..6, i < j PROVE Told(h[i], h[j])
  <2>1. CASE i = 1
    BY <1>1, <1>3, <2>1 DEF Told, Param
  <2>2. CASE i = 2
    BY <1>1, <1>3, <2>2 DEF Told, Param
  <2>3. CASE i = 3
    BY <1>1, <1>3, <2>3 DEF Told, Param
  <2>4. CASE i = 4
    BY <1>1, <1>3, <2>4 DEF Told, Param
  <2>5. CASE i = 5
    BY <1>1, <1>3, <2>5 DEF Told, Param
  <2> QED BY <1>3, <2>1, <2>2, <2>3, <2>4, <2>5
<1> QED BY <1>2, <1>3 DEF AllTold, h

LEMMA UserAddressesConforms == AllConform(UserAddressesController, UserAddressesEndpoint)
<1>1. \A name \in Names(UserAddressesController) :
        /\ name = "list" => UserAddressesEndpoint[name].declares = "page"
        /\ name \in {"findOne", "create", "update", "setDefault", "remove"}
             => UserAddressesEndpoint[name].declares = "row"
  BY DEF UserAddressesEndpoint, Open, LoggedIn, Limited, Holding
<1>2. \A i \in DOMAIN UserAddressesController : LET h == UserAddressesController[i] IN
        /\ h.name \in {"list", "findOne", "create", "update", "setDefault", "remove"}
        /\ h.name = "list" => h.returns = "page"
        /\ h.name \in {"findOne", "create", "update", "setDefault", "remove"}
             => h.returns = "row"
  BY UserAddressesFlat, SMTT(30) DEF Handler
<1> QED BY <1>1, <1>2, Conforming DEF AllConform, Names

LEMMA TicketLaid == AllLaid(TicketController, {"ticket"})
<1>1. Len(TicketController) \in Nat /\ DOMAIN TicketController = 1..Len(TicketController)
  BY DEF TicketController
<1>2. \A i \in DOMAIN TicketController : LET path == TicketController[i].path IN
        /\ Len(path) \in Nat \ {0} /\ DOMAIN path = 1..Len(path)
        /\ path[1] = "ticket"
  BY SMTT(60) DEF TicketController, Handler, Cached
<1>3. \A i \in DOMAIN TicketController : TicketController[i].calls \subseteq Accesses
  BY SMTT(60) DEF TicketController, Handler, Cached, Accesses
<1> QED BY <1>1, <1>2, <1>3 DEF AllLaid, Laid, Class, Param

LEMMA TicketTold == AllTold(TicketController)
<1> DEFINE h == TicketController
<1>1. /\ h[1].method = "POST" /\ Words(h[1]) = 2 /\ LastWord(h[1]) = "create"
      /\ h[2].method = "GET" /\ Words(h[2]) = 2 /\ LastWord(h[2]) = "list"
      /\ h[3].method = "GET" /\ Words(h[3]) = 2 /\ LastWord(h[3]) = "my-tickets"
      /\ h[4].method = "GET" /\ Words(h[4]) = 2 /\ LastWord(h[4]) = Param
      /\ h[5].method = "POST" /\ Words(h[5]) = 3 /\ LastWord(h[5]) = "message"
      /\ h[6].method = "PUT" /\ Words(h[6]) = 3 /\ LastWord(h[6]) = "status"
      /\ h[7].method = "GET" /\ Words(h[7]) = 3 /\ LastWord(h[7]) = "messages"
      /\ h[8].method = "GET" /\ Words(h[8]) = 3 /\ LastWord(h[8]) = "download-url"
      /\ h[9].method = "GET" /\ Words(h[9]) = 3 /\ LastWord(h[9]) = "thumbnail"
  <2>1. h[1].method = "POST" /\ Words(h[1]) = 2 /\ LastWord(h[1]) = "create"
    BY DEF TicketController, Handler, Cached, Words, SecondWord, LastWord
  <2>2. h[2].method = "GET" /\ Words(h[2]) = 2 /\ LastWord(h[2]) = "list"
    BY DEF TicketController, Handler, Cached, Words, SecondWord, LastWord
  <2>3. h[3].method = "GET" /\ Words(h[3]) = 2 /\ LastWord(h[3]) = "my-tickets"
    BY DEF TicketController, Handler, Cached, Words, SecondWord, LastWord
  <2>4. h[4].method = "GET" /\ Words(h[4]) = 2 /\ LastWord(h[4]) = Param
    BY DEF TicketController, Handler, Cached, Words, SecondWord, LastWord
  <2>5. h[5].method = "POST" /\ Words(h[5]) = 3 /\ LastWord(h[5]) = "message"
    BY DEF TicketController, Handler, Cached, Words, SecondWord, LastWord
  <2>6. h[6].method = "PUT" /\ Words(h[6]) = 3 /\ LastWord(h[6]) = "status"
    BY DEF TicketController, Handler, Cached, Words, SecondWord, LastWord
  <2>7. h[7].method = "GET" /\ Words(h[7]) = 3 /\ LastWord(h[7]) = "messages"
    BY DEF TicketController, Handler, Cached, Words, SecondWord, LastWord
  <2>8. h[8].method = "GET" /\ Words(h[8]) = 3 /\ LastWord(h[8]) = "download-url"
    BY DEF TicketController, Handler, Cached, Words, SecondWord, LastWord
  <2>9. h[9].method = "GET" /\ Words(h[9]) = 3 /\ LastWord(h[9]) = "thumbnail"
    BY DEF TicketController, Handler, Cached, Words, SecondWord, LastWord
  <2> QED BY <2>1, <2>2, <2>3, <2>4, <2>5, <2>6, <2>7, <2>8, <2>9
<1>2. DOMAIN h = 1..9
  BY DEF TicketController
<1> HIDE DEF h
<1>3. ASSUME NEW i \in 1..9, NEW j \in 1..9, i < j PROVE Told(h[i], h[j])
  <2>1. CASE i = 1
    BY <1>1, <1>3, <2>1 DEF Told, Param
  <2>2. CASE i = 2
    BY <1>1, <1>3, <2>2 DEF Told, Param
  <2>3. CASE i = 3
    BY <1>1, <1>3, <2>3 DEF Told, Param
  <2>4. CASE i = 4
    BY <1>1, <1>3, <2>4 DEF Told, Param
  <2>5. CASE i = 5
    BY <1>1, <1>3, <2>5 DEF Told, Param
  <2>6. CASE i = 6
    BY <1>1, <1>3, <2>6 DEF Told, Param
  <2>7. CASE i = 7
    BY <1>1, <1>3, <2>7 DEF Told, Param
  <2>8. CASE i = 8
    BY <1>1, <1>3, <2>8 DEF Told, Param
  <2> QED BY <1>3, <2>1, <2>2, <2>3, <2>4, <2>5, <2>6, <2>7, <2>8
<1> QED BY <1>2, <1>3 DEF AllTold, h

LEMMA TicketConforms == AllConform(TicketController, TicketEndpoint)
<1>1. \A name \in Names(TicketController) :
        /\ name \in {"create", "findOne", "updateTicketStatus", "getTicketMessages",
             "getMessageAttachmentDownloadUrl"} => TicketEndpoint[name].declares = "row"
        /\ name \in {"list", "my-tickets"} => TicketEndpoint[name].declares = "page"
        /\ name = "addMessage" => TicketEndpoint[name].declares = "boolean"
        /\ name = "streamThumbnail" => TicketEndpoint[name].declares = "undeclared"
  BY DEF TicketEndpoint, Open, LoggedIn, Limited, Holding
<1>2. \A i \in DOMAIN TicketController : LET h == TicketController[i] IN
        /\ h.name \in {"create", "list", "my-tickets", "findOne", "addMessage",
             "updateTicketStatus", "getTicketMessages", "getMessageAttachmentDownloadUrl",
                 "streamThumbnail"}
        /\ h.name \in {"create", "findOne", "updateTicketStatus", "getTicketMessages",
             "getMessageAttachmentDownloadUrl"} => h.returns = "row"
        /\ h.name \in {"list", "my-tickets"} => h.returns = "page"
        /\ h.name = "addMessage" => h.returns = "boolean"
        /\ h.name = "streamThumbnail" => h.returns = "file"
  BY SMTT(60) DEF TicketController, Handler, Cached
<1> QED BY <1>1, <1>2, Conforming DEF AllConform, Names

LEMMA RevisionLaid == AllLaid(RevisionController, {"revisions"})
<1>1. Len(RevisionController) \in Nat
          /\ DOMAIN RevisionController = 1..Len(RevisionController)
  BY RevisionFlat
<1>2. ASSUME NEW i \in DOMAIN RevisionController
      PROVE  LET path == RevisionController[i].path IN
        /\ Len(path) \in Nat \ {0} /\ DOMAIN path = 1..Len(path)
        /\ path[1] = "products"
  <2>0. i \in 1..8
    BY RevisionFlat DEF RevisionController
  <2>1. CASE i = 1
    BY RevisionFlat, <2>1 DEF Handler, Throwing
  <2>2. CASE i = 2
    BY RevisionFlat, <2>2 DEF Handler, Throwing
  <2>3. CASE i = 3
    BY RevisionFlat, <2>3 DEF Handler, Throwing
  <2>4. CASE i = 4
    BY RevisionFlat, <2>4 DEF Handler, Throwing
  <2>5. CASE i = 5
    BY RevisionFlat, <2>5 DEF Handler, Throwing
  <2>6. CASE i = 6
    BY RevisionFlat, <2>6 DEF Handler, Throwing
  <2>7. CASE i = 7
    BY RevisionFlat, <2>7 DEF Handler, Throwing
  <2>8. CASE i = 8
    BY RevisionFlat, <2>8 DEF Handler, Throwing
  <2> QED BY <2>0, <2>1, <2>2, <2>3, <2>4, <2>5, <2>6, <2>7, <2>8
<1>3. ASSUME NEW i \in DOMAIN RevisionController
      PROVE  LET path == RevisionController[i].path IN Len(path) \in {3, 4, 5}
          /\ (Len(path) = 5 => path[5] # "materials")
  <2>0. i \in 1..8
    BY RevisionFlat DEF RevisionController
  <2>1. CASE i = 1
    BY RevisionFlat, <2>1 DEF Handler, Throwing
  <2>2. CASE i = 2
    BY RevisionFlat, <2>2 DEF Handler, Throwing
  <2>3. CASE i = 3
    BY RevisionFlat, <2>3 DEF Handler, Throwing
  <2>4. CASE i = 4
    BY RevisionFlat, <2>4 DEF Handler, Throwing
  <2>5. CASE i = 5
    BY RevisionFlat, <2>5 DEF Handler, Throwing
  <2>6. CASE i = 6
    BY RevisionFlat, <2>6 DEF Handler, Throwing
  <2>7. CASE i = 7
    BY RevisionFlat, <2>7 DEF Handler, Throwing
  <2>8. CASE i = 8
    BY RevisionFlat, <2>8 DEF Handler, Throwing
  <2> QED BY <2>0, <2>1, <2>2, <2>3, <2>4, <2>5, <2>6, <2>7, <2>8
<1>4. ASSUME NEW i \in DOMAIN RevisionController
      PROVE  Class(RevisionController[i].path) \in {"revisions"}
  <2> DEFINE path == RevisionController[i].path
  <2>1. path[1] = "products" /\ Len(path) \in Nat /\ Len(path) \in {3, 4, 5}
      /\ (Len(path) = 5 => path[5] # "materials")
    BY <1>3, <1>2
  <2> QED BY <2>1, Classes
<1>5. ASSUME NEW i \in DOMAIN RevisionController
      PROVE  LET path == RevisionController[i].path IN
        Len(path) \in {5, 6} => path[5] # Param
  <2>0. i \in 1..8
    BY RevisionFlat DEF RevisionController
  <2>1. CASE i = 1
    BY RevisionFlat, <2>1 DEF Handler, Throwing, Param
  <2>2. CASE i = 2
    BY RevisionFlat, <2>2 DEF Handler, Throwing, Param
  <2>3. CASE i = 3
    BY RevisionFlat, <2>3 DEF Handler, Throwing, Param
  <2>4. CASE i = 4
    BY RevisionFlat, <2>4 DEF Handler, Throwing, Param
  <2>5. CASE i = 5
    BY RevisionFlat, <2>5 DEF Handler, Throwing, Param
  <2>6. CASE i = 6
    BY RevisionFlat, <2>6 DEF Handler, Throwing, Param
  <2>7. CASE i = 7
    BY RevisionFlat, <2>7 DEF Handler, Throwing, Param
  <2>8. CASE i = 8
    BY RevisionFlat, <2>8 DEF Handler, Throwing, Param
  <2> QED BY <2>0, <2>1, <2>2, <2>3, <2>4, <2>5, <2>6, <2>7, <2>8
<1>6. ASSUME NEW i \in DOMAIN RevisionController
      PROVE  RevisionController[i].calls \subseteq Accesses
  <2>0. i \in 1..8
    BY RevisionFlat DEF RevisionController
  <2>1. CASE i = 1
    BY RevisionFlat, <2>1 DEF Handler, Throwing, Accesses, BomDraft, BomUpdate
  <2>2. CASE i = 2
    BY RevisionFlat, <2>2 DEF Handler, Throwing, Accesses, BomDraft, BomUpdate
  <2>3. CASE i = 3
    BY RevisionFlat, <2>3 DEF Handler, Throwing, Accesses, BomDraft, BomUpdate
  <2>4. CASE i = 4
    BY RevisionFlat, <2>4 DEF Handler, Throwing, Accesses, BomDraft, BomUpdate
  <2>5. CASE i = 5
    BY RevisionFlat, <2>5 DEF Handler, Throwing, Accesses, BomDraft, BomUpdate
  <2>6. CASE i = 6
    BY RevisionFlat, <2>6 DEF Handler, Throwing, Accesses, BomDraft, BomUpdate
  <2>7. CASE i = 7
    BY RevisionFlat, <2>7 DEF Handler, Throwing, Accesses, BomDraft, BomUpdate
  <2>8. CASE i = 8
    BY RevisionFlat, <2>8 DEF Handler, Throwing, Accesses, BomDraft, BomUpdate
  <2> QED BY <2>0, <2>1, <2>2, <2>3, <2>4, <2>5, <2>6, <2>7, <2>8
<1> QED BY <1>1, <1>2, <1>5, <1>6, <1>4 DEF AllLaid, Laid, Param

LEMMA RevisionTold == AllTold(RevisionController)
<1> DEFINE h == RevisionController
<1>1. /\ h[1].method = "GET" /\ Words(h[1]) = 3 /\ LastWord(h[1]) = "revisions"
      /\ h[2].method = "POST" /\ Words(h[2]) = 3 /\ LastWord(h[2]) = "revisions"
      /\ h[3].method = "POST" /\ Words(h[3]) = 5 /\ LastWord(h[3]) = "alternative"
      /\ h[4].method = "PUT" /\ Words(h[4]) = 4 /\ LastWord(h[4]) = Param
      /\ h[5].method = "DELETE" /\ Words(h[5]) = 4 /\ LastWord(h[5]) = Param
      /\ h[6].method = "POST" /\ Words(h[6]) = 5 /\ LastWord(h[6]) = "submit"
      /\ h[7].method = "POST" /\ Words(h[7]) = 5 /\ LastWord(h[7]) = "approve"
      /\ h[8].method = "POST" /\ Words(h[8]) = 5 /\ LastWord(h[8]) = "activate"
  BY RevisionFlat DEF Handler, Throwing, Words, SecondWord, LastWord
<1>2. DOMAIN h = 1..8
  BY RevisionFlat DEF RevisionController
<1> HIDE DEF h
<1>3. ASSUME NEW i \in 1..8, NEW j \in 1..8, i < j PROVE Told(h[i], h[j])
  <2>1. CASE i = 1
    BY <1>1, <1>3, <2>1 DEF Told, Param
  <2>2. CASE i = 2
    BY <1>1, <1>3, <2>2 DEF Told, Param
  <2>3. CASE i = 3
    BY <1>1, <1>3, <2>3 DEF Told, Param
  <2>4. CASE i = 4
    BY <1>1, <1>3, <2>4 DEF Told, Param
  <2>5. CASE i = 5
    BY <1>1, <1>3, <2>5 DEF Told, Param
  <2>6. CASE i = 6
    BY <1>1, <1>3, <2>6 DEF Told, Param
  <2>7. CASE i = 7
    BY <1>1, <1>3, <2>7 DEF Told, Param
  <2> QED BY <1>3, <2>1, <2>2, <2>3, <2>4, <2>5, <2>6, <2>7
<1> QED BY <1>2, <1>3 DEF AllTold, h

LEMMA RevisionConforms == AllConform(RevisionController, BomEndpoint)
<1>1. \A name \in Names(RevisionController) :
        /\ name = "getRevisions" => BomEndpoint[name].declares = "page"
        /\ name \in {"createRevision", "createAlternative", "updateRevision"}
             => BomEndpoint[name].declares = "row"
  BY DEF BomEndpoint, Open, LoggedIn, Limited, Holding
<1>2. ASSUME NEW i \in DOMAIN RevisionController PROVE LET h == RevisionController[i] IN
        /\ h.name \in {"getRevisions", "createRevision", "createAlternative",
             "updateRevision", "deleteRevision", "submitRevision", "approveRevision",
                 "activateRevision"}
        /\ h.name = "getRevisions" => h.returns = "page"
        /\ h.name \in {"createRevision", "createAlternative"} => h.returns = "row"
        /\ h.name \in {"updateRevision", "deleteRevision", "submitRevision",
             "approveRevision", "activateRevision"} => h.returns = "nothing"
  <2>0. i \in 1..8
    BY RevisionFlat DEF RevisionController
  <2>1. CASE i = 1
    BY RevisionFlat, <2>1 DEF Handler, Throwing
  <2>2. CASE i = 2
    BY RevisionFlat, <2>2 DEF Handler, Throwing
  <2>3. CASE i = 3
    BY RevisionFlat, <2>3 DEF Handler, Throwing
  <2>4. CASE i = 4
    BY RevisionFlat, <2>4 DEF Handler, Throwing
  <2>5. CASE i = 5
    BY RevisionFlat, <2>5 DEF Handler, Throwing
  <2>6. CASE i = 6
    BY RevisionFlat, <2>6 DEF Handler, Throwing
  <2>7. CASE i = 7
    BY RevisionFlat, <2>7 DEF Handler, Throwing
  <2>8. CASE i = 8
    BY RevisionFlat, <2>8 DEF Handler, Throwing
  <2> QED BY <2>0, <2>1, <2>2, <2>3, <2>4, <2>5, <2>6, <2>7, <2>8
<1> QED BY <1>1, <1>2, Conforming DEF AllConform, Names

LEMMA MaterialLaid == AllLaid(MaterialController, {"materials"})
<1>1. Len(MaterialController) \in Nat
          /\ DOMAIN MaterialController = 1..Len(MaterialController)
  BY MaterialFlat
<1>2. \A i \in DOMAIN MaterialController : LET path == MaterialController[i].path IN
        /\ Len(path) \in Nat \ {0} /\ DOMAIN path = 1..Len(path)
        /\ path[1] = "products"
  BY MaterialFlat DEF Handler, Throwing
<1>3. ASSUME NEW i \in DOMAIN MaterialController
      PROVE  LET path == MaterialController[i].path IN Len(path) \in {5, 6}
          /\ path[5] = "materials"
  <2>0. i \in 1..5
    BY MaterialFlat DEF MaterialController
  <2>1. CASE i = 1
    BY MaterialFlat, <2>1 DEF Handler, Throwing
  <2>2. CASE i = 2
    BY MaterialFlat, <2>2 DEF Handler, Throwing
  <2>3. CASE i = 3
    BY MaterialFlat, <2>3 DEF Handler, Throwing
  <2>4. CASE i = 4
    BY MaterialFlat, <2>4 DEF Handler, Throwing
  <2>5. CASE i = 5
    BY MaterialFlat, <2>5 DEF Handler, Throwing
  <2> QED BY <2>0, <2>1, <2>2, <2>3, <2>4, <2>5
<1>4. ASSUME NEW i \in DOMAIN MaterialController
      PROVE  Class(MaterialController[i].path) \in {"materials"}
  <2> DEFINE path == MaterialController[i].path
  <2>1. path[1] = "products" /\ Len(path) \in Nat /\ Len(path) \in {5, 6}
      /\ path[5] = "materials"
    BY <1>3, <1>2
  <2> QED BY <2>1, Classes
<1>5. \A i \in DOMAIN MaterialController : LET path == MaterialController[i].path IN
        Len(path) \in {5, 6} => path[5] # Param
  BY MaterialFlat DEF Handler, Throwing, Param
<1>6. ASSUME NEW i \in DOMAIN MaterialController
      PROVE  MaterialController[i].calls \subseteq Accesses
  <2>0. i \in 1..5
    BY MaterialFlat DEF MaterialController
  <2>1. CASE i = 1
    BY MaterialFlat, <2>1 DEF Handler, Throwing, Accesses, BomDraft, BomUpdate
  <2>2. CASE i = 2
    BY MaterialFlat, <2>2 DEF Handler, Throwing, Accesses, BomDraft, BomUpdate
  <2>3. CASE i = 3
    BY MaterialFlat, <2>3 DEF Handler, Throwing, Accesses, BomDraft, BomUpdate
  <2>4. CASE i = 4
    BY MaterialFlat, <2>4 DEF Handler, Throwing, Accesses, BomDraft, BomUpdate
  <2>5. CASE i = 5
    BY MaterialFlat, <2>5 DEF Handler, Throwing, Accesses, BomDraft, BomUpdate
  <2> QED BY <2>0, <2>1, <2>2, <2>3, <2>4, <2>5
<1> QED BY <1>1, <1>2, <1>5, <1>6, <1>4 DEF AllLaid, Laid, Param

LEMMA MaterialTold == AllTold(MaterialController)
<1> DEFINE h == MaterialController
<1>1. /\ h[1].method = "GET" /\ Words(h[1]) = 5 /\ LastWord(h[1]) = "materials"
      /\ h[2].method = "POST" /\ Words(h[2]) = 5 /\ LastWord(h[2]) = "materials"
      /\ h[3].method = "PUT" /\ Words(h[3]) = 6 /\ LastWord(h[3]) = Param
      /\ h[4].method = "DELETE" /\ Words(h[4]) = 6 /\ LastWord(h[4]) = Param
      /\ h[5].method = "GET" /\ Words(h[5]) = 6 /\ LastWord(h[5]) = "search-parts"
  BY MaterialFlat DEF Handler, Throwing, Words, SecondWord, LastWord
<1>2. DOMAIN h = 1..5
  BY MaterialFlat DEF MaterialController
<1> HIDE DEF h
<1>3. ASSUME NEW i \in 1..5, NEW j \in 1..5, i < j PROVE Told(h[i], h[j])
  <2>1. CASE i = 1
    BY <1>1, <1>3, <2>1 DEF Told, Param
  <2>2. CASE i = 2
    BY <1>1, <1>3, <2>2 DEF Told, Param
  <2>3. CASE i = 3
    BY <1>1, <1>3, <2>3 DEF Told, Param
  <2>4. CASE i = 4
    BY <1>1, <1>3, <2>4 DEF Told, Param
  <2> QED BY <1>3, <2>1, <2>2, <2>3, <2>4
<1> QED BY <1>2, <1>3 DEF AllTold, h

LEMMA MaterialConforms == AllConform(MaterialController, BomEndpoint)
<1>1. \A name \in Names(MaterialController) :
        /\ name = "getMaterials" => BomEndpoint[name].declares = "page"
        /\ name = "searchParts" => BomEndpoint[name].declares = "undeclared"
  BY DEF BomEndpoint, Open, LoggedIn, Limited, Holding
<1>2. \A i \in DOMAIN MaterialController : LET h == MaterialController[i] IN
        /\ h.name \in {"getMaterials", "addMaterial", "updateMaterial", "deleteMaterial",
             "searchParts"}
        /\ h.name = "getMaterials" => h.returns = "page"
        /\ h.name \in {"addMaterial", "updateMaterial", "deleteMaterial"}
             => h.returns = "nothing"
        /\ h.name = "searchParts" => h.returns = "list"
  BY MaterialFlat DEF Handler, Throwing
<1> QED BY <1>1, <1>2, Conforming DEF AllConform, Names

LEMMA WorkOrderLaid == AllLaid(WorkOrderController, {"work-orders"})
<1>1. Len(WorkOrderController) \in Nat
          /\ DOMAIN WorkOrderController = 1..Len(WorkOrderController)
  BY DEF WorkOrderController
<1>2. \A i \in DOMAIN WorkOrderController : LET path == WorkOrderController[i].path IN
        /\ Len(path) \in Nat \ {0} /\ DOMAIN path = 1..Len(path)
        /\ path[1] = "work-orders"
  BY DEF WorkOrderController, Handler, Throwing
<1>3. \A i \in DOMAIN WorkOrderController : WorkOrderController[i].calls \subseteq Accesses
  BY DEF WorkOrderController, Handler, Throwing, Accesses
<1> QED BY <1>1, <1>2, <1>3 DEF AllLaid, Laid, Class, Param

LEMMA WorkOrderTold == AllTold(WorkOrderController)
BY DEF WorkOrderController, AllTold, Handler, Throwing, Words, SecondWord, LastWord, Told, Param

LEMMA WorkOrderConforms == AllConform(WorkOrderController, WorkOrderEndpoint)
<1>1. \A name \in Names(WorkOrderController) :
        /\ name = "createWorkOrder" => WorkOrderEndpoint[name].declares = "row"
        /\ name = "listWorkOrders" => WorkOrderEndpoint[name].declares = "page"
  BY DEF WorkOrderEndpoint, Open, LoggedIn, Limited, Holding
<1>2. \A i \in DOMAIN WorkOrderController : LET h == WorkOrderController[i] IN
        /\ h.name \in {"createWorkOrder", "releaseWorkOrder", "listWorkOrders"}
        /\ h.name = "createWorkOrder" => h.returns = "row"
        /\ h.name = "releaseWorkOrder" => h.returns = "nothing"
        /\ h.name = "listWorkOrders" => h.returns = "page"
  BY DEF WorkOrderController, Handler, Throwing
<1> QED BY <1>1, <1>2, Conforming DEF AllConform, Names

LEMMA RolesLaid == AllLaid(RolesController, {"roles"})
<1>1. Len(RolesController) \in Nat /\ DOMAIN RolesController = 1..Len(RolesController)
  BY DEF RolesController
<1>2. \A i \in DOMAIN RolesController : LET path == RolesController[i].path IN
        /\ Len(path) \in Nat \ {0} /\ DOMAIN path = 1..Len(path)
        /\ path[1] = "roles"
  BY DEF RolesController, Handler
<1>3. \A i \in DOMAIN RolesController : RolesController[i].calls \subseteq Accesses
  BY DEF RolesController, Handler, Accesses
<1> QED BY <1>1, <1>2, <1>3 DEF AllLaid, Laid, Class, Param

LEMMA RolesTold == AllTold(RolesController)
<1> DEFINE h == RolesController
<1>1. /\ h[1].method = "POST" /\ Words(h[1]) = 2 /\ LastWord(h[1]) = "create"
      /\ h[2].method = "POST" /\ Words(h[2]) = 3 /\ LastWord(h[2]) = "duplicate"
           /\ SecondWord(h[2]) = Param
      /\ h[3].method = "GET" /\ Words(h[3]) = 2 /\ LastWord(h[3]) = "lookup"
      /\ h[4].method = "GET" /\ Words(h[4]) = 2 /\ LastWord(h[4]) = "list"
      /\ h[5].method = "GET" /\ Words(h[5]) = 2 /\ LastWord(h[5]) = Param
      /\ h[6].method = "PUT" /\ Words(h[6]) = 2 /\ LastWord(h[6]) = "assign"
      /\ h[7].method = "PUT" /\ Words(h[7]) = 3 /\ LastWord(h[7]) = Param
           /\ SecondWord(h[7]) = "update-permissions"
      /\ h[8].method = "PUT" /\ Words(h[8]) = 3 /\ LastWord(h[8]) = Param
           /\ SecondWord(h[8]) = "update-details"
      /\ h[9].method = "DELETE" /\ Words(h[9]) = 2 /\ LastWord(h[9]) = Param
  BY DEF RolesController, Handler, Words, SecondWord, LastWord
<1>2. DOMAIN h = 1..9
  BY DEF RolesController
<1> HIDE DEF h
<1>3. ASSUME NEW i \in 1..9, NEW j \in 1..9, i < j PROVE Told(h[i], h[j])
  <2>1. CASE i = 1
    BY <1>1, <1>3, <2>1 DEF Told, Param
  <2>2. CASE i = 2
    BY <1>1, <1>3, <2>2 DEF Told, Param
  <2>3. CASE i = 3
    BY <1>1, <1>3, <2>3 DEF Told, Param
  <2>4. CASE i = 4
    BY <1>1, <1>3, <2>4 DEF Told, Param
  <2>5. CASE i = 5
    BY <1>1, <1>3, <2>5 DEF Told, Param
  <2>6. CASE i = 6
    BY <1>1, <1>3, <2>6 DEF Told, Param
  <2>7. CASE i = 7
    BY <1>1, <1>3, <2>7 DEF Told, Param
  <2>8. CASE i = 8
    BY <1>1, <1>3, <2>8 DEF Told, Param
  <2> QED BY <1>3, <2>1, <2>2, <2>3, <2>4, <2>5, <2>6, <2>7, <2>8
<1> QED BY <1>2, <1>3 DEF AllTold, h

LEMMA RolesConforms == AllConform(RolesController, RolesEndpoint)
<1>1. \A name \in Names(RolesController) :
        /\ name \in {"create", "duplicate", "findOne", "assign", "update-details"}
             => RolesEndpoint[name].declares = "row"
        /\ name = "lookup" => RolesEndpoint[name].declares = "any"
        /\ name = "list" => RolesEndpoint[name].declares = "page"
        /\ name \in {"update-permissions", "delete"}
             => RolesEndpoint[name].declares = "boolean"
  BY DEF RolesEndpoint, Open, LoggedIn, Limited, Holding
<1>2. \A i \in DOMAIN RolesController : LET h == RolesController[i] IN
        /\ h.name \in {"create", "duplicate", "lookup", "list", "findOne", "assign",
             "update-permissions", "update-details", "delete"}
        /\ h.name \in {"create", "duplicate", "findOne", "assign", "update-details"}
             => h.returns = "row"
        /\ h.name = "lookup" => h.returns = "list"
        /\ h.name = "list" => h.returns = "page"
        /\ h.name \in {"update-permissions", "delete"} => h.returns = "boolean"
  BY DEF RolesController, Handler
<1> QED BY <1>1, <1>2, Conforming DEF AllConform, Names

LEMMA NotificationLaid == AllLaid(NotificationController, {"notifications"})
<1>1. Len(NotificationController) \in Nat
          /\ DOMAIN NotificationController = 1..Len(NotificationController)
  BY DEF NotificationController
<1>2. ASSUME NEW i \in DOMAIN NotificationController
      PROVE  LET path == NotificationController[i].path IN
        /\ Len(path) \in Nat \ {0} /\ DOMAIN path = 1..Len(path)
        /\ path[1] = "notifications"
  <2>0. i \in 1..4
    BY DEF NotificationController
  <2>1. CASE i = 1
    BY <2>1 DEF NotificationController, Handler
  <2>2. CASE i = 2
    BY <2>2 DEF NotificationController, Handler
  <2>3. CASE i = 3
    BY <2>3 DEF NotificationController, Handler
  <2>4. CASE i = 4
    BY <2>4 DEF NotificationController, Handler
  <2> QED BY <2>0, <2>1, <2>2, <2>3, <2>4
<1>3. \A i \in DOMAIN NotificationController : NotificationController[i].calls \subseteq Accesses
  BY DEF NotificationController, Handler, Accesses
<1> QED BY <1>1, <1>2, <1>3 DEF AllLaid, Laid, Class, Param

LEMMA NotificationTold == AllTold(NotificationController)
<1> DEFINE h == NotificationController
<1>1. /\ h[1].method = "GET" /\ Words(h[1]) = 1 /\ LastWord(h[1]) = "notifications"
      /\ h[2].method = "PATCH" /\ Words(h[2]) = 2 /\ LastWord(h[2]) = "read-all"
      /\ h[3].method = "PATCH" /\ Words(h[3]) = 3 /\ LastWord(h[3]) = "read"
      /\ h[4].method = "DELETE" /\ Words(h[4]) = 2 /\ LastWord(h[4]) = Param
  BY DEF NotificationController, Handler, Words, SecondWord, LastWord
<1>2. DOMAIN h = 1..4
  BY DEF NotificationController
<1> HIDE DEF h
<1>3. ASSUME NEW i \in 1..4, NEW j \in 1..4, i < j PROVE Told(h[i], h[j])
  <2>1. CASE i = 1
    BY <1>1, <1>3, <2>1 DEF Told, Param
  <2>2. CASE i = 2
    BY <1>1, <1>3, <2>2 DEF Told, Param
  <2>3. CASE i = 3
    BY <1>1, <1>3, <2>3 DEF Told, Param
  <2> QED BY <1>3, <2>1, <2>2, <2>3
<1> QED BY <1>2, <1>3 DEF AllTold, h

LEMMA NotificationConforms == AllConform(NotificationController, NotificationsEndpoint)
<1>1. \A name \in Names(NotificationController) :
        /\ name = "list" => NotificationsEndpoint[name].declares = "page"
        /\ name \in {"markAllAsRead", "markAsRead", "delete"}
             => NotificationsEndpoint[name].declares = "row"
  BY DEF NotificationsEndpoint, Open, LoggedIn, Limited, Holding
<1>2. \A i \in DOMAIN NotificationController : LET h == NotificationController[i] IN
        /\ h.name \in {"list", "markAllAsRead", "markAsRead", "delete"}
        /\ h.name = "list" => h.returns = "page"
        /\ h.name = "markAllAsRead" => h.returns = "success"
        /\ h.name \in {"markAsRead", "delete"} => h.returns = "row"
  BY DEF NotificationController, Handler
<1> QED BY <1>1, <1>2, Conforming DEF AllConform, Names

LEMMA OrganizationLaid == AllLaid(OrganizationController, {"organization"})
<1>1. Len(OrganizationController) \in Nat
          /\ DOMAIN OrganizationController = 1..Len(OrganizationController)
  BY DEF OrganizationController
<1>2. \A i \in DOMAIN OrganizationController : LET path == OrganizationController[i].path IN
        /\ Len(path) \in Nat \ {0} /\ DOMAIN path = 1..Len(path)
        /\ path[1] = "organization"
  BY DEF OrganizationController, Handler
<1>3. \A i \in DOMAIN OrganizationController : OrganizationController[i].calls \subseteq Accesses
  BY DEF OrganizationController, Handler, Accesses
<1> QED BY <1>1, <1>2, <1>3 DEF AllLaid, Laid, Class, Param

LEMMA OrganizationTold == AllTold(OrganizationController)
BY DEF OrganizationController, AllTold, Handler, Words, SecondWord, LastWord, Told, Param

LEMMA OrganizationConforms == AllConform(OrganizationController, OrganizationEndpoint)
<1>1. \A name \in Names(OrganizationController) : OrganizationEndpoint[name].declares \in {"undeclared", "any"}
  BY DEF OrganizationEndpoint, Open, LoggedIn, Limited, Holding
<1> QED BY <1>1, Conforming DEF AllConform, Names

LEMMA NodeLaid == AllLaid(NodeController, {"nodes"})
<1>1. Len(NodeController) \in Nat /\ DOMAIN NodeController = 1..Len(NodeController)
  BY NodeFlat
<1>2. ASSUME NEW i \in DOMAIN NodeController PROVE LET path == NodeController[i].path IN
        /\ Len(path) \in Nat \ {0} /\ DOMAIN path = 1..Len(path)
        /\ path[1] = "nodes"
  <2>0. i \in 1..7
    BY NodeFlat DEF NodeController
  <2>1. CASE i = 1
    BY NodeFlat, <2>1 DEF Handler, Throwing
  <2>2. CASE i = 2
    BY NodeFlat, <2>2 DEF Handler, Throwing
  <2>3. CASE i = 3
    BY NodeFlat, <2>3 DEF Handler, Throwing
  <2>4. CASE i = 4
    BY NodeFlat, <2>4 DEF Handler, Throwing
  <2>5. CASE i = 5
    BY NodeFlat, <2>5 DEF Handler, Throwing
  <2>6. CASE i = 6
    BY NodeFlat, <2>6 DEF Handler, Throwing
  <2>7. CASE i = 7
    BY NodeFlat, <2>7 DEF Handler, Throwing
  <2> QED BY <2>0, <2>1, <2>2, <2>3, <2>4, <2>5, <2>6, <2>7
<1>3. ASSUME NEW i \in DOMAIN NodeController
      PROVE  NodeController[i].calls \subseteq Accesses
  <2>0. i \in 1..7
    BY NodeFlat DEF NodeController
  <2>1. CASE i = 1
    BY NodeFlat, <2>1 DEF Handler, Throwing, Accesses
  <2>2. CASE i = 2
    BY NodeFlat, <2>2 DEF Handler, Throwing, Accesses
  <2>3. CASE i = 3
    BY NodeFlat, <2>3 DEF Handler, Throwing, Accesses
  <2>4. CASE i = 4
    BY NodeFlat, <2>4 DEF Handler, Throwing, Accesses
  <2>5. CASE i = 5
    BY NodeFlat, <2>5 DEF Handler, Throwing, Accesses
  <2>6. CASE i = 6
    BY NodeFlat, <2>6 DEF Handler, Throwing, Accesses
  <2>7. CASE i = 7
    BY NodeFlat, <2>7 DEF Handler, Throwing, Accesses
  <2> QED BY <2>0, <2>1, <2>2, <2>3, <2>4, <2>5, <2>6, <2>7
<1> QED BY <1>1, <1>2, <1>3 DEF AllLaid, Laid, Class, Param

LEMMA NodeTold == AllTold(NodeController)
<1> DEFINE h == NodeController
<1>1. /\ h[1].method = "GET" /\ Words(h[1]) = 1 /\ LastWord(h[1]) = "nodes"
      /\ h[2].method = "POST" /\ Words(h[2]) = 1 /\ LastWord(h[2]) = "nodes"
      /\ h[3].method = "GET" /\ Words(h[3]) = 2 /\ LastWord(h[3]) = Param
      /\ h[4].method = "PATCH" /\ Words(h[4]) = 3 /\ LastWord(h[4]) = "status"
      /\ h[5].method = "PUT" /\ Words(h[5]) = 2 /\ LastWord(h[5]) = Param
      /\ h[6].method = "PATCH" /\ Words(h[6]) = 3 /\ LastWord(h[6]) = "move"
      /\ h[7].method = "DELETE" /\ Words(h[7]) = 2 /\ LastWord(h[7]) = Param
  BY NodeFlat DEF Handler, Throwing, Words, SecondWord, LastWord
<1>2. DOMAIN h = 1..7
  BY NodeFlat DEF NodeController
<1> HIDE DEF h
<1>3. ASSUME NEW i \in 1..7, NEW j \in 1..7, i < j PROVE Told(h[i], h[j])
  <2>1. CASE i = 1
    BY <1>1, <1>3, <2>1 DEF Told, Param
  <2>2. CASE i = 2
    BY <1>1, <1>3, <2>2 DEF Told, Param
  <2>3. CASE i = 3
    BY <1>1, <1>3, <2>3 DEF Told, Param
  <2>4. CASE i = 4
    BY <1>1, <1>3, <2>4 DEF Told, Param
  <2>5. CASE i = 5
    BY <1>1, <1>3, <2>5 DEF Told, Param
  <2>6. CASE i = 6
    BY <1>1, <1>3, <2>6 DEF Told, Param
  <2> QED BY <1>3, <2>1, <2>2, <2>3, <2>4, <2>5, <2>6
<1> QED BY <1>2, <1>3 DEF AllTold, h

LEMMA NodeConforms == AllConform(NodeController, NodeEndpoint)
<1>1. \A name \in Names(NodeController) : NodeEndpoint[name].declares \in {"undeclared",
          "any"}
  BY DEF NodeEndpoint, Open, LoggedIn, Limited, Holding
<1> QED BY <1>1, Conforming DEF AllConform, Names

LEMMA ProductLaid == AllLaid(ProductController, {"product"})
<1>1. Len(ProductController) \in Nat /\ DOMAIN ProductController = 1..Len(ProductController)
  BY DEF ProductController
<1>2. ASSUME NEW i \in DOMAIN ProductController
      PROVE  LET path == ProductController[i].path IN
        /\ Len(path) \in Nat \ {0} /\ DOMAIN path = 1..Len(path)
        /\ path[1] = "products"
  <2>0. i \in 1..5
    BY DEF ProductController
  <2>1. CASE i = 1
    BY <2>1 DEF ProductController, Handler, Throwing
  <2>2. CASE i = 2
    BY <2>2 DEF ProductController, Handler, Throwing
  <2>3. CASE i = 3
    BY <2>3 DEF ProductController, Handler, Throwing
  <2>4. CASE i = 4
    BY <2>4 DEF ProductController, Handler, Throwing
  <2>5. CASE i = 5
    BY <2>5 DEF ProductController, Handler, Throwing
  <2> QED BY <2>0, <2>1, <2>2, <2>3, <2>4, <2>5
<1>3. ASSUME NEW i \in DOMAIN ProductController
      PROVE  LET path == ProductController[i].path IN Len(path) \in {1, 2}
  <2>0. i \in 1..5
    BY DEF ProductController
  <2>1. CASE i = 1
    BY <2>1 DEF ProductController, Handler, Throwing
  <2>2. CASE i = 2
    BY <2>2 DEF ProductController, Handler, Throwing
  <2>3. CASE i = 3
    BY <2>3 DEF ProductController, Handler, Throwing
  <2>4. CASE i = 4
    BY <2>4 DEF ProductController, Handler, Throwing
  <2>5. CASE i = 5
    BY <2>5 DEF ProductController, Handler, Throwing
  <2> QED BY <2>0, <2>1, <2>2, <2>3, <2>4, <2>5
<1>4. ASSUME NEW i \in DOMAIN ProductController
      PROVE  Class(ProductController[i].path) \in {"product"}
  <2> DEFINE path == ProductController[i].path
  <2>1. path[1] = "products" /\ Len(path) \in Nat /\ Len(path) \in {1, 2}
    BY <1>3, <1>2
  <2> QED BY <2>1, Classes
<1>5. \A i \in DOMAIN ProductController : LET path == ProductController[i].path IN
        Len(path) \in {5, 6} => path[5] # Param
  BY DEF ProductController, Handler, Throwing, Param
<1>6. \A i \in DOMAIN ProductController : ProductController[i].calls \subseteq Accesses
  BY DEF ProductController, Handler, Throwing, Accesses
<1> QED BY <1>1, <1>2, <1>5, <1>6, <1>4 DEF AllLaid, Laid, Param

LEMMA ProductTold == AllTold(ProductController)
<1> DEFINE h == ProductController
<1>1. /\ h[1].method = "GET" /\ Words(h[1]) = 1 /\ LastWord(h[1]) = "products"
      /\ h[2].method = "POST" /\ Words(h[2]) = 1 /\ LastWord(h[2]) = "products"
      /\ h[3].method = "GET" /\ Words(h[3]) = 2 /\ LastWord(h[3]) = Param
      /\ h[4].method = "PUT" /\ Words(h[4]) = 2 /\ LastWord(h[4]) = Param
      /\ h[5].method = "DELETE" /\ Words(h[5]) = 2 /\ LastWord(h[5]) = Param
  BY DEF ProductController, Handler, Throwing, Words, SecondWord, LastWord
<1>2. DOMAIN h = 1..5
  BY DEF ProductController
<1> HIDE DEF h
<1>3. ASSUME NEW i \in 1..5, NEW j \in 1..5, i < j PROVE Told(h[i], h[j])
  <2>1. CASE i = 1
    BY <1>1, <1>3, <2>1 DEF Told, Param
  <2>2. CASE i = 2
    BY <1>1, <1>3, <2>2 DEF Told, Param
  <2>3. CASE i = 3
    BY <1>1, <1>3, <2>3 DEF Told, Param
  <2>4. CASE i = 4
    BY <1>1, <1>3, <2>4 DEF Told, Param
  <2> QED BY <1>3, <2>1, <2>2, <2>3, <2>4
<1> QED BY <1>2, <1>3 DEF AllTold, h

LEMMA ProductConforms == AllConform(ProductController, ProductEndpoint)
<1>1. \A name \in Names(ProductController) :
        /\ name = "list" => ProductEndpoint[name].declares = "page"
        /\ name \in {"create", "findOne", "update"}
             => ProductEndpoint[name].declares = "row"
  BY DEF ProductEndpoint, Open, LoggedIn, Limited, Holding
<1>2. \A i \in DOMAIN ProductController : LET h == ProductController[i] IN
        /\ h.name \in {"list", "create", "findOne", "update", "delete"}
        /\ h.name = "list" => h.returns = "page"
        /\ h.name \in {"create", "findOne", "update"} => h.returns = "row"
        /\ h.name = "delete" => h.returns = "nothing"
  BY DEF ProductController, Handler, Throwing
<1> QED BY <1>1, <1>2, Conforming DEF AllConform, Names

LEMMA ExecutionLaid == AllLaid(ExecutionController, {"execution"})
<1>1. Len(ExecutionController) \in Nat
          /\ DOMAIN ExecutionController = 1..Len(ExecutionController)
  BY DEF ExecutionController
<1>2. \A i \in DOMAIN ExecutionController : LET path == ExecutionController[i].path IN
        /\ Len(path) \in Nat \ {0} /\ DOMAIN path = 1..Len(path)
        /\ path[1] = "execution"
  BY DEF ExecutionController, Handler
<1>3. \A i \in DOMAIN ExecutionController : ExecutionController[i].calls \subseteq Accesses
  BY DEF ExecutionController, Handler, Accesses
<1> QED BY <1>1, <1>2, <1>3 DEF AllLaid, Laid, Class, Param

LEMMA ExecutionTold == AllTold(ExecutionController)
BY DEF ExecutionController, AllTold, Handler, Words, SecondWord, LastWord, Told, Param

LEMMA ExecutionConforms == AllConform(ExecutionController, ExecutionEndpoint)
<1>1. \A name \in Names(ExecutionController) :
        /\ name = "list" => ExecutionEndpoint[name].declares = "page"
        /\ name = "get" => ExecutionEndpoint[name].declares = "row"
  BY DEF ExecutionEndpoint, Open, LoggedIn, Limited, Holding
<1>2. \A i \in DOMAIN ExecutionController : LET h == ExecutionController[i] IN
        /\ h.name \in {"list", "get"}
        /\ h.name = "list" => h.returns = "page"
        /\ h.name = "get" => h.returns = "row"
  BY DEF ExecutionController, Handler
<1> QED BY <1>1, <1>2, Conforming DEF AllConform, Names

LEMMA TraceabilityLaid == AllLaid(TraceabilityController, {"trace"})
<1>1. Len(TraceabilityController) \in Nat
          /\ DOMAIN TraceabilityController = 1..Len(TraceabilityController)
  BY DEF TraceabilityController
<1>2. \A i \in DOMAIN TraceabilityController : LET path == TraceabilityController[i].path IN
        /\ Len(path) \in Nat \ {0} /\ DOMAIN path = 1..Len(path)
        /\ path[1] = "trace"
  BY DEF TraceabilityController, Handler
<1>3. \A i \in DOMAIN TraceabilityController : TraceabilityController[i].calls \subseteq Accesses
  BY DEF TraceabilityController, Handler, Accesses
<1> QED BY <1>1, <1>2, <1>3 DEF AllLaid, Laid, Class, Param

LEMMA TraceabilityTold == AllTold(TraceabilityController)
<1> DEFINE h == TraceabilityController
<1>1. /\ h[1].method = "GET" /\ Words(h[1]) = 2 /\ LastWord(h[1]) = "activities"
      /\ h[2].method = "GET" /\ Words(h[2]) = 2 /\ LastWord(h[2]) = "audit-logs"
      /\ h[3].method = "GET" /\ Words(h[3]) = 3 /\ LastWord(h[3]) = Param
      /\ h[4].method = "POST" /\ Words(h[4]) = 2 /\ LastWord(h[4]) = "activities"
  BY DEF TraceabilityController, Handler, Words, SecondWord, LastWord
<1>2. DOMAIN h = 1..4
  BY DEF TraceabilityController
<1> HIDE DEF h
<1>3. ASSUME NEW i \in 1..4, NEW j \in 1..4, i < j PROVE Told(h[i], h[j])
  <2>1. CASE i = 1
    BY <1>1, <1>3, <2>1 DEF Told, Param
  <2>2. CASE i = 2
    BY <1>1, <1>3, <2>2 DEF Told, Param
  <2>3. CASE i = 3
    BY <1>1, <1>3, <2>3 DEF Told, Param
  <2> QED BY <1>3, <2>1, <2>2, <2>3
<1> QED BY <1>2, <1>3 DEF AllTold, h

LEMMA TraceabilityConforms == AllConform(TraceabilityController, TraceabilityEndpoint)
<1>1. \A name \in Names(TraceabilityController) :
        /\ name \in {"list", "listAuditLogs"}
             => TraceabilityEndpoint[name].declares = "page"
        /\ name \in {"getById", "create"} => TraceabilityEndpoint[name].declares = "row"
  BY DEF TraceabilityEndpoint, Open, LoggedIn, Limited, Holding
<1>2. \A i \in DOMAIN TraceabilityController : LET h == TraceabilityController[i] IN
        /\ h.name \in {"list", "listAuditLogs", "getById", "create"}
        /\ h.name \in {"list", "listAuditLogs"} => h.returns = "page"
        /\ h.name \in {"getById", "create"} => h.returns = "row"
  BY DEF TraceabilityController, Handler
<1> QED BY <1>1, <1>2, Conforming DEF AllConform, Names

LEMMA ConnectivityLaid == AllLaid(ConnectivityController, {"connectivity"})
<1>1. Len(ConnectivityController) \in Nat
          /\ DOMAIN ConnectivityController = 1..Len(ConnectivityController)
  BY DEF ConnectivityController
<1>2. \A i \in DOMAIN ConnectivityController : LET path == ConnectivityController[i].path IN
        /\ Len(path) \in Nat \ {0} /\ DOMAIN path = 1..Len(path)
        /\ path[1] = "connectivity"
  BY DEF ConnectivityController, Handler
<1>3. \A i \in DOMAIN ConnectivityController : ConnectivityController[i].calls \subseteq Accesses
  BY DEF ConnectivityController, Handler, Accesses
<1> QED BY <1>1, <1>2, <1>3 DEF AllLaid, Laid, Class, Param

LEMMA ConnectivityTold == AllTold(ConnectivityController)
BY DEF ConnectivityController, AllTold, Handler, Words, SecondWord, LastWord, Told, Param

LEMMA ConnectivityConforms == AllConform(ConnectivityController, ConnectivityEndpoint)
<1>1. \A name \in Names(ConnectivityController) : ConnectivityEndpoint[name].declares \in {"undeclared", "any"}
  BY DEF ConnectivityEndpoint, Open, LoggedIn, Limited, Holding
<1> QED BY <1>1, Conforming DEF AllConform, Names

LEMMA VibeLaid == AllLaid(VibeController, {"vibe"})
<1>1. Len(VibeController) \in Nat /\ DOMAIN VibeController = 1..Len(VibeController)
  BY DEF VibeController
<1>2. \A i \in DOMAIN VibeController : LET path == VibeController[i].path IN
        /\ Len(path) \in Nat \ {0} /\ DOMAIN path = 1..Len(path)
        /\ path[1] = "vibe"
  BY DEF VibeController, Handler
<1>3. \A i \in DOMAIN VibeController : VibeController[i].calls \subseteq Accesses
  BY DEF VibeController, Handler, Accesses
<1> QED BY <1>1, <1>2, <1>3 DEF AllLaid, Laid, Class, Param

LEMMA VibeTold == AllTold(VibeController)
<1> DEFINE h == VibeController
<1>1. /\ h[1].method = "POST" /\ Words(h[1]) = 2 /\ LastWord(h[1]) = "generate"
      /\ h[2].method = "POST" /\ Words(h[2]) = 2 /\ LastWord(h[2]) = "pages"
      /\ h[3].method = "GET" /\ Words(h[3]) = 2 /\ LastWord(h[3]) = "pages"
      /\ h[4].method = "PATCH" /\ Words(h[4]) = 3 /\ LastWord(h[4]) = Param
      /\ h[5].method = "DELETE" /\ Words(h[5]) = 3 /\ LastWord(h[5]) = Param
  BY DEF VibeController, Handler, Words, SecondWord, LastWord
<1>2. DOMAIN h = 1..5
  BY DEF VibeController
<1> HIDE DEF h
<1>3. ASSUME NEW i \in 1..5, NEW j \in 1..5, i < j PROVE Told(h[i], h[j])
  <2>1. CASE i = 1
    BY <1>1, <1>3, <2>1 DEF Told, Param
  <2>2. CASE i = 2
    BY <1>1, <1>3, <2>2 DEF Told, Param
  <2>3. CASE i = 3
    BY <1>1, <1>3, <2>3 DEF Told, Param
  <2>4. CASE i = 4
    BY <1>1, <1>3, <2>4 DEF Told, Param
  <2> QED BY <1>3, <2>1, <2>2, <2>3, <2>4
<1> QED BY <1>2, <1>3 DEF AllTold, h

LEMMA VibeConforms == AllConform(VibeController, VibeEndpoint)
<1>1. \A name \in Names(VibeController) : VibeEndpoint[name].declares \in {"undeclared",
          "any"}
  BY DEF VibeEndpoint, Open, LoggedIn, Limited, Holding
<1> QED BY <1>1, Conforming DEF AllConform, Names

LEMMA HealthLaid == AllLaid(HealthController, {"health", "health detail"})
<1>1. Len(HealthController) \in Nat /\ DOMAIN HealthController = 1..Len(HealthController)
  BY DEF HealthController
<1>2. \A i \in DOMAIN HealthController : LET path == HealthController[i].path IN
        /\ Len(path) \in Nat \ {0} /\ DOMAIN path = 1..Len(path)
        /\ path[1] = "health"
  BY DEF HealthController, Handler
<1>3. ASSUME NEW i \in DOMAIN HealthController
      PROVE  Class(HealthController[i].path) \in {"health", "health detail"}
  <2> DEFINE path == HealthController[i].path
  <2>1. path[1] = "health" /\ Len(path) \in Nat
    BY <1>2
  <2> QED BY <2>1, Classes
<1>4. \A i \in DOMAIN HealthController : LET path == HealthController[i].path IN
        Len(path) \in {5, 6} => path[5] # Param
  BY DEF HealthController, Handler, Param
<1>5. \A i \in DOMAIN HealthController : HealthController[i].calls \subseteq Accesses
  BY DEF HealthController, Handler, Accesses
<1> QED BY <1>1, <1>2, <1>4, <1>5, <1>3 DEF AllLaid, Laid, Param

LEMMA HealthTold == AllTold(HealthController)
BY DEF HealthController, AllTold, Handler, Words, SecondWord, LastWord, Told, Param

LEMMA HealthConforms == AllConform(HealthController, HealthEndpoint)
<1>1. \A name \in Names(HealthController) : HealthEndpoint[name].declares \in {"undeclared", "any"}
  BY DEF HealthEndpoint, Open, LoggedIn, Limited, Holding
<1> QED BY <1>1, Conforming DEF AllConform, Names

(* A sequence of routes in order, of the given classes; that of a          *)
(* controller; and two joined.                                             *)
Arranged(routes, classes) ==
  /\ \E S : routes \in Seq(S)
  /\ \A i \in DOMAIN routes :
       /\ WellServed(routes[i]) /\ Laid(routes[i].handler.path)
       /\ Class(routes[i].handler.path) \in classes
  /\ \A i, j \in DOMAIN routes : i < j => Precedes(routes[i], routes[j])

LEMMA ToldPrecedes ==
  ASSUME NEW q, NEW r, Laid(q.handler.path), Laid(r.handler.path), Told(q.handler, r.handler)
  PROVE  Precedes(q, r)
<1> DEFINE p == q.handler.path
           n == Len(p)
<1> SUFFICES ASSUME Overlap(q, r), NEW i \in DOMAIN p, r.handler.path[i] # Param
             PROVE  p[i] # Param
  BY DEF Precedes
<1>1. /\ n \in Nat \ {0} /\ DOMAIN p = 1..n /\ p[1] # Param /\ n = Len(r.handler.path)
      /\ \A k \in 1..n : p[k] = r.handler.path[k] \/ p[k] = Param \/ r.handler.path[k] = Param
  BY DEF Laid, Overlap
<1>2. CASE LastWord(q.handler) # LastWord(r.handler) /\ LastWord(q.handler) # Param /\ LastWord(r.handler) # Param
  BY <1>1, <1>2 DEF LastWord
<1>3. CASE Words(q.handler) = 2 /\ LastWord(r.handler) = Param
  BY <1>1, <1>3 DEF LastWord, Words
<1>4. CASE Words(q.handler) = 3 /\ SecondWord(q.handler) # SecondWord(r.handler)
             /\ SecondWord(q.handler) # Param /\ SecondWord(r.handler) # Param
  BY <1>1, <1>4 DEF SecondWord, Words
<1> QED BY <1>2, <1>3, <1>4 DEF Told, Overlap, Words

LEMMA OverlapInClass ==
  ASSUME NEW q, NEW r, Laid(q.handler.path), Laid(r.handler.path), Overlap(q, r)
  PROVE  Class(q.handler.path) = Class(r.handler.path)
<1> DEFINE p == q.handler.path
           t == r.handler.path
<1>1. /\ Len(p) \in Nat \ {0} /\ Len(t) = Len(p) /\ DOMAIN p = 1..Len(p)
      /\ p[1] # Param /\ t[1] # Param /\ p[1] = t[1]
  BY DEF Laid, Overlap
<1>2. ASSUME p[1] = "products", Len(p) \in {5, 6} PROVE p[5] = t[5]
  BY <1>1, <1>2 DEF Laid, Overlap
<1>3. CASE p[1] = "products"
  BY <1>1, <1>2, <1>3 DEF Class
<1>4. CASE p[1] # "products"
  BY <1>1, <1>4 DEF Class
<1> QED BY <1>3, <1>4

LEMMA HealthAlone ==
  ASSUME NEW path, Laid(path), Class(path) = "health"
  PROVE  Len(path) = 1
<1>1. path[1] = "health" \/ path[1] # "health"
  OBVIOUS
<1>2. CASE path[1] = "products"
  BY <1>2 DEF Class
<1>3. CASE path[1] # "products"
  BY <1>3 DEF Class, Laid
<1> QED BY <1>2, <1>3

LEMMA DeclareArranged ==
  ASSUME NEW controller, NEW endpoint, NEW classes,
         AllLaid(controller, classes), AllTold(controller), AllConform(controller, endpoint),
         \/ classes \cap {"health", "health detail"} = {}
         \/ \A i \in DOMAIN controller : endpoint[controller[i].name].guards = {}
  PROVE  Arranged(Declare(controller, endpoint), classes)
<1> DEFINE routes == Declare(controller, endpoint)
<1>1. DOMAIN routes = DOMAIN controller /\ DOMAIN controller = 1..Len(controller) /\ Len(controller) \in Nat
  BY DEF Declare, AllLaid
<1>2. ASSUME NEW i \in DOMAIN controller
      PROVE  routes[i].handler = controller[i] /\ routes[i].endpoint = endpoint[controller[i].name]
  BY DEF Declare
<1>3. routes \in Seq({routes[i] : i \in 1..Len(controller)})
  <2> DEFINE S == {routes[i] : i \in 1..Len(controller)}
  <2>1. routes = [i \in 1..Len(controller) |-> routes[i]]
    BY <1>1 DEF Declare
  <2>2. routes \in [1..Len(controller) -> S]
    BY <2>1
  <2> HIDE DEF routes, S
  <2>3. routes \in Seq(S)
    BY <1>1, <2>2, SeqDef
  <2> QED BY <2>3 DEF routes, S
<1>4. ASSUME NEW i \in DOMAIN controller
      PROVE  /\ WellServed(routes[i]) /\ Laid(routes[i].handler.path)
             /\ Class(routes[i].handler.path) \in classes
  <2> DEFINE path == controller[i].path
  <2>1. Laid(path) /\ Class(path) \in classes /\ controller[i].calls \subseteq Accesses
    BY DEF AllLaid
  <2>2. "jwt" \in endpoint[controller[i].name].guards => path[1] # "health"
    BY <2>1, Classes
  <2> QED BY <1>2, <2>1, <2>2 DEF WellServed, Laid, AllConform
<1>5. ASSUME NEW i \in DOMAIN controller, NEW j \in DOMAIN controller, i < j
      PROVE  Precedes(routes[i], routes[j])
  <2>1. Told(routes[i].handler, routes[j].handler)
    BY <1>2, <1>5 DEF AllTold
  <2> QED BY <1>4, <2>1, ToldPrecedes
<1> QED BY <1>1, <1>3, <1>4, <1>5 DEF Arranged

LEMMA JoinedArranged ==
  ASSUME NEW a, NEW b, NEW A, NEW B, Arranged(a, A), Arranged(b, B), A \cap B \subseteq {"health"}
  PROVE  Arranged(a \o b, A \cup B)
<1>1. PICK S : a \in Seq(S)
  BY DEF Arranged
<1>2. PICK T : b \in Seq(T)
  BY DEF Arranged
<1>3. a \in Seq(S \cup T) /\ b \in Seq(S \cup T)
  BY <1>1, <1>2
<1>4. a \o b \in Seq(S \cup T)
  BY <1>3
<1>5. /\ DOMAIN (a \o b) = 1..(Len(a) + Len(b)) /\ Len(a) \in Nat /\ Len(b) \in Nat
      /\ DOMAIN a = 1..Len(a) /\ DOMAIN b = 1..Len(b)
      /\ \A i \in 1..(Len(a) + Len(b)) : (a \o b)[i] = IF i <= Len(a) THEN a[i] ELSE b[i - Len(a)]
  BY <1>3
<1>6. ASSUME NEW i \in DOMAIN (a \o b)
      PROVE  /\ WellServed((a \o b)[i]) /\ Laid((a \o b)[i].handler.path)
             /\ Class((a \o b)[i].handler.path) \in A \cup B
  BY <1>5 DEF Arranged
<1>7. ASSUME NEW i \in DOMAIN a, NEW j \in DOMAIN b PROVE Precedes(a[i], b[j])
  <2> DEFINE p == a[i].handler.path
             t == b[j].handler.path
  <2>1. Laid(p) /\ Laid(t) /\ Class(p) \in A /\ Class(t) \in B
    BY DEF Arranged
  <2> SUFFICES ASSUME Overlap(a[i], b[j]) PROVE Precedes(a[i], b[j])
    BY DEF Precedes
  <2>2. Class(p) = "health" /\ Len(p) = Len(t)
    BY <2>1, OverlapInClass DEF Overlap
  <2>3. Len(p) = 1
    BY <2>1, <2>2, HealthAlone
  <2> QED BY <2>1, <2>3 DEF Precedes, Laid
<1>8. ASSUME NEW i \in DOMAIN (a \o b), NEW j \in DOMAIN (a \o b), i < j
      PROVE  Precedes((a \o b)[i], (a \o b)[j])
  <2>1. CASE j <= Len(a)
    BY <1>5, <1>8, <2>1 DEF Arranged
  <2>2. CASE i > Len(a)
    <3>1. i - Len(a) \in DOMAIN b /\ j - Len(a) \in DOMAIN b /\ i - Len(a) < j - Len(a)
      BY <1>5, <1>8, <2>2
    <3> QED BY <1>5, <1>8, <2>2, <3>1 DEF Arranged
  <2>3. CASE i <= Len(a) /\ j > Len(a)
    <3>1. i \in DOMAIN a /\ j - Len(a) \in DOMAIN b
      BY <1>5, <2>3
    <3> QED BY <1>5, <1>7, <2>3, <3>1
  <2> QED BY <1>5, <2>1, <2>2, <2>3
<1> QED BY <1>4, <1>6, <1>8 DEF Arranged

LEMMA AppOpen == \A i \in DOMAIN AppController : HealthEndpoint[AppController[i].name].guards = {}
BY DEF HealthEndpoint, Names, Open

LEMMA HealthOpen == \A i \in DOMAIN HealthController : HealthEndpoint[HealthController[i].name].guards = {}
BY DEF HealthEndpoint, Names, Open

LEMMA RoutingArranged == RoutesWellServed /\ RoutesOrdered
<1>1. Arranged(Declare(AppController, HealthEndpoint), {"health"})
  BY DeclareArranged, AppLaid, AppTold, AppConforms, AppOpen
<1>2. Arranged(Declare(AttachmentController, AttachmentsEndpoint), {"attachments"})
  BY DeclareArranged, AttachmentLaid, AttachmentTold, AttachmentConforms
<1>3. Arranged(Declare(AuthController, AuthEndpoint), {"auth"})
  BY DeclareArranged, AuthLaid, AuthTold, AuthConforms
<1>4. Arranged(Declare(UsersController, UsersEndpoint), {"users"})
  BY DeclareArranged, UsersLaid, UsersTold, UsersConforms
<1>5. Arranged(Declare(UserAddressesController, UserAddressesEndpoint), {"account"})
  BY DeclareArranged, UserAddressesLaid, UserAddressesTold, UserAddressesConforms
<1>6. Arranged(Declare(TicketController, TicketEndpoint), {"ticket"})
  BY DeclareArranged, TicketLaid, TicketTold, TicketConforms
<1>7. Arranged(Declare(RevisionController, BomEndpoint), {"revisions"})
  BY DeclareArranged, RevisionLaid, RevisionTold, RevisionConforms
<1>8. Arranged(Declare(MaterialController, BomEndpoint), {"materials"})
  BY DeclareArranged, MaterialLaid, MaterialTold, MaterialConforms
<1>9. Arranged(Declare(WorkOrderController, WorkOrderEndpoint), {"work-orders"})
  BY DeclareArranged, WorkOrderLaid, WorkOrderTold, WorkOrderConforms
<1>10. Arranged(Declare(RolesController, RolesEndpoint), {"roles"})
  BY DeclareArranged, RolesLaid, RolesTold, RolesConforms
<1>11. Arranged(Declare(NotificationController, NotificationsEndpoint), {"notifications"})
  BY DeclareArranged, NotificationLaid, NotificationTold, NotificationConforms
<1>12. Arranged(Declare(OrganizationController, OrganizationEndpoint), {"organization"})
  BY DeclareArranged, OrganizationLaid, OrganizationTold, OrganizationConforms
<1>13. Arranged(Declare(NodeController, NodeEndpoint), {"nodes"})
  BY DeclareArranged, NodeLaid, NodeTold, NodeConforms
<1>14. Arranged(Declare(ProductController, ProductEndpoint), {"product"})
  BY DeclareArranged, ProductLaid, ProductTold, ProductConforms
<1>15. Arranged(Declare(ExecutionController, ExecutionEndpoint), {"execution"})
  BY DeclareArranged, ExecutionLaid, ExecutionTold, ExecutionConforms
<1>16. Arranged(Declare(TraceabilityController, TraceabilityEndpoint), {"trace"})
  BY DeclareArranged, TraceabilityLaid, TraceabilityTold, TraceabilityConforms
<1>17. Arranged(Declare(ConnectivityController, ConnectivityEndpoint), {"connectivity"})
  BY DeclareArranged, ConnectivityLaid, ConnectivityTold, ConnectivityConforms
<1>18. Arranged(Declare(VibeController, VibeEndpoint), {"vibe"})
  BY DeclareArranged, VibeLaid, VibeTold, VibeConforms
<1>19. Arranged(Declare(HealthController, HealthEndpoint), {"health", "health detail"})
  BY DeclareArranged, HealthLaid, HealthTold, HealthConforms, HealthOpen
<1> DEFINE R1 == Declare(AppController, HealthEndpoint)
           K1 == {"health"}
           R2 == R1 \o Declare(AttachmentController, AttachmentsEndpoint)
           K2 == K1 \cup {"attachments"}
           R3 == R2 \o Declare(AuthController, AuthEndpoint)
           K3 == K2 \cup {"auth"}
           R4 == R3 \o Declare(UsersController, UsersEndpoint)
           K4 == K3 \cup {"users"}
           R5 == R4 \o Declare(UserAddressesController, UserAddressesEndpoint)
           K5 == K4 \cup {"account"}
           R6 == R5 \o Declare(TicketController, TicketEndpoint)
           K6 == K5 \cup {"ticket"}
           R7 == R6 \o Declare(RevisionController, BomEndpoint)
           K7 == K6 \cup {"revisions"}
           R8 == R7 \o Declare(MaterialController, BomEndpoint)
           K8 == K7 \cup {"materials"}
           R9 == R8 \o Declare(WorkOrderController, WorkOrderEndpoint)
           K9 == K8 \cup {"work-orders"}
           R10 == R9 \o Declare(RolesController, RolesEndpoint)
           K10 == K9 \cup {"roles"}
           R11 == R10 \o Declare(NotificationController, NotificationsEndpoint)
           K11 == K10 \cup {"notifications"}
           R12 == R11 \o Declare(OrganizationController, OrganizationEndpoint)
           K12 == K11 \cup {"organization"}
           R13 == R12 \o Declare(NodeController, NodeEndpoint)
           K13 == K12 \cup {"nodes"}
           R14 == R13 \o Declare(ProductController, ProductEndpoint)
           K14 == K13 \cup {"product"}
           R15 == R14 \o Declare(ExecutionController, ExecutionEndpoint)
           K15 == K14 \cup {"execution"}
           R16 == R15 \o Declare(TraceabilityController, TraceabilityEndpoint)
           K16 == K15 \cup {"trace"}
           R17 == R16 \o Declare(ConnectivityController, ConnectivityEndpoint)
           K17 == K16 \cup {"connectivity"}
           R18 == R17 \o Declare(VibeController, VibeEndpoint)
           K18 == K17 \cup {"vibe"}
           R19 == R18 \o Declare(HealthController, HealthEndpoint)
           K19 == K18 \cup {"health", "health detail"}
<1>20. Arranged(R2, K2)
  <2>1. K1 \cap {"attachments"} \subseteq {"health"}
    OBVIOUS
  <2> QED BY <1>1, <1>2, <2>1, JoinedArranged
<1>21. Arranged(R3, K3)
  <2>1. K2 \cap {"auth"} \subseteq {"health"}
    OBVIOUS
  <2> HIDE DEF R2, K2
  <2> QED BY <1>20, <1>3, <2>1, JoinedArranged
<1>22. Arranged(R4, K4)
  <2>1. K3 \cap {"users"} \subseteq {"health"}
    OBVIOUS
  <2> HIDE DEF R3, K3
  <2> QED BY <1>21, <1>4, <2>1, JoinedArranged
<1>23. Arranged(R5, K5)
  <2>1. K4 \cap {"account"} \subseteq {"health"}
    OBVIOUS
  <2> HIDE DEF R4, K4
  <2> QED BY <1>22, <1>5, <2>1, JoinedArranged
<1>24. Arranged(R6, K6)
  <2>1. K5 \cap {"ticket"} \subseteq {"health"}
    OBVIOUS
  <2> HIDE DEF R5, K5
  <2> QED BY <1>23, <1>6, <2>1, JoinedArranged
<1>25. Arranged(R7, K7)
  <2>1. K6 \cap {"revisions"} \subseteq {"health"}
    OBVIOUS
  <2> HIDE DEF R6, K6
  <2> QED BY <1>24, <1>7, <2>1, JoinedArranged
<1>26. Arranged(R8, K8)
  <2>1. K7 \cap {"materials"} \subseteq {"health"}
    OBVIOUS
  <2> HIDE DEF R7, K7
  <2> QED BY <1>25, <1>8, <2>1, JoinedArranged
<1>27. Arranged(R9, K9)
  <2>1. K8 \cap {"work-orders"} \subseteq {"health"}
    OBVIOUS
  <2> HIDE DEF R8, K8
  <2> QED BY <1>26, <1>9, <2>1, JoinedArranged
<1>28. Arranged(R10, K10)
  <2>1. K9 \cap {"roles"} \subseteq {"health"}
    OBVIOUS
  <2> HIDE DEF R9, K9
  <2> QED BY <1>27, <1>10, <2>1, JoinedArranged
<1>29. Arranged(R11, K11)
  <2>1. K10 \cap {"notifications"} \subseteq {"health"}
    OBVIOUS
  <2> HIDE DEF R10, K10
  <2> QED BY <1>28, <1>11, <2>1, JoinedArranged
<1>30. Arranged(R12, K12)
  <2>1. K11 \cap {"organization"} \subseteq {"health"}
    OBVIOUS
  <2> HIDE DEF R11, K11
  <2> QED BY <1>29, <1>12, <2>1, JoinedArranged
<1>31. Arranged(R13, K13)
  <2>1. K12 \cap {"nodes"} \subseteq {"health"}
    OBVIOUS
  <2> HIDE DEF R12, K12
  <2> QED BY <1>30, <1>13, <2>1, JoinedArranged
<1>32. Arranged(R14, K14)
  <2>1. K13 \cap {"product"} \subseteq {"health"}
    OBVIOUS
  <2> HIDE DEF R13, K13
  <2> QED BY <1>31, <1>14, <2>1, JoinedArranged
<1>33. Arranged(R15, K15)
  <2>1. K14 \cap {"execution"} \subseteq {"health"}
    OBVIOUS
  <2> HIDE DEF R14, K14
  <2> QED BY <1>32, <1>15, <2>1, JoinedArranged
<1>34. Arranged(R16, K16)
  <2>1. K15 \cap {"trace"} \subseteq {"health"}
    OBVIOUS
  <2> HIDE DEF R15, K15
  <2> QED BY <1>33, <1>16, <2>1, JoinedArranged
<1>35. Arranged(R17, K17)
  <2>1. K16 \cap {"connectivity"} \subseteq {"health"}
    OBVIOUS
  <2> HIDE DEF R16, K16
  <2> QED BY <1>34, <1>17, <2>1, JoinedArranged
<1>36. Arranged(R18, K18)
  <2>1. K17 \cap {"vibe"} \subseteq {"health"}
    OBVIOUS
  <2> HIDE DEF R17, K17
  <2> QED BY <1>35, <1>18, <2>1, JoinedArranged
<1>37. Arranged(R19, K19)
  <2>1. K18 \cap {"health", "health detail"} \subseteq {"health"}
    OBVIOUS
  <2> HIDE DEF R18, K18
  <2> QED BY <1>36, <1>19, <2>1, JoinedArranged
<1> QED BY <1>37 DEF Arranged, RoutesWellServed, RoutesOrdered, Routing

-----------------------------------------------------------------------------
(* The permissions. *)

LEMMA DeclaredShape ==
  ASSUME NEW p \in Declared
  PROVE  \/ \E r \in DOMAIN BaseActions : \E a \in BaseActions[r] : p = <<r, a>>
         \/ \E r \in DOMAIN AllActions : \E a \in AllActions[r] : p = <<r, a, "all">>
         \/ p = <<"tickets", "read", "quotation">>
         \/ p = <<"traceability", "audit", "read">>
<1>1. CASE p \in UNION {{<<r, a>> : a \in BaseActions[r]} : r \in DOMAIN BaseActions}
  BY <1>1
<1>2. CASE p \in UNION {{<<r, a, "all">> : a \in AllActions[r]} : r \in DOMAIN AllActions}
  BY <1>2
<1> QED BY <1>1, <1>2 DEF Declared

LEMMA AuditOnly ==
  /\ <<"traceability", "audit">> \notin Declared
  /\ <<"traceability", "audit", "all">> \notin Declared
<1>1. DOMAIN AllActions = DOMAIN BaseActions
  BY DEF AllActions
<1>2. "traceability" \in DOMAIN BaseActions
  BY DEF BaseActions
<1>3. BaseActions["traceability"] = {"read", "write"}
  BY DEF BaseActions
<1>4. AllActions["traceability"] = {"read"}
  BY <1>2 DEF AllActions
<1> QED BY <1>3, <1>4, DeclaredShape

LEMMA CoversHeld ==
  ASSUME NEW held, NEW p \in held, NEW q, Plain(q), covers(p, q)
  PROVE  Held(held, q)
<1>1. p \in Declared /\ q \in Declared
  BY DEF covers
<1>2. CASE p = q
  BY <1>2 DEF Held
<1>3. CASE Len(p) = 3 /\ p[3] = "all" /\ SameAction(p, q)
  <2>1. PICK r, a : p = <<r, a, "all">>
    BY <1>1, <1>3, DeclaredShape
  <2>2. CASE Len(q) = 2
    <3>1. q = <<r, a>>
      BY <1>1, <1>3, <2>1, <2>2, DeclaredShape DEF SameAction
    <3>2. Append(q, "all") = p
      BY <2>1, <3>1, Longer2
    <3> QED BY <2>2, <3>2 DEF Held
  <2>3. CASE q = <<"attachments", "read", "all">>
    <3>1. p = q
      BY <1>3, <2>1, <2>3 DEF SameAction
    <3> QED BY <3>1 DEF Held
  <2>4. CASE q = <<"traceability", "audit", "read">>
    <3>1. p = <<"traceability", "audit", "all">>
      BY <1>3, <2>1, <2>4 DEF SameAction
    <3> QED BY <1>1, <3>1, AuditOnly
  <2> QED BY <2>2, <2>3, <2>4 DEF Plain
<1>4. CASE Len(p) > 2 /\ Len(q) = 2 /\ SameAction(p, q)
  <2>1. PICK r, a : q = <<r, a>>
    BY <1>1, <1>4, DeclaredShape
  <2>2. PICK x : p = <<r, a, x>> /\ x \in {"all", "quotation", "read"}
    <3>1. Len(p) = 3 /\ p[1] = r /\ p[2] = a
      BY <1>1, <1>4, <2>1, DeclaredShape DEF SameAction
    <3>2. ASSUME NEW y \in DOMAIN BaseActions, NEW z \in BaseActions[y], p = <<y, z>> PROVE FALSE
      BY <3>1, <3>2
    <3>3. CASE \E y \in DOMAIN AllActions : \E z \in AllActions[y] : p = <<y, z, "all">>
      BY <3>1, <3>3
    <3>4. CASE p \in {<<"tickets", "read", "quotation">>, <<"traceability", "audit", "read">>}
      BY <3>1, <3>4
    <3> QED BY <1>1, <3>2, <3>3, <3>4, DeclaredShape
  <2>3. x # "read"
    BY <1>1, <2>1, <2>2, AuditOnly, DeclaredShape
  <2>4. Append(q, x) = p
    BY <2>1, <2>2, Longer2
  <2> QED BY <1>4, <2>2, <2>3, <2>4 DEF Held
<1> QED BY <1>2, <1>3, <1>4 DEF covers

(* PermissionGuard: what it lets through holds what the route needs.       *)
LEMMA PermitsHeld ==
  ASSUME NEW held, NEW needs, \A q \in needs : Plain(q), permits(held, needs)
  PROVE  held # {} /\ \A q \in needs : Held(held, q)
BY CoversHeld DEF permits

(* BasePolicy: only '.all' of the action reaches every organization.       *)
LEMMA AllHeld ==
  ASSUME NEW user, NEW a, NEW subject,
         a[1] = "update_status" => a[2] = "tickets",
         a[1] \in {"read", "update", "delete", "update_status"},
         scopeOf(user, a, subject) = "all"
  PROVE  <<a[2], a[1], "all">> \in user.permissions
<1> DEFINE access == [action |-> a[1], resource |-> a[2],
                      own |-> subject.own, internal |-> subject.internal]
<1>1. scope(user, access) = "all"
  BY DEF scopeOf, Refused
<1>2. CASE a[1] = "read"
  <2>1. readOverride(user, a[2]) = "all"
    BY <1>1, <1>2 DEF scope
  <2> QED BY <1>2, <2>1 DEF readOverride, usersRead, byOrganization, ownership, orAll, readExtra, hasAll, Refused
<1>3. CASE a[1] = "update"
  <2>1. updateOverride(user, a[2]) = "all"
    BY <1>1, <1>3 DEF scope
  <2> QED BY <1>3, <2>1 DEF updateOverride, byOrganization, ownership, hasAll, Refused
<1>4. CASE a[1] = "delete"
  <2>1. deleteOverride(user, a[2]) = "all"
    BY <1>1, <1>4 DEF scope
  <2> QED BY <1>4, <2>1 DEF deleteOverride, byOrganization, ownership, hasAll, Refused
<1>5. CASE a[1] = "update_status"
  <2>1. updateTicketStatus(user) = "all"
    BY <1>1, <1>5 DEF scope
  <2> QED BY <1>5, <2>1 DEF updateTicketStatus, ownership, hasAll, Refused
<1> QED BY <1>2, <1>3, <1>4, <1>5

-----------------------------------------------------------------------------
(* One request. *)

RequestsOK == \A s \in Session : RequestOK(s)

(* The step of a request leaves the others what they rely on.              *)
LEMMA LocalStep ==
  ASSUME IInv, NEW s \in Session, Others(s), UNCHANGED session,
         Shape', pc'[s] \in Labels, RequestOK(s)'
  PROVE  Shaped' /\ RequestsOK'
<1>1. Shaped'
  BY DEF IInv, Shaped, Shape, Others
<1>2. ASSUME NEW t \in Session \ {s} PROVE RequestOK(t)'
  <2>1. RequestOK(t) /\ pc'[t] = pc[t] /\ call'[t] = call[t] /\ Now' = Now
    BY DEF IInv, Others, session, Now
  <2> QED BY <2>1 DEF RequestOK, Known, SessionSeen, Authorized, ScopesHeld
<1> QED BY <1>1, <1>2 DEF RequestsOK

(* What holds of a request that may still be admitted to its handler.      *)
Sound(c) ==
  /\ DOMAIN c = Fields /\ Now \in c.seen /\ Known(c)
  /\ c.scopes = {} /\ c.route \in DOMAIN Routing

LEMMA SendOK ==
  ASSUME IInv, NEW s \in Session, NEW c, NEW a, UNCHANGED session,
         DOMAIN c = Fields, Now \in c.seen, Known(c),
         c.scopes # {} => Authorized(c) /\ ScopesHeld(c),
         Send(s, c, a)
  PROVE  Shaped' /\ RequestsOK' /\ Others(s)
<1> DEFINE d == [c EXCEPT !.answer = a, !.attempts = 0, !.key = NULL]
<1>1. Shape' /\ pc'[s] = "answered" /\ call'[s] = d /\ Others(s)
  BY GotoEffect DEF Send, IInv, Shaped, Shape
<1>2. /\ DOMAIN d = Fields /\ d.seen = c.seen /\ d.user = c.user
      /\ d.scopes = c.scopes /\ d.route = c.route
  BY DEF Fields
<1>3. Now' = Now
  BY DEF session, Now
<1>4. Now \in d.seen /\ Known(d) /\ (d.scopes # {} => Authorized(d) /\ ScopesHeld(d))
  BY <1>2 DEF Known, Authorized, SessionSeen, ScopesHeld
<1>5. RequestOK(s)'
  BY <1>1, <1>2, <1>3, <1>4 DEF RequestOK, Known, Authorized, SessionSeen, ScopesHeld, Admitted
<1> QED BY <1>1, <1>5, LocalStep DEF Labels

(* Going on, with the call as it is. *)
LEMMA OnwardOK ==
  ASSUME IInv, NEW s \in Session, NEW l \in Admitted \cup {"token.get", "perms.get"}, NEW c,
         UNCHANGED session, Sound(c),
         l \in {"token.get", "perms.get"} => c.user = Nobody,
         l = "perms.get" => SessionSeen(c), l \in Admitted => Authorized(c),
         Goto(s, l, c)
  PROVE  Shaped' /\ RequestsOK' /\ Others(s)
<1>1. Shape' /\ pc'[s] = l /\ call'[s] = c /\ Others(s)
  BY GotoEffect DEF IInv, Shaped, Shape
<1>2. Now' = Now
  BY DEF session, Now
<1>3. RequestOK(s)'
  BY <1>1, <1>2 DEF RequestOK, Sound, Known, Authorized, SessionSeen, ScopesHeld, Admitted
<1> QED BY <1>1, <1>3, LocalStep DEF Labels, Admitted

(* Entering the handler changes the headers alone.                         *)
LEMMA EnterOK ==
  ASSUME IInv, NEW s \in Session, NEW c, UNCHANGED session, Sound(c), Authorized(c), Enter(s, c)
  PROVE  Shaped' /\ RequestsOK' /\ Others(s)
<1> DEFINE d == [c EXCEPT !.headers = setHeaders(@, Routing[c.route].handler)]
<1>1. /\ DOMAIN d = Fields /\ d.seen = c.seen /\ d.user = c.user /\ d.scopes = c.scopes
      /\ d.route = c.route
  BY DEF Sound, Fields
<1>2. Goto(s, "handler", d)
  BY DEF Enter
<1> HIDE DEF d
<1>3. Sound(d) /\ Authorized(d)
  BY <1>1 DEF Sound, Known, Authorized, SessionSeen
<1> QED BY <1>2, <1>3, OnwardOK DEF Admitted

LEMMA AdmitOK ==
  ASSUME IInv, NEW s \in Session, NEW c, UNCHANGED session, Sound(c),
         "jwt" \in Routing[c.route].endpoint.guards => SessionSeen(c),
         Admit(s, c)
  PROVE  Shaped' /\ RequestsOK' /\ Others(s)
<1> DEFINE endpoint == Routing[c.route].endpoint
<1>1. CASE ~mayActivate(c.user, endpoint)
  <2>1. \E a : Send(s, c, a)
    BY <1>1 DEF Admit, Refuse
  <2> QED BY <2>1, SendOK DEF Sound
<1>2. CASE mayActivate(c.user, endpoint)
  <2>1. \A q \in endpoint.needs : Plain(q)
    BY DEF Sound, IInv, RoutesWellDeclared, WellDeclared
  <2>2. "permission" \in endpoint.guards =>
          \E o \in c.seen : o.perms # NULL /\ \A q \in endpoint.needs : Held(o.perms, q)
    <3> SUFFICES ASSUME "permission" \in endpoint.guards
                 PROVE  \E o \in c.seen : o.perms # NULL /\ \A q \in endpoint.needs : Held(o.perms, q)
      OBVIOUS
    <3>1. permits(c.user.permissions, endpoint.needs)
      BY <1>2 DEF mayActivate
    <3>2. c.user.permissions # {} /\ \A q \in endpoint.needs : Held(c.user.permissions, q)
      BY <2>1, <3>1, PermitsHeld
    <3>3. PICK o \in c.seen : o.perms # NULL /\ o.perms = c.user.permissions
      BY <3>2 DEF Sound, Known, Nobody
    <3> QED BY <3>2, <3>3
  <2>3. Authorized(c)
    BY <2>2 DEF Authorized
  <2>4. Goto(s, "rate.incr", c) \/ Enter(s, c)
    BY <1>2 DEF Admit
  <2> QED BY <2>3, <2>4, OnwardOK, EnterOK DEF Admitted
<1> QED BY <1>1, <1>2

LEMMA UnauthenticatedOK ==
  ASSUME IInv, NEW s \in Session, NEW c, NEW status, UNCHANGED session, Sound(c),
         Unauthenticated(s, c, status)
  PROVE  Shaped' /\ RequestsOK' /\ Others(s)
<1>1. CASE "jwt" \in Routing[c.route].endpoint.guards
  <2>1. \E a : Send(s, c, a)
    BY <1>1 DEF Unauthenticated, Refuse
  <2> QED BY <2>1, SendOK DEF Sound
<1>2. CASE "jwt" \notin Routing[c.route].endpoint.guards
  BY <1>2, AdmitOK DEF Unauthenticated
<1> QED BY <1>1, <1>2

(* The counters stay as they are, and nobody leaves EXPIRE.                *)
LEMMA CountersKept ==
  ASSUME IInv, NEW s \in Session, Others(s), UNCHANGED limiter, pc[s] # "rate.expire"
  PROVE  CountersTyped' /\ CountersEnd'
BY DEF IInv, CountersTyped, CountersEnd, limiter, Others, At, firstAttempt

LEMMA SoundCall ==
  ASSUME IInv, NEW s \in Session, pc[s] \notin {"idle", "answered"}
  PROVE  Sound(call[s])
BY DEF IInv, RequestOK, Sound

LEMMA Combined ==
  ASSUME IInv, UNCHANGED target, Shaped', RequestsOK', CountersTyped', CountersEnd'
  PROVE  IInv'
BY DEF IInv, RequestsOK, RoutesWellDeclared

-----------------------------------------------------------------------------
(* The actions. *)

LEMMA Least ==
  ASSUME NEW S \in SUBSET Nat, S # {}
  PROVE  \E i \in S : \A j \in S : i <= j
<1>1. PICK i \in S : \A j \in S : <<j, i>> \notin OpToRel(<, Nat)
  BY NatLessThanWellFounded, WFMin
<1>2. OpToRel(<, Nat) = {p \in Nat \X Nat : p[1] < p[2]}
  BY DEF OpToRel
<1>3. ASSUME NEW j \in S PROVE i <= j
  <2>1. i \in Nat /\ j \in Nat /\ <<j, i>> \notin {p \in Nat \X Nat : p[1] < p[2]}
    BY <1>1, <1>2
  <2> QED BY <2>1
<1> QED BY <1>3

LEMMA FirstServes ==
  ASSUME NEW method, NEW routes \in SUBSET DOMAIN Routing, Served(method, routes) # 0
  PROVE  LET i == Served(method, routes) IN
         /\ i \in DOMAIN Routing /\ i \in routes /\ Routing[i].handler.method = method
         /\ \A j \in routes : Routing[j].handler.method = method => i <= j
<1> DEFINE matching == {i \in routes : Routing[i].handler.method = method}
<1>1. matching # {} /\ matching \subseteq Nat
  BY RoutingGood DEF Served
<1>2. \E i \in matching : \A j \in matching : i <= j
  BY <1>1, Least
<1>3. Served(method, routes) = CHOOSE i \in matching : \A j \in matching : i <= j
  BY <1>1 DEF Served
<1> QED BY <1>2, <1>3

LEMMA ArriveOK ==
  ASSUME IInv, NEW s \in Session, NEW method, NEW origin, NEW credentials, NEW email,
         arrive(s, method, origin, credentials, email)
  PROVE  IInv'
<1> DEFINE i == Served(method, target.routes)
<1>1. UNCHANGED limiter /\ UNCHANGED session /\ pc[s] = "idle"
  BY DEF arrive, At
<1>2. PICK c :
        /\ DOMAIN c = Fields /\ c.seen = {Now} /\ c.user = Nobody
        /\ c.scopes = {} /\ c.route = i
        /\ (\E a : Send(s, c, a)) \/ (i # 0 /\ authenticate(s, c, credentials))
  BY DEF arrive, Fields, Refuse
<1>3. CASE \E a : Send(s, c, a)
  BY <1>1, <1>2, <1>3, SendOK, CountersKept, Combined DEF Known, session
<1>4. CASE i # 0 /\ authenticate(s, c, credentials)
  <2>1. Sound(c)
    BY <1>2, <1>4, FirstServes DEF Sound, Known, IInv
  <2>2. Shaped' /\ RequestsOK' /\ Others(s)
    <3>1. CASE {"jwt", "optional"} \cap Routing[c.route].endpoint.guards = {}
      BY <1>1, <1>4, <2>1, <3>1, AdmitOK DEF authenticate
    <3>2. CASE Goto(s, "token.get", c)
      BY <1>1, <1>2, <2>1, <3>2, OnwardOK DEF Admitted
    <3>3. CASE Unauthenticated(s, c, 401)
      BY <1>1, <2>1, <3>3, UnauthenticatedOK
    <3> QED BY <1>4, <3>1, <3>2, <3>3 DEF authenticate
  <2> QED BY <1>1, <2>2, CountersKept, Combined DEF session
<1> QED BY <1>2, <1>3, <1>4

LEMMA GetTokenOK ==
  ASSUME IInv, NEW s \in Session, getToken(s)
  PROVE  IInv'
<1>1. UNCHANGED limiter /\ UNCHANGED session /\ pc[s] = "token.get"
  BY DEF getToken, At
<1>2. Sound(call[s]) /\ call[s].user = Nobody
  BY <1>1, SoundCall DEF IInv, RequestOK
<1>3. Shaped' /\ RequestsOK' /\ Others(s)
  <2>1. CASE token /\ Goto(s, "perms.get", call[s])
    <3>1. SessionSeen(call[s])
      BY <1>2, <2>1 DEF Sound, SessionSeen, Now
    <3> QED BY <1>1, <1>2, <2>1, <3>1, OnwardOK DEF Admitted
  <2>2. CASE \E status : Unauthenticated(s, call[s], status)
    BY <1>1, <1>2, <2>2, UnauthenticatedOK
  <2> QED BY <2>1, <2>2 DEF getToken
<1> QED BY <1>1, <1>3, CountersKept, Combined DEF session

LEMMA GetPermissionsOK ==
  ASSUME IInv, NEW s \in Session, getPermissions(s)
  PROVE  IInv'
<1>1. UNCHANGED limiter /\ UNCHANGED session /\ pc[s] = "perms.get"
  BY DEF getPermissions, At
<1>2. Sound(call[s]) /\ call[s].user = Nobody /\ SessionSeen(call[s])
  BY <1>1, SoundCall DEF IInv, RequestOK
<1>3. Shaped' /\ RequestsOK' /\ Others(s)
  <2>1. CASE perms # NULL /\ Admit(s, [call[s] EXCEPT !.user = [permissions |-> perms, organization |-> member]])
    <3> DEFINE c == [call[s] EXCEPT !.user = [permissions |-> perms, organization |-> member]]
    <3>1. /\ DOMAIN c = Fields /\ c.seen = call[s].seen /\ c.scopes = {}
          /\ c.route = call[s].route /\ c.user.permissions = perms
      BY <1>2 DEF Sound, Fields
    <3>2. Sound(c) /\ SessionSeen(c)
      BY <1>2, <2>1, <3>1 DEF Sound, Known, Now, SessionSeen
    <3> QED BY <1>1, <2>1, <3>2, AdmitOK
  <2>2. CASE \E status : Unauthenticated(s, call[s], status)
    BY <1>1, <1>2, <2>2, UnauthenticatedOK
  <2> QED BY <2>1, <2>2 DEF getPermissions
<1> QED BY <1>1, <1>3, CountersKept, Combined DEF session

LEMMA RejectOK ==
  ASSUME IInv, NEW s \in Session, NEW issues, reject(s, issues)
  PROVE  IInv'
<1>1. UNCHANGED limiter /\ UNCHANGED session /\ pc[s] = "handler"
  BY DEF reject, At
<1>2. Sound(call[s])
  BY <1>1, SoundCall
<1>3. \E a : Send(s, call[s], a)
  BY DEF reject
<1>4. Shaped' /\ RequestsOK' /\ Others(s)
  BY <1>1, <1>2, <1>3, SendOK DEF Sound
<1> QED BY <1>1, <1>4, CountersKept, Combined DEF session

LEMMA ServeOK ==
  ASSUME IInv, NEW s \in Session, NEW subject, NEW outcome, NEW loggable,
         serve(s, subject, outcome, loggable)
  PROVE  IInv'
<1> DEFINE scopes == {<<a, scopeOf(call[s].user, a, subject)>> : a \in Route(s).handler.calls}
           c == [call[s] EXCEPT !.scopes = scopes]
<1>1. UNCHANGED limiter /\ UNCHANGED session /\ pc[s] = "handler"
  BY DEF serve, At
<1>2. Sound(call[s]) /\ Authorized(call[s])
  BY <1>1, SoundCall DEF IInv, RequestOK, Admitted
<1>3. \E a : Send(s, c, a)
  BY DEF serve
<1>4. /\ DOMAIN c = Fields /\ c.seen = call[s].seen /\ c.scopes = scopes
      /\ c.route = call[s].route /\ c.user = call[s].user
  BY <1>2 DEF Sound, Fields
<1>5. Known(c) /\ Authorized(c)
  BY <1>2, <1>4 DEF Sound, Known, Authorized, SessionSeen
<1>6. ScopesHeld(c)
  <2> SUFFICES ASSUME NEW a \in Route(s).handler.calls,
                      a[1] \in {"read", "update", "delete", "update_status"},
                      scopeOf(call[s].user, a, subject) = "all"
               PROVE  \E o \in c.seen : o.perms # NULL /\ <<a[2], a[1], "all">> \in o.perms
    BY <1>4 DEF ScopesHeld
  <2>1. <<a[2], a[1], "all">> \in call[s].user.permissions
    BY <1>2, AllHeld DEF Sound, IInv, RoutesWellDeclared, WellDeclared, Route
  <2> QED BY <1>4, <1>5, <2>1 DEF Known, Nobody
<1>7. Shaped' /\ RequestsOK' /\ Others(s)
  BY <1>1, <1>2, <1>3, <1>4, <1>5, <1>6, SendOK DEF Sound
<1> QED BY <1>1, <1>7, CountersKept, Combined DEF session

LEMMA RespondOK ==
  ASSUME IInv, NEW s \in Session, respond(s)
  PROVE  IInv'
<1>1. UNCHANGED limiter /\ UNCHANGED session /\ pc[s] = "answered"
  BY DEF respond, At
<1>2. Shape' /\ pc'[s] = "idle" /\ Others(s)
  BY ReturnEffect DEF respond, IInv, Shaped, Shape
<1>3. RequestOK(s)'
  BY <1>2 DEF RequestOK
<1> QED BY <1>1, <1>2, <1>3, LocalStep, CountersKept, Combined DEF session, Labels

LEMMA CountAttemptOK ==
  ASSUME IInv, NEW s \in Session, countAttempt(s)
  PROVE  IInv'
<1> DEFINE key == call[s].key
           c == [call[s] EXCEPT !.attempts = counter'[key].n]
<1>1. /\ UNCHANGED <<session, stranded>> /\ pc[s] = "rate.incr"
      /\ counter' = INCR(key) /\ Goto(s, "rate.expire", c)
  BY DEF countAttempt, incrementAttempts, At
<1>2. Sound(call[s]) /\ Authorized(call[s])
  BY <1>1, SoundCall DEF IInv, RequestOK, Admitted
<1>3. /\ DOMAIN c = Fields /\ c.seen = call[s].seen /\ c.scopes = call[s].scopes /\ c.key = key
      /\ c.route = call[s].route /\ c.user = call[s].user /\ c.attempts = counter'[key].n
  BY <1>2 DEF Sound, Fields
<1>4. Sound(c) /\ Authorized(c)
  BY <1>2, <1>3 DEF Sound, Known, Authorized, SessionSeen
<1>5. Shaped' /\ RequestsOK' /\ Others(s)
  BY <1>1, <1>4, OnwardOK DEF Admitted
<1>6. Shape' /\ pc'[s] = "rate.expire" /\ call'[s] = c
  BY <1>1, GotoEffect DEF IInv, Shaped, Shape
<1>7. CASE Counted(key)
  <2>1. counter' = [counter EXCEPT ![key].n = IF @ < MaxCount THEN @ + 1 ELSE @]
    BY <1>1, <1>7 DEF INCR
  <2>2. /\ DOMAIN counter' = DOMAIN counter /\ counter' = [k \in DOMAIN counter' |-> counter'[k]]
        /\ \A k \in DOMAIN counter :
             DOMAIN counter'[k] = {"n", "ttl"} /\ counter'[k].ttl = counter[k].ttl
    BY <1>7, <2>1 DEF IInv, CountersTyped, Counted
  <2>3. CountersTyped'
    BY <2>2 DEF CountersTyped
  <2>4. CountersEnd'
    BY <1>1, <1>5, <2>2 DEF IInv, CountersEnd, Others, At, firstAttempt
  <2> QED BY <1>1, <1>5, <2>3, <2>4, Combined DEF session
<1>8. CASE ~Counted(key)
  <2>1. counter' = [k \in DOMAIN counter \cup {key} |->
                     IF k = key THEN [n |-> 1, ttl |-> FALSE] ELSE counter[k]]
    BY <1>1, <1>8 DEF INCR
  <2>2. CountersTyped'
    BY <2>1 DEF IInv, CountersTyped
  <2>3. pc'[s] = "rate.expire" /\ call'[s].key = key /\ call'[s].attempts = 1
    BY <1>3, <1>6, <2>1
  <2>4. CountersEnd'
    BY <1>1, <1>5, <2>1, <2>3 DEF IInv, CountersEnd, Others, At, firstAttempt
  <2> QED BY <1>1, <1>5, <2>2, <2>4, Combined DEF session
<1> QED BY <1>7, <1>8

LEMMA SetWindowOK ==
  ASSUME IInv, NEW s \in Session, setWindow(s)
  PROVE  IInv'
<1> DEFINE key == call[s].key
<1>1. /\ UNCHANGED <<session, stranded>> /\ pc[s] = "rate.expire"
      /\ Goto(s, "rate.ttl", call[s])
  BY DEF setWindow, expireAttempts, At
<1>2. Sound(call[s]) /\ Authorized(call[s])
  BY <1>1, SoundCall DEF IInv, RequestOK, Admitted
<1>3. Shaped' /\ RequestsOK' /\ Others(s)
  BY <1>1, <1>2, OnwardOK DEF Admitted
<1>4. CASE firstAttempt(s) /\ Counted(key)
  <2>1. counter' = [counter EXCEPT ![key].ttl = TRUE]
    BY <1>4 DEF setWindow, expireAttempts
  <2>2. /\ DOMAIN counter' = DOMAIN counter /\ counter' = [k \in DOMAIN counter' |-> counter'[k]]
        /\ \A k \in DOMAIN counter : DOMAIN counter'[k] = {"n", "ttl"}
        /\ counter'[key].ttl
        /\ \A k \in DOMAIN counter \ {key} : counter'[k] = counter[k]
    BY <1>4, <2>1 DEF IInv, CountersTyped, Counted
  <2>3. CountersTyped'
    BY <2>2 DEF CountersTyped
  <2>4. CountersEnd'
    BY <1>1, <1>3, <2>2 DEF IInv, CountersEnd, Others, At, firstAttempt
  <2> QED BY <1>1, <1>3, <2>3, <2>4, Combined DEF session
<1>5. CASE ~(firstAttempt(s) /\ Counted(key))
  <2>1. UNCHANGED counter
    BY <1>5 DEF setWindow, expireAttempts
  <2>2. CountersTyped' /\ CountersEnd'
    BY <1>1, <1>3, <1>5, <2>1 DEF IInv, CountersTyped, CountersEnd, Others, At, firstAttempt, Counted
  <2> QED BY <1>1, <1>3, <2>2, Combined DEF session
<1> QED BY <1>4, <1>5

LEMMA ReadWindowOK ==
  ASSUME IInv, NEW s \in Session, readWindow(s)
  PROVE  IInv'
<1>1. UNCHANGED limiter /\ UNCHANGED session /\ pc[s] = "rate.ttl"
  BY DEF readWindow, At
<1>2. Sound(call[s]) /\ Authorized(call[s])
  BY <1>1, SoundCall DEF IInv, RequestOK, Admitted
<1>3. Shaped' /\ RequestsOK' /\ Others(s)
  <2>1. CASE exceeded(s)
    <3>1. \E a : Send(s, call[s], a)
      BY <2>1 DEF readWindow, Refuse
    <3> QED BY <1>1, <1>2, <3>1, SendOK DEF Sound
  <2>2. CASE ~exceeded(s)
    BY <1>1, <1>2, <2>2, EnterOK DEF readWindow
  <2> QED BY <2>1, <2>2
<1> QED BY <1>1, <1>3, CountersKept, Combined DEF session

LEMMA FailOpenOK ==
  ASSUME IInv, NEW s \in Session, failOpen(s)
  PROVE  IInv'
<1>1. /\ UNCHANGED <<counter, session>> /\ stranded' = Stranding(s)
      /\ pc[s] \in {"rate.incr", "rate.expire", "rate.ttl"} /\ Enter(s, call[s])
  BY DEF failOpen
<1>2. Sound(call[s]) /\ Authorized(call[s])
  BY <1>1, SoundCall DEF IInv, RequestOK, Admitted
<1>3. Shaped' /\ RequestsOK' /\ Others(s)
  BY <1>1, <1>2, EnterOK
<1>4. CountersTyped' /\ CountersEnd'
  BY <1>1, <1>3 DEF IInv, CountersTyped, CountersEnd, Others, At, firstAttempt, Stranding
<1> QED BY <1>1, <1>3, <1>4, Combined DEF session

LEMMA StopOK ==
  ASSUME IInv, stop
  PROVE  IInv'
<1>1. /\ UNCHANGED <<counter, session>>
      /\ stranded' = stranded \cup UNION {Stranding(s) : s \in Session}
      /\ pc' = [s \in Session |-> "idle"] /\ call' = [s \in Session |-> NULL]
  BY DEF stop
<1>2. Shaped' /\ RequestsOK'
  BY <1>1 DEF Shaped, RequestsOK, RequestOK, Labels
<1>3. CountersTyped'
  BY <1>1 DEF IInv, CountersTyped
<1>4. CountersEnd'
  <2> SUFFICES ASSUME NEW k \in DOMAIN counter, ~counter[k].ttl PROVE k \in stranded'
    BY <1>1 DEF CountersEnd
  <2>1. CASE k \in stranded
    BY <1>1, <2>1
  <2>2. ASSUME NEW s \in Session, At(s, "rate.expire"), call[s].key = k, firstAttempt(s)
        PROVE  k \in stranded'
    BY <1>1, <2>2 DEF Stranding
  <2> QED BY <2>1, <2>2 DEF IInv, CountersEnd
<1> QED BY <1>1, <1>2, <1>3, <1>4, Combined DEF session

(* The session or the permissions change: requests have seen more.         *)
LEMMA WitnessedOK ==
  ASSUME IInv, Witnessed, UNCHANGED <<limiter, target>>
  PROVE  IInv'
<1>1. Shaped'
  BY DEF Witnessed, IInv, Shaped
<1>2. ASSUME NEW s \in Session
      PROVE  /\ RequestOK(s)'
             /\ pc'[s] # "idle" => call'[s].key = call[s].key /\ call'[s].attempts = call[s].attempts
  <2>1. CASE pc[s] = "idle"
    BY <2>1 DEF Witnessed, RequestOK
  <2>2. CASE pc[s] # "idle"
    <3> DEFINE c == call[s]
               d == [c EXCEPT !.seen = @ \cup {Now'}]
    <3>1. pc'[s] = pc[s] /\ call'[s] = d
      BY <2>2 DEF Witnessed, At, Now
    <3>2. RequestOK(s) /\ DOMAIN c = Fields
      BY <2>2 DEF IInv, RequestOK
    <3>3. /\ DOMAIN d = Fields /\ d.seen = c.seen \cup {Now'}
          /\ d.user = c.user /\ d.scopes = c.scopes /\ d.route = c.route
          /\ d.key = c.key /\ d.attempts = c.attempts
      BY <3>2 DEF Fields
    <3>4. /\ Known(c) => Known(d)
          /\ SessionSeen(c) => SessionSeen(d)
          /\ Authorized(c) => Authorized(d)
          /\ ScopesHeld(c) => ScopesHeld(d)
      BY <3>3 DEF Known, SessionSeen, Authorized, ScopesHeld
    <3>5. RequestOK(s)'
      BY <2>2, <3>1, <3>2, <3>3, <3>4 DEF RequestOK, Known, SessionSeen, Authorized, ScopesHeld
    <3> QED BY <3>1, <3>3, <3>5
  <2> QED BY <2>1, <2>2
<1>3. CountersTyped'
  BY DEF IInv, CountersTyped, limiter
<1>4. CountersEnd'
  BY <1>2 DEF IInv, CountersEnd, limiter, Witnessed, At, firstAttempt
<1> QED BY <1>1, <1>2, <1>3, <1>4, Combined DEF RequestsOK

LEMMA WindowPassesOK ==
  ASSUME IInv, NEW key \in DOMAIN counter, windowPasses(key)
  PROVE  IInv'
<1>1. /\ UNCHANGED <<requests, session>> /\ stranded' = stranded \ {key}
      /\ counter' = [k \in DOMAIN counter \ {key} |-> counter[k]]
  BY DEF windowPasses, windowEnds
<1>2. Shaped' /\ RequestsOK'
  BY <1>1 DEF IInv, Shaped, RequestsOK, RequestOK, Known, SessionSeen, Authorized, ScopesHeld,
              requests, session, Now
<1>3. CountersTyped' /\ CountersEnd'
  BY <1>1 DEF IInv, CountersTyped, CountersEnd, requests, At, firstAttempt
<1> QED BY <1>1, <1>2, <1>3, Combined DEF session

-----------------------------------------------------------------------------
LEMMA InitHolds == Init => IInv
<1> SUFFICES ASSUME Init PROVE IInv
  OBVIOUS
<1>1. Shaped /\ \A s \in Session : RequestOK(s)
  BY DEF Init, NoRequests, Shaped, RequestOK, Labels
<1>2. CountersTyped /\ CountersEnd
  BY DEF Init, CountersTyped, CountersEnd
<1>3. target.routes \subseteq DOMAIN Routing
  BY DEF Init, RoutesAt
<1> QED BY <1>1, <1>2, <1>3, RoutingGood DEF IInv

LEMMA NextHolds == IInv /\ [Next]_vars => IInv'
<1> SUFFICES ASSUME IInv, [Next]_vars PROVE IInv'
  OBVIOUS
<1>1. ASSUME NEW s \in Session, Step(s) PROVE IInv'
  BY <1>1, GetTokenOK, GetPermissionsOK, CountAttemptOK, SetWindowOK, ReadWindowOK, FailOpenOK,
     RejectOK, ServeOK, RespondOK DEF Step
<1>2. CASE stop
  BY <1>2, StopOK
<1>3. CASE sessionChanges \/ \E held \in Holdings(target.routes) : permissionsChange(held)
  BY <1>3, WitnessedOK DEF sessionChanges, permissionsChange
<1>4. CASE UNCHANGED vars
  <2>1. UNCHANGED <<pc, call, counter, stranded, target, token, perms>>
    BY <1>4 DEF vars, requests, limiter, session
  <2>2. Shaped' /\ RequestsOK'
    BY <2>1 DEF IInv, Shaped, RequestsOK, RequestOK, Known, SessionSeen, Authorized, ScopesHeld, Now
  <2>3. CountersTyped' /\ CountersEnd'
    BY <2>1 DEF IInv, CountersTyped, CountersEnd, At, firstAttempt
  <2> QED BY <2>1, <2>2, <2>3, Combined
<1> QED BY <1>1, <1>2, <1>3, <1>4, ArriveOK, WindowPassesOK DEF Next

(* Whatever session, permissions and routes: the inductive invariant.      *)
THEOREM Invariance == Spec => []IInv
BY InitHolds, NextHolds, PTL DEF Spec

LEMMA AuthorizedOK == IInv => HandlerAuthorized
<1> SUFFICES ASSUME IInv, NEW s \in Session, HandlerReached(s)
             PROVE  Authorized(call[s]) /\ ScopesHeld(call[s])
  BY DEF HandlerAuthorized, Authorized, SessionSeen, ScopesHeld, Guards, Route
<1> QED BY DEF IInv, RequestOK, HandlerReached, At, Admitted, ScopesHeld

(* JwtAuthGuard, PermissionGuard, the policies: no handler is reached, and *)
(* no row beyond the organization, without the rights seen since the       *)
(* request arrived.                                                        *)
THEOREM HandlersAlwaysAuthorized == Spec => []HandlerAuthorized
BY Invariance, AuthorizedOK, PTL

LEMMA CountersOK == IInv => CountersEnd
BY DEF IInv

(* RateLimitGuard: no counter of attempts stays for ever, but those whose  *)
(* request ended between INCR and EXPIRE.                                  *)
THEOREM CountersAlwaysEnd == Spec => []CountersEnd
BY Invariance, CountersOK, PTL

-----------------------------------------------------------------------------
(* The second invariant. *)

Courses == \A s \in Session : CourseOK(s)

(* A request on its way: what is answered, and by whom, is settled.        *)
OnCourse(c) ==
  DOMAIN c = Fields /\ c.scopes = {} /\ RightRoute(c) /\ c.headers = OwnHeaders(c.method)

LEMMA CourseStep ==
  ASSUME Courses, NEW s \in Session, Others(s), UNCHANGED target, CourseOK(s)'
  PROVE  Courses'
<1>1. ASSUME NEW t \in Session \ {s} PROVE CourseOK(t)'
  <2>1. CourseOK(t) /\ pc'[t] = pc[t] /\ call'[t] = call[t]
    BY DEF Courses, Others
  <2> QED BY <2>1 DEF CourseOK, RightRoute, OwnHeaders, PathSeen, AnswerFits, ScopesGiven,
                      Headed, AnswerHeaded
<1> QED BY <1>1 DEF Courses

LEMMA CourseSent ==
  ASSUME IInv, Courses, NEW s \in Session, NEW c, NEW a, UNCHANGED target,
         DOMAIN c = Fields, AnswerFits(c, a), ScopesGiven(c), AnswerHeaded(c), Send(s, c, a)
  PROVE  Courses'
<1> DEFINE d == [c EXCEPT !.answer = a, !.attempts = 0, !.key = NULL]
<1>1. Shape' /\ pc'[s] = "answered" /\ call'[s] = d /\ Others(s)
  BY GotoEffect DEF Send, IInv, Shaped, Shape
<1>2. /\ d.answer = a /\ d.route = c.route /\ d.method = c.method
      /\ d.user = c.user /\ d.scopes = c.scopes /\ d.headers = c.headers /\ d.seen = c.seen
  BY DEF Fields
<1> HIDE DEF d
<1>3. AnswerFits(d, a) /\ ScopesGiven(d) /\ AnswerHeaded(d)
  <2>1. AnswerFits(d, a) /\ ScopesGiven(d)
    BY <1>2 DEF AnswerFits, ScopesGiven, RightRoute
  <2>2. (Headed(c) <=> Headed(d)) /\ (Authorized(c) <=> Authorized(d))
        /\ (RightRoute(c) <=> RightRoute(d))
    BY <1>2 DEF Headed, Authorized, SessionSeen, RightRoute
  <2> QED BY <1>2, <2>1, <2>2 DEF AnswerHeaded
<1>4. CourseOK(s)'
  BY <1>1, <1>2, <1>3 DEF CourseOK, AnswerFits, ScopesGiven, RightRoute, AnswerHeaded, Headed,
                          OwnHeaders, PathSeen
<1> QED BY <1>1, <1>4, CourseStep

LEMMA CourseRefused ==
  ASSUME IInv, Courses, NEW s \in Session, NEW c, NEW status, UNCHANGED target,
         DOMAIN c = Fields, c.scopes = {}, AnswerHeaded(c), status # 200, Refuse(s, c, status)
  PROVE  Courses'
<1>1. AnswerFits(c, Answer(status, NULL)) /\ ScopesGiven(c)
  BY DEF AnswerFits, ScopesGiven, Answer
<1> QED BY <1>1, CourseSent DEF Refuse

LEMMA CourseOnward ==
  ASSUME IInv, Courses, NEW s \in Session, NEW c, NEW l, UNCHANGED target,
         OnCourse(c), l \notin {"idle", "handler", "answered"}, Goto(s, l, c)
  PROVE  Courses'
<1>1. Shape' /\ pc'[s] = l /\ call'[s] = c /\ Others(s)
  BY GotoEffect DEF IInv, Shaped, Shape
<1>2. CourseOK(s)'
  BY <1>1 DEF CourseOK, OnCourse, RightRoute, OwnHeaders, PathSeen
<1> QED BY <1>1, <1>2, CourseStep

LEMMA CourseEntered ==
  ASSUME IInv, Courses, NEW s \in Session, NEW c, UNCHANGED target, OnCourse(c), Enter(s, c)
  PROVE  Courses'
<1> DEFINE d == [c EXCEPT !.headers = setHeaders(@, Routing[c.route].handler)]
<1>1. Shape' /\ pc'[s] = "handler" /\ call'[s] = d /\ Others(s)
  BY GotoEffect DEF Enter, IInv, Shaped, Shape
<1>2. /\ d.route = c.route /\ d.method = c.method
      /\ d.headers = setHeaders(c.headers, Routing[c.route].handler)
  BY DEF OnCourse, Fields
<1> HIDE DEF d
<1>3. RightRoute(d) /\ Headed(d)
  BY <1>2 DEF OnCourse, RightRoute, Headed
<1>4. CourseOK(s)'
  BY <1>1, <1>3 DEF CourseOK, RightRoute, Headed, OwnHeaders, PathSeen
<1> QED BY <1>1, <1>4, CourseStep

LEMMA CourseAdmitted ==
  ASSUME IInv, Courses, NEW s \in Session, NEW c, UNCHANGED target, OnCourse(c), Admit(s, c)
  PROVE  Courses'
<1>1. CASE Refuse(s, c, 403)
  BY <1>1, CourseRefused DEF OnCourse, AnswerHeaded
<1>2. CASE Goto(s, "rate.incr", c)
  BY <1>2, CourseOnward
<1>3. CASE Enter(s, c)
  BY <1>3, CourseEntered
<1> QED BY <1>1, <1>2, <1>3 DEF Admit

LEMMA CourseUnauthenticated ==
  ASSUME IInv, Courses, NEW s \in Session, NEW c, NEW status, UNCHANGED target,
         OnCourse(c), status # 200, Unauthenticated(s, c, status)
  PROVE  Courses'
BY CourseRefused, CourseAdmitted DEF Unauthenticated, OnCourse, AnswerHeaded

LEMMA CallOnCourse ==
  ASSUME IInv, Courses, NEW s \in Session, pc[s] \notin {"idle", "handler", "answered"}
  PROVE  OnCourse(call[s])
BY SoundCall DEF Courses, CourseOK, OnCourse, Sound

LEMMA CallInHandler ==
  ASSUME IInv, Courses, NEW s \in Session, pc[s] = "handler"
  PROVE  LET c == call[s] IN
         /\ DOMAIN c = Fields /\ c.scopes = {} /\ RightRoute(c) /\ Headed(c) /\ Authorized(c)
         /\ c.route \in DOMAIN Routing
BY SoundCall DEF Courses, CourseOK, Sound, IInv, RequestOK, Admitted

(* LoggingInterceptor, ResponseInterceptor, the filter: what goes out by   *)
(* them has the declared envelope and is logged as it is sent.             *)
LEMMA InterceptedFits ==
  ASSUME NEW c, c.route \in DOMAIN Routing,
         NEW outcome \in {200, 400, 403, 404, 422, OtherError}, NEW loggable,
         outcome = 200 => Routing[c.route].handler.returns # "nothing"
  PROVE  AnswerFits(c, intercepted(Routing[c.route], target.path, outcome, loggable))
<1> DEFINE route == Routing[c.route]
           e == envelope(route.handler.returns)
           a == intercepted(route, target.path, outcome, loggable)
<1>1. \/ conforms(e, route.endpoint.declares) \/ route.handler.name = "markAllAsRead"
      \/ route.handler.returns = "nothing"
  BY RoutingArranged DEF RoutesWellServed, WellServed
<1>2. ASSUME NEW level \in {"success", "error"}, NEW status \in Status
      PROVE  LET log == Log(target.path, level, status) IN
             /\ log # NULL => log.level = level /\ log.status = status
             /\ target.path[1] # "health" => log # NULL
  BY NullIsNoLog DEF Log, shouldSkipLogging
<1>3. CASE outcome = OtherError
  <2>1. a = Answer(500, Log(target.path, "error", 200))
    BY <1>3 DEF intercepted, OtherError, Status
  <2> QED BY <1>2, <2>1 DEF AnswerFits, Answer, Status
<1>4. CASE outcome \in {400, 403, 404, 422}
  <2>1. a = Answer(outcome, Log(target.path, "error", outcome))
    BY <1>4 DEF intercepted, OtherError, Status
  <2> QED BY <1>2, <1>4, <2>1 DEF AnswerFits, Answer, Status
<1>5. CASE outcome = 200 /\ ((e.data = "file" /\ ~loggable) \/ ~conforms(e, route.endpoint.declares))
  <2>1. \/ a = Answer(500, Log(target.path, "error", 200))
        \/ ~conforms(e, route.endpoint.declares) /\ a = Answer(500, Log(target.path, "success", 200))
    BY <1>5 DEF intercepted, OtherError, Status
  <2>2. route.handler.returns # "nothing"
    BY <1>5
  <2> QED BY <1>1, <1>2, <2>1, <2>2 DEF AnswerFits, Answer, Status
<1>6. CASE outcome = 200 /\ ~(e.data = "file" /\ ~loggable) /\ conforms(e, route.endpoint.declares)
  <2>1. a = [Answer(200, Log(target.path, "success", 200)) EXCEPT !.envelope = e]
    BY <1>6 DEF intercepted, OtherError, Status
  <2>2. a.status = 200 /\ a.log = Log(target.path, "success", 200) /\ a.envelope = e
    BY <2>1 DEF Answer
  <2> QED BY <1>2, <1>6, <2>2 DEF AnswerFits, Status
<1> QED BY <1>3, <1>4, <1>5, <1>6

-----------------------------------------------------------------------------
(* The cache. *)

LEMMA CacheKept ==
  ASSUME CacheOK, NEW method, NEW path, NEW policy, getPolicyForRoute(method, path, policy)
  PROVE  CacheOK' /\ policy = PolicyOf(method, path)
<1> DEFINE key == <<method, path>>
<1>1. CASE key \in DOMAIN policyCache
  <2>1. policy = policyCache[key] /\ policyCache' = policyCache
    BY <1>1 DEF getPolicyForRoute, cacheKey
  <2>2. policyCache[key] = PolicyOf(method, path)
    BY <1>1 DEF CacheOK
  <2> QED BY <2>1, <2>2 DEF CacheOK
<1>2. CASE key \notin DOMAIN policyCache
  <2>1. PICK kept \in SUBSET DOMAIN policyCache :
          /\ IF Cardinality(DOMAIN policyCache) < CacheSize
               THEN kept = DOMAIN policyCache
               ELSE Cardinality(kept) = CacheSize - 1
          /\ policyCache' = [k \in kept \cup {key} |-> IF k = key THEN policy ELSE policyCache[k]]
    BY <1>2 DEF getPolicyForRoute, cacheKey
  <2>2. policy = PolicyOf(method, path)
    BY <1>2 DEF getPolicyForRoute, cacheKey
  <2>3. IsFiniteSet(kept) /\ Cardinality(kept) \in Nat /\ Cardinality(DOMAIN policyCache) \in Nat
    BY FS_Subset, FS_CardinalityType DEF CacheOK
  <2>4. IsFiniteSet(kept \cup {key}) /\ Cardinality(kept \cup {key}) = Cardinality(kept) + 1
    BY <1>2, <2>1, <2>3, FS_AddElement
  <2>5. Cardinality(kept) + 1 <= CacheSize
    BY <2>1, <2>3, CacheSizeAssumption
  <2>6. \A k \in DOMAIN policyCache' : policyCache'[k] = PolicyOf(k[1], k[2])
    BY <2>1, <2>2 DEF CacheOK
  <2>7. DOMAIN policyCache' = kept \cup {key}
    BY <2>1
  <2>8. CacheOK'
    BY <2>4, <2>5, <2>6, <2>7 DEF CacheOK
  <2> QED BY <2>2, <2>8
<1> QED BY <1>1, <1>2

LEMMA CourseCombined ==
  ASSUME CourseInv, UNCHANGED <<target, policyCache>>, Courses'
  PROVE  CourseInv'
BY DEF CourseInv, Courses, TargetOK, CacheOK

-----------------------------------------------------------------------------
(* The actions. *)

LEMMA ArriveCourse ==
  ASSUME IInv, CourseInv, NEW s \in Session, NEW method, NEW origin, NEW credentials, NEW email,
         arrive(s, method, origin, credentials, email)
  PROVE  CourseInv'
<1> DEFINE i == Served(method, target.routes)
<1>1. UNCHANGED target /\ Courses
  BY DEF arrive, session, CourseInv, Courses
<1>2. PICK policy, c :
        /\ DOMAIN c = Fields /\ c.scopes = {} /\ c.route = i /\ c.method = method
        /\ c.headers = applyPolicy(applyGlobalHeaders(Production), policy)
        /\ \/ Refuse(s, c, 500) /\ UNCHANGED policyCache /\ policy = defaultPolicy
           \/ /\ getPolicyForRoute(method, PathSeen, policy)
              /\ IF i = 0 THEN Refuse(s, c, 404) ELSE authenticate(s, c, credentials)
  BY DEF arrive, Fields
<1>3. CASE Refuse(s, c, 500) /\ UNCHANGED policyCache /\ policy = defaultPolicy
  <2>1. AnswerHeaded(c)
    BY <1>2, <1>3 DEF AnswerHeaded
  <2> QED BY <1>1, <1>2, <1>3, <2>1, CourseRefused, CourseCombined
<1>4. CASE /\ getPolicyForRoute(method, PathSeen, policy)
           /\ IF i = 0 THEN Refuse(s, c, 404) ELSE authenticate(s, c, credentials)
  <2>1. CacheOK' /\ policy = PolicyOf(method, PathSeen)
    BY <1>4, CacheKept DEF CourseInv
  <2>2. CASE i = 0
    <3>1. AnswerHeaded(c)
      BY <1>2, <2>2 DEF AnswerHeaded
    <3>2. Courses'
      BY <1>1, <1>2, <1>4, <2>2, <3>1, CourseRefused
    <3> QED BY <1>1, <2>1, <3>2 DEF CourseInv, Courses, TargetOK
  <2>3. CASE i # 0
    <3>1. OnCourse(c)
      BY <1>2, <2>1, <2>3 DEF OnCourse, RightRoute, OwnHeaders
    <3>2. Courses'
      BY <1>1, <1>4, <2>3, <3>1, CourseAdmitted, CourseOnward, CourseUnauthenticated DEF authenticate
    <3> QED BY <1>1, <2>1, <3>2 DEF CourseInv, Courses, TargetOK
  <2> QED BY <2>2, <2>3
<1> QED BY <1>2, <1>3, <1>4

LEMMA GetTokenCourse ==
  ASSUME IInv, CourseInv, NEW s \in Session, getToken(s)
  PROVE  CourseInv'
<1>1. UNCHANGED <<target, policyCache>> /\ Courses /\ pc[s] = "token.get"
  BY DEF getToken, At, session, CourseInv, Courses
<1>2. OnCourse(call[s])
  BY <1>1, CallOnCourse
<1> QED BY <1>1, <1>2, CourseOnward, CourseUnauthenticated, CourseCombined DEF getToken

LEMMA GetPermissionsCourse ==
  ASSUME IInv, CourseInv, NEW s \in Session, getPermissions(s)
  PROVE  CourseInv'
<1> DEFINE c == [call[s] EXCEPT !.user = [permissions |-> perms, organization |-> member]]
<1>1. UNCHANGED <<target, policyCache>> /\ Courses /\ pc[s] = "perms.get"
  BY DEF getPermissions, At, session, CourseInv, Courses
<1>2. OnCourse(call[s])
  BY <1>1, CallOnCourse
<1>3. OnCourse(c)
  BY <1>2 DEF OnCourse, Fields, RightRoute
<1> QED BY <1>1, <1>2, <1>3, CourseAdmitted, CourseUnauthenticated, CourseCombined DEF getPermissions

LEMMA CountAttemptCourse ==
  ASSUME IInv, CourseInv, NEW s \in Session, countAttempt(s)
  PROVE  CourseInv'
<1>1. UNCHANGED <<target, policyCache>> /\ Courses /\ pc[s] = "rate.incr"
  BY DEF countAttempt, incrementAttempts, At, session, CourseInv, Courses
<1>2. OnCourse(call[s])
  BY <1>1, CallOnCourse
<1>3. PICK n : Goto(s, "rate.expire", [call[s] EXCEPT !.attempts = n])
  BY DEF countAttempt, incrementAttempts
<1>4. OnCourse([call[s] EXCEPT !.attempts = n])
  BY <1>2 DEF OnCourse, Fields, RightRoute
<1> QED BY <1>1, <1>3, <1>4, CourseOnward, CourseCombined

LEMMA WindowCourse ==
  ASSUME IInv, CourseInv, NEW s \in Session, setWindow(s) \/ readWindow(s) \/ failOpen(s)
  PROVE  CourseInv'
<1>1. /\ UNCHANGED <<target, policyCache>> /\ Courses
      /\ pc[s] \in {"rate.incr", "rate.expire", "rate.ttl"}
  BY DEF setWindow, expireAttempts, readWindow, failOpen, At, session, CourseInv, Courses
<1>2. OnCourse(call[s])
  BY <1>1, CallOnCourse
<1>3. \/ Goto(s, "rate.ttl", call[s]) \/ Enter(s, call[s])
      \/ Refuse(s, call[s], 429)
  BY DEF setWindow, expireAttempts, readWindow, failOpen
<1>4. AnswerHeaded(call[s])
  BY <1>2 DEF OnCourse, AnswerHeaded
<1> QED BY <1>1, <1>2, <1>3, <1>4, CourseOnward, CourseEntered, CourseRefused, CourseCombined
        DEF OnCourse

LEMMA RejectCourse ==
  ASSUME IInv, CourseInv, NEW s \in Session, NEW issues \in {{"unknown"}, {"unknown", "invalid"}},
         reject(s, issues)
  PROVE  CourseInv'
<1> DEFINE c == call[s]
           a == intercepted(Route(s), target.path, validation(issues), TRUE)
<1>1. UNCHANGED <<target, policyCache>> /\ Courses /\ pc[s] = "handler" /\ Send(s, c, a)
  BY DEF reject, At, session, CourseInv, Courses
<1>2. /\ DOMAIN c = Fields /\ c.scopes = {} /\ RightRoute(c) /\ AnswerHeaded(c)
      /\ c.route \in DOMAIN Routing
  BY <1>1, CallInHandler DEF AnswerHeaded
<1>3. validation(issues) \in {400, 422}
  BY DEF validation
<1>4. AnswerFits(c, a)
  <2>1. PICK outcome \in {400, 422} : outcome = validation(issues)
    BY <1>3
  <2>2. ASSUME NEW loggable
        PROVE  AnswerFits(c, intercepted(Routing[c.route], target.path, outcome, loggable))
    BY <1>2, InterceptedFits
  <2>3. AnswerFits(c, intercepted(Routing[c.route], target.path, outcome, TRUE))
    BY <2>2, Zenon
  <2> QED BY <2>1, <2>3 DEF Route
<1>5. ScopesGiven(c)
  BY <1>2 DEF ScopesGiven
<1> QED BY <1>1, <1>2, <1>4, <1>5, CourseSent, CourseCombined

LEMMA ServeCourse ==
  ASSUME IInv, CourseInv, NEW s \in Session, NEW subject \in Subject,
         NEW outcome \in {200, 404, OtherError}, NEW loggable,
         serve(s, subject, outcome, loggable)
  PROVE  CourseInv'
<1> DEFINE scopes == {<<a, scopeOf(call[s].user, a, subject)>> : a \in Route(s).handler.calls}
           c == [call[s] EXCEPT !.scopes = scopes]
<1>1. UNCHANGED <<target, policyCache>> /\ Courses /\ pc[s] = "handler"
  BY DEF serve, At, session, CourseInv, Courses
<1>2. /\ DOMAIN call[s] = Fields /\ RightRoute(call[s]) /\ Headed(call[s])
      /\ Authorized(call[s]) /\ call[s].route \in DOMAIN Routing
  BY <1>1, CallInHandler
<1>3. /\ DOMAIN c = Fields /\ c.scopes = scopes /\ c.route = call[s].route
      /\ c.user = call[s].user /\ c.method = call[s].method
      /\ c.headers = call[s].headers /\ c.seen = call[s].seen
  BY <1>2 DEF Fields
<1>4. PICK result \in {200, 400, 403, 404, OtherError} :
        /\ Send(s, c, intercepted(Route(s), target.path, result, loggable))
        /\ result = 200 => Routing[c.route].handler.returns # "nothing"
  <2> DEFINE refused == {d \in Route(s).handler.calls : <<d, Refused>> \in scopes}
             answered == IF refused # {} THEN refusal(refused) ELSE outcome
  <2>1. /\ Send(s, c, intercepted(Route(s), target.path, answered, loggable))
        /\ outcome = OtherError \/ Route(s).handler.returns # "nothing"
    BY DEF serve
  <2>2. answered \in {400, 403} \/ answered = outcome
    BY DEF refusal
  <2>3. Route(s) = Routing[c.route]
    BY <1>3 DEF Route
  <2> HIDE DEF refused, answered, c, scopes
  <2>4. answered \in {200, 400, 403, 404, OtherError}
    BY <2>2, SMT
  <2>5. answered = 200 => Routing[c.route].handler.returns # "nothing"
    BY <2>1, <2>2, <2>3 DEF OtherError
  <2> QED BY <2>1, <2>4, <2>5
<1>5. AnswerFits(c, intercepted(Route(s), target.path, result, loggable))
  <2> HIDE DEF c
  <2>1. AnswerFits(c, intercepted(Routing[c.route], target.path, result, loggable))
    BY <1>2, <1>3, <1>4, InterceptedFits
  <2> QED BY <1>3, <2>1 DEF Route
<1>6. ScopesGiven(c)
  <2>1. RightRoute(c)
    BY <1>2, <1>3 DEF RightRoute
  <2>2. \A e \in scopes : /\ e[1] \in Routing[c.route].handler.calls
                          /\ e[2] = scopeOf(c.user, e[1], subject)
    BY <1>3 DEF Route
  <2> QED BY <1>3, <2>1, <2>2 DEF ScopesGiven
<1>7. AnswerHeaded(c)
  <2> HIDE DEF c
  <2> QED BY <1>2, <1>3 DEF AnswerHeaded, Headed, RightRoute, Authorized, SessionSeen
<1> HIDE DEF c
<1> QED BY <1>1, <1>3, <1>4, <1>5, <1>6, <1>7, CourseSent, CourseCombined

LEMMA RespondCourse ==
  ASSUME IInv, CourseInv, NEW s \in Session, respond(s)
  PROVE  CourseInv'
<1>1. UNCHANGED <<target, policyCache>> /\ Courses
  BY DEF respond, session, CourseInv, Courses
<1>2. Shape' /\ pc'[s] = "idle" /\ Others(s)
  BY ReturnEffect DEF respond, IInv, Shaped, Shape
<1>3. CourseOK(s)'
  BY <1>2 DEF CourseOK
<1> QED BY <1>1, <1>2, <1>3, CourseStep, CourseCombined

LEMMA StopCourse ==
  ASSUME IInv, CourseInv, stop
  PROVE  CourseInv'
<1>1. UNCHANGED target /\ pc' = [s \in Session |-> "idle"] /\ policyCache' = <<>>
  BY DEF stop, session
<1>2. CacheOK'
  BY <1>1, FS_EmptySet, CacheSizeAssumption DEF CacheOK
<1> QED BY <1>1, <1>2 DEF CourseInv, CourseOK, TargetOK

LEMMA WitnessedCourse ==
  ASSUME IInv, CourseInv, Witnessed, UNCHANGED <<target, policyCache>>
  PROVE  CourseInv'
<1>1. ASSUME NEW s \in Session PROVE CourseOK(s)'
  <2>1. CASE pc[s] = "idle"
    BY <2>1 DEF Witnessed, CourseOK
  <2>2. CASE pc[s] # "idle"
    <3> DEFINE c == call[s]
               d == [c EXCEPT !.seen = @ \cup {Now'}]
    <3>1. pc'[s] = pc[s] /\ call'[s] = d /\ CourseOK(s) /\ DOMAIN c = Fields
      BY <2>2 DEF Witnessed, At, Now, IInv, RequestOK, CourseInv
    <3>2. /\ d.user = c.user /\ d.scopes = c.scopes /\ d.route = c.route /\ d.method = c.method
          /\ d.headers = c.headers /\ d.answer = c.answer /\ c.seen \subseteq d.seen
      BY <3>1 DEF Fields
    <3> HIDE DEF d
    <3>3. AnswerHeaded(c) => AnswerHeaded(d)
      BY <3>2 DEF AnswerHeaded, Headed, RightRoute, Authorized, SessionSeen
    <3> QED BY <3>1, <3>2, <3>3 DEF CourseOK, RightRoute, OwnHeaders, PathSeen, AnswerFits,
                                    ScopesGiven, Headed, AnswerHeaded
  <2> QED BY <2>1, <2>2
<1> QED BY <1>1, CourseCombined DEF Courses

-----------------------------------------------------------------------------
LEMMA CourseInit == Init => CourseInv
<1> SUFFICES ASSUME Init PROVE CourseInv
  OBVIOUS
<1>1. TargetOK /\ \A s \in Session : CourseOK(s)
  BY DEF Init, NoRequests, TargetOK, CourseOK
<1>2. CacheOK
  BY FS_EmptySet, CacheSizeAssumption DEF Init, CacheOK
<1> QED BY <1>1, <1>2 DEF CourseInv

LEMMA CourseNext == IInv /\ CourseInv /\ [Next]_vars => CourseInv'
<1> SUFFICES ASSUME IInv, CourseInv, [Next]_vars PROVE CourseInv'
  OBVIOUS
<1>1. ASSUME NEW s \in Session, Step(s) PROVE CourseInv'
  BY <1>1, GetTokenCourse, GetPermissionsCourse, CountAttemptCourse, WindowCourse, RejectCourse,
     ServeCourse, RespondCourse DEF Step
<1>2. CASE sessionChanges \/ \E held \in Holdings(target.routes) : permissionsChange(held)
  BY <1>2, WitnessedCourse DEF sessionChanges, permissionsChange
<1>3. CASE UNCHANGED vars \/ \E key \in DOMAIN counter : windowPasses(key)
  <2>1. UNCHANGED <<pc, call, target, policyCache>>
    BY <1>3 DEF vars, requests, session, windowPasses, windowEnds
  <2>2. Courses'
    BY <2>1 DEF CourseInv, Courses, CourseOK, RightRoute, OwnHeaders, PathSeen, AnswerFits,
                ScopesGiven, Headed, AnswerHeaded
  <2> QED BY <2>1, <2>2, CourseCombined
<1> QED BY <1>1, <1>2, <1>3, ArriveCourse, StopCourse DEF Next

(* Whatever the paths asked for, the cache and the users: the second       *)
(* invariant.                                                              *)
THEOREM CourseInvariance == Spec => []CourseInv
BY Invariance, InitHolds, NextHolds, CourseInit, CourseNext, PTL DEF Spec

-----------------------------------------------------------------------------
(* What the second invariant gives. *)

LEMMA MatchesAnswers == CourseInv => AnswerMatches
BY DEF CourseInv, CourseOK, AnswerMatches, AnswerFits, At, Route

(* ResponseInterceptor, LoggingInterceptor, GlobalExceptionFilter: what is *)
(* sent is what was declared, and what is logged of it is what is sent.    *)
THEOREM AnswersAlwaysMatch == Spec => []AnswerMatches
BY CourseInvariance, MatchesAnswers, PTL

(* The path asked for. *)
PathLike(p) == (\E S : p \in Seq(S)) /\ Len(p) > 0 /\ (p[1] = "auth" => Len(p) > 1)

LEMMA ConcreteLike ==
  ASSUME NEW i \in DOMAIN Routing
  PROVE  PathLike(Concrete(Routing[i].handler.path))
<1> DEFINE q == Routing[i].handler.path
           p == Concrete(q)
           n == Len(q)
           S == {p[k] : k \in 1..n}
<1>1. /\ n \in Nat \ {0} /\ DOMAIN q = 1..n
      /\ q[1] # Param /\ (q[1] = "auth" => n > 1)
  BY RoutingArranged DEF RoutesWellServed, WellServed
<1> HIDE DEF q, n
<1>2. p = [k \in 1..n |-> IF q[k] = Param THEN "id" ELSE q[k]]
  BY <1>1 DEF Concrete
<1>3. p \in [1..n -> S]
  BY <1>2
<1>4. p[1] = q[1]
  BY <1>1, <1>2
<1> HIDE DEF p, S
<1>5. p \in Seq(S) /\ Len(p) = n
  BY <1>1, <1>3, SeqDef
<1>6. PathLike(p)
  BY <1>1, <1>4, <1>5 DEF PathLike
<1> QED BY <1>6 DEF p, q

LEMMA PathAsked ==
  ASSUME IInv, CourseInv
  PROVE  target.routes = RoutesAt(target.path) /\ PathLike(target.path)
<1>1. PICK p \in Paths, b \in BOOLEAN :
        target = [path |-> p, routes |-> RoutesAt(p), stripped |-> b]
  BY DEF CourseInv, TargetOK
<1>2. PathLike(<<"unknown">>) /\ PathLike(<<"auth", "register">>)
  <2>1. <<"unknown">> \in Seq({"unknown"}) /\ <<"auth", "register">> \in Seq({"auth", "register"})
    OBVIOUS
  <2>2. /\ Len(<<"unknown">>) > 0 /\ <<"unknown">>[1] # "auth"
        /\ Len(<<"auth", "register">>) > 0 /\ Len(<<"auth", "register">>) > 1
    OBVIOUS
  <2> QED BY <2>1, <2>2, Zenon DEF PathLike
<1> QED BY <1>1, <1>2, ConcreteLike DEF Paths

(* Two routes of a method that match the path overlap.                     *)
LEMMA MatchingOverlap ==
  ASSUME NEW path, DOMAIN path = 1..Len(path), NEW q \in DOMAIN Routing, NEW r \in DOMAIN Routing,
         Matches(Routing[q], path), Matches(Routing[r], path),
         Routing[q].handler.method = Routing[r].handler.method
  PROVE  Overlap(Routing[q], Routing[r])
<1>1. /\ DOMAIN Routing[q].handler.path = 1..Len(path)
      /\ Len(Routing[q].handler.path) = Len(Routing[r].handler.path)
  BY RoutingArranged DEF RoutesWellServed, WellServed, Matches
<1> QED BY <1>1 DEF Matches, Overlap

LEMMA LiteralsOrdered ==
  ASSUME NEW q, NEW r, WellServed(q), WellServed(r), Overlap(q, r), Precedes(q, r)
  PROVE  Literals(r) <= Literals(q)
<1> DEFINE L(t) == {i \in DOMAIN t.handler.path : t.handler.path[i] # Param}
<1>1. L(r) \subseteq L(q)
  BY DEF Overlap, Precedes, WellServed
<1>2. Len(q.handler.path) \in Nat /\ DOMAIN q.handler.path = 1..Len(q.handler.path)
  BY DEF WellServed
<1>3. IsFiniteSet(L(q))
  <2>1. IsFiniteSet(1..Len(q.handler.path))
    BY <1>2, FS_Interval
  <2> QED BY <1>2, <2>1, FS_Subset
<1> QED BY <1>1, <1>3, FS_Subset DEF Literals

LEMMA RightHandlers == IInv /\ CourseInv => RightHandler
<1> SUFFICES ASSUME IInv, CourseInv, NEW s \in Session, HandlerReached(s),
                    NEW i \in target.routes, Routing[i].handler.method = call[s].method
             PROVE  Literals(Routing[i]) <= Literals(Route(s))
  BY DEF RightHandler
<1> DEFINE r == call[s].route
<1>1. r # 0 /\ r = Served(call[s].method, target.routes)
  BY DEF HandlerReached, At, CourseInv, CourseOK, ScopesGiven, RightRoute
<1>2. target.routes \subseteq DOMAIN Routing
  BY DEF IInv
<1>3. /\ r \in DOMAIN Routing /\ r \in target.routes
      /\ Routing[r].handler.method = call[s].method /\ r <= i
  BY <1>1, <1>2, FirstServes
<1>4. Overlap(Routing[r], Routing[i])
  BY <1>2, <1>3, PathAsked, MatchingOverlap DEF RoutesAt, PathLike
<1>5. Precedes(Routing[r], Routing[i])
  <2>1. CASE r = i
    BY <2>1 DEF Precedes
  <2>2. CASE r # i
    BY <1>2, <1>3, <2>2, RoutingArranged, RoutingGood DEF RoutesOrdered
  <2> QED BY <2>1, <2>2
<1> QED BY <1>2, <1>3, <1>4, <1>5, LiteralsOrdered, RoutingArranged DEF RoutesWellServed, Route

(* The router: of the handlers a path matches, the most literal serves.    *)
THEOREM HandlerAlwaysRight == Spec => []RightHandler
BY Invariance, CourseInvariance, RightHandlers, PTL

-----------------------------------------------------------------------------
(* The headers. *)

(* The first rule that matches, 0 if none does.                            *)
LEMMA FirstRule ==
  ASSUME NEW rules, Len(rules) \in Nat, NEW i, i = SelectInSeq(rules, LAMBDA r : r.matches)
  PROVE  \/ i = 0 /\ \A j \in 1..Len(rules) : ~rules[j].matches
         \/ /\ i \in 1..Len(rules) /\ rules[i].matches
            /\ \A j \in 1..Len(rules) : rules[j].matches => i <= j
<1> DEFINE I == {j \in 1..Len(rules) : rules[j].matches}
<1>1. i = IF I # {} THEN Min(I) ELSE 0
  BY DEF SelectInSeq
<1>2. CASE I = {}
  BY <1>1, <1>2
<1>3. CASE I # {}
  <2>1. \E m \in I : \A j \in I : m <= j
    <3>1. I \in SUBSET Nat
      OBVIOUS
    <3> HIDE DEF I
    <3> QED BY <1>3, <3>1, Least
  <2>2. i = CHOOSE m \in I : \A j \in I : m <= j
    BY <1>1, <1>3 DEF Min
  <2>3. i \in I /\ \A j \in I : i <= j
    BY <2>1, <2>2
  <2> QED BY <2>3
<1> QED BY <1>2, <1>3

LEMMA PolicyCache ==
  ASSUME NEW method, NEW path
  PROVE  /\ "cache" \in DOMAIN PolicyOf(method, path)
         /\ ~isDocs(path) /\ ~isAsset(path) => PolicyOf(method, path).cache \notin Public
         /\ isAuth(path) => PolicyOf(method, path).cache = "no-store"
<1> DEFINE rules == routeSecurityMap(path)
<1>1. PICK i : i = SelectInSeq(rules, LAMBDA r : r.matches)
  OBVIOUS
<1>2. Len(rules) = 6
  BY DEF routeSecurityMap
<1>3. \/ i = 0 /\ ~rules[1].matches
      \/ /\ i \in 1..6 /\ rules[i].matches
         /\ rules[1].matches => i <= 1
  BY <1>1, <1>2, FirstRule
<1>4. PolicyOf(method, path) =
        IF i = 0 THEN defaultPolicy
        ELSE IF rules[i].name = "api" THEN customizeApiPolicy(method, path, rules[i].policy)
        ELSE rules[i].policy
  BY <1>1 DEF PolicyOf
<1>5. /\ rules[1] = Rule("auth", isAuth(path), strict)
      /\ rules[2] = Rule("admin", isAdmin(path), strict)
      /\ rules[3] = Rule("apiDocs", isDocs(path), [minimal EXCEPT !.origin = "*"])
      /\ rules[4] = Rule("publicAssets", isAsset(path), staticAssets)
      /\ rules[5] = Rule("sensitive", isSensitive(path), [moderate EXCEPT !.cache = strict.cache])
      /\ rules[6] = Rule("api", isApi(path), moderate)
  BY DEF routeSecurityMap
<1> HIDE DEF rules
<1>6. /\ "cache" \in DOMAIN defaultPolicy /\ defaultPolicy.cache \notin Public
      /\ "cache" \in DOMAIN strict /\ strict.cache = "no-store" /\ strict.cache \notin Public
      /\ "cache" \in DOMAIN minimal /\ "cache" \in DOMAIN staticAssets
      /\ "cache" \in DOMAIN moderate /\ moderate.cache \notin Public
  BY DEF defaultPolicy, strict, minimal, staticAssets, moderate, Policy, Public, OneHour
<1>7. i # 1 => ~isAuth(path)
  BY <1>3, <1>5 DEF Rule
<1>8. CASE i = 0
  BY <1>4, <1>6, <1>7, <1>8
<1>9. CASE i \in {1, 2}
  <2>1. PolicyOf(method, path) = strict
    BY <1>4, <1>5, <1>9 DEF Rule
  <2> QED BY <1>6, <2>1
<1>10. CASE i \in {3, 4}
  <2>1. PolicyOf(method, path) \in {[minimal EXCEPT !.origin = "*"], staticAssets}
    BY <1>4, <1>5, <1>10 DEF Rule
  <2>2. isDocs(path) \/ isAsset(path)
    BY <1>3, <1>5, <1>10 DEF Rule
  <2> QED BY <1>6, <1>7, <1>10, <2>1, <2>2
<1>11. CASE i = 5
  <2>1. PolicyOf(method, path) = [moderate EXCEPT !.cache = strict.cache]
    BY <1>4, <1>5, <1>11 DEF Rule
  <2> QED BY <1>6, <2>1
<1>12. CASE i = 6
  <2>1. PolicyOf(method, path) = customizeApiPolicy(method, path, moderate)
    BY <1>4, <1>5, <1>12 DEF Rule
  <2>2. "no-store" \notin Public /\ "no-cache" \notin Public
    BY DEF Public, OneHour
  <2>3. PolicyOf(method, path) \in {[moderate EXCEPT !.cache = "no-store"], moderate,
                                    [moderate EXCEPT !.cache = "no-cache"]}
    BY <2>1 DEF customizeApiPolicy
  <2> QED BY <1>6, <1>7, <1>12, <2>2, <2>3
<1> QED BY <1>3, <1>8, <1>9, <1>10, <1>11, <1>12

LEMMA OwnCache ==
  ASSUME NEW method
  PROVE  OwnHeaders(method).cache = PolicyOf(method, PathSeen).cache
BY PolicyCache DEF OwnHeaders, applyPolicy, applyGlobalHeaders

(* What a handler's header makes of them.                                  *)
LEMMA SetCache ==
  ASSUME NEW method, NEW handler
  PROVE  setHeaders(OwnHeaders(method), handler).cache =
           IF handler.cache = "none" THEN OwnHeaders(method).cache ELSE handler.cache
BY PolicyCache DEF setHeaders, OwnHeaders, applyPolicy, applyGlobalHeaders

LEMMA HeadersFitting == IInv /\ CourseInv => HeadersFit
<1> SUFFICES ASSUME IInv, CourseInv PROVE HeadersFit
  OBVIOUS
<1> DEFINE full == GlobalPrefix(target.path)
<1>1. Cardinality(DOMAIN policyCache) <= CacheSize
  BY DEF CourseInv, CacheOK
<1>2. ASSUME target.path[1] # "health"
      PROVE  /\ Len(full) = Len(target.path) + 1 /\ Len(target.path) \in Nat \ {0}
             /\ full[1] = "api" /\ full[2] = target.path[1]
  <2>1. PICK S : target.path \in Seq(S) /\ Len(target.path) > 0
    BY PathAsked DEF PathLike
  <2>2. full = <<"api">> \o target.path
    BY <1>2 DEF GlobalPrefix
  <2>3. target.path \in Seq(S \cup {"api"}) /\ <<"api">> \in Seq(S \cup {"api"})
    BY <2>1
  <2> QED BY <2>1, <2>2, <2>3
<1>3. ASSUME NEW s \in Session, pc[s] \notin {"idle", "answered"}
      PROVE  /\ call[s].headers = IF At(s, "handler")
                                    THEN setHeaders(OwnHeaders(call[s].method), Route(s).handler)
                                    ELSE OwnHeaders(call[s].method)
             /\ target.path[1] = "auth" /\ ~target.stripped => call[s].headers.cache = "no-store"
  <2> DEFINE c == call[s]
             q == Routing[c.route].handler
  <2>1. RightRoute(c) /\ c.route \in DOMAIN Routing
    BY <1>3, SoundCall DEF Sound, CourseInv, CourseOK
  <2>2. c.headers = IF At(s, "handler") THEN setHeaders(OwnHeaders(c.method), q)
                                        ELSE OwnHeaders(c.method)
    BY <1>3 DEF CourseInv, CourseOK, Headed, At
  <2>3. ASSUME target.path[1] = "auth", ~target.stripped PROVE c.headers.cache = "no-store"
    <3>1. isAuth(full)
      BY <1>2, <2>3, PathAsked DEF isAuth, Crosses, PathLike
    <3>2. OwnHeaders(c.method).cache = "no-store"
      BY <2>3, <3>1, OwnCache, PolicyCache DEF PathSeen
    <3>3. q.cache = "none"
      <4>1. q.cache # "none" => q.path[1] # "auth"
        BY <2>1 DEF IInv, RoutesWellDeclared, WellDeclared
      <4>2. DOMAIN q.path = 1..Len(q.path) /\ Len(q.path) \in Nat \ {0} /\ q.path[1] # Param
        BY <2>1, RoutingArranged DEF RoutesWellServed, WellServed
      <4>3. c.route \in target.routes
        BY <2>1, FirstServes DEF RightRoute, IInv
      <4> QED BY <2>3, <4>1, <4>2, <4>3, PathAsked DEF RoutesAt, Matches, PathLike
    <3> QED BY <2>2, <3>2, <3>3, SetCache
  <2> QED BY <2>2, <2>3 DEF Route
<1>4. ASSUME NEW s \in Session, pc[s] # "idle", call[s].route # 0, "jwt" \in Guards(s),
             call[s].headers.cache \in Public
      PROVE  Route(s).handler.name = "streamThumbnail" /\ Authorized(call[s])
  <2> DEFINE c == call[s]
             q == Routing[c.route].handler
  <2>1. \/ c.headers = applyPolicy(applyGlobalHeaders(Production), defaultPolicy)
        \/ RightRoute(c) /\ c.headers = OwnHeaders(c.method)
        \/ RightRoute(c) /\ Headed(c) /\ Authorized(c)
    <3>1. CASE pc[s] = "answered"
      BY <1>4, <3>1 DEF CourseInv, CourseOK, AnswerHeaded
    <3>2. CASE pc[s] = "handler"
      BY <3>2, CallInHandler DEF CourseInv, Courses
    <3>3. CASE pc[s] \notin {"idle", "handler", "answered"}
      BY <3>3, CallOnCourse DEF CourseInv, Courses, OnCourse
    <3> QED BY <1>4, <3>1, <3>2, <3>3
  <2>2. CASE c.headers = applyPolicy(applyGlobalHeaders(Production), defaultPolicy)
    BY <1>4, <2>2 DEF applyPolicy, applyGlobalHeaders, defaultPolicy, Policy, Public, OneHour
  <2>3. ASSUME RightRoute(c) PROVE OwnHeaders(c.method).cache \notin Public
    <3>1. c.route \in target.routes /\ c.route \in DOMAIN Routing
      BY <2>3, FirstServes DEF RightRoute, IInv
    <3>2. target.path[1] # "health"
      <4>1. /\ DOMAIN q.path = 1..Len(q.path) /\ Len(q.path) \in Nat \ {0}
            /\ q.path[1] # Param /\ q.path[1] # "health"
        BY <1>4, <3>1, RoutingArranged DEF RoutesWellServed, WellServed, Guards, Route
      <4> QED BY <3>1, <4>1, PathAsked DEF RoutesAt, Matches, PathLike
    <3>3. ~isDocs(full) /\ ~isAsset(full)
      BY <1>2, <3>2 DEF isDocs, isAsset, Starts
    <3>4. ~isDocs(PathSeen) /\ ~isAsset(PathSeen)
      BY <3>3 DEF PathSeen, isDocs, isAsset, Starts
    <3> QED BY <3>4, OwnCache, PolicyCache DEF Public
  <2>4. CASE RightRoute(c) /\ Headed(c) /\ Authorized(c)
    <3>1. q.cache # "none"
      BY <1>4, <2>3, <2>4, SetCache DEF Headed
    <3>2. c.route \in DOMAIN Routing
      BY <2>4, FirstServes DEF RightRoute, IInv
    <3> QED BY <2>4, <3>1, <3>2 DEF IInv, RoutesWellDeclared, WellDeclared, Route
  <2> QED BY <1>4, <2>1, <2>2, <2>3, <2>4
<1> QED BY <1>1, <1>3, <1>4 DEF HeadersFit

(* SecurityHeadersMiddleware: whatever the cache holds, an answer bears    *)
(* the headers of its own method and path.                                 *)
THEOREM HeadersAlwaysFit == Spec => []HeadersFit
BY Invariance, CourseInvariance, HeadersFitting, PTL

-----------------------------------------------------------------------------
(* The rights of a member who holds every permission declared.             *)

Member == [permissions |-> Declared, organization |-> TRUE]

Excepted == {<<"write", "work-order">>, <<"writeRecord", "vibe">>,
             <<"sender", "tickets">>, <<"other", "users">>}

LEMMA DeclaredHas ==
  /\ \A r \in {"users", "attachments", "notifications"} : \A x \in {"read", "update", "delete"} :
       <<r, x>> \in Declared
  /\ \A r \in {"bom", "traceability", "attachments"} : <<r, "write">> \in Declared
  /\ \A x \in {"read", "update_status", "add_message"} :
       <<"tickets", x>> \in Declared /\ <<"tickets", x, "all">> \in Declared
  /\ \A x \in {"read", "update"} : <<"users", x, "all">> \in Declared
<1>1. ASSUME NEW r \in DOMAIN BaseActions, NEW x \in BaseActions[r] PROVE <<r, x>> \in Declared
  BY DEF Declared
<1>2. ASSUME NEW r \in DOMAIN AllActions, NEW x \in AllActions[r] PROVE <<r, x, "all">> \in Declared
  BY DEF Declared
<1>3. /\ DOMAIN AllActions = DOMAIN BaseActions
      /\ {"users", "attachments", "notifications", "bom", "traceability", "tickets"}
           \subseteq DOMAIN BaseActions
  BY DEF AllActions, BaseActions
<1>4. /\ BaseActions["users"] = CRUD /\ BaseActions["attachments"] = CRUD /\ BaseActions["bom"] = CRUD
      /\ BaseActions["notifications"] = {"read", "update", "delete"}
      /\ BaseActions["traceability"] = {"read", "write"}
      /\ BaseActions["tickets"] = {"read", "update", "delete", "update_status", "add_message"}
  BY DEF BaseActions
<1>5. /\ AllActions["users"] = {"read", "update", "delete"}
      /\ AllActions["tickets"] = BaseActions["tickets"]
  BY <1>3 DEF AllActions
<1> QED BY <1>1, <1>2, <1>3, <1>4, <1>5 DEF CRUD

LEMMA MemberSuffices ==
  ASSUME NEW access \in Accesses, NEW subject \in Subject,
         scopeOf(Member, access, subject) = Refused
  PROVE  access \in Excepted
<1> DEFINE a == access[1]
           r == access[2]
           asked == [action |-> a, resource |-> r, own |-> subject.own, internal |-> subject.internal]
<1>1. Member.permissions = Declared /\ Member.organization
  BY DEF Member
<1>2. ~checked(Member, a, subject) \/ scope(Member, asked) = Refused
  BY DEF scopeOf
<1>3. asked.action = a /\ asked.resource = r
  OBVIOUS
<1>4. ASSUME NEW x PROVE ownership(Member, r, x) # Refused \/ <<r, x>> \notin Declared
  BY <1>1 DEF ownership, hasBase, Refused
<1>5. ASSUME NEW x, r \in OrganizationResource PROVE byOrganization(Member, r, x) # Refused
  BY <1>1 DEF byOrganization, Refused
<1>6. CASE a = "read"
  <2>1. r \in OrganizationResource \cup {"users", "attachments", "notifications", "tickets"}
    BY <1>6 DEF Accesses, OrganizationResource
  <2>2. checked(Member, a, subject)
    BY <1>6 DEF checked
  <2>3. scope(Member, asked) = readOverride(Member, r)
    BY <1>3, <1>6 DEF scope
  <2>4. CASE r \in OrganizationResource
    BY <1>2, <1>5, <2>2, <2>3, <2>4 DEF readOverride
  <2>5. CASE r = "users"
    BY <1>1, <1>2, <2>2, <2>3, <2>5 DEF readOverride, usersRead, Refused, OrganizationResource
  <2>6. CASE r = "attachments"
    BY <1>2, <2>2, <2>3, <2>6 DEF readOverride, orAll, readExtra, Refused, OrganizationResource
  <2>7. CASE r \in {"notifications", "tickets"}
    <3>1. ownership(Member, r, "read") # Refused
      BY <1>4, <2>7, DeclaredHas
    <3> QED BY <1>2, <2>2, <2>3, <2>7, <3>1 DEF readOverride, orAll, readExtra, OrganizationResource
  <2> QED BY <2>1, <2>4, <2>5, <2>6, <2>7
<1>7. CASE a \in {"update", "delete"}
  <2>1. r \in OrganizationResource \cup {"users", "attachments", "notifications"}
    BY <1>7 DEF Accesses, OrganizationResource
  <2>2. checked(Member, a, subject)
    BY <1>7 DEF checked
  <2>3. scope(Member, asked) \in {updateOverride(Member, r), deleteOverride(Member, r)}
    BY <1>3, <1>7 DEF scope
  <2>4. CASE r \in OrganizationResource
    BY <1>2, <1>5, <2>2, <2>3, <2>4 DEF updateOverride, deleteOverride
  <2>5. CASE r \in {"users", "attachments", "notifications"}
    <3>1. ownership(Member, r, "update") # Refused /\ ownership(Member, r, "delete") # Refused
      BY <1>4, <2>5, DeclaredHas
    <3> QED BY <1>2, <2>2, <2>3, <2>5, <3>1 DEF updateOverride, deleteOverride, OrganizationResource
  <2> QED BY <2>1, <2>4, <2>5
<1>8. CASE a = "write"
  <2>1. access = <<"write", "work-order">> \/ r \in {"bom", "traceability", "attachments"}
    BY <1>8 DEF Accesses
  <2>2. checked(Member, a, subject) /\ scope(Member, asked) = canWriteResource(Member, r)
    BY <1>3, <1>8 DEF checked, scope
  <2> QED BY <1>1, <1>2, <2>1, <2>2, DeclaredHas DEF canWriteResource, hasBase, Refused, Excepted
<1>9. CASE a \in {"add_message", "attachment", "update_status"}
  <2>1. r = "tickets" /\ checked(Member, a, subject)
    BY <1>9 DEF Accesses, checked
  <2>2. /\ \A x \in {"read", "update_status", "add_message"} :
             hasBase(Member, "tickets", x) /\ hasAll(Member, "tickets", x)
    BY <1>1, DeclaredHas DEF hasBase, hasAll
  <2>3. canAddMessage(Member, subject.own, subject.internal)
    BY <2>2 DEF canAddMessage
  <2>4. canReadMessageAttachment(Member, subject.own, subject.internal)
    BY <2>2 DEF canReadMessageAttachment
  <2>5. updateTicketStatus(Member) = "all"
    BY <2>2 DEF updateTicketStatus, ownership
  <2>6. scope(Member, asked) = "all"
    BY <1>3, <1>9, <2>3, <2>4, <2>5 DEF scope
  <2> QED BY <1>2, <2>1, <2>6 DEF Refused
<1>10. CASE a \in {"view", "edit", "member"}
  <2>1. checked(Member, a, subject)
    BY <1>1, <1>10, DeclaredHas DEF checked, hasAll
  <2>2. scope(Member, asked) = "unscoped"
    BY <1>3, <1>10 DEF scope
  <2> QED BY <1>2, <2>1, <2>2 DEF Refused
<1>11. CASE a \in {"sender", "other", "writeRecord"}
  BY <1>11 DEF Accesses, Excepted
<1> QED BY <1>6, <1>7, <1>8, <1>9, <1>10, <1>11 DEF Accesses

LEMMA RightsSufficing == IInv /\ CourseInv => RightsSuffice
<1> SUFFICES ASSUME IInv, CourseInv, NEW s \in Session, At(s, "answered"), call[s].user = Member,
                    NEW e \in call[s].scopes, e[2] = Refused
             PROVE  e[1] \in Excepted
  BY DEF RightsSuffice, Member, Excepted
<1>1. ScopesGiven(call[s])
  BY DEF CourseInv, CourseOK, At
<1>2. PICK subject \in Subject :
        /\ e[1] \in Routing[call[s].route].handler.calls
        /\ e[2] = scopeOf(Member, e[1], subject)
  BY <1>1 DEF ScopesGiven
<1>3. call[s].route \in DOMAIN Routing
  BY <1>1, FirstServes DEF ScopesGiven, RightRoute, IInv
<1>4. e[1] \in Accesses
  BY <1>2, <1>3, RoutingArranged DEF RoutesWellServed, WellServed
<1> QED BY <1>2, <1>4, MemberSuffices

(* The policies: a member who holds every permission is refused only where *)
(* the policy asks for a permission that does not exist, or for a record   *)
(* of somebody.                                                            *)
THEOREM RightsAlwaysSuffice == Spec => []RightsSuffice
BY Invariance, CourseInvariance, RightsSufficing, PTL

-----------------------------------------------------------------------------
(* The stages of a request. *)

(* The measure, label by label. *)
LEMMA StagesLeftOf ==
  /\ StagesLeft("token.get") = 7 /\ StagesLeft("perms.get") = 6
  /\ StagesLeft("rate.incr") = 5 /\ StagesLeft("rate.expire") = 4
  /\ StagesLeft("rate.ttl") = 3 /\ StagesLeft("handler") = 2
  /\ StagesLeft("answered") = 1 /\ StagesLeft("idle") = 0
BY DEF StagesLeft

Nearer(s) == StagesLeft(pc'[s]) < StagesLeft(pc[s])

(* Where sending and admitting take a request. *)
LEMMA SendLeads ==
  ASSUME Shaped, NEW s \in Session, NEW c, NEW a, Send(s, c, a)
  PROVE  pc'[s] = "answered" /\ Others(s)
BY GotoEffect DEF Send, Shaped, Shape

LEMMA AdmitLeads ==
  ASSUME Shaped, NEW s \in Session, NEW c, Admit(s, c)
  PROVE  pc'[s] \in {"answered", "rate.incr", "handler"} /\ Others(s)
<1> DEFINE endpoint == Routing[c.route].endpoint
<1>1. CASE ~mayActivate(c.user, endpoint)
  <2>1. \E a : Send(s, c, a)
    BY <1>1 DEF Admit, Refuse
  <2> QED BY <2>1, SendLeads
<1>2. CASE mayActivate(c.user, endpoint)
  <2>1. Goto(s, "rate.incr", c) \/ \E d : Goto(s, "handler", d)
    BY <1>2 DEF Admit, Enter
  <2> QED BY <2>1, GotoEffect DEF Shaped, Shape
<1> QED BY <1>1, <1>2

LEMMA UnauthenticatedLeads ==
  ASSUME Shaped, NEW s \in Session, NEW c, NEW status, Unauthenticated(s, c, status)
  PROVE  pc'[s] \in {"answered", "rate.incr", "handler"} /\ Others(s)
<1>1. Admit(s, c) \/ \E a : Send(s, c, a)
  BY DEF Unauthenticated, Refuse
<1> QED BY <1>1, AdmitLeads, SendLeads

(* Every step of a request advances it and leaves the others where they    *)
(* are.                                                                    *)
LEMMA StepNearer ==
  ASSUME Shaped, NEW s \in Session, Step(s)
  PROVE  pc[s] # "idle" /\ Nearer(s) /\ Others(s)
<1>1. CASE getToken(s)
  <2>1. \/ Goto(s, "perms.get", call[s])
        \/ \E status \in Status : Unauthenticated(s, call[s], status)
    BY <1>1 DEF getToken, Status
  <2>2. pc'[s] \in {"perms.get", "answered", "rate.incr", "handler"} /\ Others(s)
    BY <2>1, GotoEffect, UnauthenticatedLeads DEF Shaped, Shape
  <2> QED BY <1>1, <2>2, StagesLeftOf DEF getToken, At, Nearer
<1>2. CASE getPermissions(s)
  <2>1. \/ \E c : Admit(s, c)
        \/ \E status \in Status : Unauthenticated(s, call[s], status)
    BY <1>2 DEF getPermissions, Status
  <2>2. pc'[s] \in {"answered", "rate.incr", "handler"} /\ Others(s)
    BY <2>1, AdmitLeads, UnauthenticatedLeads
  <2> QED BY <1>2, <2>2, StagesLeftOf DEF getPermissions, At, Nearer
<1>3. CASE countAttempt(s)
  <2>1. \E c : Goto(s, "rate.expire", c)
    BY <1>3 DEF countAttempt, incrementAttempts
  <2>2. pc'[s] = "rate.expire" /\ Others(s)
    BY <2>1, GotoEffect DEF Shaped, Shape
  <2> QED BY <1>3, <2>2, StagesLeftOf DEF countAttempt, incrementAttempts, At, Nearer
<1>4. CASE setWindow(s)
  <2>1. pc'[s] = "rate.ttl" /\ Others(s)
    BY <1>4, GotoEffect DEF setWindow, expireAttempts, Shaped, Shape
  <2> QED BY <1>4, <2>1, StagesLeftOf DEF setWindow, expireAttempts, At, Nearer
<1>5. CASE readWindow(s)
  <2>1. (\E d : Goto(s, "handler", d)) \/ \E a : Send(s, call[s], a)
    BY <1>5 DEF readWindow, Refuse, Enter
  <2>2. pc'[s] \in {"answered", "handler"} /\ Others(s)
    BY <2>1, GotoEffect, SendLeads DEF Shaped, Shape
  <2> QED BY <1>5, <2>2, StagesLeftOf DEF readWindow, At, Nearer
<1>6. CASE failOpen(s)
  <2>1. pc'[s] = "handler" /\ Others(s)
    BY <1>6, GotoEffect DEF failOpen, Enter, Shaped, Shape
  <2> QED BY <1>6, <2>1, StagesLeftOf DEF failOpen, At, Nearer
<1>7. ASSUME NEW issues, reject(s, issues)
      PROVE  pc[s] # "idle" /\ Nearer(s) /\ Others(s)
  <2>1. pc'[s] = "answered" /\ Others(s)
    BY <1>7, SendLeads DEF reject
  <2> QED BY <1>7, <2>1, StagesLeftOf DEF reject, At, Nearer
<1>8. ASSUME NEW subject, NEW outcome, NEW loggable, serve(s, subject, outcome, loggable)
      PROVE  pc[s] # "idle" /\ Nearer(s) /\ Others(s)
  <2>1. \E c, a : Send(s, c, a)
    BY <1>8 DEF serve
  <2>2. pc'[s] = "answered" /\ Others(s)
    BY <2>1, SendLeads
  <2> QED BY <1>8, <2>2, StagesLeftOf DEF serve, At, Nearer
<1>9. CASE respond(s)
  <2>1. pc'[s] = "idle" /\ Others(s)
    BY <1>9, ReturnEffect DEF respond, Shaped, Shape
  <2> QED BY <1>9, <2>1, StagesLeftOf DEF respond, At, Nearer
<1> QED BY <1>1, <1>2, <1>3, <1>4, <1>5, <1>6, <1>7, <1>8, <1>9 DEF Step

LEMMA StageStep ==
  ASSUME Shaped, [Next]_vars, NEW s \in Session,
         Step(s) \/ (pc[s] # "idle" /\ pc'[s] # pc[s])
  PROVE  Nearer(s)
<1>1. CASE Step(s)
  BY <1>1, StepNearer
<1>2. CASE pc[s] # "idle" /\ pc'[s] # pc[s] /\ ~Step(s)
  <2>1. ASSUME NEW t \in Session \ {s}, Step(t) PROVE FALSE
    BY <1>2, <2>1, StepNearer DEF Others
  <2>2. CASE stop
    <3>1. pc'[s] = "idle" /\ pc[s] \in Labels \ {"idle"}
      BY <1>2, <2>2 DEF stop, Shaped
    <3> QED BY <3>1, StagesLeftOf DEF Labels, Nearer
  <2>3. ASSUME NEW t \in Session, NEW method, NEW origin, NEW credentials, NEW email,
               arrive(t, method, origin, credentials, email)
        PROVE  FALSE
    <3>1. \/ \E l, c : Goto(t, l, c)
          \/ \E c : Admit(t, c) \/ \E a : Send(t, c, a)
      <4>1. \E c : \/ \E status : Refuse(t, c, status)
                   \/ authenticate(t, c, credentials)
        BY <2>3 DEF arrive
      <4> QED BY <4>1 DEF authenticate, Unauthenticated, Refuse
    <3>2. Others(t)
      BY <3>1, GotoEffect, AdmitLeads, SendLeads DEF Shaped, Shape
    <3>3. pc[t] = "idle"
      BY <2>3 DEF arrive, At
    <3> QED BY <1>2, <3>2, <3>3 DEF Others
  <2>4. UNCHANGED pc => FALSE
    BY <1>2
  <2> QED BY <1>2, <2>1, <2>2, <2>3, <2>4
          DEF Next, sessionChanges, permissionsChange, Witnessed, windowPasses, windowEnds,
              requests, vars
<1> QED BY <1>1, <1>2

(* The guards, the handler and the interceptors go one way: what remains   *)
(* of RequestsAnswered for fairness is that the next stage is taken.       *)
THEOREM RequestsAlwaysNearer == Spec => StagesAdvance
<1>1. IInv /\ [Next]_vars =>
        [\A s \in Session :
           Step(s) \/ (pc[s] # "idle" /\ pc'[s] # pc[s]) =>
             StagesLeft(pc'[s]) < StagesLeft(pc[s])]_vars
  BY StageStep DEF IInv, Nearer
<1> QED BY <1>1, Invariance, PTL DEF Spec, StagesAdvance
=============================================================================
