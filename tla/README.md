# A TLA+ model of the MES backend

The program is a NestJS service over PostgreSQL (drizzle) and Redis: an MES
(manufacturing execution) API with products, bills of materials, work orders, a
factory node tree, users, roles, tickets, attachments and generated page
layouts.  One process serves requests on one event loop; what interleaves is
the *awaits* of concurrent requests.  Almost everything hard in this code comes
from that: a row is read, awaited on, checked, and then written in a later
statement.

The specification is TLA+ without PlusCal.  Modules are named for the service
they translate, actions for the methods.

## 1. Inventory

Sources are below `src/src/`.  *Modelled* means every operation that changes
state is an action of a module.

| Part | State | Operations that change it | Hard behaviour | What makes it correct | Here |
|---|---|---|---|---|---|
| BOM (`modules/bom/bom.service.ts`) | `bom_revision`, `bom_material` | createRevision, createAlternative; updateRevision, deleteRevision, submit/approve/activateRevision, add/update/deleteMaterial | numbering without a lock; versions sorted as text; a method the query builder lacks, in the last eight | versions distinct, numbers, next in their series; the audit log ends with the rows as they are | modelled and proved |
| Products (`modules/product`) | `product` | create, update, delete | update is three statements; delete ends like the eight above | the audit log ends with the rows as they are | modelled and proved |
| Work orders (`modules/work-order`) | `work_order` | createWorkOrder, releaseWorkOrder | the policy asks for a permission nobody can hold; release ends like the eight above | no request changes anything | modelled |
| Audit log (`modules/traceability`) | `log_traceability` | recordChange, log activity | outside the transaction of the change, or with none | the newest entry holds the row as it is | recordChange modelled and proved |
| Node tree (`modules/node`) | `nodes` (parent and ltree path), `activity_logs` | create, update, changeStatus, move, delete, default setup, posted activity | path rewritten from a stale copy, cycles, children of deleted nodes; changeStatus ends like the BOM eight | path = chain of parents, paths distinct, no cycle, deleted nodes stay | modelled and proved |
| Attachments, storage (`modules/attachments`, `app/services/storage`) | `attachments`, objects in a bucket | create, confirmUpload, delete, URL cache, cleaner | two stores without a common transaction; cleaner against confirm; cached URLs with three clocks | no row without its object, references stay on confirmed rows, cached URLs work | modelled and proved |
| Tickets (`modules/ticket`) | `tickets`, messages, links | create, addMessage, updateTicketStatus, consent | status read before an await and written after; links to rows others delete | links confirmed | partly (consent left out), proved |
| Organizations (`modules/organization`) | `organization` | update (name, timezone, logo) | the logo is checked, then referenced | a logo is uploaded | partly (logo, default nodes) |
| Roles, permissions (`modules/roles`, `models/seeder`) | `roles`, `role_permissions`, Redis `perms:<role>` | create, duplicate, updatePermissions, assign, delete, sync at start | copy written after a database read; differences computed without a lock | copy = table; a role is not emptied | modelled, the copy proved |
| Sessions (`modules/auth`) | users, Redis `token:`, `refresh_token:` | login, refresh, logout, changePassword, signup | token written from a row read before; two keys; compensation | the stored token was issued for the row as it is | modelled and proved |
| Codes (`modules/auth`, `modules/users`) | codes of users, Redis `otp:`, `resend_verification:` | verifyEmail, acceptInvitation, inviteUser, login of the unverified, resend, forgot/reset password, updateProfile | codes looked up without their user, mails that fail, counter in two commands | a code opens what it was drawn for, and was sent unless its request was cut short | modelled and proved |
| Users (`modules/users`) | `users`, settings | create, update, status, invite | | one row per address (unique index) | partly (names, settings and lists left out) |
| User addresses (`modules/user-addresses`) | `user_addresses` | create, update, setDefault, remove | clear, then set, in two statements | one default, and it survives | modelled and proved |
| Vibe pages and AI (`modules/vibe`, `modules/ai-core`) | pages, failure counter | generateLayout; savePage, updatePage, deletePage | counter read, a model awaited, counter written; busy model retried | a block after every third refusal, for good from the 20th; pages and their audit rows agree | modelled and proved (AI calls external) |
| Guards and permissions (`modules/auth/guards`, `common/permissions.ts`) | the session in Redis | canActivate of three guards | session and permissions read one after the other while they change | a handler runs only for those whose rights cover its route | modelled and proved |
| Policies (`modules/*/*.policy.ts`) | | read, write, update, delete scopes | what a guard admits a policy may refuse, and the reverse | no organization reaches the rows of another without the right | modelled and proved |
| Routes (the controllers) | | every handler, with guards, permission, declared answer | a literal path behind a parameter | the right handler serves | modelled and proved |
| Rate limit (`rate-limit.guard.ts`) | Redis counters | INCR, EXPIRE, TTL | two commands, failures let through | a counter ends | modelled and proved |
| Headers (`common/middleware`, `config/security-headers.config.ts`) | bounded policy cache | apply a policy by path and method; a handler's own `@Header` | cache full, rules in order, a handler that overrides the policy | an answer bears the policy of its own path or the header of its handler | modelled and proved |
| Validation, response interceptor, logger interceptor, exception filter, CORS | | answer | errors of many kinds, shapes declared by decorators | the answer has the declared envelope; what is logged is what is sent | modelled and proved |
| Filter and query builder (`common/services`) | the tables read | list | page and total in two statements; three-valued conditions | rows are those the policy and filters select, none twice | modelled and proved |
| Connection pool, startup (`models/model.service.ts`, `main.ts`) | connections, stages of the start | connect, release, time-outs; bootstrap | transactions that need a second connection | requests end; the process listens or exits | modelled; no connection is lost, proved |
| Redis client, mail | | | | | partly (as steps of their users) |
| Notifications, execution, connectivity, jobs, reCAPTCHA, Octopart, logger, health, swagger, config, validators, utilities, scripts, enhanced rate limit guard | | | | | not modelled (below) |

Not modelled, and why: notifications are single statements and nothing creates
one; execution, connectivity and health only read (or return fixed data); the
one background job is a single DELETE run by BullMQ; reCAPTCHA and Octopart are
calls of external services; the logging service, configuration, Swagger, the schema
declarations and generated validators carry no control that the models do not
already take from them (unique indexes, cascades and limits are in the models that rely on
them); `EnhancedRateLimitGuard` and the time, price and array utilities are used by nothing.

Components interact through the shared tables (a revision references a product, a message an
attachment), through `recordChange`, which every service
calls with its own transaction or with none, and through Redis (tokens, role
permissions, counters), which the guards read on every request.  In front of all of
them is the pipeline of an HTTP request: headers, guards, validation, handler, interceptors, filter.

## 2. Plan

Done: 1. products, BOM and work orders over one database with the audit log (`MesCore`), the
catalogue of revisions it implements (`RevisionCatalogue`), and the proofs; 2. the node
tree (`NodeService`); 3. attachments and tickets (`TicketService`); 4. roles and
sessions (`AuthService`); 5. inductive invariants and proofs of 2 to 4; 6. the HTTP
pipeline over every route (`HttpPipeline`); 7. codes, addresses, layouts, lists and
the connection pool (`Services`); 8. inductive invariants and proofs of 6 and 7;
9. paths, parents and cycles of the node tree, proved for requests that overlap (`NodePathProofs`); 10. the safety
half of each liveness property (nothing loops), proved.

With that, every invariant and action property that a passing run checks is a theorem of
its specification; `RequestsEnd` of the services and `RequestsAnswered`, which need fairness, are not.

Next: abstract specifications of the node tree (a forest, outside the races `irregular` names) and of the
permission copy (a register, outside the exceptions `skewed` names), and their refinements.  When
`forUpdate()` is replaced by a lock that exists, the life cycle of revisions, materials and work
orders becomes reachable and belongs here.

Each is written as the core is: parameters as CONSTANTS with named assumptions,
one action per statement between two awaits, no RECURSIVE operator in a module
with theorems.

## 3. The core

| Module | Models |
|---|---|
| `BomVersions` | version strings: the numbers they are read as and the text the database sorts them by |
| `MesDatabase` | the tables, the audit log, and the course of a request (step label, locals, answer, failure, `forUpdate()`) |
| `BomService`, `ProductService`, `WorkOrderService` | one action per statement of each method |
| `MesCore` | the three services over one database; properties |
| `RevisionCatalogue` | abstract specification: which numbers a new revision may get, and that revisions keep theirs |
| `MesCoreInvariant`, `MesCoreProofs` | the inductive invariant, and the theorems |
| `MCCore` | instances for TLC |

### A lock that does not exist

Most transactions of these services begin with `(tx.select()... as any).forUpdate()`.
`package.json:61` pins drizzle-orm 0.45.1.  Its select builder has `.for('update')` and no `forUpdate`, the
repository defines none, and the unit tests mock it.  So the call throws a `TypeError`, the
transaction rolls back, and the request is answered by an internal error.  The project's README (line 65) and
`.trace/2026-04-15-13-07-concurrency-locking.md` say it is a row lock; the model does what the code does.

| Call | What ends there |
|---|---|
| `bom.service.ts:472` (`ensureDraft`) | updateRevision, submitRevision, addMaterial, updateMaterial, deleteMaterial |
| `bom.service.ts:218`, `:279`, `:317` | deleteRevision, approveRevision, activateRevision |
| `product.service.ts:143` | the deletion of a product |
| `work-order.service.ts:86` | releaseWorkOrder |
| `node.service.ts:142` | changeStatus of a node (section 5) |

It follows that every revision is a draft without materials, no product is ever deleted and there
are no work orders.  The tables of materials and work orders stay empty and are left out; `status` has one value,
and createAlternative has nothing to copy.

### How it corresponds to the code

* A request is a session; `pc[s]` names the statement it is about to run and
  `call[s]` holds its arguments and the rows it has read.  Statements of one
  method are separate steps because each is an `await`; an operation outside a transaction
  commits statement by statement.  The two INSERTs of createAlternative's transaction are one step with its commit.
* `Transaction` is the start of one of the operations above and `forUpdate` its end; `answer` tells
  an internal error ("thrown") from a refusal and from a request cut short.
* `createWorkOrder` is always refused: the route asks for `work_orders.write`, the policy of the service for
  `work-order.write`, which `common/permissions.ts` does not declare.
* `Fail(s)` is a process stop or a failed statement at any step: what was
  committed stays, a transaction in course is rolled back.
* A version is the two numbers it is read as, with the zeros typed before the first
  (`/^\d+\.\d+$/` allows them).  The database sorts and matches the text (`Latest`, `Like`); `compareVersions` compares numbers;
  `Math.max()` of nothing is `NegInfinity`.
* A new row's id is reserved when its request starts (it is a random UUID).  The
  audit keeps the latest entry of each entity.
* Two histories name exceptions.  `misnumbered`: revisions inserted beside one their request had not seen, or
  numbered by a rule that read text where it meant numbers.  `unlogged`: rows whose last change was lost to a failure
  or overlapped another between its UPDATE and its audit row.
* Rows belong to one organization and requests come from its members; lists and searches change nothing and
  are out, as are `baseRevisionId` and the lineage columns, which no step reads.

### Runs

| Run | Bounds | Shows |
|---|---|---|
| `core` | 2 requests; 1 product with 2 names; either all operations with 1 revision, or createRevision, createAlternative and the failures between with up to 4 revisions; typed versions 9.0 and 01.0 | `IInv`; `VersionsDistinct`, `MinorsAreNumbers`, `LogEndsCurrent`; the BOM service implements `RevisionCatalogue` |
| `version_order` | violation; 1 request, 3 revisions, typed version 9.0 | after 9.0 and 10.0 comes 10.0 again, against `test/unit/bom.service.spec.ts:56` |
| `for_update` | violation; 1 request, 1 revision | a material cannot be added to a draft, against `test/unit/bom.service.spec.ts:87` |

A behaviour is of one `part` (`MCCore`): a part keeps requests from being made, never one from going on.
Two requests are enough for every pairwise interleaving.  Four revisions are 9.0, 10.0, the second 10.0 and an alternative
of one of them, or 01.0 and the alternatives that do not find it.  The code keeps no
counter except versions; `MaxDigits` bounds one number at 8 digits, which no
run reaches.

### Theorems

`MesCoreProofs` proves, for any number of requests, rows and names and any versions users may type, of `Spec`, with
requests that overlap as they like and may fail at each step:

* `Invariance`: `Spec => []IInv`, types included.
* `VersionsStayDistinct`: two revisions of a product with one number are not both regular: one was inserted beside a revision its request had
  not seen, or its number was drawn by text order or beside typed zeros.
* `MinorsStayNumbers`: "-Infinity" comes only in a series that holds a version typed with zeros.
* `LogStaysCurrent`: the newest audit row holds the row as it is, unless it is about to be written, or is
  `unlogged`.
* `CatalogueImplemented`: `Spec => ImplementsCatalogue`.

From: `IdentifiersDistinct`, `NullDistinct`, `EntriesNotNull` (UUIDs of different tables, rows and null
differ), `UserVersionIsVersion` (what the DTO's pattern admits).

`VersionsDistinct` is not inductive: it says nothing of a number that is drawn and not inserted yet.  `NumberOK` adds that a number its
request is sure of is above all it has seen, or next in its series, and that what was seen is still there, since no revision
is ever removed; `MakersDistinct` that no two requests make one row.  If the INSERT finds nothing the
request had not seen, its number is new; otherwise the row is `misnumbered`.  `LogEndsCurrent` needs
`RecordOK`: what is about to be recorded is the row as it is.  One lemma per action shows that it re-establishes its
own locals, and `LocalsKept` that a step of one request leaves those of the others.

## 4. Requests

All services share the module `Requests`: the label of the statement a
request runs next, its locals, and its end; it also holds the two lemmas on it
that the proofs share.  As in the core, one action is one
statement (or a transaction that nobody can see into), and `Fail` may end a request before any of
them; that also covers `query_timeout` and `connectionTimeoutMillis`, both 5000 ms, with which the pool
gives up a statement.  No service takes a row lock other than those its own UPDATEs and DELETEs take.

## 5. The node tree: `NodeService`

* `node` is the table, `activity` the nodes that activity rows refer to, `org`
  the organizations set up, `audit` the audit row the last step wrote, `used`
  the identifiers drawn (a UUID is never drawn twice, also after the row is gone).
* A path is a sequence of labels; `NodeService` labels a node by its id,
  `SetupService` by the time (`Time`, with offsets 0..2).
* `move` reads the node and the new parent.  Then a transaction: its first UPDATE writes the node, and locks the row until
  the commit (`Locked`; another UPDATE or DELETE of the row waits, `Free`).  Its second finds the rows below the *old* path
  it has read (`findDescendants`), waits for those others hold, and rewrites the ones that are still below
  (`commitMove`), as PostgreSQL does at READ COMMITTED.
* `changeStatus` ends at `forUpdate()`, like the operations of the core.
* `delete` removes a row for good when it has no children and no logs, and marks
  it otherwise.  No code of the repository creates execution jobs, which it
  would count as well.
* `irregular` is a history of what has gone wrong with requests: another removed the parent this one had found
  ("parent"), gave a row it works on or one below it another path ("paths"), put a child under the node it removes
  ("children"); or it moves a node below itself ("below").  A step overtakes a request if what the request has read was
  so before it and is not so after (`StillSo`, `Overtakes`).
* Bounds: `MaxDepth` on paths (moves below a node's own subtree make them grow
  for ever), `Time` on labels, `OldOrg` organizations whose default nodes were
  removed, so that small runs can start without them.  `FreshTime`: two
  organizations are not set up in the same millisecond (see known limits).
  `made` is a history: the default setups, with the labels their nodes were given.
* `NodeInvariant` holds the inductive invariants, `NodeProofs` and `NodePathProofs` the proofs.

| Run | Bounds | Shows |
|---|---|---|
| `node_race` | 2 requests, 2 nodes, 2 statuses, depth 2 | `IInv` (types included); deleted nodes stay as they are; paths distinct; live parents, and paths that follow them, until a request is overtaken or a node is moved below itself |
| `node_tree` | 1 request, 4 nodes, 1 setup, depth 3 | request by request, deeper: live parents, paths follow parents, no cycle until a node is moved below itself |
| `node_cycle` | violation | a legal sequence of calls puts a node below itself |

States that differ in `audit` and `made` alone are one (`WithoutHistory`), since no step reads the first, nor, with one
setup at most, the second.

`NodeProofs` proves `Invariance`, `TypeCorrect` (every path a move writes is a
path: `RebasedIsPath`) and `DeletedNodesStay` of
`Spec`, from `NodeConstants` and `NodeNull` (no row is null).  `IInv` says what each request knows of its row
(`RequestOK`) and why: no two requests insert or hold the same row (`HoldersDistinct`), and identifiers are
not drawn twice (`FreshRows`).  `RowChanges` lists what a step can do to a row.

`NodePathProofs` proves two more invariants on top of `IInv`, of `Spec`, with any number of requests that overlap as they like.

* `PathsStayDistinct`: `Spec => []PathsDistinct`, from `Placed`.  That paths differ is
  not inductive: it says nothing of what a move is about to write, nor of what a stale
  path covers.  `Placed` says whose a path is (`PathOf`): its last label is the identifier of the
  node or, for a default node that has not been moved itself, a time.  Two
  setups may share such times, so there the label before it decides (`CenterPath`, `StationPath`), down to the
  facility's own, which is nobody else's (`FreshTime`, `SetupsApart`).  `PathsTell`: a path is that of one node
  at most.  `PathMoved`: a move leaves every other row's path its own, also when the path it
  was read with is old; for Rebased and taking the last label off commute (`RebasedFront`).
* `ParentsStayLive`, `PathsFollowParents`, `NoNodeAboveItself`, from
  `Tree`.  It says of each request between two statements that what it has found is still so, or `irregular` names the kind of what
  overtook it (`Informed`): the parent is live, the path is the parent's with its label, the rows below are those it found, the node to be
  deleted has no children; that the new parent is not below the node, or "below" is named (`Beside`); and that a parent, even a
  removed one, has had its identifier drawn (`ParentsBorn`), so that no later row takes its place.  It uses `PathsDistinct`: at or below the
  old path are the node and those below it, and no one else.  No node is above itself because going up the paths get shorter.

The races themselves are real: `node_race` reaches states in which each kind is named and the tree is wrong (known limits).

## 6. Attachments, tickets and logos: `AttachmentService`, `TicketService`

* Two stores: `attachment` (rows), `link` (`message_attachments`, ON DELETE
  CASCADE) and `logo` (no cascade: the DELETE of a logo fails) on one side,
  `bucket` on the other, with no transaction over both.  `upload` is the presigned URL
  a client may PUT to while it is good; the object gets the name *with* the
  extension the service appends, and is read and deleted under the name without.
* Time passes by `Tick`, at any point; lifetimes are constants in ticks.  A
  URL cached in the row is served again until `Buffer` before its end; `served`
  is what the last step returned from the cache.
* `commitMessage` is a transaction: message, links, confirmation and status.  The status
  it writes was decided on before the transaction.
* The cleaner selects expired unconfirmed rows once and deletes them one by one,
  rows first; `cleanup_race` shows one that was confirmed meanwhile.

| Run | Bounds | Shows |
|---|---|---|
| `tickets` | 2 requests, 1 attachment, organization, ticket; 4 instants | `IInv`; linked attachments are confirmed, logos uploaded, objects outlive rows, cached URLs work |
| `cleanup_race` | violation | a confirmed attachment is deleted by the cleaner |

One attachment is enough: no step relates two, except that a message links
several at once, which are treated alike.

`TicketInvariant` is the inductive invariant and `TicketProofs` proves, for any
number of rows and requests and any lifetimes: `Invariance`, `TypeCorrect`,
`LinksStayConfirmed`, `LogoStaysUploaded`, `ServedUrlsStayGood` and `ObjectsStay`;
from `AttachmentConstants`, `TicketConstants` and `AttachmentNull` (no row, URL or
number is null).  None of the properties is inductive.  A logo was uploaded when it was looked
up, and is so still if its row exists (`LogoChecked`), because no step takes a
confirmation back and a row that went does not return (`FreshRows`); a request that
removes an object knows that the row has gone (`RowGone`); the end stored with a
URL is counted from before it was presigned (`CountedEarly`, `CachesEarly`).

## 7. Roles and sessions: `RolesService`, `AuthService`

* `rolePermission` is the table, `perms` its copy in Redis, which
  `JwtStrategy.validate` reads on every request (`Held`).  `updatePermissions`
  is: read what the role holds; delete and insert the difference, with the
  commit (a row somebody else inserted meanwhile violates the primary key);
  query; SET.
* `token` holds what the stored access token was issued for, `refreshToken` the
  users with a refresh token.  The password in a token is a ghost: it is what
  the session was opened with.  What tokens clients still hold is outside.
* A change of role emits `auth.roleChanged`; its listener is modelled as the
  rest of the request, which it outlives only by the response.
* `Restart` is a stop of the process and its next start, which adds the
  permissions system roles lack and syncs Redis before it listens.  Redis
  and the database keep their data.  Instances that overlap are not modelled.
* `skewed` and `lapsed` are ghosts that name the exceptions: a role whose last
  change met another's refresh of the copy or lost its own, a user whose last change met
  a login holding the old row or a logout cut short.  The runs show that nothing *else*
  makes copy or token disagree with the tables; that the exceptions do is known (section 10).
* `JwtStrategy` tests only that `token:<sub>` is there: an older token of the same user passes while a newer
  one is stored.
* Left out: acceptInvitation's issue of a token for a row read before, an exception of the same shape as login's; names, unique names and organizations of roles, mail texts; codes and invitations,
  which share only the row of the user with these operations, are in `AccountService`.

| Run | Bounds | Shows |
|---|---|---|
| `accounts` | 2 requests, 1 custom role, 2 permissions, 1 user, 2 passwords | `IInv`; the copy agrees with the table and the stored token with the row |
| `role_race` | violation | two updates leave a role without permissions |

`AuthInvariant` is the inductive invariant and `AuthProofs` proves `Invariance`,
`TypeCorrect`, `PermissionsStayCurrent` and `SessionsStayCurrent` for any number of
requests, roles and users; from `RoleConstants` (system roles exist) and `RoleNull` (no
row and no set of permissions is null).  `PermissionsCurrent` does not survive the SET by
itself, nor `SessionsCurrent` the issue of a token: a request that refreshes a copy is
alone and has read what the role holds (`RefreshesAlone`, `ReadsCurrent`), one
that issues a token has read the row as it is (`IssuesCurrent`), with the exceptions
that `skewed` and `lapsed` name.

## 8. The HTTP pipeline

| Module | Models |
|---|---|
| `Permissions` | the table of `common/permissions.ts` and what one permission covers (`.all`, `.quotation`) |
| `Policies` | for each policy and action, the rows it selects: none, those of the owner, of the organization, all |
| `Routes` | every route: method, path, guards, permission, declared shape, what the handler returns, the policies its service asks |
| `SecurityHeaders` | the policies by path, their adaptation to the method, and the bounded cache of them |
| `RateLimiter` | `RateLimitGuard`, one action per Redis command |
| `HttpPipeline` | the course of a request: CORS, headers, route, guards in order, validation, handler, interceptors, filter |
| `HttpInvariant`, `HttpProofs` | the inductive invariant, and its proof |
| `MCHttp` | its instance |

* `target` is the path of a behaviour, with the routes that match it, and whether the middleware sees it: under
  `forRoutes('*')` (`app.module.ts:97`) the router may strip what it matched, and `req.path` is then `/` (`PathSeen`).  Requests for different
  paths would meet only in the cache of headers, whose keys are the path and the method (in a behaviour it fills with
  the methods of one path); the counters of rate limits have the path in their key.  `token` and `perms` are what Redis
  holds for the one user and role; they change between any two awaits (`sessionChanges`, `permissionsChange`).
* A request remembers in `seen` (a ghost) what was stored at each moment since it arrived: that is
  what "authorized" is measured against, since the guards read the two keys one after the other.
* A handler is `serve`: it asks policies, then returns what its controller returns or fails with
  an exception of some kind; what its service does is in the other modules.  Those that end at `forUpdate()` (`Throwing`)
  ask the policies written before it and never return.  A refused access is answered 403, changing one's own status 400 (`refusal`).
* The thumbnails of tickets and attachments carry `@Header('Cache-Control', 'public, max-age=3600')` (`Cached`).  Nest sets it once the
  guards have passed and before anything else, over the policy's header; errors of the handler bear it too (`setHeaders`, `Enter`).
* Express (matching in order of declaration, first match) and Nest (the order of middleware, guards, pipes,
  interceptors, filters) are external.  A body is valid or not, and a query as well.
* Fairness: weak, on the steps of an accepted request: the event loop goes on with it.

| Run | Bounds | Shows |
|---|---|---|
| `http` | every route; 4 kinds of credentials; holdings that cover, partly cover or miss what the routes ask; 1 change of session or permissions per request; 1 attempt, counters to 2, cache of 1, production | what reaches a handler was authorized at some time since it arrived, and scopes beyond the organization only with `.all`; holding everything is refused by no policy but four; the right handler and headers; counters end; answers are as declared and logged; every request is answered |

Two requests at a time are explored where they can meet: on a route with a rate limit and
no session.  Elsewhere one is enough, since requests share nothing but what others may change at any
moment, and that is explored.  `MaxAttempts`, `MaxCount` and `CacheSize` are the smallest at which
a request is refused, a counter exceeds its limit and a policy is evicted.  Where the path is stripped, users hold everything or nothing,
since headers do not depend on it.  `Together` lifts both bounds; the proofs hold for either of its values.

`HttpProofs` proves every safety property of the run of `Spec`, for any number of requests on
any path of the application, any holdings, changes of them, limits and cache, from `HttpConstants`, `NullIsNoLog` (null is no
log record) and `CacheSizeAssumption` (its size is a number).  First
`HandlersAlwaysAuthorized` and `CountersAlwaysEnd`.  What is
used of the table is that every route is well declared (`WellDeclared`): what it asks for is covered by no more than its
extensions, and only tickets have a policy for their status; `RoutingGood` shows it controller by controller.
`HandlerAuthorized` alone is not inductive.  `IInv` adds that the permissions a request carries are those of some moment it
has seen (`Known`); that with them it has seen a session (`SessionSeen`); that a request past a guard satisfies that guard (`Authorized`);
and that the scopes its policies gave it were given on those permissions (`ScopesHeld`).

The other four rest on a second invariant, `CourseInv`: a request is on the route that `Served` chose for its method and path
(`RightRoute`), bears the headers computed for them (`OwnHeaders`), and is answered with what fits its route (`AnswerFits`)
by scopes that are those of its policies (`ScopesGiven`); the cache holds nothing but what would be computed again (`CacheOK`).

* `AnswersAlwaysMatch` and `RightsAlwaysSuffice` add facts of the routes: each handler returns what its decorator
  declares, markAllAsRead excepted, and the accesses asked of policies are those of a list (`WellServed`).
* `HandlerAlwaysRight`: the first route that matches has the most literal path of all that match.  That is a statement
  about every pair of routes.  It is proved by controller: within one, handlers of a method differ in length or in
  a word both have, or stand in the right order (`Laid`, `Told`); of different controllers, the first
  words differ (`Arranged`).  `RoutesOrdered` combines them.
* `HeadersAlwaysFit`: whatever the cache evicts, a hit and a miss give the same headers; a request bears those of its method and
  path, and from its handler on those of the handler.  Of the routes that need a session only the thumbnails are ever sent with leave for
  others to cache them, an error too, and then the guards have let that request through; whom a cache then serves they no longer see.

`RequestsAnswered` is liveness and model-checked only; `RequestsAlwaysNearer` proves its safety half, that every stage a request
enters is nearer to its answer than the one it leaves (`StagesAdvance`).

## 9. Codes, addresses, layouts, lists and connections: `Services`

| Module | Models |
|---|---|
| `AccountService` | verification, invitation and reset codes, the resend counter, the e-mail of a profile |
| `UserAddresses` | default addresses under the partial unique index |
| `VibeService` | the strikes of `generateLayout` with the calls of judge and generator; pages and their audit rows |
| `FilterService`, `ListQueries` | the conditions of filters, three-valued as in SQL; a page and a total read by two statements |
| `DatabasePool` | the start of the process; connections of statements, transactions and nested reads |
| `Services`, `MCServices` | a behaviour of any one of them, and its instance |
| `ServicesInvariant`, `ServicesProofs` | the inductive invariants, and their proof |

The services share no state, so a behaviour is of one part (`part`).

* `mailed` holds the codes handed to the mail server while they are stored, and `unsent` those stored by a request that ended before
  that: its mail failed, its query for the inviter did (`users.service.ts:357`), or the process stopped; or a signup was not asked
  to mail (`auth.service.ts:142`), which rows at the start represent.  A later mail of the code takes it out of `unsent`, and a code that is
  stored no longer is in neither (`forget`).  `CodesDelivered`: a stored code is mailed, unsent, or about to be mailed by a
  request that is under way; so no *overlap* of requests leaves a code that nobody was sent.
  Codes are drawn fresh for a user, but two users may have the same one.  The
  histories (`drawn`, `spent`, `resent`) are read by properties only; `lost` names the counters that lost
  their expiry to a failed command.  A password reset does not depend on the rest of the
  session; tokens are in `AuthService`.
* A failure counter is a row, read before the judge is called and written from that
  reading; overlapping prompts are named by a ghost.
* A text is the set of its words, an instant a number of which `DayLength` make a day; months have 3 or
  2 days, so that adding a month runs over the end of one.  `FilterLaws` is about the operators themselves: complements,
  ranges and days agree on every column.
* A connection waits (`connectionTimeoutMillis`, 5000 ms) or is taken; `move` and `delete` of nodes read with a
  second connection while they keep their first.  `RequestsEnd` holds because of the time-out alone.
* Fairness: weak on the steps of a request and on the start.  The mail server and the
  language model are taken to answer or fail; nothing obliges a key of Redis to end.

| Run | Bounds | Shows |
|---|---|---|
| `services` | 2 requests; 2 users, 2 codes, 3 e-mails of which requests name 1, 1 attempt; 3 addresses; 1 page, 1 author, block at 3 and hard lock at 5 (for 3 and 20); 4 rows and pages of at most 2, one list with one change of the table between its statements; pool of 2, 3 retries | `CodesAuthorize`, `CodesDelivered`, `ResendsBounded`, `DefaultKept`, `FailuresCounted`, `PageTrail`, `ListsFaithful`, `FilterLaws`, `RequestsEnd` |

Two requests are enough: the races are of pairs (a clear and a set, two readings of a counter, a look-up and an
insert), and a pool of two is full when both hold one and wait for another.  The block is the code's; the hard lock is, like 20, no
multiple of it and comes after the first block.  Queries are each filter alone, pairs of filters joined by
and or by or, and every page.

`ServicesProofs` proves every safety property of the run of `Spec`, for any number of requests, users, codes, addresses,
prompts, pages, rows, queries and connections, from `ServicesConstants`, `ServicesNull`, `ListsConstants` (rows are finitely many and
sorted by numbers) and `FiltersConstants` (filters are records, what they compare are numbers, the months asked for are in the
calendar).  Each is strengthened by what a request between two statements knows:

* that it is at a statement of its own part (`Places`), and the other parts stand still;
* of codes: users are never removed and have distinct addresses (`EmailsDistinct`), so the row found is still that of the user
  it was found for; what is stored was drawn (`StoredDrawn`), is not used up (`SpentGone`) and is mailed, unsent
  or about to be mailed (`StoredDelivered`);
* of addresses: an identifier a request knows is that of a row of its user, or of none any more;
* of prompts: a request that nobody overlapped counts from the number there is (`JudgedAlone`, `JudgedCurrent`);
* of pages: a row without its audit row is one a request is about to record (`TrailOK`);
* of resends: the mails sent in a window and the requests that passed its check are together below the limit plus the number of
  requests, and while the counter is within the limit it has counted every mail (`ResendsOf`).  A request passes the check only while the
  counter is below the limit, and then every mail sent has been counted and every other request may be
  under way once: that is the bound;
* of lists: what is selected is a page of the rows as they were (`PageOf`), and a count that no change preceded
  is of those rows.

`FilterLaws` is about operators.  Complements and ranges follow case by case.  Days and months need that every instant is in one
month and that the starts of months increase.  `MonthStart` is a recursive function, of which no prover
knows that it exists; `CalendarExists` shows it by a minimal counterexample over the lengths of calendars (`Least`, from the well-foundedness
of the natural numbers), which stands in for an induction.

A second invariant says more than a property of the run: `ConnectionsHeld`, that a request holds the connections its
next statement needs, none when it ended, and the pool never lends more than it has; so one that waits either finds a
connection or may time out.  With `TriesCounted` (the model is asked two and three times at most) it gives
`RequestsAlwaysAdvance`, the safety half of `RequestsEnd`: a measure of what a request has left falls with each of its steps.
`RequestsEnd` itself is liveness and model-checked only.

## 10. Known limits of the code

Seen while modelling.  The first five are violation runs; the others were found by
TLC on instances that are not kept, or by reading.

* `forUpdate()` throws (`for_update`): no revision leaves draft or can be renamed or deleted, no material is stored, no product is deleted, no work
  order is released, no status of a node changes, whatever the interface offers.  The checks written after those calls never run.
* After 9.0 and 10.0 comes 10.0 again, for versions are sorted as text (`version_order`).
* A node can be moved below itself (`node_cycle`).
* The cleaner deletes what was confirmed after it had selected it (`cleanup_race`).
* Two updates of a role's permissions can leave none (`role_race`).
* BOM: two createRevision at once, or one and a createAlternative, may insert the same version (`misnumbered`); after a version typed
  `01.0` an alternative is `1.-Infinity`.
* Products: an update reads, writes and audits in three statements, so two may both claim the same old row, and the newest
  audit row may be the older change.
* Audit: createRevision and both writers of products write the audit row outside a
  transaction, so a failure loses it.
* Nodes: a child created while its parent is deleted stays below it, and one created while it is
  moved keeps the old path; two moves that overlap may put a node below itself; create accepts a parent of another organization; two organizations
  set up in the same millisecond have facilities of one path, and then neither can be moved
  (`subpath` finds nothing left of the other's).
* Attachments: a file name without extension is uploaded with one and looked for without; the path of
  a linked attachment is built from the sender of the message.
* Roles: a refresh of the copy that overlaps another may leave the older one; a login that overlaps a change of role
  leaves a token of the old role; a role may be assigned while it is deleted, and a user
  restored after it was; a role named like a predefined one gets its permissions at the next start.
* Tickets: one is inserted before the transaction of its first message and stays when that fails; addMessage reopens
  by the status it read before its transaction.
* signup that fails after its transaction leaves the organization and its nodes; it sends the code only with `sendMail`
  and inserts no row of settings.
* The code of a failed invitation or verification mail, or of a signup without `sendMail`, stays stored and was never sent (`unsent`).
* Codes are looked up without their user, and two users may have the same six digits; acceptInvitation takes
  verification codes too (one column); the e-mail in the body of verifyEmail is not used.  A login of an unverified user that overlaps
  verifyEmail writes a new code to a verified row.  resetPassword looks the user up twice and deletes
  the code last, which may be a newer one.  A failed invitation mail leaves the row, so inviting again conflicts.
  updateProfile may change `email` and `organizationId` and keeps `isVerified`; a change of case only conflicts with the user's own row.
  The 23505 of inviteUser is not mapped (500).  Overlapping resends exceed the limit by their number.
* Addresses: a failed statement after the others were cleared leaves no default; the total of the list counts those of
  all users (`user-addresses.service.ts:27`).
* Layouts: the count is of refusals since the last success, not in total; a judge that cannot be reached accepts and resets
  it; overlapping prompts may lose refusals or lift a block.  Two overlapping deletePage write two audit rows;
  updatePage of a page just deleted fails (500).
  `vibe.service.spec.ts:105-110` expects the audit action 'CREATE' where `vibe.service.ts:108` writes 'INSERT'.
* Lists: page and total are two statements.  `isBetween` takes the number 0 for a missing end; `lt` on a
  date is `lte`; `isEmpty` on a column that is not text fails in the database; windows of months overlap from days 29 to 31.
* Pool: as many moves or deletions as there are connections wait for one another until the time-out
  (`node.service.ts:191`, `:239`).  A refused connection of Redis ends the process, whatever its retry strategy.
* Permissions: the policy of work orders asks for `work-order.write`, which is not declared, so
  createWorkOrder is always refused; addMaterial's guard asks for `bom.update`, its policy for `bom.write`; `tickets.read.quotation`
  passes the guard and is refused by the policy; who holds only `tickets.add_message.all` cannot add to their own ticket;
  the scope 'own' of users compares an organization with a user, so plain `users.update` finds no row.
* Thumbnails, and the errors of their handlers, may be cached by anybody for an hour although their routes need a session
  (`ticket.controller.ts:94`, `attachment.controller.ts:82`).
* Routes: GET /health is declared twice.  Patterns of headers anchored at the root never match under the prefix
  `api`, so addresses of an account may be cached privately for five minutes.
* Answers: markAllAsRead commits, then answers 500; thumbnails wrap a file in JSON; errors that are not
  HttpExceptions are logged with another status than the one sent; refusals of guards are not logged.
* The list of execution jobs joins to nothing (`execution.service.ts:31`).
