---------------------------- MODULE DatabasePool ----------------------------
(***************************************************************************)
(* The start of the process, and the pool of connections of DrizzleService.*)
(* A statement takes a connection and gives it back; a transaction keeps   *)
(* one from BEGIN to COMMIT or ROLLBACK; move and delete of nodes read the *)
(* node outside their transaction, with a second connection, while they    *)
(* keep the first.                                                         *)
(***************************************************************************)
EXTENDS Requests, FiniteSets, Sequences, Naturals

CONSTANTS
  PoolSize,     \* connections of the pool (pg: 10 by default)
  MaxRetries    \* MAX_RETRIES of RedisService, 10

VARIABLES
  connected,    \* connections each request holds
  boot,         \* how far the process has started
  pings         \* failed pings of Redis

pool_vars == <<connected, boot, pings>>

PoolInit ==
  /\ connected = [s \in Session |-> 0]
  /\ boot = "database" /\ pings = 0

-----------------------------------------------------------------------------
(* bootstrap: modules are initialized one after the other, those that      *)
(* others import first: DrizzleService (a connection, then the migrations),*)
(* RedisService, PermissionSeederService; then app.listen.                 *)

Stages == <<"database", "migrations", "redis", "seed", "listening">>

StageAfter(stage) == CHOOSE next \in {Stages[i] : i \in 2..Len(Stages)} :
                  \E i \in 2..Len(Stages) : Stages[i - 1] = stage /\ Stages[i] = next

Exit == boot' = "exited"

initialized ==
  /\ boot \in {"database", "migrations", "redis", "seed"}
  /\ boot' = StageAfter(boot)
  /\ UNCHANGED <<connected, pings, requests>>

(* Redis gets ten pings; anything else that fails ends the start.          *)
initializationFails ==
  /\ boot \in {"database", "migrations", "redis", "seed"}
  /\ IF boot = "redis" /\ pings + 1 < MaxRetries
       THEN pings' = pings + 1 /\ UNCHANGED boot
       ELSE Exit /\ UNCHANGED pings
  /\ UNCHANGED <<connected, requests>>

(* At any time, Redis refuses connections: process.exit(1).                *)
redisRefused ==
  /\ boot # "exited"
  /\ Exit
  /\ connected' = [s \in Session |-> 0]
  /\ pc' = [s \in Session |-> "idle"] /\ call' = [s \in Session |-> NULL]
  /\ UNCHANGED pings

-----------------------------------------------------------------------------
(* Requests. *)

InUse == Cardinality({p \in Session \X (1..2) : p[2] <= connected[p[1]]})
Free  == PoolSize - InUse

Take(s)    == connected' = [connected EXCEPT ![s] = @ + 1] /\ UNCHANGED <<boot, pings>>
Release(s) == connected' = [connected EXCEPT ![s] = @ - 1] /\ UNCHANGED <<boot, pings>>

(* A statement, a transaction, or (move, delete) one that reads with       *)
(* this.db.                                                                *)
query(s, nested) ==
  /\ At(s, "idle") /\ boot = "listening"
  /\ Goto(s, "pool.wait", [nested |-> nested])
  /\ UNCHANGED pool_vars

connect(s) ==
  /\ At(s, "pool.wait") /\ Free > 0
  /\ Take(s)
  /\ Goto(s, IF call[s].nested THEN "pool.wait.second" ELSE "pool.run", call[s])

findOneOutside(s) ==
  /\ At(s, "pool.wait.second") /\ Free > 0
  /\ Take(s)
  /\ Goto(s, "pool.read", call[s])

readOutside(s) ==
  /\ At(s, "pool.read")
  /\ Release(s)
  /\ Goto(s, "pool.run", call[s])

(* COMMIT, or the result of the statement.                                 *)
finish(s) ==
  /\ At(s, "pool.run")
  /\ Release(s)
  /\ Return(s)

(* connectionTimeoutMillis: a request that waits too long fails, rolls     *)
(* back and gives back what it has.                                        *)
(* Faulty variant: only a request that holds nothing.                      *)
connectionTimeoutFirst(s) ==
  /\ At(s, "pool.wait") /\ Free = 0
  /\ Return(s)
  /\ UNCHANGED pool_vars

connectionTimeout(s) ==
  /\ pc[s] \in {"pool.wait", "pool.wait.second"} /\ Free = 0
  /\ connected' = [connected EXCEPT ![s] = 0]
  /\ Return(s)
  /\ UNCHANGED <<boot, pings>>

(* query_timeout, or an error: ROLLBACK.                                   *)
queryFails(s) ==
  /\ pc[s] \in {"pool.read", "pool.run"}
  /\ connected' = [connected EXCEPT ![s] = 0]
  /\ Return(s)
  /\ UNCHANGED <<boot, pings>>

PoolStep(s) ==
  \/ connect(s) \/ findOneOutside(s) \/ readOutside(s) \/ finish(s)
  \/ connectionTimeout(s) \/ queryFails(s)

PoolNext ==
  \/ \E s \in Session : PoolStep(s) \/ \E nested \in BOOLEAN : query(s, nested)
  \/ initialized \/ initializationFails \/ redisRefused
=============================================================================
