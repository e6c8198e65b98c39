------------------------------ MODULE Services ------------------------------
(***************************************************************************)
(* The services that share no state with one another: the codes of         *)
(* accounts, addresses, layouts and their pages, lists, and the pool of    *)
(* connections.  A behaviour is of one of them.                            *)
(***************************************************************************)
EXTENDS AccountService, UserAddresses, VibeService, ListQueries, DatabasePool

CONSTANTS
  AccountRows,  \* the rows of users there may be at first, for each part
  Queries       \* the list requests

VARIABLE part

otherThanAccounts  == <<address_vars, vibe_vars, table, pool_vars>>
otherThanAddresses == <<account_vars, vibe_vars, table, pool_vars>>
otherThanVibe      == <<account_vars, address_vars, table, pool_vars>>
otherThanLists     == <<account_vars, address_vars, vibe_vars, pool_vars>>
otherThanPool      == <<account_vars, address_vars, vibe_vars, table>>

vars == <<requests, account_vars, address_vars, vibe_vars, table, pool_vars, part>>

Init ==
  /\ part \in {"verification", "reset", "addresses", "prompts", "pages", "lists", "pool"}
  /\ NoRequests
  /\ \E rows \in IF part \in {"verification", "reset"} THEN AccountRows[part] ELSE {[u \in User |-> NULL]} :
       AccountInit(rows)
  /\ AddressesInit /\ VibeInit /\ ListInit /\ PoolInit

(* A statement, command or call of a request.                              *)
Step(s) ==
  /\ \/ part \in {"verification", "reset"} /\ AccountStep(s) /\ UNCHANGED otherThanAccounts
     \/ part = "addresses" /\ AddressesStep(s)/\ UNCHANGED otherThanAddresses
     \/ part \in {"prompts", "pages"} /\ VibeStep(s) /\ UNCHANGED otherThanVibe
     \/ part = "lists" /\ ListStep(s) /\ UNCHANGED otherThanLists
     \/ part = "pool" /\ PoolStep(s) /\ UNCHANGED otherThanPool
  /\ UNCHANGED part

Starting == (initialized \/ initializationFails) /\ UNCHANGED <<otherThanPool, part>>

Next ==
  /\ \/ part = "verification" /\ VerificationNext /\ UNCHANGED otherThanAccounts
     \/ part = "reset" /\ ResetNext /\ UNCHANGED otherThanAccounts
     \/ part = "addresses" /\ AddressesNext /\ UNCHANGED otherThanAddresses
     \/ part = "prompts" /\ PromptsNext /\ UNCHANGED otherThanVibe
     \/ part = "pages" /\ PagesNext /\ UNCHANGED otherThanVibe
     \/ part = "lists" /\ ListNext(Queries) /\ UNCHANGED otherThanLists
     \/ part = "pool" /\ PoolNext /\ UNCHANGED otherThanPool
  /\ UNCHANGED part

(* The event loop runs on every answer and every timeout; the mail server  *)
(* and the language model are taken to answer or to fail.                  *)
Spec == Init /\ [][Next]_vars
             /\ WF_vars(part = "pool" /\ Starting)
             /\ \A s \in Session : WF_vars(Step(s))

-----------------------------------------------------------------------------

(* Every request of these services ends, though the model stay busy and    *)
(* transactions wait for one another's connections; and the process comes  *)
(* to listen or exits.                                                     *)
RequestsEnd ==
  /\ \A s \in Session : []<>At(s, "idle")
  /\ [](part = "pool" => <>(boot \in {"listening", "exited"}))
=============================================================================
