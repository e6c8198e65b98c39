--------------------------- MODULE UserAddresses ---------------------------
(***************************************************************************)
(* The addresses of users and the default one among them: every operation  *)
(* that makes an address the default first takes that from the others, in  *)
(* a statement of its own, and a partial unique index (user_id where       *)
(* is_default) refuses a second default.                                   *)
(***************************************************************************)
EXTENDS Requests, FiniteSets, Naturals

CONSTANTS
  Owner, Address

VARIABLES
  addresses,    \* rows of user_addresses: [owner, isDefault]
  kept          \* history: owners who chose a default and have not lost it
                \* by removing or unsetting it, or by a failed statement

address_vars == <<addresses, kept>>

AddressesInit ==
  /\ addresses = [a \in Address |-> NULL]
  /\ kept = {}

Rows(u)     == {a \in Address : addresses[a] # NULL /\ addresses[a].owner = u}
Defaults(u) == {a \in Rows(u) : addresses[a].isDefault}

(* The unique index user_default_address_unique.                           *)
(* Faulty variant: there is none.                                          *)
NoIndex(u, a) == TRUE

Unique(u, a) == Defaults(u) \ {a} = {}

Cleared(u) == [a \in Address |->
                 IF a \in Rows(u) THEN [addresses[a] EXCEPT !.isDefault = FALSE]
                 ELSE addresses[a]]

(* Ids are UUIDs: a new one is known to no request.                        *)
Unknown == {a \in Address : addresses[a] = NULL
                             /\ \A s \in Session : ~At(s, "idle") => call[s].address # a}

(* Bound of the model: no more rows than addresses.                        *)
Room == Cardinality(Unknown) > Cardinality({s \in Session : ~At(s, "idle") /\ call[s].address = NULL})

(* create, with isDefault or without.                                      *)
createAddress(s, u, isDefault) ==
  /\ At(s, "idle") /\ Room
  /\ Goto(s, IF isDefault THEN "address.clear" ELSE "address.insert",
          [owner |-> u, address |-> NULL, isDefault |-> isDefault])
  /\ UNCHANGED address_vars

(* update, with isDefault true or false (an update without it changes      *)
(* nothing kept here); setDefault is one with true.                        *)
updateAddress(s, u, a, isDefault) ==
  /\ At(s, "idle") /\ a \in Rows(u)
  /\ Goto(s, IF isDefault THEN "address.clear" ELSE "address.update",
          [owner |-> u, address |-> a, isDefault |-> isDefault])
  /\ UNCHANGED address_vars

removeAddress(s, u, a) ==
  /\ At(s, "idle") /\ a \in Rows(u)
  /\ Goto(s, "address.delete", [owner |-> u, address |-> a])
  /\ UNCHANGED address_vars

(* UPDATE ... SET is_default = false for the addresses of the user.        *)
clearDefaults(s) ==
  /\ At(s, "address.clear")
  /\ addresses' = Cleared(call[s].owner)
  /\ Goto(s, IF call[s].address = NULL THEN "address.insert" ELSE "address.update", call[s])
  /\ UNCHANGED kept

insertAddress(s) ==
  LET u == call[s].owner  d == call[s].isDefault IN
  /\ At(s, "address.insert")
  /\ \/ /\ d => Unique(u, NULL)
        /\ \E a \in Unknown : addresses' = [addresses EXCEPT ![a] = [owner |-> u, isDefault |-> d]]
        /\ kept' = IF d THEN kept \cup {u} ELSE kept
     \/ d /\ ~Unique(u, NULL) /\ UNCHANGED address_vars
  /\ Return(s)

(* An UPDATE of a row that is gone changes nothing.                        *)
setIsDefault(s) ==
  LET u == call[s].owner  a == call[s].address  d == call[s].isDefault IN
  /\ At(s, "address.update")
  /\ \/ a \notin Rows(u) /\ kept' = (IF d THEN kept \ {u} ELSE kept) /\ UNCHANGED addresses
     \/ a \in Rows(u) /\ d /\ ~Unique(u, a) /\ UNCHANGED address_vars
     \/ /\ a \in Rows(u) /\ (d => Unique(u, a))
        /\ addresses' = [addresses EXCEPT ![a].isDefault = d]
        /\ kept' = IF d THEN kept \cup {u}
                   ELSE IF a \in Defaults(u) THEN kept \ {u} ELSE kept
  /\ Return(s)

deleteAddress(s) ==
  LET u == call[s].owner  a == call[s].address IN
  /\ At(s, "address.delete")
  /\ addresses' = [addresses EXCEPT ![a] = NULL]
  /\ kept' = IF a \in Defaults(u) THEN kept \ {u} ELSE kept
  /\ Return(s)

(* A statement fails: what an earlier one cleared stays so.                *)
addressFails(s) ==
  /\ Abort(s)
  /\ kept' = IF pc[s] \in {"address.insert", "address.update"} /\ call[s].isDefault
               THEN kept \ {call[s].owner} ELSE kept
  /\ UNCHANGED addresses

AddressesStep(s) ==
  \/ clearDefaults(s) \/ insertAddress(s) \/ setIsDefault(s) \/ deleteAddress(s) \/ addressFails(s)

AddressesRequest(s) ==
  \E u \in Owner :
    \/ \E d \in BOOLEAN : createAddress(s, u, d) \/ \E a \in Address : updateAddress(s, u, a, d)
    \/ \E a \in Address : removeAddress(s, u, a)

AddressesNext == \E s \in Session : AddressesStep(s) \/ AddressesRequest(s)

Choosing(u) ==
  \E s \in Session : /\ pc[s] \in {"address.insert", "address.update"}
                     /\ call[s].owner = u /\ call[s].isDefault

(* A user who chose a default address has exactly one, whatever requests   *)
(* run at the same time, while none is between its two statements: until   *)
(* that address is removed or unset, a statement fails, or the address     *)
(* chosen is removed before it is set.                                     *)
DefaultKept ==
  \A u \in Owner :
    /\ Cardinality(Defaults(u)) <= 1
    /\ u \in kept /\ ~Choosing(u) => Defaults(u) # {}
=============================================================================
