--------------------------- MODULE ServicesProofs ---------------------------
(***************************************************************************)
(* Proofs about Services for every number of requests, users, addresses    *)
(* and pages.                                                              *)
(***************************************************************************)
EXTENDS ServicesInvariant, TLAPS, FiniteSetTheorems, FunctionTheorems, SequenceTheorems,
        NaturalsInduction, WellFoundedInduction

-----------------------------------------------------------------------------
(* Requests stay at statements of their part. *)

LEMMA PlacesShaped == Places => Shape
BY DEF Places, Shape

LEMMA GoesTo ==
  ASSUME Places, UNCHANGED part, NEW s \in Session, NEW l \in LabelsOf(part), NEW c, Goto(s, l, c)
  PROVE  Places'
<1>1. Shape' /\ pc'[s] = l /\ Others(s)
  BY PlacesShaped, GotoEffect
<1> QED BY <1>1 DEF Places, Others, Shape

LEMMA Ends ==
  ASSUME Places, UNCHANGED part, NEW s \in Session, Return(s)
  PROVE  Places'
<1>1. Shape' /\ pc'[s] = "idle" /\ Others(s)
  BY PlacesShaped, ReturnEffect
<1> QED BY <1>1 DEF Places, Others, Shape

LEMMA Rests ==
  ASSUME Places, UNCHANGED <<part, requests>>
  PROVE  Places'
BY DEF Places, requests

LEMMA AccountPlaces ==
  ASSUME Places, UNCHANGED part, part \in {"verification", "reset"}, NEW s \in Session,
         AccountStep(s) \/ Verification(s) \/ Reset(s)
  PROVE  Places'
<1> USE GoesTo, Ends DEF LabelsOf, AccountLabels
<1>1. CASE \E c \in Code : verifyEmail(s, c) \/ acceptInvitation(s, c)
  BY <1>1 DEF verifyEmail, acceptInvitation
<1>2. CASE \E u \in User : loginUnverified(s, u)
  BY <1>2 DEF loginUnverified
<1>3. CASE \E e \in Written : inviteUser(s, e) \/ resend(s, e) \/ forgotPassword(s, e)
  BY <1>3 DEF inviteUser, resend, forgotPassword
<1>4. CASE \E e \in Written, c \in Code : resetPassword(s, e, c)
  BY <1>4 DEF resetPassword
<1>5. CASE \E m \in Moves : updateProfile(s, m[1], m[2])
  BY <1>5 DEF updateProfile
<1>6. CASE open(s) \/ updateVerificationToken(s) \/ insertInvited(s) \/ sendCode(s)
  BY <1>6 DEF open, updateVerificationToken, insertInvited, sendCode
<1>7. CASE resendFind(s)
  BY <1>7 DEF resendFind
<1>8. CASE incrementResendAttempts(s) \/ expireResends(s) \/ deleteOtp(s) \/ setOtp(s)
  BY <1>8 DEF incrementResendAttempts, expireResends, deleteOtp, setOtp
<1>9. CASE verifyOTP(s) \/ compareOtp(s) \/ writeReset(s) \/ deleteUsed(s) \/ accountFails(s)
  BY <1>9 DEF verifyOTP, compareOtp, writeReset, deleteUsed, accountFails, Abort
<1>10. CASE writeProfile(s)
  BY <1>10 DEF writeProfile, Places
<1> QED BY <1>1, <1>2, <1>3, <1>4, <1>5, <1>6, <1>7, <1>8, <1>9, <1>10
        DEF AccountStep, Verification, Reset

LEMMA AddressPlaces ==
  ASSUME Places, UNCHANGED part, part = "addresses", NEW s \in Session,
         AddressesStep(s) \/ AddressesRequest(s)
  PROVE  Places'
<1> USE GoesTo, Ends DEF LabelsOf, AddressLabels
<1>1. CASE AddressesStep(s)
  BY <1>1 DEF AddressesStep, clearDefaults, insertAddress, setIsDefault, deleteAddress, addressFails, Abort
<1>2. CASE AddressesRequest(s)
  BY <1>2 DEF AddressesRequest, createAddress, updateAddress, removeAddress
<1> QED BY <1>1, <1>2

LEMMA VibePlaces ==
  ASSUME Places, UNCHANGED part, part \in {"prompts", "pages"}, NEW s \in Session,
         \/ VibeStep(s)
         \/ \E u \in Author : \/ generateLayout(s, u) \/ createPage(s, u)
                              \/ \E p \in Page, action \in {"UPDATE", "DELETE"} : changePage(s, u, p, action)
  PROVE  Places'
<1> USE GoesTo, Ends DEF LabelsOf, VibeLabels, JudgeLabels
<1>1. CASE \E outcome \in {"accepted", "refused", "busy", "error"} : validateIntent(s, outcome)
  BY <1>1 DEF validateIntent
<1>2. CASE \E outcome \in {"layout", "busy", "error"} : requestLayout(s, outcome)
  BY <1>2 DEF requestLayout
<1>3. CASE recordFailure(s) \/ resetFailures(s)
  BY <1>3 DEF recordFailure, resetFailures
<1>4. CASE updatePage(s) \/ deletePage(s) \/ recordChange(s) \/ vibeFails(s)
  BY <1>4 DEF updatePage, deletePage, recordChange, vibeFails, Abort
<1>5. CASE \E u \in Author : generateLayout(s, u) \/ createPage(s, u)
  BY <1>5 DEF generateLayout, createPage
<1>6. CASE \E u \in Author, p \in Page, action \in {"UPDATE", "DELETE"} : changePage(s, u, p, action)
  BY <1>6 DEF changePage
<1> QED BY <1>1, <1>2, <1>3, <1>4, <1>5, <1>6 DEF VibeStep

LEMMA OtherPlaces ==
  ASSUME Places, UNCHANGED part,
         \/ part = "lists" /\ (ListNext(Queries) \/ \E s \in Session : ListStep(s))
         \/ part = "pool" /\ (PoolNext \/ \E s \in Session : PoolStep(s))
  PROVE  Places'
<1> USE GoesTo, Ends, Rests DEF LabelsOf, ListLabels, PoolLabels
<1>1. ASSUME NEW s \in Session, part = "lists", ListStep(s) PROVE Places'
  BY <1>1 DEF ListStep, selectPage, executeCount, respondList
<1>2. ASSUME NEW s \in Session, NEW q, part = "lists", list(s, q) PROVE Places'
  BY <1>2 DEF list
<1>3. CASE tableChanges
  BY <1>3 DEF tableChanges, Places
<1>4. ASSUME NEW s \in Session, part = "pool", PoolStep(s) PROVE Places'
  BY <1>4 DEF PoolStep, connect, findOneOutside, readOutside, finish, connectionTimeout, queryFails
<1>5. ASSUME NEW s \in Session, NEW nested, part = "pool", query(s, nested) PROVE Places'
  BY <1>5 DEF query
<1>6. CASE initialized \/ initializationFails
  BY <1>6 DEF initialized, initializationFails
<1>7. CASE redisRefused
  BY <1>7 DEF redisRefused, Places
<1> QED BY <1>1, <1>2, <1>3, <1>4, <1>5, <1>6, <1>7 DEF ListNext, PoolNext

LEMMA NextPlaces == Places /\ [Next]_vars => Places'
<1> SUFFICES ASSUME Places, [Next]_vars PROVE Places'
  OBVIOUS
<1>1. CASE UNCHANGED vars
  BY <1>1, Rests DEF vars
<1>2. CASE Next
  <2>1. UNCHANGED part
    BY <1>2 DEF Next
  <2>2. CASE part \in {"verification", "reset"}
    <3>1. VerificationNext \/ ResetNext
      BY <1>2, <2>2 DEF Next
    <3> QED BY <2>1, <2>2, <3>1, AccountPlaces, Rests
            DEF VerificationNext, ResetNext, resendsEnd, otpEnds
  <2>3. CASE part = "addresses"
    BY <1>2, <2>1, <2>3, AddressPlaces DEF Next, AddressesNext
  <2>4. CASE part \in {"prompts", "pages"}
    <3>1. PromptsNext \/ PagesNext
      BY <1>2, <2>4 DEF Next
    <3> QED BY <2>1, <2>4, <3>1, VibePlaces, Rests DEF PromptsNext, PagesNext, blockEnds
  <2>5. CASE part \in {"lists", "pool"}
    BY <1>2, <2>1, <2>5, OtherPlaces DEF Next
  <2> QED BY <2>2, <2>3, <2>4, <2>5 DEF Places, Part
<1> QED BY <1>1, <1>2

-----------------------------------------------------------------------------
(* UserAddresses. *)

(* A row changes its columns, or goes, or is inserted with an id that no   *)
(* request knows.                                                          *)
LEMMA AddressOthers ==
  ASSUME AddressInv, NEW s \in Session, Others(s), AddressCallOK(s)',
         \A a \in Address : \/ addresses'[a] = NULL
                            \/ addresses[a] # NULL /\ addresses'[a].owner = addresses[a].owner
                            \/ a \in Unknown
  PROVE  \A t \in Session : AddressCallOK(t)'
<1> SUFFICES ASSUME NEW t \in Session, t # s PROVE AddressCallOK(t)'
  OBVIOUS
<1>1. pc'[t] = pc[t] /\ call'[t] = call[t] /\ AddressCallOK(t)
  BY DEF Others, AddressInv
<1> QED BY <1>1 DEF AddressCallOK, AddressLabels, Unknown, At

LEMMA AddressRequests ==
  ASSUME AddressInv, Places, NEW s \in Session, AddressesRequest(s)
  PROVE  AddressInv'
<1>1. UNCHANGED address_vars /\ At(s, "idle")
  BY DEF AddressesRequest, createAddress, updateAddress, removeAddress
<1>2. Shape' /\ Others(s) /\ AddressCallOK(s)'
           /\ (pc'[s] \in {"address.insert", "address.update"} => ~call'[s].isDefault)
  <2> USE PlacesShaped, GotoEffect, ServicesNull, <1>1
      DEF AddressCallOK, AddressLabels, address_vars, Rows, AddressInv, AddressTypes, AddressRow
  <2>1. CASE \E u \in Owner, d \in BOOLEAN : createAddress(s, u, d)
    BY <2>1 DEF createAddress
  <2>2. CASE \E u \in Owner, d \in BOOLEAN, a \in Address : updateAddress(s, u, a, d)
    BY <2>2 DEF updateAddress
  <2>3. CASE \E u \in Owner, a \in Address : removeAddress(s, u, a)
    BY <2>3 DEF removeAddress
  <2> QED BY <2>1, <2>2, <2>3 DEF AddressesRequest
<1>3. \A t \in Session : AddressCallOK(t)'
  BY <1>1, <1>2, AddressOthers DEF address_vars
<1>4. \A u \in Owner : Choosing(u) => Choosing(u)'
  BY <1>1, <1>2 DEF Choosing, Others, At
<1> QED BY <1>1, <1>3, <1>4
        DEF AddressInv, AddressTypes, OneDefault, DefaultSurvives, Defaults, Rows, address_vars

LEMMA AddressCleared ==
  ASSUME AddressInv, Places, NEW s \in Session, clearDefaults(s)
  PROVE  AddressInv'
<1> DEFINE u == call[s].owner
<1>1. AddressCallOK(s) /\ At(s, "address.clear") /\ u \in Owner /\ call[s].isDefault = TRUE
  BY DEF AddressInv, AddressCallOK, AddressLabels, clearDefaults, At
<1>2. Shape' /\ Others(s) /\ call'[s] = call[s] /\ kept' = kept
      /\ pc'[s] = (IF call[s].address = NULL THEN "address.insert" ELSE "address.update")
  BY PlacesShaped, GotoEffect DEF clearDefaults
<1>3. addresses' = [a \in Address |-> IF a \in Rows(u) THEN [addresses[a] EXCEPT !.isDefault = FALSE]
                                      ELSE addresses[a]]
  BY DEF clearDefaults, Cleared
<1>4. AddressTypes'
  BY <1>2, <1>3 DEF AddressInv, AddressTypes, AddressRow, Rows
<1>5. \A a \in Address : /\ addresses'[a] = NULL <=> addresses[a] = NULL
                         /\ addresses[a] # NULL => addresses'[a].owner = addresses[a].owner
  BY <1>3, ServicesNull DEF AddressInv, AddressTypes, AddressRow, Rows
<1>6. \A t \in Session : AddressCallOK(t)'
  <2>1. AddressCallOK(s)'
    BY <1>1, <1>2, <1>5, ServicesNull DEF AddressCallOK, AddressLabels, At
  <2> QED BY <1>2, <1>5, <2>1, AddressOthers
<1>7. \A v \in Owner : Defaults(v)' = IF v = u THEN {} ELSE Defaults(v)
  BY <1>3, <1>5 DEF Defaults, Rows, AddressInv, AddressTypes, AddressRow
<1>8. Choosing(u)' /\ \A v \in Owner : Choosing(v) => Choosing(v)'
  BY <1>1, <1>2 DEF Choosing, Others, At
<1>9. OneDefault' /\ DefaultSurvives'
  BY <1>1, <1>2, <1>7, <1>8 DEF OneDefault, DefaultSurvives, AddressInv, AddressTypes
<1> QED BY <1>4, <1>6, <1>9 DEF AddressInv

(* The last statement of a request of user u changes the addresses of u    *)
(* only.                                                                   *)
LEMMA AddressEnds ==
  ASSUME AddressInv, Places, NEW s \in Session, Return(s), pc[s] \in AddressLabels, AddressTypes',
         \A a \in Address : \/ addresses'[a] = NULL
                            \/ addresses[a] # NULL /\ addresses'[a].owner = addresses[a].owner
                            \/ a \in Unknown,
         NEW u \in Owner, u = call[s].owner,
         \A v \in Owner \ {u} : Defaults(v)' = Defaults(v) /\ (v \in kept' => v \in kept),
         \A a, b \in Defaults(u)' : a = b,
         \/ u \in kept' => Defaults(u)' # {}
         \/ /\ Defaults(u)' = Defaults(u) /\ (u \in kept' => u \in kept)
            /\ pc[s] \in {"address.insert", "address.update"} => ~call[s].isDefault
  PROVE  AddressInv'
<1>1. Shape' /\ Others(s) /\ pc'[s] = "idle"
  BY PlacesShaped, ReturnEffect
<1>2. \A t \in Session : AddressCallOK(t)'
  <2>1. AddressCallOK(s)'
    BY <1>1 DEF AddressCallOK, AddressLabels
  <2> QED BY <1>1, <2>1, AddressOthers
<1>3. OneDefault'
  BY DEF OneDefault, AddressInv
<1>4. ASSUME NEW v \in Owner, v \in kept' PROVE Choosing(v)' \/ Defaults(v)' # {}
  <2>1. CASE v = u /\ (u \in kept' => Defaults(u)' # {})
    BY <1>4, <2>1
  <2>2. CASE v # u \/ (pc[s] \in {"address.insert", "address.update"} => ~call[s].isDefault)
    <3>1. Choosing(v) => Choosing(v)'
      BY <1>1, <2>2 DEF Choosing, Others, At
    <3>2. CASE v # u
      BY <1>4, <3>1, <3>2 DEF AddressInv, DefaultSurvives
    <3>3. CASE v = u
      BY <1>4, <2>2, <3>1, <3>3 DEF AddressInv, DefaultSurvives
    <3> QED BY <3>2, <3>3
  <2> QED BY <2>1, <2>2
<1> QED BY <1>2, <1>3, <1>4 DEF AddressInv, DefaultSurvives, AddressTypes

LEMMA AddressInserted ==
  ASSUME AddressInv, Places, NEW s \in Session, insertAddress(s)
  PROVE  AddressInv'
<1>1. PICK u \in Owner, d \in BOOLEAN :
        u = call[s].owner /\ d = call[s].isDefault /\ pc[s] = "address.insert" /\ Return(s)
  BY DEF AddressInv, AddressCallOK, AddressLabels, insertAddress, At
<1>2. CASE d /\ ~Unique(u, NULL) /\ UNCHANGED address_vars
  <2>1. Defaults(u) # {}
    BY <1>2 DEF Unique
  <2>2. AddressTypes' /\ \A v \in Owner : Defaults(v)' = Defaults(v)
    BY <1>2 DEF Defaults, Rows, address_vars, AddressInv, AddressTypes
  <2>3. \A a, b \in Defaults(u)' : a = b
    BY <1>1, <2>2 DEF AddressInv, OneDefault
  <2> QED BY <1>1, <1>2, <2>1, <2>2, <2>3, AddressEnds DEF address_vars, AddressLabels
<1>3. ASSUME NEW a \in Unknown, d => Unique(u, NULL),
             addresses' = [addresses EXCEPT ![a] = [owner |-> u, isDefault |-> d]],
             kept' = IF d THEN kept \cup {u} ELSE kept
      PROVE  AddressInv'
  <2>1. a \in Address /\ addresses[a] = NULL /\ [owner |-> u, isDefault |-> d] \in AddressRow
    BY <1>1, <1>3 DEF Unknown, AddressRow
  <2>2. AddressTypes'
    BY <1>1, <1>3, <2>1 DEF AddressInv, AddressTypes
  <2>3. \A v \in Owner : Defaults(v)' = IF v = u /\ d THEN Defaults(v) \cup {a} ELSE Defaults(v)
    BY <1>1, <1>3, <2>1, ServicesNull DEF Defaults, Rows, AddressInv, AddressTypes, AddressRow
  <2>4. d => Defaults(u)' = {a}
    <3>1. d => Defaults(u) \subseteq {NULL}
      BY <1>3 DEF Unique
    <3> QED BY <1>1, <2>3, <3>1, ServicesNull DEF Defaults, Rows
  <2>5. \A b, c \in Defaults(u)' : b = c
    BY <1>1, <2>3, <2>4 DEF AddressInv, OneDefault
  <2>6. \A b \in Address \ {a} : addresses'[b] = addresses[b]
    BY <1>3 DEF AddressInv, AddressTypes
  <2>7. /\ \A v \in Owner \ {u} : Defaults(v)' = Defaults(v) /\ (v \in kept' => v \in kept)
        /\ \/ u \in kept' => Defaults(u)' # {}
           \/ /\ Defaults(u)' = Defaults(u) /\ (u \in kept' => u \in kept)
              /\ pc[s] \in {"address.insert", "address.update"} => ~call[s].isDefault
    BY <1>1, <1>3, <2>3, <2>4
  <2> QED BY <1>1, <1>3, <2>2, <2>5, <2>6, <2>7, AddressEnds DEF AddressLabels
<1> QED BY <1>1, <1>2, <1>3 DEF insertAddress

LEMMA AddressSet ==
  ASSUME AddressInv, Places, NEW s \in Session, setIsDefault(s)
  PROVE  AddressInv'
<1>1. PICK u \in Owner, d \in BOOLEAN, a \in Address :
        /\ u = call[s].owner /\ d = call[s].isDefault /\ a = call[s].address
        /\ pc[s] = "address.update" /\ Return(s)
        /\ a # NULL /\ (addresses[a] = NULL \/ addresses[a].owner = u)
  BY ServicesNull DEF AddressInv, AddressCallOK, AddressLabels, setIsDefault, At
<1>2. CASE /\ UNCHANGED addresses
           /\ \/ a \notin Rows(u) /\ kept' = (IF d THEN kept \ {u} ELSE kept)
              \/ d /\ ~Unique(u, a) /\ kept' = kept
  <2>1. AddressTypes' /\ \A v \in Owner : Defaults(v)' = Defaults(v)
    BY <1>2 DEF Defaults, Rows, AddressInv, AddressTypes
  <2>2. \A b, c \in Defaults(u)' : b = c
    BY <1>1, <2>1 DEF AddressInv, OneDefault
  <2>3. kept' \subseteq kept /\ (d => (u \in kept' => Defaults(u)' # {}))
    BY <1>1, <1>2, <2>1 DEF Unique
  <2> QED BY <1>1, <1>2, <2>1, <2>2, <2>3, AddressEnds DEF AddressLabels
<1>3. CASE /\ a \in Rows(u) /\ (d => Unique(u, a))
           /\ addresses' = [addresses EXCEPT ![a].isDefault = d]
           /\ kept' = IF d THEN kept \cup {u} ELSE IF a \in Defaults(u) THEN kept \ {u} ELSE kept
  <2>1. /\ addresses[a] \in AddressRow /\ addresses'[a] \in AddressRow
        /\ addresses'[a].owner = u /\ addresses'[a].isDefault = d /\ addresses[a].owner = u
        /\ \A b \in Address \ {a} : addresses'[b] = addresses[b]
    BY <1>1, <1>3 DEF Rows, AddressInv, AddressTypes, AddressRow
  <2>2. AddressTypes'
    BY <1>1, <1>3, <2>1 DEF AddressInv, AddressTypes
  <2>3. \A v \in Owner : Defaults(v)' = IF v # u THEN Defaults(v)
                                        ELSE IF d THEN Defaults(v) \cup {a} ELSE Defaults(v) \ {a}
    BY <1>1, <2>1, ServicesNull DEF Defaults, Rows, AddressRow
  <2>4. d => Defaults(u)' = {a}
    BY <1>1, <1>3, <2>3 DEF Unique
  <2>5. \A b, c \in Defaults(u)' : b = c
    BY <1>1, <2>3, <2>4 DEF AddressInv, OneDefault
  <2>6. /\ \A v \in Owner \ {u} : Defaults(v)' = Defaults(v) /\ (v \in kept' => v \in kept)
        /\ \/ u \in kept' => Defaults(u)' # {}
           \/ /\ Defaults(u)' = Defaults(u) /\ (u \in kept' => u \in kept)
              /\ pc[s] \in {"address.insert", "address.update"} => ~call[s].isDefault
    BY <1>1, <1>3, <2>3, <2>4 DEF AddressInv, AddressTypes
  <2> QED BY <1>1, <2>1, <2>2, <2>5, <2>6, AddressEnds, ServicesNull DEF AddressLabels, AddressRow
<1> QED BY <1>1, <1>2, <1>3 DEF setIsDefault, address_vars

LEMMA AddressDeleted ==
  ASSUME AddressInv, Places, NEW s \in Session, deleteAddress(s)
  PROVE  AddressInv'
<1>1. PICK u \in Owner, a \in Address :
        /\ u = call[s].owner /\ a = call[s].address /\ pc[s] = "address.delete" /\ Return(s)
        /\ a # NULL /\ (addresses[a] = NULL \/ addresses[a].owner = u)
  BY ServicesNull DEF AddressInv, AddressCallOK, AddressLabels, deleteAddress, At
<1>2. /\ addresses' = [addresses EXCEPT ![a] = NULL]
      /\ kept' = IF a \in Defaults(u) THEN kept \ {u} ELSE kept
  BY <1>1 DEF deleteAddress
<1>3. AddressTypes'
  BY <1>2 DEF AddressInv, AddressTypes
<1>4. \A v \in Owner : Defaults(v)' = Defaults(v) \ {a}
  BY <1>2 DEF Defaults, Rows, AddressInv, AddressTypes
<1>5. \A v \in Owner \ {u} : a \notin Defaults(v)
  BY <1>1 DEF Defaults, Rows
<1>6. \A b, c \in Defaults(u)' : b = c
  BY <1>1, <1>4 DEF AddressInv, OneDefault
<1>7. \A b \in Address : addresses'[b] = NULL \/ addresses'[b] = addresses[b]
  BY <1>2 DEF AddressInv, AddressTypes
<1>8. \/ u \in kept' => Defaults(u)' # {}
      \/ /\ Defaults(u)' = Defaults(u) /\ (u \in kept' => u \in kept)
         /\ pc[s] \in {"address.insert", "address.update"} => ~call[s].isDefault
  BY <1>1, <1>2, <1>4
<1>9. \A v \in Owner \ {u} : Defaults(v)' = Defaults(v) /\ (v \in kept' => v \in kept)
  BY <1>2, <1>4, <1>5
<1>10. pc[s] \in AddressLabels
  BY <1>1 DEF AddressLabels
<1> QED BY <1>1, <1>3, <1>6, <1>7, <1>8, <1>9, <1>10, AddressEnds

LEMMA AddressFailed ==
  ASSUME AddressInv, Places, part = "addresses", NEW s \in Session, addressFails(s)
  PROVE  AddressInv'
<1>1. PICK u \in Owner : u = call[s].owner /\ pc[s] \in AddressLabels /\ Return(s)
  BY DEF addressFails, Abort, Places, LabelsOf, AddressInv, AddressCallOK
<1>2. /\ UNCHANGED addresses
      /\ kept' = IF pc[s] \in {"address.insert", "address.update"} /\ call[s].isDefault
                   THEN kept \ {u} ELSE kept
  BY <1>1 DEF addressFails
<1>3. AddressTypes' /\ \A v \in Owner : Defaults(v)' = Defaults(v)
  BY <1>2 DEF Defaults, Rows, AddressInv, AddressTypes
<1>4. \A b, c \in Defaults(u)' : b = c
  BY <1>1, <1>3 DEF AddressInv, OneDefault
<1> QED BY <1>1, <1>2, <1>3, <1>4, AddressEnds

LEMMA AddressNext ==
  ASSUME AddressInv, Places, part = "addresses", AddressesNext
  PROVE  AddressInv'
BY AddressRequests, AddressCleared, AddressInserted, AddressSet, AddressDeleted, AddressFailed
   DEF AddressesNext, AddressesStep

-----------------------------------------------------------------------------
(* VibeService: prompts. *)

LEMMA PromptsElsewhere ==
  ASSUME PromptsInv, NEW s \in Session, Others(s), UNCHANGED prompts,
         pc'[s] \in JudgeLabels =>
           /\ pc[s] \in JudgeLabels
           /\ call'[s] = [user |-> call[s].user, row |-> call[s].row, tries |-> call'[s].tries]
  PROVE  PromptsInv'
<1>1. \A t \in Session : pc'[t] \in JudgeLabels =>
        /\ pc[t] \in JudgeLabels /\ call'[t].user = call[t].user /\ call'[t].row = call[t].row
        /\ call'[t] = [user |-> call'[t].user, row |-> call'[t].row, tries |-> call'[t].tries]
  BY DEF Others, PromptsInv, PromptTypes
<1>2. PromptTypes'
  BY <1>1 DEF PromptsInv, PromptTypes, prompts
<1>3. \A t \in Session, u \in Author : Judged(t, u)' => Judged(t, u)
  BY <1>1 DEF Judged
<1>4. JudgedAlone'
  BY <1>3 DEF PromptsInv, JudgedAlone, prompts
<1>5. JudgedCurrent'
  <2> SUFFICES ASSUME NEW u \in Author, u \notin overlapped', NEW t \in Session, Judged(t, u)'
               PROVE  call'[t].row = vibe'[u] /\ vibe'[u].blocked = "no"
    BY DEF JudgedCurrent
  <2>1. Judged(t, u) /\ call'[t].row = call[t].row
    BY <1>1, <1>3 DEF Judged
  <2> QED BY <2>1 DEF PromptsInv, JudgedCurrent, prompts
<1>6. FailuresCounted'
  BY DEF PromptsInv, FailuresCounted, prompts
<1> QED BY <1>2, <1>4, <1>5, <1>6 DEF PromptsInv

LEMMA PromptsBegin ==
  ASSUME PromptsInv, Places, NEW s \in Session, NEW u \in Author, generateLayout(s, u)
  PROVE  PromptsInv'
<1>1. /\ pc[s] = "idle" /\ vibe[u].blocked = "no" /\ UNCHANGED <<vibe, refused>>
      /\ pc'[s] = "intent.try" /\ call'[s] = [user |-> u, row |-> vibe[u], tries |-> 1] /\ Others(s)
      /\ overlapped' = IF Judging(u) = {} THEN overlapped ELSE overlapped \cup {u}
  BY PlacesShaped, GotoEffect DEF generateLayout, At
<1>2. PromptTypes'
  BY <1>1 DEF PromptsInv, PromptTypes, Others, JudgeLabels
<1>3. \A v \in Author, t \in Session : Judged(t, v)' <=> Judged(t, v) \/ (t = s /\ v = u)
  BY <1>1 DEF Judged, Others, JudgeLabels
<1>4. u \notin overlapped' => \A t \in Session : ~Judged(t, u)
  BY <1>1 DEF Judging, Judged, JudgeLabels
<1>5. JudgedAlone'
  BY <1>1, <1>3, <1>4 DEF PromptsInv, JudgedAlone
<1>6. JudgedCurrent'
  <2> SUFFICES ASSUME NEW v \in Author, v \notin overlapped', NEW t \in Session, Judged(t, v)'
               PROVE  call'[t].row = vibe'[v] /\ vibe'[v].blocked = "no"
    BY DEF JudgedCurrent
  <2>1. CASE t = s /\ v = u
    BY <1>1, <2>1
  <2>2. CASE ~(t = s /\ v = u)
    <3>1. Judged(t, v) /\ v \notin overlapped
      BY <1>1, <1>3, <2>2
    <3>2. t # s
      BY <1>1, <3>1 DEF Judged, JudgeLabels
    <3> QED BY <1>1, <3>1, <3>2 DEF PromptsInv, JudgedCurrent, Others
  <2> QED BY <2>1, <2>2
<1>7. FailuresCounted'
  BY <1>1 DEF PromptsInv, FailuresCounted
<1> QED BY <1>2, <1>5, <1>6, <1>7 DEF PromptsInv

(* The row of a user is written by a request that was judged: no other is, *)
(* unless the user has overlapped.                                         *)
LEMMA PromptWritten ==
  ASSUME PromptsInv, NEW s \in Session, NEW u \in Author, Judged(s, u), Others(s), UNCHANGED overlapped,
         pc'[s] \notin JudgeLabels,
         NEW row \in VibeRow, NEW n \in Nat,
         vibe' = [vibe EXCEPT ![u] = row], refused' = [refused EXCEPT ![u] = n],
         u \notin overlapped => row.failCount = n /\ (n >= HardLock => row.blocked = "permanent")
  PROVE  PromptsInv'
<1>1. PromptTypes'
  BY DEF PromptsInv, PromptTypes, Others
<1>2. \A v \in Author, t \in Session : Judged(t, v)' => t # s /\ Judged(t, v)
  BY DEF Judged, Others
<1>3. JudgedAlone'
  BY <1>2 DEF PromptsInv, JudgedAlone
<1>4. JudgedCurrent'
  BY <1>2 DEF PromptsInv, PromptTypes, JudgedAlone, JudgedCurrent, Others
<1>5. FailuresCounted'
  BY DEF PromptsInv, PromptTypes, FailuresCounted
<1> QED BY <1>1, <1>3, <1>4, <1>5 DEF PromptsInv

LEMMA FailureRecorded ==
  ASSUME PromptsInv, Places, NEW s \in Session, recordFailure(s)
  PROVE  PromptsInv'
<1>1. PICK u \in Author, old \in VibeRow : u = call[s].user /\ old = call[s].row /\ Judged(s, u)
  BY DEF recordFailure, At, PromptsInv, PromptTypes, Judged, JudgeLabels
<1> DEFINE row == [failCount |-> old.failCount + 1, blocked |-> BlockAfter(old.failCount + 1, old)]
           n   == IF refused[u] < HardLock THEN refused[u] + 1 ELSE refused[u]
<1>2. vibe' = [vibe EXCEPT ![u] = row] /\ refused' = [refused EXCEPT ![u] = n] /\ UNCHANGED overlapped
  BY <1>1 DEF recordFailure
<1>3. row \in VibeRow /\ n \in Nat
  BY <1>1, ServicesConstants DEF VibeRow, BlockAfter, PromptsInv, PromptTypes
<1>4. u \notin overlapped => row.failCount = n /\ (n >= HardLock => row.blocked = "permanent")
  <2>1. u \notin overlapped => old = vibe[u] /\ vibe[u].blocked = "no" /\ vibe[u].failCount = refused[u]
                               /\ ~(refused[u] >= HardLock)
    BY <1>1 DEF PromptsInv, JudgedCurrent, FailuresCounted
  <2> QED BY <2>1, <1>3, ServicesConstants DEF BlockAfter, VibeRow, PromptsInv, PromptTypes
<1>5. Others(s) /\ pc'[s] \notin JudgeLabels
  BY PlacesShaped, ReturnEffect DEF recordFailure, JudgeLabels
<1> HIDE DEF row, n
<1> QED BY <1>1, <1>2, <1>3, <1>4, <1>5, PromptWritten

LEMMA FailuresReset ==
  ASSUME PromptsInv, Places, NEW s \in Session, resetFailures(s)
  PROVE  PromptsInv'
<1>1. PICK u \in Author : u = call[s].user /\ Judged(s, u)
  BY DEF resetFailures, At, PromptsInv, PromptTypes, Judged, JudgeLabels
<1> DEFINE row == [failCount |-> 0, blocked |-> "no"]
<1>2. vibe' = [vibe EXCEPT ![u] = row] /\ refused' = [refused EXCEPT ![u] = 0] /\ UNCHANGED overlapped
  BY <1>1 DEF resetFailures
<1>3. row \in VibeRow /\ row.failCount = 0 /\ ~(0 >= HardLock)
  BY ServicesConstants DEF VibeRow
<1>4. Others(s) /\ pc'[s] \notin JudgeLabels
  BY PlacesShaped, GotoEffect DEF resetFailures, JudgeLabels
<1>5. u \notin overlapped => row.failCount = 0 /\ (0 >= HardLock => row.blocked = "permanent")
  BY <1>3
<1>6. 0 \in Nat
  OBVIOUS
<1> HIDE DEF row
<1> QED BY <1>1, <1>2, <1>3, <1>4, <1>5, <1>6, PromptWritten

LEMMA BlockEnded ==
  ASSUME PromptsInv, NEW u \in Author, blockEnds(u)
  PROVE  PromptsInv'
<1>1. /\ vibe[u].blocked = "minutes" /\ UNCHANGED <<refused, overlapped, requests>>
      /\ vibe' = [vibe EXCEPT ![u].blocked = "no"]
  BY DEF blockEnds
<1>2. vibe' \in [Author -> VibeRow] /\ vibe'[u].failCount = vibe[u].failCount
      /\ \A v \in Author \ {u} : vibe'[v] = vibe[v]
  BY <1>1 DEF PromptsInv, PromptTypes, VibeRow
<1>3. \A v \in Author, t \in Session : Judged(t, v)' = Judged(t, v)
  BY <1>1 DEF Judged, requests
<1>4. PromptTypes' /\ JudgedAlone'
  BY <1>1, <1>2, <1>3 DEF PromptsInv, PromptTypes, JudgedAlone, requests
<1>5. JudgedCurrent'
  BY <1>1, <1>2, <1>3 DEF PromptsInv, JudgedCurrent, requests
<1>6. FailuresCounted'
  BY <1>1, <1>2 DEF PromptsInv, FailuresCounted
<1> QED BY <1>4, <1>5, <1>6 DEF PromptsInv

-----------------------------------------------------------------------------
(* VibeService: pages. *)

PageLabels == {"page.write", "page.audit"}

(* What has been told stays so while requests go on to tell it, or do.     *)
LEMMA ToldKept ==
  ASSUME NEW s \in Session, Others(s), audit \cup untold \subseteq audit' \cup untold',
         At(s, "page.audit") =>
           <<call[s].page, call[s].action>> \in audit' \cup untold',
         NEW p, NEW action, Told(p, action)
  PROVE  Told(p, action)'
<1>1. CASE <<p, action>> \in audit \cup untold
  BY <1>1 DEF Told
<1>2. CASE \E t \in Session : At(t, "page.audit") /\ call[t].page = p /\ call[t].action = action
  <2>1. PICK t \in Session : At(t, "page.audit") /\ call[t].page = p /\ call[t].action = action
    BY <1>2
  <2> QED BY <2>1 DEF Told, Others, At
<1> QED BY <1>1, <1>2 DEF Told

LEMMA PagesElsewhere ==
  ASSUME PagesInv, NEW s \in Session, Others(s), UNCHANGED pages,
         pc[s] # "page.audit", pc'[s] \notin PageLabels
  PROVE  PagesInv'
<1>1. \A t \in Session : PageCallOK(t)'
  BY DEF PagesInv, PageCallOK, Others, PageLabels, pages
<1>2. \A p, action : Told(p, action) => Told(p, action)'
  BY ToldKept DEF At, pages
<1>3. TrailOK'
  BY <1>2 DEF PagesInv, TrailOK, pages
<1> QED BY <1>1, <1>3 DEF PagesInv, PageTypes, pages

LEMMA PagesRest ==
  ASSUME PagesInv, UNCHANGED <<pages, requests>>
  PROVE  PagesInv'
<1>1. \A p, action : Told(p, action)' <=> Told(p, action)
  BY DEF Told, At, pages, requests
<1>2. TrailOK'
  BY <1>1 DEF PagesInv, TrailOK, pages
<1> QED BY <1>2 DEF PagesInv, PageTypes, PageCallOK, pages, requests

LEMMA PageCreated ==
  ASSUME PagesInv, Places, NEW s \in Session, NEW u \in Author, createPage(s, u)
  PROVE  PagesInv'
<1>1. PICK p \in Page \ made :
        /\ pc[s] = "idle" /\ UNCHANGED <<audit, untold>>
        /\ vibePages' = [vibePages EXCEPT ![p] = u] /\ made' = made \cup {p}
        /\ pc'[s] = "page.audit" /\ call'[s] = [page |-> p, action |-> "INSERT"] /\ Others(s)
  BY PlacesShaped, GotoEffect DEF createPage, At
<1>2. PageTypes'
  BY <1>1 DEF PagesInv, PageTypes
<1>3. \A t \in Session : PageCallOK(t)'
  <2>1. PageCallOK(s)'
    BY <1>1 DEF PageCallOK
  <2>2. ASSUME NEW t \in Session, t # s PROVE PageCallOK(t)'
    BY <1>1, <2>2 DEF PagesInv, PageTypes, PageCallOK, Others
  <2> QED BY <2>1, <2>2
<1>4. \A q, action : Told(q, action) => Told(q, action)'
  BY <1>1, ToldKept DEF At
<1>5. Told(p, "INSERT")'
  BY <1>1 DEF Told, At
<1>6. vibePages'[p] # NULL /\ \A q \in Page \ {p} : vibePages'[q] = vibePages[q]
  BY <1>1, ServicesNull DEF PagesInv, PageTypes
<1>7. TrailOK'
  BY <1>1, <1>4, <1>5, <1>6 DEF PagesInv, PageTypes, TrailOK
<1> QED BY <1>2, <1>3, <1>7 DEF PagesInv

LEMMA PageChanging ==
  ASSUME PagesInv, Places, NEW s \in Session, NEW u \in Author, NEW p \in Page,
         NEW action \in {"UPDATE", "DELETE"}, changePage(s, u, p, action)
  PROVE  PagesInv'
<1>1. /\ pc[s] = "idle" /\ UNCHANGED pages /\ vibePages[p] = u
      /\ pc'[s] = "page.write" /\ Others(s)
      /\ call'[s] = [page |-> p, action |-> action, by |-> u, creator |-> vibePages[p]]
  BY PlacesShaped, GotoEffect DEF changePage, At, vibe_vars, pages
<1>2. p \in made
  BY <1>1, ServicesNull DEF PagesInv, PageTypes
<1>3. \A t \in Session : PageCallOK(t)'
  BY <1>1, <1>2 DEF PagesInv, PageCallOK, Others, pages
<1>4. \A q, a : Told(q, a) => Told(q, a)'
  BY <1>1, ToldKept DEF At, pages
<1>5. TrailOK'
  BY <1>1, <1>4 DEF PagesInv, TrailOK, pages
<1> QED BY <1>1, <1>3, <1>5 DEF PagesInv, PageTypes, pages

(* The statement of an update or a deletion, and its effect on the page:   *)
(* one that is gone stays so.                                              *)
LEMMA PageWritten ==
  ASSUME PagesInv, NEW s \in Session, pc[s] = "page.write", Others(s),
         pc'[s] = "page.audit", call'[s] = call[s], UNCHANGED <<audit, untold, made>>,
         NEW row \in Author \cup {NULL}, vibePages' = [vibePages EXCEPT ![call[s].page] = row],
         IF call[s].action = "DELETE" THEN row = NULL
         ELSE row # NULL /\ vibePages[call[s].page] # NULL
  PROVE  PagesInv'
<1>1. PICK p \in made : p = call[s].page /\ call[s].action \in {"UPDATE", "DELETE"}
  BY DEF PagesInv, PageCallOK
<1>2. /\ vibePages'[p] = row /\ p \in Page
      /\ \A q \in Page \ {p} : vibePages'[q] = vibePages[q]
      /\ \A q \in Page : vibePages[q] = NULL => vibePages'[q] = NULL
  BY <1>1 DEF PagesInv, PageTypes
<1>3. PageTypes'
  BY <1>1 DEF PagesInv, PageTypes
<1>4. \A t \in Session : PageCallOK(t)'
  <2>1. PageCallOK(s)'
    BY <1>1, <1>2 DEF PageCallOK
  <2>2. ASSUME NEW t \in Session, t # s PROVE PageCallOK(t)'
    BY <1>2, <2>2 DEF PagesInv, PageTypes, PageCallOK, Others
  <2> QED BY <2>1, <2>2
<1>5. \A q, action : Told(q, action) => Told(q, action)'
  BY ToldKept DEF At
<1>6. row = NULL => Told(p, "DELETE")'
  BY <1>1 DEF Told, At
<1>7. TrailOK'
  BY <1>1, <1>2, <1>5, <1>6 DEF PagesInv, PageTypes, TrailOK
<1> QED BY <1>3, <1>4, <1>7 DEF PagesInv

LEMMA PageTold ==
  ASSUME PagesInv, NEW s \in Session, pc[s] = "page.audit", Others(s), pc'[s] = "idle",
         UNCHANGED <<vibePages, made>>,
         audit' \cup untold' = (audit \cup untold) \cup {<<call[s].page, call[s].action>>}
  PROVE  PagesInv'
<1>1. \A t \in Session : PageCallOK(t)'
  BY DEF PagesInv, PageCallOK, Others
<1>2. \A p, action : Told(p, action) => Told(p, action)'
  BY ToldKept
<1>3. call[s].page \in made /\ (call[s].action = "DELETE" => vibePages[call[s].page] = NULL)
  BY DEF PagesInv, PageCallOK
<1>4. TrailOK'
  BY <1>2, <1>3 DEF PagesInv, TrailOK
<1> QED BY <1>1, <1>4 DEF PagesInv, PageTypes

-----------------------------------------------------------------------------
(* VibeService: every step. *)

LEMMA VibeStepKeeps ==
  ASSUME PromptsInv, PagesInv, Places, part \in {"prompts", "pages"}, NEW s \in Session, VibeStep(s)
  PROVE  PromptsInv' /\ PagesInv'
<1> USE PlacesShaped, GotoEffect, ReturnEffect DEF At, JudgeLabels, PageLabels
<1>1. ASSUME NEW outcome, validateIntent(s, outcome) PROVE PromptsInv' /\ PagesInv'
  <2>1. UNCHANGED <<prompts, pages>> /\ pc[s] = "intent.try"
    BY <1>1 DEF validateIntent, vibe_vars, prompts, pages
  <2>2. /\ Others(s) /\ pc'[s] \in JudgeLabels
        /\ call'[s] = call[s] \/ call'[s] = [call[s] EXCEPT !.tries = @ + 1]
    BY <1>1 DEF validateIntent
  <2>3. call[s] = [user |-> call[s].user, row |-> call[s].row, tries |-> call[s].tries]
    BY <2>1 DEF PromptsInv, PromptTypes
  <2>4. call'[s] = [user |-> call[s].user, row |-> call[s].row, tries |-> call'[s].tries]
    BY <2>2, <2>3
  <2> QED BY <2>1, <2>2, <2>4, PromptsElsewhere, PagesElsewhere
<1>2. ASSUME NEW outcome, requestLayout(s, outcome) PROVE PromptsInv' /\ PagesInv'
  <2>1. UNCHANGED <<prompts, pages>> /\ pc[s] = "layout.try"
    BY <1>2 DEF requestLayout, vibe_vars, prompts, pages
  <2>2. Others(s) /\ pc'[s] \in {"layout.try", "idle"}
    BY <1>2 DEF requestLayout
  <2> QED BY <2>1, <2>2, PromptsElsewhere, PagesElsewhere
<1>3. CASE recordFailure(s)
  BY <1>3, FailureRecorded, PagesElsewhere DEF recordFailure
<1>4. CASE resetFailures(s)
  <2>1. UNCHANGED pages /\ Others(s) /\ pc[s] = "success.write" /\ pc'[s] = "layout.try"
    BY <1>4 DEF resetFailures
  <2> QED BY <1>4, <2>1, FailuresReset, PagesElsewhere
<1>5. CASE updatePage(s) \/ deletePage(s)
  <2>1. UNCHANGED prompts /\ pc[s] = "page.write" /\ UNCHANGED <<audit, made, untold>>
    BY <1>5 DEF updatePage, deletePage
  <2>2. Others(s) /\ pc'[s] \in {"page.audit", "idle"}
    BY <1>5 DEF updatePage, deletePage
  <2>3. PromptsInv'
    BY <2>1, <2>2, PromptsElsewhere
  <2>4. CASE pc'[s] = "idle"
    <3>1. UNCHANGED vibePages
      <4>1. ~deletePage(s)
        BY <2>4 DEF deletePage
      <4>2. CASE vibePages[call[s].page] # NULL /\ Goto(s, "page.audit", call[s])
        BY <2>4, <4>2
      <4> QED BY <1>5, <4>1, <4>2 DEF updatePage
    <3> QED BY <2>1, <2>2, <2>3, <2>4, <3>1, PagesElsewhere DEF pages
  <2>5. CASE pc'[s] = "page.audit" /\ updatePage(s)
    <3>1. call[s].creator \in Author /\ call[s].action = "UPDATE"
      BY <2>1, <2>5 DEF PagesInv, PageCallOK, updatePage
    <3>2. /\ vibePages[call[s].page] # NULL /\ call'[s] = call[s]
          /\ vibePages' = [vibePages EXCEPT ![call[s].page] = call[s].creator]
      BY <2>5 DEF updatePage
    <3> QED BY <2>1, <2>2, <2>3, <2>5, <3>1, <3>2, PageWritten, ServicesNull
  <2>6. CASE pc'[s] = "page.audit" /\ deletePage(s)
    <3>1. /\ call[s].action = "DELETE" /\ call'[s] = call[s]
          /\ vibePages' = [vibePages EXCEPT ![call[s].page] = NULL]
      BY <2>6 DEF deletePage
    <3> QED BY <2>1, <2>2, <2>3, <2>6, <3>1, PageWritten
  <2> QED BY <1>5, <2>2, <2>3, <2>4, <2>5, <2>6
<1>6. CASE recordChange(s)
  <2>1. UNCHANGED prompts /\ Others(s) /\ pc[s] = "page.audit" /\ pc'[s] = "idle"
    BY <1>6 DEF recordChange
  <2> QED BY <1>6, <2>1, PromptsElsewhere, PageTold DEF recordChange
<1>7. CASE vibeFails(s)
  <2>1. UNCHANGED prompts /\ Others(s) /\ pc'[s] = "idle"
    BY <1>7 DEF vibeFails, Abort
  <2>2. CASE pc[s] = "page.audit"
    BY <1>7, <2>1, <2>2, PromptsElsewhere, PageTold DEF vibeFails
  <2>3. CASE pc[s] # "page.audit"
    <3>1. UNCHANGED pages
      BY <1>7, <2>3 DEF vibeFails, pages
    <3> QED BY <2>1, <2>3, <3>1, PromptsElsewhere, PagesElsewhere
  <2> QED BY <2>2, <2>3
<1> QED BY <1>1, <1>2, <1>3, <1>4, <1>5, <1>6, <1>7 DEF VibeStep

LEMMA VibeNext ==
  ASSUME PromptsInv, PagesInv, Places, part \in {"prompts", "pages"}, PromptsNext \/ PagesNext
  PROVE  PromptsInv' /\ PagesInv'
<1>1. ASSUME NEW s \in Session, NEW u \in Author, generateLayout(s, u) PROVE PromptsInv' /\ PagesInv'
  BY <1>1, PromptsBegin, PagesElsewhere, PlacesShaped, GotoEffect DEF generateLayout, At, PageLabels
<1>2. ASSUME NEW s \in Session, NEW u \in Author, createPage(s, u) PROVE PromptsInv' /\ PagesInv'
  BY <1>2, PageCreated, PromptsElsewhere, PlacesShaped, GotoEffect DEF createPage, At, JudgeLabels
<1>3. ASSUME NEW s \in Session, NEW u \in Author, NEW p \in Page, NEW action \in {"UPDATE", "DELETE"},
             changePage(s, u, p, action)
      PROVE  PromptsInv' /\ PagesInv'
  <2>1. UNCHANGED prompts /\ Others(s) /\ pc'[s] \notin JudgeLabels
    BY <1>3, PlacesShaped, GotoEffect DEF changePage, JudgeLabels, vibe_vars, prompts
  <2> QED BY <1>3, <2>1, PageChanging, PromptsElsewhere
<1>4. ASSUME NEW u \in Author, blockEnds(u) PROVE PromptsInv' /\ PagesInv'
  BY <1>4, BlockEnded, PagesRest DEF blockEnds
<1> QED BY <1>1, <1>2, <1>3, <1>4, VibeStepKeeps DEF PromptsNext, PagesNext

-----------------------------------------------------------------------------
(* AccountService. *)

(* What is known of the fate of the codes stored.                          *)
Settled == mailed \cup unsent

LEMMA DeliveredKept ==
  ASSUME NEW s \in Session, Others(s), Settled \cap Stored' \subseteq Settled',
         At(s, "code.mail") => {<<call[s].user, call[s].code>>} \cap Stored' \subseteq Settled',
         NEW u, NEW c, <<u, c>> \in Stored', Delivered(u, c)
  PROVE  Delivered(u, c)'
<1>1. CASE <<u, c>> \in Settled
  BY <1>1 DEF Delivered, Settled
<1>2. CASE \E t \in Session : At(t, "code.mail") /\ call[t].user = u /\ call[t].code = c
  <2>1. PICK t \in Session : At(t, "code.mail") /\ call[t].user = u /\ call[t].code = c
    BY <1>2
  <2>2. CASE t = s
    BY <2>1, <2>2 DEF Delivered, Settled
  <2> QED BY <2>1, <2>2 DEF Delivered, Others, At
<1> QED BY <1>1, <1>2 DEF Delivered, Settled

(* A request about to hand a code of user u to the mail server.            *)
Mailing(s, u, c) == At(s, "code.mail") /\ call[s].user = u /\ call[s].code = c

(* A step that keeps users and their addresses, forgets nothing drawn or   *)
(* mailed, and stores no code but one drawn and about to be mailed; one    *)
(* for a reset is new.                                                     *)
LEMMA AccountKept ==
  ASSUME AccountInv, NEW s \in Session, Others(s), AccountCallOK(s)', AccountTypes',
         \A u \in User : account[u] # NULL => account'[u] # NULL /\ account'[u].email = account[u].email,
         drawn \subseteq drawn', Settled \cap Stored' \subseteq Settled', unsent' \cap mailed' = {},
         At(s, "code.mail") => {<<call[s].user, call[s].code>>} \cap Stored' \subseteq Settled',
         \A u \in User : account'[u] # NULL /\ account'[u].code # NULL =>
           \/ account[u] # NULL /\ account'[u].code = account[u].code
           \/ <<u, account'[u].code, "verify">> \in drawn' /\ Mailing(s, u, account[u].code)',
         \A u \in User : otp'[u] # NULL =>
           \/ otp'[u] = otp[u]
           \/ <<u, otp'[u], "reset">> \in drawn' \ drawn /\ Mailing(s, u, otp[u])',
         \A p \in spent' : p \in spent \/ (/\ p \in User \X Code /\ <<p[1], p[2], "reset">> \in drawn
                                          /\ otp'[p[1]] = NULL)
  PROVE  AccountInv'
<1>1. ASSUME NEW t \in Session, t # s PROVE AccountCallOK(t)'
  <2>1. pc'[t] = pc[t] /\ call'[t] = call[t] /\ AccountCallOK(t)
    BY <1>1 DEF Others, AccountInv
  <2> QED BY <2>1 DEF AccountCallOK, Live, Finds
<1>2. StoredDrawn'
  BY DEF AccountInv, StoredDrawn
<1>3. SpentGone'
  <2> SUFFICES ASSUME NEW p \in spent'
               PROVE  /\ p \in User \X Code /\ <<p[1], p[2], "reset">> \in drawn'
                      /\ otp'[p[1]] # p[2]
    BY DEF SpentGone
  <2>1. CASE p \in spent
    BY <2>1, ServicesNull DEF AccountInv, SpentGone
  <2>2. CASE p \notin spent
    BY <2>2, ServicesNull
  <2> QED BY <2>1, <2>2
<1>4. \A u, c : <<u, c>> \in Stored' /\ (Delivered(u, c) \/ Mailing(s, u, c)') => Delivered(u, c)'
  BY DeliveredKept DEF Mailing, Delivered
<1>5. ASSUME NEW u \in User
      PROVE  /\ account'[u] # NULL /\ account'[u].code # NULL => <<u, account'[u].code>> \in Stored'
             /\ otp'[u] # NULL => <<u, otp'[u]>> \in Stored'
  BY <1>5 DEF Stored, AccountTypes, AccountRow
<1>6. StoredDelivered'
  BY <1>4, <1>5 DEF AccountInv, StoredDelivered, Mailing
<1> QED BY <1>1, <1>2, <1>3, <1>6 DEF AccountInv

(* Steps that store and mail nothing.                                      *)
LEMMA AccountRead ==
  ASSUME AccountInv, NEW s \in Session, Others(s), AccountCallOK(s)', ~At(s, "code.mail"),
         UNCHANGED <<account, otp, drawn, mailed, unsent, spent>>
  PROVE  AccountInv'
<1>1. AccountTypes'
  BY DEF AccountInv, AccountTypes, EmailsDistinct
<1>2. Settled' = Settled /\ unsent' \cap mailed' = {}
  BY DEF Settled, AccountInv, StoredDelivered
<1> QED BY <1>1, <1>2, AccountKept

LEMMA AccountRequests ==
  ASSUME AccountInv, Places, NEW s \in Session, Verification(s) \/ Reset(s)
  PROVE  AccountInv'
<1> USE PlacesShaped, GotoEffect, ServicesConstants, ServicesNull
    DEF AccountInv, AccountTypes, AccountCallOK, Live, Finds, At, findByEmail, findByVerificationToken,
        Drawable, StoredDrawn, AccountRow
<1>1. UNCHANGED <<account, otp, drawn, mailed, unsent, spent>> /\ pc[s] = "idle"
  BY DEF Verification, Reset, verifyEmail, acceptInvitation, loginUnverified, inviteUser, resend,
         forgotPassword, resetPassword, updateProfile, account_vars, codes
<1>2. Others(s) /\ AccountCallOK(s)'
  <2>1. ASSUME NEW c \in Code, verifyEmail(s, c) \/ acceptInvitation(s, c)
        PROVE  Others(s) /\ AccountCallOK(s)'
    <3>1. PICK u \in Live : account[u].code = c
                            /\ (Goto(s, "verify.write", [user |-> u, code |-> c])
                                  \/ Goto(s, "accept.write", [user |-> u, code |-> c]))
      BY <2>1 DEF verifyEmail, acceptInvitation
    <3>2. <<u, c, "verify">> \in drawn
      BY <3>1
    <3>3. /\ Others(s) /\ pc'[s] \in {"verify.write", "accept.write"}
          /\ call'[s].user = u /\ call'[s].code = c
      BY <3>1
    <3> QED BY <1>1, <3>1, <3>2, <3>3
  <2>2. CASE \E u \in User : loginUnverified(s, u)
    BY <1>1, <2>2 DEF loginUnverified
  <2>3. CASE \E e \in Written : inviteUser(s, e)
    BY <1>1, <2>3 DEF inviteUser
  <2>6. CASE \E e \in Written : resend(s, e)
    BY <1>1, <2>6 DEF resend
  <2>7. CASE \E e \in Written : forgotPassword(s, e)
    BY <1>1, <2>7 DEF forgotPassword
  <2>4. CASE \E e \in Written, c \in Code : resetPassword(s, e, c)
    BY <1>1, <2>4 DEF resetPassword
  <2>5. CASE \E m \in Moves : updateProfile(s, m[1], m[2])
    BY <1>1, <2>5 DEF updateProfile
  <2> QED BY <2>1, <2>2, <2>3, <2>4, <2>5, <2>6, <2>7 DEF Verification, Reset
<1> QED BY <1>1, <1>2, AccountRead

(* What is forgotten is of codes no longer stored.                         *)
LEMMA Forgetting ==
  ASSUME AccountInv, forget
  PROVE  Settled \cap Stored' \subseteq Settled' /\ unsent' \cap mailed' = {}
BY DEF forget, Settled, AccountInv, StoredDelivered

(* Statements and commands that store no code.                             *)
Looks(s) ==
  \/ resendFind(s) \/ incrementResendAttempts(s) \/ expireResends(s)
  \/ verifyOTP(s) \/ compareOtp(s) \/ writeReset(s)

LEMMA AccountLooks ==
  ASSUME AccountInv, Places, NEW s \in Session, Looks(s)
  PROVE  AccountInv'
<1>1. UNCHANGED <<account, otp, drawn, mailed, unsent, spent>> /\ ~At(s, "code.mail")
  BY DEF Looks, resendFind, incrementResendAttempts, expireResends, verifyOTP, compareOtp, writeReset,
         account_vars, codes, At
<1>2. AccountCallOK(s)
  BY DEF AccountInv
<1>3. Others(s) /\ AccountCallOK(s)'
  <2> USE <1>1, <1>2, PlacesShaped, GotoEffect, ReturnEffect DEF AccountCallOK, Live, At
  <2>1. CASE resendFind(s)
    <3>1. CASE Goto(s, "resend.incr", [email |-> call[s].email, user |-> NULL])
      BY <3>1
    <3>2. CASE \E u \in findByEmail(call[s].email),
                  c \in Code, l \in {"code.mail", "token.write"} :
                 Goto(s, l, [user |-> u, code |-> c, email |-> call[s].email])
      BY <3>2 DEF findByEmail
    <3>3. ASSUME NEW u \in Live PROVE account[u].code # NULL => account[u].code \in Code
      BY <3>3 DEF AccountInv, AccountTypes, AccountRow
    <3> QED BY <2>1, <3>1, <3>2, <3>3 DEF resendFind, Drawable, findByEmail
  <2>2. CASE incrementResendAttempts(s) \/ expireResends(s)
    BY <2>2 DEF incrementResendAttempts, expireResends
  <2>3. CASE verifyOTP(s)
    <3>1. CASE Return(s)
      BY <3>1
    <3>2. ASSUME NEW u \in findByEmail(call[s].email),
                 Goto(s, "reset.get", [user |-> call[s].user, code |-> call[s].code,
                                       moved |-> call[s].moved, owner |-> u])
          PROVE  Others(s) /\ AccountCallOK(s)'
      <4>1. call[s].moved \/ call[s].user = u
        BY <2>3, <3>2 DEF verifyOTP, findByEmail, Finds, AccountInv, AccountTypes, EmailsDistinct
      <4> QED BY <2>3, <3>2, <4>1 DEF verifyOTP, findByEmail
    <3> QED BY <2>3, <3>1, <3>2 DEF verifyOTP
  <2>4. CASE compareOtp(s)
    <3>1. CASE Return(s)
      BY <3>1
    <3>2. CASE matches(call[s].owner, call[s].code) /\ Goto(s, "reset.write", call[s])
      <4>1. call[s].owner \in User /\ <<call[s].owner, call[s].code, "reset">> \in drawn
        BY <2>4, <3>2 DEF compareOtp, matches, AccountInv, StoredDrawn
      <4> QED BY <2>4, <3>2, <4>1 DEF compareOtp
    <3> QED BY <2>4, <3>1, <3>2 DEF compareOtp
  <2>5. CASE writeReset(s)
    BY <2>5 DEF writeReset
  <2> QED BY <2>1, <2>2, <2>3, <2>4, <2>5 DEF Looks
<1> QED BY <1>1, <1>3, AccountRead

(* A statement of the rows of users. *)
LEMMA AccountOpened ==
  ASSUME AccountInv, Places, NEW s \in Session, open(s)
  PROVE  AccountInv'
<1>1. PICK u \in User : u = call[s].user /\ account[u] \in AccountRow /\ pc[s] # "code.mail"
  BY DEF open, AccountInv, AccountTypes, AccountCallOK, Live
<1>2. /\ account' = [account EXCEPT ![u].verified = TRUE, ![u].code = NULL]
      /\ UNCHANGED <<otp, drawn, spent>> /\ forget
  BY <1>1 DEF open
<1>3. Others(s) /\ AccountCallOK(s)'
  BY PlacesShaped, ReturnEffect DEF open, AccountCallOK
<1>4. /\ account'[u] \in AccountRow /\ account'[u].email = account[u].email /\ account'[u].code = NULL
      /\ account' \in [User -> AccountRow \cup {NULL}] /\ \A v \in User \ {u} : account'[v] = account[v]
  BY <1>1, <1>2 DEF AccountInv, AccountTypes, AccountRow
<1>5. AccountTypes'
  <2>1. \A v \in User : account'[v] # NULL => account[v] # NULL /\ account'[v].email = account[v].email
    BY <1>1, <1>4, ServicesNull
  <2>2. EmailsDistinct(account) /\ otp' \in [User -> Code \cup {NULL}]
    BY <1>2 DEF AccountInv, AccountTypes
  <2>3. EmailsDistinct(account')
    BY <2>1, <2>2 DEF EmailsDistinct
  <2> QED BY <1>4, <2>2, <2>3 DEF AccountTypes
<1>6. Settled \cap Stored' \subseteq Settled' /\ unsent' \cap mailed' = {}
  BY <1>2, Forgetting
<1> QED BY <1>1, <1>2, <1>3, <1>4, <1>5, <1>6, AccountKept, ServicesNull DEF At

LEMMA TokenUpdated ==
  ASSUME AccountInv, Places, NEW s \in Session, updateVerificationToken(s)
  PROVE  AccountInv'
<1>1. PICK u \in User, c \in Code :
        /\ u = call[s].user /\ c = call[s].code /\ account[u] \in AccountRow /\ pc[s] = "token.write"
  BY DEF updateVerificationToken, AccountInv, AccountTypes, AccountCallOK, Live, At
<1>2. /\ account' = [account EXCEPT ![u].code = c] /\ drawn' = drawn \cup {<<u, c, "verify">>}
      /\ UNCHANGED <<otp, spent>> /\ forget
  BY <1>1 DEF updateVerificationToken
<1>3. Others(s) /\ pc'[s] = "code.mail" /\ call'[s] = call[s]
  BY PlacesShaped, GotoEffect DEF updateVerificationToken
<1>4. /\ account'[u] \in AccountRow /\ account'[u].email = account[u].email /\ account'[u].code = c
      /\ \A v \in User \ {u} : account'[v] = account[v]
  BY <1>1, <1>2 DEF AccountInv, AccountTypes, AccountRow
<1>5. AccountTypes'
  BY <1>1, <1>2, <1>4, ServicesNull DEF AccountInv, AccountTypes, EmailsDistinct
<1>6. AccountCallOK(s)'
  BY <1>1, <1>3, <1>4, ServicesNull DEF AccountCallOK, Live
<1>7. <<u, account'[u].code, "verify">> \in drawn' /\ Mailing(s, u, account[u].code)'
  BY <1>1, <1>2, <1>3, <1>4 DEF Mailing, At
<1>8. ~At(s, "code.mail") /\ drawn \subseteq drawn'
  BY <1>1, <1>2 DEF At
<1>9. Settled \cap Stored' \subseteq Settled' /\ unsent' \cap mailed' = {}
  BY <1>2, Forgetting
<1> QED BY <1>1, <1>2, <1>3, <1>4, <1>5, <1>6, <1>7, <1>8, <1>9, AccountKept, ServicesNull

LEMMA Invited ==
  ASSUME AccountInv, Places, NEW s \in Session, insertInvited(s)
  PROVE  AccountInv'
<1>1. PICK e \in Email : e = call[s].email /\ pc[s] = "invite.insert"
  BY DEF insertInvited, AccountInv, AccountCallOK, At
<1>2. CASE Return(s) /\ UNCHANGED account_vars
  <2>1. Others(s) /\ AccountCallOK(s)'
    BY <1>2, PlacesShaped, ReturnEffect DEF AccountCallOK
  <2> QED BY <1>1, <1>2, <2>1, AccountRead DEF At, account_vars, codes
<1>3. ASSUME NEW u \in User \ Live, NEW c \in Code, findByEmail(e) = {},
             account' = [account EXCEPT ![u] = [email |-> e, verified |-> FALSE, code |-> c]],
             drawn' = drawn \cup {<<u, c, "verify">>},
             Goto(s, "code.mail", [user |-> u, code |-> c, email |-> NULL]),
             UNCHANGED <<otp, mailed, unsent, spent>>
      PROVE  AccountInv'
  <2>1. /\ Others(s) /\ pc'[s] = "code.mail" /\ call'[s].user = u /\ call'[s].code = c
    BY <1>3, PlacesShaped, GotoEffect
  <2>2. /\ account'[u] \in AccountRow /\ account'[u].email = e /\ account'[u].code = c
        /\ account[u] = NULL /\ \A v \in User \ {u} : account'[v] = account[v]
    BY <1>1, <1>3 DEF AccountInv, AccountTypes, AccountRow, Live
  <2>3. AccountTypes'
    <3>1. \A v \in User : account[v] # NULL => account[v].email # e
      BY <1>3 DEF findByEmail, Live
    <3> QED BY <1>1, <1>3, <2>2, <3>1 DEF AccountInv, AccountTypes, EmailsDistinct
  <2>4. AccountCallOK(s)'
    BY <1>3, <2>1, <2>2, ServicesNull DEF AccountCallOK, Live
  <2>5. <<u, account'[u].code, "verify">> \in drawn' /\ Mailing(s, u, account[u].code)'
    BY <1>3, <2>1, <2>2 DEF Mailing, At
  <2>6. ~At(s, "code.mail") /\ drawn \subseteq drawn'
    BY <1>1, <1>3 DEF At
  <2>7. Settled' = Settled /\ unsent' \cap mailed' = {}
    BY <1>3 DEF Settled, AccountInv, StoredDelivered
  <2> QED BY <1>3, <2>1, <2>2, <2>3, <2>4, <2>5, <2>6, <2>7, AccountKept
<1> QED BY <1>1, <1>2, <1>3 DEF insertInvited, Drawable

(* Codes to reset a password, and the mails that carry codes. *)
LEMMA OtpDeleted ==
  ASSUME AccountInv, Places, NEW s \in Session, deleteOtp(s)
  PROVE  AccountInv'
<1>1. /\ pc[s] = "otp.del" /\ call[s].user \in Live /\ Others(s) /\ pc'[s] = "otp.set" /\ call'[s] = call[s]
      /\ otp' = [otp EXCEPT ![call[s].user] = NULL] /\ UNCHANGED <<account, drawn, spent>> /\ forget
  <2>1. pc[s] = "otp.del" /\ call[s].user \in Live
    BY DEF deleteOtp, AccountInv, AccountCallOK, At
  <2>2. Others(s) /\ pc'[s] = "otp.set" /\ call'[s] = call[s]
    BY PlacesShaped, GotoEffect DEF deleteOtp
  <2> QED BY <2>1, <2>2 DEF deleteOtp
<1>2. \A u \in User : otp'[u] = NULL \/ otp'[u] = otp[u]
  BY <1>1 DEF AccountInv, AccountTypes
<1>3. AccountTypes'
  BY <1>1 DEF AccountInv, AccountTypes, EmailsDistinct
<1>4. AccountCallOK(s)'
  BY <1>1 DEF AccountCallOK, Live
<1>5. Settled \cap Stored' \subseteq Settled' /\ unsent' \cap mailed' = {}
  BY <1>1, Forgetting
<1> QED BY <1>1, <1>2, <1>3, <1>4, <1>5, AccountKept DEF At

LEMMA OtpSet ==
  ASSUME AccountInv, Places, NEW s \in Session, setOtp(s)
  PROVE  AccountInv'
<1>1. PICK u \in Live, c \in Code :
        /\ c \in Drawable(u) /\ pc[s] = "otp.set" /\ u = call[s].user
        /\ otp' = [otp EXCEPT ![u] = c] /\ drawn' = drawn \cup {<<u, c, "reset">>}
        /\ Goto(s, "code.mail", [user |-> u, code |-> c, email |-> NULL])
        /\ UNCHANGED <<account, spent>> /\ forget
  BY DEF setOtp, AccountInv, AccountCallOK, At, Drawable
<1>2. Others(s) /\ pc'[s] = "code.mail" /\ call'[s].user = u /\ call'[s].code = c
  BY <1>1, PlacesShaped, GotoEffect
<1>3. c \in Code /\ <<u, c, "reset">> \notin drawn /\ u \in User
  BY <1>1 DEF Drawable, Live
<1>4. AccountTypes'
  BY <1>1, <1>3 DEF AccountInv, AccountTypes, EmailsDistinct
<1>5. AccountCallOK(s)'
  BY <1>1, <1>2, <1>3 DEF AccountCallOK, Live
<1>6. /\ otp'[u] = c /\ <<u, otp'[u], "reset">> \in drawn' \ drawn /\ Mailing(s, u, otp[u])'
      /\ \A v \in User \ {u} : otp'[v] = otp[v]
  BY <1>1, <1>2, <1>3 DEF AccountInv, AccountTypes, Mailing, At
<1>7. ~At(s, "code.mail") /\ drawn \subseteq drawn'
  BY <1>1 DEF At
<1>8. Settled \cap Stored' \subseteq Settled' /\ unsent' \cap mailed' = {}
  BY <1>1, Forgetting
<1> QED BY <1>1, <1>2, <1>4, <1>5, <1>6, <1>7, <1>8, AccountKept

LEMMA UsedDeleted ==
  ASSUME AccountInv, Places, NEW s \in Session, deleteUsed(s)
  PROVE  AccountInv'
<1>1. PICK u \in User, c \in Code :
        /\ pc[s] = "reset.del" /\ u = call[s].user /\ c = call[s].code
        /\ <<call[s].owner, c, "reset">> \in drawn
        /\ otp' = [otp EXCEPT ![u] = NULL]
        /\ spent' = spent \cup {<<u, c>> : v \in {u} \cap {call[s].owner}}
        /\ UNCHANGED <<account, drawn>> /\ forget
  BY DEF deleteUsed, AccountInv, AccountCallOK, Live, At
<1>2. Others(s) /\ AccountCallOK(s)'
  BY PlacesShaped, ReturnEffect DEF deleteUsed, AccountCallOK
<1>3. /\ otp'[u] = NULL /\ \A v \in User \ {u} : otp'[v] = otp[v]
  BY <1>1 DEF AccountInv, AccountTypes
<1>4. AccountTypes'
  BY <1>1 DEF AccountInv, AccountTypes, EmailsDistinct
<1>5. \A p \in spent' : p \in spent \/ (/\ p \in User \X Code /\ <<p[1], p[2], "reset">> \in drawn
                                        /\ otp'[p[1]] = NULL)
  BY <1>1, <1>3
<1>6. Settled \cap Stored' \subseteq Settled' /\ unsent' \cap mailed' = {}
  BY <1>1, Forgetting
<1> QED BY <1>1, <1>2, <1>3, <1>4, <1>5, <1>6, AccountKept DEF At

(* Whether the mail is sent or fails. *)
LEMMA CodeMailed ==
  ASSUME AccountInv, Places, NEW s \in Session, UNCHANGED <<account, otp, drawn, spent>>,
         \/ sendCode(s)
         \/ accountFails(s)
  PROVE  AccountInv'
<1>0. Stored' = Stored /\ unsent \cap mailed = {}
  BY DEF Stored, AccountInv, StoredDelivered
<1>1. /\ Settled \cap Stored' \subseteq Settled' /\ unsent' \cap mailed' = {}
      /\ At(s, "code.mail") => {<<call[s].user, call[s].code>>} \cap Stored' \subseteq Settled'
  <2>1. CASE sendCode(s)
    <3>1. unsent' \cap mailed' = {}
      BY <1>0, <2>1 DEF sendCode
    <3>2. Settled \cap Stored' \subseteq Settled'
      <4> SUFFICES ASSUME NEW p \in unsent, p \in Stored', p \notin unsent' PROVE p \in mailed'
        BY <2>1 DEF sendCode, Settled
      <4> QED BY <1>0, <2>1 DEF sendCode
    <3> QED BY <1>0, <2>1, <3>1, <3>2 DEF sendCode, Settled
  <2>2. CASE accountFails(s)
    BY <1>0, <2>2 DEF accountFails, Settled
  <2> QED BY <2>1, <2>2
<1>2. Others(s) /\ AccountCallOK(s)'
  BY PlacesShaped, GotoEffect, ReturnEffect DEF sendCode, accountFails, Abort, AccountCallOK
<1>3. AccountTypes'
  BY DEF AccountInv, AccountTypes, EmailsDistinct
<1> QED BY <1>1, <1>2, <1>3, AccountKept

(* Keys of Redis that end. *)
LEMMA AccountRest ==
  ASSUME AccountInv, UNCHANGED <<account, drawn, spent, requests>>,
         UNCHANGED <<mailed, unsent>> \/ forget,
         otp' \in [User -> Code \cup {NULL}], \A u \in User : otp'[u] \in {NULL, otp[u]}
  PROVE  AccountInv'
<1>1. \A t \in Session : AccountCallOK(t)'
  BY DEF AccountInv, AccountCallOK, Live, Finds, requests
<1>2. AccountTypes'
  BY DEF AccountInv, AccountTypes, EmailsDistinct
<1>3. StoredDrawn'
  BY DEF AccountInv, StoredDrawn
<1>4. SpentGone'
  <2> SUFFICES ASSUME NEW p \in spent PROVE otp'[p[1]] # p[2]
    BY DEF AccountInv, SpentGone
  <2>1. p[1] \in User /\ p[2] \in Code /\ otp[p[1]] # p[2]
    BY DEF AccountInv, SpentGone
  <2> QED BY <2>1, ServicesNull
<1>5. Settled \cap Stored' \subseteq Settled' /\ unsent' \cap mailed' = {}
  <2>1. CASE UNCHANGED <<mailed, unsent>>
    BY <2>1 DEF Settled, AccountInv, StoredDelivered
  <2> QED BY <2>1, Forgetting
<1>6. \A u, c : <<u, c>> \in Stored' /\ Delivered(u, c) => Delivered(u, c)'
  BY <1>5 DEF Delivered, At, requests, Settled
<1>7. ASSUME NEW u \in User
      PROVE  /\ account[u] # NULL /\ account[u].code # NULL => <<u, account[u].code>> \in Stored'
             /\ otp'[u] # NULL => <<u, otp'[u]>> \in Stored'
  BY <1>7 DEF Stored, AccountInv, AccountTypes, AccountRow
<1>8. StoredDelivered'
  BY <1>5, <1>6, <1>7 DEF AccountInv, StoredDelivered
<1> QED BY <1>1, <1>2, <1>3, <1>4, <1>8 DEF AccountInv

(* The address of a user moves: the requests that have looked it up know.  *)
LEMMA ProfileWritten ==
  ASSUME AccountInv, Places, NEW s \in Session, writeProfile(s)
  PROVE  AccountInv'
<1>1. PICK u \in User, e \in Email :
        /\ u = call[s].user /\ e = call[s].email /\ account[u] \in AccountRow /\ pc[s] = "profile.write"
  BY DEF writeProfile, AccountInv, AccountTypes, AccountCallOK, Live, At
<1>2. UNCHANGED <<otp, drawn, mailed, unsent, spent>>
  BY DEF writeProfile, codes
<1>3. CASE call' = [call EXCEPT ![s] = NULL] /\ UNCHANGED account
  <2>1. Others(s) /\ AccountCallOK(s)'
    BY <1>3, PlacesShaped DEF writeProfile, Shape, Others, AccountCallOK
  <2> QED BY <1>1, <1>2, <1>3, <2>1, AccountRead DEF At
<1>4. CASE /\ findByEmail(e) \subseteq {u}
           /\ account' = [account EXCEPT ![u].email = e]
           /\ call' = [t \in Session |->
                IF t = s THEN NULL
                ELSE IF At(t, "reset.find") THEN [call[t] EXCEPT !.moved = TRUE] ELSE call[t]]
  <2>1. pc'[s] = "idle" /\ \A t \in Session \ {s} : pc'[t] = pc[t]
    BY PlacesShaped DEF writeProfile, Shape
  <2>2. /\ account'[u] \in AccountRow /\ account'[u].email = e /\ account'[u].code = account[u].code
        /\ account' \in [User -> AccountRow \cup {NULL}] /\ \A v \in User \ {u} : account'[v] = account[v]
    BY <1>1, <1>4 DEF AccountInv, AccountTypes, AccountRow
  <2>3. EmailsDistinct(account')
    <3>1. \A v \in User \ {u} : account[v] # NULL => account[v].email # e
      BY <1>4 DEF findByEmail, Live
    <3>2. EmailsDistinct(account)
      BY DEF AccountInv, AccountTypes
    <3> QED BY <2>2, <3>1, <3>2 DEF EmailsDistinct
  <2>4. AccountTypes'
    BY <1>2, <2>2, <2>3 DEF AccountInv, AccountTypes
  <2>5. Live' = Live
    BY <1>1, <2>2, ServicesNull DEF Live
  <2>6. ASSUME NEW t \in Session PROVE AccountCallOK(t)'
    <3>1. CASE t = s
      BY <2>1, <3>1 DEF AccountCallOK
    <3>2. CASE t # s /\ pc[t] = "reset.find"
      <4>1. /\ call[t] = [user |-> call[t].user, code |-> call[t].code,
                          email |-> call[t].email, moved |-> call[t].moved]
            /\ call[t].user \in Live /\ call[t].code \in Code
        BY <3>2 DEF AccountInv, AccountCallOK
      <4>2. call'[t] = [call[t] EXCEPT !.moved = TRUE]
        BY <1>4, <3>2 DEF At
      <4>3. call'[t] = [user |-> call[t].user, code |-> call[t].code,
                        email |-> call[t].email, moved |-> TRUE]
        BY <4>1, <4>2
      <4> QED BY <2>1, <2>5, <3>2, <4>1, <4>3 DEF AccountCallOK
    <3>3. CASE t # s /\ pc[t] # "reset.find"
      <4>1. call'[t] = call[t] /\ pc'[t] = pc[t] /\ AccountCallOK(t)
        BY <1>4, <2>1, <3>3 DEF At, AccountInv
      <4> QED BY <1>2, <2>5, <3>3, <4>1 DEF AccountCallOK
    <3> QED BY <3>1, <3>2, <3>3
  <2>7. \A v, c : Delivered(v, c) => Delivered(v, c)'
    BY <1>1, <1>2, <1>4, <2>1 DEF Delivered, At
  <2>8. \A v \in User : account'[v] # NULL => account[v] # NULL /\ account'[v].code = account[v].code
    BY <1>1, <2>2, ServicesNull
  <2>9. StoredDrawn' /\ SpentGone'
    BY <1>2, <2>8 DEF AccountInv, StoredDrawn, SpentGone
  <2>10. StoredDelivered'
    BY <1>2, <2>7, <2>8 DEF AccountInv, StoredDelivered
  <2> QED BY <2>4, <2>6, <2>9, <2>10 DEF AccountInv
<1> QED BY <1>1, <1>3, <1>4 DEF writeProfile

LEMMA AccountNext ==
  ASSUME AccountInv, Places, VerificationNext \/ ResetNext
  PROVE  AccountInv'
<1>1. ASSUME NEW s \in Session, AccountStep(s) PROVE AccountInv'
  <2>1. CASE Looks(s)
    BY <2>1, AccountLooks
  <2>2. CASE open(s) \/ updateVerificationToken(s) \/ insertInvited(s) \/ writeProfile(s)
    BY <2>2, AccountOpened, TokenUpdated, Invited, ProfileWritten
  <2>3. CASE deleteOtp(s) \/ setOtp(s) \/ deleteUsed(s)
    BY <2>3, OtpDeleted, OtpSet, UsedDeleted
  <2>4. CASE sendCode(s) \/ accountFails(s)
    BY <2>4, CodeMailed DEF sendCode, accountFails
  <2> QED BY <1>1, <2>1, <2>2, <2>3, <2>4 DEF AccountStep, Looks
<1>2. ASSUME NEW e, resendsEnd(e) PROVE AccountInv'
  BY <1>2, AccountRest DEF resendsEnd, AccountInv, AccountTypes
<1>3. ASSUME NEW u \in User, otpEnds(u) PROVE AccountInv'
  BY <1>3, AccountRest DEF otpEnds, AccountInv, AccountTypes
<1> QED BY <1>1, <1>2, <1>3, AccountRequests DEF VerificationNext, ResetNext

-----------------------------------------------------------------------------
(* AccountService: the counter of verification mails. *)

LEMMA ResendingFinite ==
  ASSUME NEW e
  PROVE  /\ IsFiniteSet(Resending(e)) /\ Cardinality(Resending(e)) \in Nat
         /\ Cardinality(Resending(e)) <= Cardinality(Session) /\ Cardinality(Session) \in Nat
<1>1. IsFiniteSet(Session) /\ Resending(e) \in SUBSET Session
  BY ServicesConstants DEF Resending
<1> QED BY <1>1, FS_Subset, FS_CardinalityType

(* No request comes to be past the check of the counter, and the counter   *)
(* is not written.                                                         *)
LEMMA ResendsElsewhere ==
  ASSUME ResendsInv, ResendTypes', UNCHANGED <<resends, resent>>, lost \subseteq lost',
         \A e \in Email : Resending(e)' \subseteq Resending(e) /\ (Expiring(e) => Expiring(e)' \/ e \in lost')
  PROVE  ResendsInv'
<1> SUFFICES ASSUME NEW e \in Email PROVE ResendsOf(e)'
  BY DEF ResendsInv
<1>1. ResendsOf(e) /\ resent[e] \in Nat
  BY DEF ResendsInv, ResendTypes
<1>2. /\ Cardinality(Resending(e)') <= Cardinality(Resending(e))
      /\ Cardinality(Resending(e)') \in Nat /\ Cardinality(Resending(e)) \in Nat
      /\ Cardinality(Session) \in Nat /\ MaxAttempts \in Nat
  BY ResendingFinite, FS_Subset, FS_CardinalityType, ServicesConstants
<1>3. resent[e] + Cardinality(Resending(e)') < MaxAttempts + Cardinality(Session)
  BY <1>1, <1>2 DEF ResendsOf
<1> QED BY <1>1, <1>3 DEF ResendsOf

(* A request that is past the check stays so, or is done with it.          *)
LEMMA ResendsStay ==
  ASSUME ResendsInv, NEW s \in Session, Others(s), UNCHANGED <<resends, resent>>, lost \subseteq lost',
         pc'[s] \notin {"resend.find", "resend.expire"},
         pc'[s] \in {"token.write", "code.mail", "resend.incr"} =>
           \/ /\ pc[s] \in {"resend.find", "token.write", "code.mail"} /\ call'[s].email = call[s].email
              /\ pc'[s] = "resend.incr" => call[s].email # NULL
           \/ pc'[s] # "resend.incr" /\ call'[s].email = NULL,
         pc[s] = "resend.expire" => call[s].email \in lost'
  PROVE  ResendsInv'
<1>1. ResendTypes'
  BY DEF ResendsInv, ResendTypes, Others
<1>2. \A e \in Email : Resending(e)' \subseteq Resending(e)
  BY ServicesNull DEF Resending, Others
<1>3. \A e \in Email : Expiring(e) => Expiring(e)' \/ e \in lost'
  BY DEF Expiring, Others, At
<1> QED BY <1>1, <1>2, <1>3, ResendsElsewhere

LEMMA ResendBegins ==
  ASSUME ResendsInv, Places, NEW s \in Session, NEW e \in Written, resend(s, e)
  PROVE  ResendsInv'
<1>1. /\ e \in Email /\ pc[s] = "idle" /\ pc'[s] = "resend.find" /\ call'[s] = [email |-> e] /\ Others(s)
      /\ resends[e].n < MaxAttempts /\ UNCHANGED <<resends, resent, lost>>
  BY PlacesShaped, GotoEffect, ServicesConstants DEF resend, At, account_vars, codes
<1>2. ResendTypes'
  BY <1>1 DEF ResendsInv, ResendTypes, Others
<1>3. \A f \in Email : Expiring(f) => Expiring(f)'
  BY <1>1 DEF Expiring, Others, At
<1>4. ASSUME NEW f \in Email PROVE ResendsOf(f)'
  <2>1. ResendsOf(f) /\ resent[f] \in Nat /\ resends[f].n \in Nat /\ MaxAttempts \in Nat
    BY ServicesConstants DEF ResendsInv, ResendTypes
  <2>2. CASE f = e
    <3>1. /\ Cardinality(Resending(e)') <= Cardinality(Session) /\ Cardinality(Resending(e)') \in Nat
          /\ Cardinality(Session) \in Nat
      <4>1. IsFiniteSet(Session) /\ Resending(e)' \in SUBSET Session
        BY ServicesConstants DEF Resending
      <4> QED BY <4>1, FS_Subset, FS_CardinalityType
    <3>2. resent[e] < MaxAttempts
      BY <1>1, <2>1, <2>2 DEF ResendsOf
    <3>3. resent[e] + Cardinality(Resending(e)') < MaxAttempts + Cardinality(Session)
      BY <2>1, <2>2, <3>1, <3>2
    <3> QED BY <1>1, <1>3, <2>1, <2>2, <3>3 DEF ResendsOf
  <2>3. CASE f # e
    <3>1. Resending(f)' = Resending(f)
      BY <1>1, <2>3 DEF Resending, Others
    <3> QED BY <1>1, <1>3, <2>1, <3>1 DEF ResendsOf
  <2> QED BY <2>2, <2>3
<1> QED BY <1>2, <1>4 DEF ResendsInv

LEMMA ResendCounted ==
  ASSUME ResendsInv, Places, NEW s \in Session, incrementResendAttempts(s)
  PROVE  ResendsInv'
<1>1. PICK e \in Email : e = call[s].email /\ pc[s] = "resend.incr"
  BY DEF incrementResendAttempts, At, ResendsInv, ResendTypes
<1> DEFINE n == IF resends[e].n <= MaxAttempts THEN resends[e].n + 1 ELSE resends[e].n
           m == IF call[s].user # NULL /\ resent[e] < MaxAttempts + Cardinality(Session)
                  THEN resent[e] + 1 ELSE resent[e]
<1>2. /\ resends[e].n \in Nat /\ resent[e] \in Nat /\ resends[e] = [n |-> resends[e].n, ttl |-> resends[e].ttl]
      /\ resends[e].ttl \in BOOLEAN /\ MaxAttempts \in Nat
  BY ServicesConstants DEF ResendsInv, ResendTypes
<1>3. /\ n \in Nat /\ m \in Nat /\ m <= resent[e] + 1 /\ n > 0
      /\ n <= MaxAttempts => n = resends[e].n + 1
  BY <1>2, ResendingFinite
<1>4. /\ \A f \in Email \ {e} : resends'[f] = resends[f] /\ resent'[f] = resent[f]
      /\ resends'[e] = [n |-> n, ttl |-> resends[e].ttl] /\ resent'[e] = m /\ lost' = lost
      /\ resends' \in [Email -> [n : Nat, ttl : BOOLEAN]] /\ resent' \in [Email -> Nat]
  <2>1. resends' = [resends EXCEPT ![e].n = n] /\ resent' = [resent EXCEPT ![e] = m] /\ lost' = lost
    BY <1>1 DEF incrementResendAttempts
  <2>2. n \in Nat /\ m \in Nat
    BY <1>3
  <2> HIDE DEF n, m
  <2>3. [resends[e] EXCEPT !.n = n] = [n |-> n, ttl |-> resends[e].ttl]
    BY <1>2
  <2>4. resends' = [resends EXCEPT ![e] = [n |-> n, ttl |-> resends[e].ttl]]
    BY <2>1, <2>3
  <2> QED BY <1>2, <2>1, <2>2, <2>4 DEF ResendsInv, ResendTypes
<1>5. /\ Others(s)
      /\ IF resends[e].n = 0 THEN pc'[s] = "resend.expire" /\ call'[s] = call[s] ELSE pc'[s] = "idle"
  BY <1>1, PlacesShaped, GotoEffect, ReturnEffect DEF incrementResendAttempts
<1> HIDE DEF n, m
<1>6. ResendTypes'
  BY <1>1, <1>2, <1>3, <1>4, <1>5 DEF ResendsInv, ResendTypes, Others
<1>7. ASSUME NEW f \in Email PROVE ResendsOf(f)'
  <2>1. ResendsOf(f)
    BY DEF ResendsInv
  <2>2. Expiring(f) => Expiring(f)'
    BY <1>1, <1>5 DEF Expiring, Others, At
  <2>3. CASE f = e
    <3>1. resends'[e] = [n |-> n, ttl |-> resends[e].ttl] /\ resent'[e] = m
      BY <1>4
    <3>2. Resending(e)' = Resending(e) \ {s} /\ s \in Resending(e)
      BY <1>1, <1>5 DEF Resending, Others
    <3>3. Cardinality(Resending(e)') = Cardinality(Resending(e)) - 1
      BY <3>2, ResendingFinite, FS_RemoveElement
    <3>4. m + Cardinality(Resending(e)') < MaxAttempts + Cardinality(Session)
      BY <1>2, <1>3, <2>1, <2>3, <3>3, ResendingFinite DEF ResendsOf
    <3>5. n <= MaxAttempts => m <= n
      BY <1>2, <1>3, <2>1, <2>3 DEF ResendsOf
    <3>6. resends[e].ttl \/ e \in lost' \/ Expiring(e)'
      <4>1. CASE resends[e].n = 0
        BY <1>1, <1>5, <4>1 DEF Expiring, At
      <4>2. CASE resends[e].n > 0
        BY <1>4, <2>1, <2>2, <2>3, <4>2 DEF ResendsOf
      <4> QED BY <1>2, <4>1, <4>2
    <3> QED BY <2>3, <3>1, <3>4, <3>5, <3>6 DEF ResendsOf
  <2>4. CASE f # e
    <3>1. Resending(f)' = Resending(f)
      BY <1>1, <1>5, <2>4 DEF Resending, Others
    <3>2. resends'[f] = resends[f] /\ resent'[f] = resent[f]
      BY <1>4, <2>4
    <3> QED BY <1>4, <2>1, <2>2, <3>1, <3>2 DEF ResendsOf
  <2> QED BY <2>3, <2>4
<1> QED BY <1>6, <1>7 DEF ResendsInv

LEMMA ResendExpires ==
  ASSUME ResendsInv, Places, NEW s \in Session, expireResends(s)
  PROVE  ResendsInv'
<1>1. PICK e \in Email : e = call[s].email /\ pc[s] = "resend.expire"
  BY DEF expireResends, At, ResendsInv, ResendTypes
<1>2. /\ resends' = [resends EXCEPT ![e].ttl = resends[e].n > 0] /\ UNCHANGED <<resent, lost>>
  BY <1>1 DEF expireResends, codes
<1>3. Others(s) /\ pc'[s] = "idle"
  BY PlacesShaped, ReturnEffect DEF expireResends
<1>4. /\ resends' \in [Email -> [n : Nat, ttl : BOOLEAN]]
      /\ resends'[e].n = resends[e].n /\ (resends'[e].ttl <=> resends[e].n > 0)
      /\ \A f \in Email \ {e} : resends'[f] = resends[f]
  <2> DEFINE ttl == resends[e].n > 0
  <2>1. ttl \in BOOLEAN /\ (ttl <=> resends[e].n > 0) /\ resends' = [resends EXCEPT ![e].ttl = ttl]
    BY <1>2
  <2> HIDE DEF ttl
  <2>2. resends[e] \in [n : Nat, ttl : BOOLEAN] /\ resends \in [Email -> [n : Nat, ttl : BOOLEAN]]
    BY DEF ResendsInv, ResendTypes
  <2>3. [resends[e] EXCEPT !.ttl = ttl] = [n |-> resends[e].n, ttl |-> ttl]
    BY <2>2
  <2>4. resends' = [resends EXCEPT ![e] = [n |-> resends[e].n, ttl |-> ttl]]
    BY <2>1, <2>3
  <2>5. [n |-> resends[e].n, ttl |-> ttl] \in [n : Nat, ttl : BOOLEAN]
    BY <2>1, <2>2
  <2>6. resends'[e] = [n |-> resends[e].n, ttl |-> ttl]
    BY <2>2, <2>4
  <2>7. (resends'[e].ttl <=> ttl) /\ resends'[e].n = resends[e].n
    BY <2>6
  <2> QED BY <2>1, <2>2, <2>4, <2>5, <2>7
<1>5. ResendTypes'
  BY <1>2, <1>3, <1>4 DEF ResendsInv, ResendTypes, Others
<1>6. ASSUME NEW f \in Email PROVE ResendsOf(f)'
  <2>1. ResendsOf(f) /\ Resending(f)' = Resending(f)
    BY <1>1, <1>3 DEF ResendsInv, Resending, Others
  <2>2. f # e => (Expiring(f) => Expiring(f)')
    BY <1>1, <1>3 DEF Expiring, Others, At
  <2> QED BY <1>2, <1>4, <2>1, <2>2 DEF ResendsOf
<1> QED BY <1>5, <1>6 DEF ResendsInv

LEMMA WindowEnds ==
  ASSUME ResendsInv, NEW e \in Email, resendsEnd(e)
  PROVE  ResendsInv'
<1>1. /\ resends' = [resends EXCEPT ![e] = [n |-> 0, ttl |-> FALSE]] /\ resent' = [resent EXCEPT ![e] = 0]
      /\ UNCHANGED <<lost, pc, call>>
  BY DEF resendsEnd, NoCounter, requests
<1>2. ResendTypes'
  BY <1>1 DEF ResendsInv, ResendTypes
<1>3. ASSUME NEW f \in Email PROVE ResendsOf(f)'
  <2>1. ResendsOf(f) /\ Resending(f)' = Resending(f) /\ Expiring(f)' = Expiring(f)
    BY <1>1 DEF ResendsInv, Resending, Expiring, At
  <2>2. CASE f = e
    <3>1. resends'[e] = [n |-> 0, ttl |-> FALSE] /\ resent'[e] = 0
      BY <1>1 DEF ResendsInv, ResendTypes
    <3> QED BY <2>1, <2>2, <3>1, ResendingFinite, ServicesConstants DEF ResendsOf
  <2>3. CASE f # e
    <3>1. resends'[f] = resends[f] /\ resent'[f] = resent[f]
      BY <1>1, <2>3 DEF ResendsInv, ResendTypes
    <3> QED BY <1>1, <2>1, <3>1 DEF ResendsOf
  <2> QED BY <2>2, <2>3
<1> QED BY <1>2, <1>3 DEF ResendsInv

(* The statements of the other requests. *)
LEMMA ResendsAside ==
  ASSUME ResendsInv, Places, NEW s \in Session, AccountStep(s) \/ Verification(s) \/ Reset(s),
         ~incrementResendAttempts(s), ~expireResends(s), ~writeProfile(s), ~\E e \in Written : resend(s, e)
  PROVE  ResendsInv'
<1> DEFINE Stays ==
      /\ Others(s) /\ UNCHANGED <<resends, resent>> /\ lost \subseteq lost'
      /\ pc'[s] \notin {"resend.find", "resend.expire"}
      /\ pc'[s] \in {"token.write", "code.mail", "resend.incr"} =>
           \/ /\ pc[s] \in {"resend.find", "token.write", "code.mail"} /\ call'[s].email = call[s].email
              /\ pc'[s] = "resend.incr" => call[s].email # NULL
           \/ pc'[s] # "resend.incr" /\ call'[s].email = NULL
      /\ pc[s] = "resend.expire" => call[s].email \in lost'
<1>14. /\ \A l, c : Goto(s, l, c) => Others(s) /\ pc'[s] = l /\ call'[s] = c
       /\ Return(s) => Others(s) /\ pc'[s] = "idle"
  BY PlacesShaped, GotoEffect, ReturnEffect
<1> USE <1>14 DEF At, account_vars, codes
<1>1. ASSUME NEW c \in Code, verifyEmail(s, c) \/ acceptInvitation(s, c) PROVE Stays
  <2>1. UNCHANGED <<resends, resent, lost>> /\ pc[s] = "idle"
    BY <1>1 DEF verifyEmail, acceptInvitation
  <2>2. Others(s) /\ pc'[s] \in {"verify.write", "accept.write"}
    BY <1>1 DEF verifyEmail, acceptInvitation
  <2> QED BY <2>1, <2>2
<1>2. ASSUME NEW u \in User, loginUnverified(s, u) PROVE Stays
  BY <1>2 DEF loginUnverified
<1>3. ASSUME NEW e \in Written, inviteUser(s, e) \/ forgotPassword(s, e) PROVE Stays
  <2>1. UNCHANGED <<resends, resent, lost>> /\ pc[s] = "idle"
    BY <1>3 DEF inviteUser, forgotPassword
  <2>2. Others(s) /\ pc'[s] \in {"invite.insert", "otp.del"}
    BY <1>3 DEF inviteUser, forgotPassword
  <2> QED BY <2>1, <2>2
<1>4. ASSUME NEW e \in Written, NEW c \in Code, resetPassword(s, e, c) PROVE Stays
  BY <1>4 DEF resetPassword
<1>5. ASSUME NEW u \in User, NEW e, updateProfile(s, u, e) PROVE Stays
  BY <1>5 DEF updateProfile
<1>6. ASSUME open(s) \/ updateVerificationToken(s) PROVE Stays
  BY <1>6 DEF open, updateVerificationToken
<1>7. ASSUME insertInvited(s) PROVE Stays
  <2>1. UNCHANGED <<resends, resent, lost>> /\ pc[s] = "invite.insert"
    BY <1>7 DEF insertInvited
  <2>2. CASE Return(s)
    BY <2>1, <2>2
  <2>3. CASE \E u, c : Goto(s, "code.mail", [user |-> u, code |-> c, email |-> NULL])
    BY <2>1, <2>3
  <2> QED BY <1>7, <2>2, <2>3 DEF insertInvited
<1>8. ASSUME sendCode(s) PROVE Stays
  BY <1>8 DEF sendCode
<1>9. ASSUME resendFind(s) PROVE Stays
  <2>1. pc[s] = "resend.find" /\ call[s].email \in Email /\ UNCHANGED <<resends, resent, lost>>
    BY <1>9 DEF resendFind, ResendsInv, ResendTypes
  <2>3. PICK l \in {"resend.incr", "code.mail", "token.write"} :
          \E c : Goto(s, l, c) /\ c.email = call[s].email
    BY <1>9 DEF resendFind
  <2>2. PICK c : Goto(s, l, c) /\ c.email = call[s].email
    BY <2>3
  <2> QED BY <2>1, <2>2, ServicesNull
<1>10. ASSUME deleteOtp(s) \/ setOtp(s) PROVE Stays
  <2>1. CASE deleteOtp(s)
    BY <2>1 DEF deleteOtp
  <2>2. CASE setOtp(s)
    <3>1. /\ UNCHANGED <<resends, resent, lost>> /\ pc[s] = "otp.set"
          /\ \E u, c : Goto(s, "code.mail", [user |-> u, code |-> c, email |-> NULL])
      BY <2>2 DEF setOtp
    <3> QED BY <3>1
  <2> QED BY <1>10, <2>1, <2>2
<1>11. ASSUME verifyOTP(s) \/ compareOtp(s) \/ writeReset(s) \/ deleteUsed(s) PROVE Stays
  <2>1. UNCHANGED <<resends, resent, lost>> /\ pc[s] \in {"reset.find", "reset.get", "reset.write", "reset.del"}
    BY <1>11 DEF verifyOTP, compareOtp, writeReset, deleteUsed
  <2>2. Others(s) /\ pc'[s] \in {"idle", "reset.get", "reset.write", "reset.del"}
    BY <1>11 DEF verifyOTP, compareOtp, writeReset, deleteUsed
  <2> QED BY <2>1, <2>2
<1>12. ASSUME accountFails(s) PROVE Stays
  BY <1>12 DEF accountFails, Abort
<1>13. Stays
  <2>1. CASE AccountStep(s)
    BY <2>1, <1>6, <1>7, <1>8, <1>9, <1>10, <1>11, <1>12 DEF AccountStep
  <2>2. CASE Verification(s)
    BY <2>2, <1>1, <1>2, <1>3 DEF Verification
  <2>3. CASE Reset(s)
    <3>1. CASE \E e \in Written : forgotPassword(s, e) \/ \E c \in Code : resetPassword(s, e, c)
      BY <1>3, <1>4, <3>1
    <3>2. CASE \E m \in Moves : updateProfile(s, m[1], m[2])
      <4>1. PICK m \in Moves : updateProfile(s, m[1], m[2])
        BY <3>2
      <4> QED BY <1>5, <4>1, ServicesConstants
    <3> QED BY <2>3, <3>1, <3>2 DEF Reset
  <2> QED BY <2>1, <2>2, <2>3
<1> QED BY <1>13, ResendsStay

LEMMA ResendsProfile ==
  ASSUME ResendsInv, Places, NEW s \in Session, writeProfile(s)
  PROVE  ResendsInv'
<1>1. /\ pc[s] = "profile.write" /\ pc'[s] = "idle" /\ UNCHANGED <<resends, resent, lost>>
      /\ \A t \in Session \ {s} : pc'[t] = pc[t] /\ (pc[t] # "reset.find" => call'[t] = call[t])
  BY PlacesShaped DEF writeProfile, Shape, At, codes
<1>2. ResendTypes'
  BY <1>1 DEF ResendsInv, ResendTypes
<1>3. \A e \in Email : Resending(e)' \subseteq Resending(e) /\ (Expiring(e) => Expiring(e)')
  BY <1>1 DEF Resending, Expiring, At
<1> QED BY <1>1, <1>2, <1>3, ResendsElsewhere

LEMMA ResendsRest ==
  ASSUME ResendsInv, UNCHANGED <<resends, resent, lost, requests>>
  PROVE  ResendsInv'
<1>1. ResendTypes' /\ \A e \in Email : Resending(e)' = Resending(e) /\ Expiring(e)' = Expiring(e)
  BY DEF ResendsInv, ResendTypes, Resending, Expiring, At, requests
<1> QED BY <1>1, ResendsElsewhere

LEMMA ResendsNext ==
  ASSUME ResendsInv, Places, VerificationNext \/ ResetNext
  PROVE  ResendsInv'
<1>1. ASSUME NEW s \in Session, AccountStep(s) \/ Verification(s) \/ Reset(s) PROVE ResendsInv'
  BY <1>1, ResendsAside, ResendCounted, ResendExpires, ResendsProfile, ResendBegins
<1>2. ASSUME NEW e \in Written, resendsEnd(e) PROVE ResendsInv'
  BY <1>2, WindowEnds, ServicesConstants
<1>3. ASSUME NEW u \in User, otpEnds(u) PROVE ResendsInv'
  BY <1>3, ResendsRest DEF otpEnds, codes
<1> QED BY <1>1, <1>2, <1>3 DEF VerificationNext, ResetNext

-----------------------------------------------------------------------------
(* ListQueries: pages. *)

LEMMA IntervalCount ==
  ASSUME NEW n \in Nat
  PROVE  IsFiniteSet(1..n) /\ Cardinality(1..n) = n
<1>1. 1 \in Int /\ n \in Int /\ (1 > n => n = 0)
  OBVIOUS
<1>2. IsFiniteSet(1..n) /\ Cardinality(1..n) = IF 1 > n THEN 0 ELSE n - 1 + 1
  BY <1>1, FS_Interval
<1> QED BY <1>1, <1>2

(* An ordering has every row once, and those before a row in it are the    *)
(* only ones that may precede it.                                          *)
LEMMA OrderingLaws ==
  ASSUME NEW S, S \subseteq Row, NEW q \in Queries, NEW o \in orderings(S, q),
         NEW n, n = Cardinality(S)
  PROVE  /\ n \in Nat /\ o \in [1..n -> S]
         /\ \A i, j \in 1..n : i < j => o[i] # o[j] /\ ~precedes(o[j], o[i], q)
         /\ \A k \in 1..n : Cardinality({r \in S : precedes(r, o[k], q)}) < k
<1>1. IsFiniteSet(S) /\ n \in Nat
  BY ListsConstants, FS_Subset, FS_CardinalityType
<1>2. /\ o \in [1..n -> S] /\ \A i, j \in 1..n : i # j => o[i] # o[j]
      /\ \A i, j \in 1..n : i < j => ~precedes(o[j], o[i], q)
  BY DEF orderings, SetToSeqs
<1>3. \A r \in S : \E i \in 1..n : o[i] = r
  <2>1. IsFiniteSet(1..n) /\ Cardinality(1..n) = n
    BY <1>1, IntervalCount
  <2>2. o \in Injection(1..n, S)
    BY <1>2 DEF Injection, IsInjective
  <2>3. o \in Surjection(1..n, S)
    BY <1>1, <2>1, <2>2, FS_Injection
  <2> QED BY <2>3 DEF Surjection
<1>4. ASSUME NEW r \in Row PROVE ~precedes(r, r, q)
  BY ListsConstants DEF precedes
<1>5. ASSUME NEW k \in 1..n PROVE Cardinality({r \in S : precedes(r, o[k], q)}) < k
  <2> DEFINE before == {r \in S : precedes(r, o[k], q)}
             first  == {o[i] : i \in 1..k-1}
  <2>1. before \subseteq first
    <3> SUFFICES ASSUME NEW r \in S, precedes(r, o[k], q) PROVE \E i \in 1..k-1 : r = o[i]
      OBVIOUS
    <3>1. PICK i \in 1..n : o[i] = r
      BY <1>3
    <3>2. i # k
      BY <1>2, <1>4, <3>1
    <3>3. ~(k < i)
      BY <1>2, <3>1
    <3> QED BY <1>1, <3>1, <3>2, <3>3
  <2>2. IsFiniteSet(1..k-1) /\ Cardinality(1..k-1) = k - 1 /\ k - 1 \in Nat
    BY <1>1, IntervalCount
  <2>3. IsFiniteSet(first) /\ Cardinality(first) <= Cardinality(1..k-1)
    <3> DEFINE f == [i \in 1..k-1 |-> o[i]]
    <3>1. f \in Surjection(1..k-1, first)
      BY DEF Surjection
    <3> HIDE DEF f, first
    <3> QED BY <2>2, <3>1, FS_Surjection
  <2>4. IsFiniteSet(before) /\ Cardinality(before) <= Cardinality(first)
    BY <2>1, <2>3, FS_Subset
  <2> QED BY <2>2, <2>3, <2>4, FS_CardinalityType
<1> QED BY <1>1, <1>2, <1>5

LEMMA OffsetLaws ==
  ASSUME NEW q \in Queries
  PROVE  offset(q) \in Nat /\ limitOf(q) \in Nat /\ limitOf(q) >= 1
<1>1. /\ limitOf(q) \in Nat /\ limitOf(q) >= 1 /\ pageOf(q) \in Nat /\ pageOf(q) >= 1
  BY ListsConstants DEF limitOf, pageOf, Max2, Min2
<1>2. \A a, b \in Nat : a * b \in Nat
  OBVIOUS
<1>3. pageOf(q) - 1 \in Nat
  BY <1>1
<1> QED BY <1>1, <1>2, <1>3 DEF offset

(* What paginate cuts out of an ordering of the rows selected is the page. *)
LEMMA PageCut ==
  ASSUME NEW S, S \subseteq Row, NEW q \in Queries, NEW o \in orderings(matching(S, q), q)
  PROVE  PageOf(SubSeq(o, offset(q) + 1, Min2(offset(q) + limitOf(q), Len(o))), S, q)
<1> DEFINE M == matching(S, q)
           n == Cardinality(M)
           a == offset(q)
           z == Min2(a + limitOf(q), n)
           d == SubSeq(o, a + 1, z)
<1>1. M \subseteq Row
  BY DEF matching
<1>2. /\ n \in Nat /\ o \in [1..n -> M]
      /\ \A i, j \in 1..n : i < j => o[i] # o[j] /\ ~precedes(o[j], o[i], q)
      /\ \A k \in 1..n : Cardinality({r \in M : precedes(r, o[k], q)}) < k
  <2> HIDE DEF M
  <2> QED BY <1>1, OrderingLaws DEF M
<1>3. Len(o) = n
  BY <1>2
<1>4. a \in Nat /\ limitOf(q) \in Nat /\ limitOf(q) >= 1
  BY OffsetLaws
<1>5. z \in Nat /\ z <= n /\ z - a = (IF n - a < limitOf(q) THEN n - a ELSE limitOf(q))
  BY <1>2, <1>4 DEF Min2
<1> HIDE DEF M, n, a, z
<1>6. \A i \in a + 1 .. z : i \in 1..n /\ o[i] \in M
  BY <1>2, <1>4, <1>5
<1>7. /\ d \in Seq(M) /\ Len(d) = (IF a + 1 <= z THEN z - a ELSE 0)
      /\ \A i \in 1..z - a : d[i] = o[a + i]
  <2>1. a + 1 \in Int /\ z \in Int
    BY <1>4, <1>5
  <2>2. /\ d \in Seq(M) /\ Len(d) = (IF a + 1 <= z THEN z - (a + 1) + 1 ELSE 0)
        /\ \A i \in 1..z - (a + 1) + 1 : d[i] = o[(a + 1) + i - 1]
    <3> HIDE DEF d
    <3> QED BY <1>6, <2>1, SubSeqProperties DEF d
  <2>3. z - (a + 1) + 1 = z - a
    BY <1>4, <1>5
  <2>4. \A i \in 1..z - a : (a + 1) + i - 1 = a + i
    BY <1>4, <1>5
  <2> HIDE DEF d
  <2> QED BY <2>2, <2>3, <2>4
<1> HIDE DEF d
<1>8. DOMAIN d = 1..Len(d) /\ \A i \in DOMAIN d : i \in 1..z - a /\ i \in Nat
  BY <1>4, <1>5, <1>7
<1>12. \A i \in 1..z - a : a + i \in 1..n /\ d[i] = o[a + i]
  BY <1>2, <1>4, <1>5, <1>7
<1>9. ASSUME NEW i \in DOMAIN d
      PROVE  /\ d[i] \in M /\ Cardinality({r \in M : precedes(r, d[i], q)}) < a + i
             /\ \A j \in 1..i-1 : d[j] # d[i] /\ ~precedes(d[i], d[j], q)
  <2>1. i \in 1..z - a /\ a + i \in 1..n /\ d[i] = o[a + i]
    BY <1>8, <1>12
  <2>2. ASSUME NEW j \in 1..i-1 PROVE d[j] # d[i] /\ ~precedes(d[i], d[j], q)
    <3>1. j \in 1..z - a /\ a + j \in 1..n /\ a + j < a + i
      <4>1. i \in Nat /\ z - a \in Int /\ a \in Nat
        BY <1>4, <1>5, <1>8
      <4>2. j \in 1..z - a /\ j < i
        BY <2>1, <4>1
      <4> QED BY <1>12, <4>1, <4>2
    <3>2. d[j] = o[a + j]
      BY <1>12, <3>1
    <3> QED BY <1>2, <2>1, <3>1, <3>2
  <2> QED BY <1>2, <2>1, <2>2
<1>10. Len(d) = Max2(0, Min2(limitOf(q), n - a))
  BY <1>2, <1>4, <1>5, <1>7 DEF Max2, Min2
<1>11. d = SubSeq(o, offset(q) + 1, Min2(offset(q) + limitOf(q), Len(o)))
  BY <1>3 DEF d, a, z
<1> QED BY <1>9, <1>10, <1>11 DEF PageOf, M, n, a

LEMMA ListRequested ==
  ASSUME ListInv, Places, NEW s \in Session, NEW q \in Queries, list(s, q)
  PROVE  ListInv'
<1>1. /\ ~throws(q.filters) /\ table' = table /\ pc'[s] = "list.data" /\ call'[s] = [query |-> q] /\ Others(s)
  BY PlacesShaped, GotoEffect DEF list
<1>2. ListCallOK(s)'
  BY <1>1 DEF ListCallOK, ListLabels
<1>3. \A t \in Session \ {s} : ListCallOK(t)'
  BY <1>1 DEF ListInv, ListCallOK, Others
<1> QED BY <1>1, <1>2, <1>3 DEF ListInv

LEMMA ListStepped ==
  ASSUME ListInv, Places, NEW s \in Session, ListStep(s)
  PROVE  ListInv'
<1>1. ListCallOK(s) /\ table \subseteq Row
  BY DEF ListInv
<1>2. table' = table /\ Others(s) /\ ListCallOK(s)'
  <2>1. CASE selectPage(s)
    <3> DEFINE q == call[s].query
    <3>1. PICK o \in orderings(items(q), q) :
            Goto(s, "list.count",
              [query |-> q, seen |-> table, changed |-> FALSE,
               data |-> SubSeq(o, offset(q) + 1, Min2(offset(q) + limitOf(q), Len(o)))])
      BY <2>1 DEF selectPage
    <3>2. pc[s] = "list.data" /\ table' = table /\ q \in Queries
      BY <1>1, <2>1 DEF selectPage, At, ListCallOK, ListLabels
    <3>3. items(q) = matching(table, q)
      BY DEF items, matching
    <3> DEFINE d == SubSeq(o, offset(q) + 1, Min2(offset(q) + limitOf(q), Len(o)))
    <3>4. PageOf(d, table, q)
      BY <1>1, <3>2, <3>3, PageCut
    <3>5. /\ Others(s) /\ pc'[s] = "list.count"
          /\ call'[s] = [query |-> q, seen |-> table, changed |-> FALSE, data |-> d]
      BY <3>1, PlacesShaped, GotoEffect
    <3> HIDE DEF d, q
    <3> QED BY <1>1, <3>2, <3>4, <3>5 DEF ListCallOK, ListLabels
  <2>2. CASE executeCount(s)
    <3>1. pc[s] = "list.count" /\ table' = table
      BY <2>2 DEF executeCount, At
    <3>2. /\ Others(s) /\ pc'[s] = "list.done"
          /\ call'[s] = [query |-> call[s].query, seen |-> call[s].seen, changed |-> call[s].changed,
                         data |-> call[s].data, total |-> Cardinality(items(call[s].query))]
      BY <2>2, PlacesShaped, GotoEffect DEF executeCount
    <3>3. items(call[s].query) = matching(table, call[s].query)
      BY DEF items, matching
    <3> QED BY <1>1, <3>1, <3>2, <3>3 DEF ListCallOK, ListLabels
  <2>3. CASE respondList(s)
    BY <2>3, PlacesShaped, ReturnEffect DEF respondList, ListCallOK, ListLabels
  <2> QED BY <2>1, <2>2, <2>3 DEF ListStep
<1>3. \A t \in Session \ {s} : ListCallOK(t)'
  BY <1>2 DEF ListInv, ListCallOK, Others
<1> QED BY <1>1, <1>2, <1>3 DEF ListInv

LEMMA TableChanged ==
  ASSUME ListInv, Places, tableChanges
  PROVE  ListInv'
<1>1. /\ pc' = pc /\ table' \subseteq Row
      /\ \A s \in Session : call'[s] = IF pc[s] = "list.count" THEN [call[s] EXCEPT !.changed = TRUE] ELSE call[s]
  BY DEF tableChanges, At, ListInv
<1>2. ASSUME NEW s \in Session PROVE ListCallOK(s)'
  <2>1. ListCallOK(s)
    BY DEF ListInv
  <2>2. CASE pc[s] = "list.count"
    <3>1. call'[s] = [query |-> call[s].query, seen |-> call[s].seen, changed |-> TRUE, data |-> call[s].data]
      BY <1>1, <2>1, <2>2 DEF ListCallOK
    <3> QED BY <1>1, <2>1, <2>2, <3>1 DEF ListCallOK, ListLabels
  <2>3. CASE pc[s] # "list.count"
    BY <1>1, <2>1, <2>3 DEF ListCallOK
  <2> QED BY <2>2, <2>3
<1> QED BY <1>1, <1>2 DEF ListInv

LEMMA ListsNext ==
  ASSUME ListInv, Places, ListNext(Queries)
  PROVE  ListInv'
BY ListRequested, ListStepped, TableChanged DEF ListNext

LEMMA ListRest ==
  ASSUME ListInv, UNCHANGED <<table, requests>>
  PROVE  ListInv'
BY DEF ListInv, ListCallOK, requests

-----------------------------------------------------------------------------
(* FilterService: the calendar. *)

LEMMA Least ==
  ASSUME NEW S \in SUBSET Nat, S # {}
  PROVE  \E i \in S : \A j \in S : i <= j
<1>1. PICK i \in S : \A j \in S : <<j, i>> \notin OpToRel(<, Nat)
  BY NatLessThanWellFounded, WFMin
<1>2. OpToRel(<, Nat) = {p \in Nat \X Nat : p[1] < p[2]}
  BY DEF OpToRel
<1>3. ASSUME NEW j \in S PROVE i <= j
  <2>1. i \in Nat /\ j \in Nat /\ <<j, i>> \notin {p \in Nat \X Nat : p[1] < p[2]}
    BY <1>1, <1>2
  <2> QED BY <2>1
<1> QED BY <1>3

(* g gives the first k months their first days. *)
Starts(g, k) == g = [m \in 1..k |-> IF m = 1 THEN 0 ELSE g[m - 1] + MonthLength[m - 1]]

LEMMA CalendarExists == \A k \in Nat : \E g : Starts(g, k)
<1> SUFFICES ASSUME NEW k0 \in Nat, ~\E g : Starts(g, k0) PROVE FALSE
  OBVIOUS
<1> DEFINE S == {k \in Nat : ~\E g : Starts(g, k)}
<1>1. PICK k \in S : \A j \in S : k <= j
  BY Least
<1>2. k # 0
  <2> DEFINE g == [m \in 1..0 |-> 0]
  <2>1. g = [m \in 1..0 |-> IF m = 1 THEN 0 ELSE g[m - 1] + MonthLength[m - 1]]
    OBVIOUS
  <2>2. Starts(g, 0)
    BY <2>1 DEF Starts
  <2> QED BY <2>2
<1>3. k \in Nat /\ k - 1 \in Nat /\ ~(k <= k - 1)
  BY <1>2
<1>4. PICK g : Starts(g, k - 1)
  BY <1>1, <1>3
<1> DEFINE h == [m \in 1..k |-> IF m = 1 THEN 0 ELSE g[m - 1] + MonthLength[m - 1]]
<1>5. ASSUME NEW m \in 1..k PROVE h[m] = IF m = 1 THEN 0 ELSE h[m - 1] + MonthLength[m - 1]
  <2>1. CASE m = 1
    BY <2>1
  <2>2. CASE m # 1
    <3>1. m - 1 \in 1..k-1 /\ m - 1 \in 1..k
      BY <1>3, <2>2
    <3>2. h[m - 1] = IF m - 1 = 1 THEN 0 ELSE g[(m - 1) - 1] + MonthLength[(m - 1) - 1]
      BY <3>1
    <3>3. g[m - 1] = IF m - 1 = 1 THEN 0 ELSE g[(m - 1) - 1] + MonthLength[(m - 1) - 1]
      BY <1>4, <3>1 DEF Starts
    <3> QED BY <2>2, <3>2, <3>3
  <2> QED BY <2>1, <2>2
<1>6. h = [m \in 1..k |-> h[m]]
  OBVIOUS
<1>7. Starts(h, k)
  <2> HIDE DEF h
  <2> QED BY <1>5, <1>6 DEF Starts
<1> QED BY <1>1, <1>7

LEMMA MonthStarts ==
  \A m \in DOMAIN MonthLength : MonthStart[m] = IF m = 1 THEN 0 ELSE MonthStart[m - 1] + MonthLength[m - 1]
<1>1. Len(MonthLength) \in Nat /\ DOMAIN MonthLength = 1..Len(MonthLength)
  BY FiltersConstants
<1>2. \E g : Starts(g, Len(MonthLength))
  BY <1>1, CalendarExists
<1>3. Starts(MonthStart, Len(MonthLength))
  BY <1>2 DEF MonthStart, Starts
<1> QED BY <1>1, <1>3 DEF Starts

(* Months follow on one another. *)
LEMMA MonthsOrdered ==
  /\ \A m \in DOMAIN MonthLength : MonthStart[m] \in Nat
  /\ \A m, k \in DOMAIN MonthLength : m < k => MonthStart[m] + MonthLength[m] <= MonthStart[k]
<1>1. /\ Len(MonthLength) \in Nat /\ DOMAIN MonthLength = 1..Len(MonthLength)
      /\ \A m \in DOMAIN MonthLength : MonthLength[m] \in Nat
  BY FiltersConstants
<1> DEFINE Fine(k) == MonthStart[k] \in Nat
              /\ \A m \in DOMAIN MonthLength : m < k => MonthStart[m] + MonthLength[m] <= MonthStart[k]
           S == {k \in DOMAIN MonthLength : ~Fine(k)}
<1>2. S = {}
  <2> SUFFICES ASSUME S # {} PROVE FALSE
    OBVIOUS
  <2>0. S \in SUBSET Nat
    BY <1>1
  <2>1. PICK k \in S : \A j \in S : k <= j
    <3> HIDE DEF S
    <3> QED BY <2>0, Least
  <2>2. k \in DOMAIN MonthLength /\ ~Fine(k) /\ k \in Nat /\ k >= 1
    BY <1>1, <2>1
  <2>3. CASE k = 1
    BY <1>1, <2>2, <2>3, MonthStarts
  <2>4. CASE k # 1
    <3>1. k - 1 \in DOMAIN MonthLength /\ ~(k <= k - 1)
      BY <1>1, <2>2, <2>4
    <3>2. Fine(k - 1)
      BY <2>1, <3>1
    <3>3. MonthStart[k] = MonthStart[k - 1] + MonthLength[k - 1]
      BY <2>2, <2>4, MonthStarts
    <3>4. MonthStart[k] \in Nat /\ MonthStart[k - 1] \in Nat /\ MonthLength[k - 1] \in Nat
      BY <1>1, <3>1, <3>2, <3>3
    <3>5. ASSUME NEW m \in DOMAIN MonthLength, m < k PROVE MonthStart[m] + MonthLength[m] <= MonthStart[k]
      <4>1. CASE m = k - 1
        BY <3>3, <3>4, <4>1
      <4>2. CASE m # k - 1
        <5>1. m < k - 1
          BY <1>1, <2>2, <3>5, <4>2
        <5>2. MonthStart[m] + MonthLength[m] <= MonthStart[k - 1]
          BY <3>2, <5>1
        <5>3. m - 1 \in Int /\ m <= k - 1
          BY <1>1, <5>1
        <5>4. MonthStart[m] \in Nat /\ MonthLength[m] \in Nat
          <6>1. m \notin S
            BY <1>1, <2>1, <2>2, <5>1
          <6> QED BY <1>1, <6>1
        <5> QED BY <3>3, <3>4, <5>2, <5>4
      <4> QED BY <4>1, <4>2
    <3> QED BY <2>2, <3>4, <3>5
  <2> QED BY <2>3, <2>4
<1> QED BY <1>2

LEMMA MonthUnique ==
  ASSUME NEW day \in Int, NEW m \in DOMAIN MonthLength,
         MonthStart[m] <= day, day < MonthStart[m] + MonthLength[m]
  PROVE  MonthOf(day) = m
<1>1. \A k \in DOMAIN MonthLength : MonthStart[k] \in Nat /\ MonthLength[k] \in Nat /\ k \in Nat
  BY MonthsOrdered, FiltersConstants
<1>2. ASSUME NEW k \in DOMAIN MonthLength, MonthStart[k] <= day, day < MonthStart[k] + MonthLength[k]
      PROVE  k = m
  BY <1>1, <1>2, MonthsOrdered
<1>3. MonthOf(day) \in DOMAIN MonthLength /\ MonthStart[MonthOf(day)] <= day
        /\ day < MonthStart[MonthOf(day)] + MonthLength[MonthOf(day)]
  BY DEF MonthOf
<1> QED BY <1>2, <1>3

(* A day every month has: the month after the n-th is the n+1-th.          *)
LEMMA MonthsFollow ==
  ASSUME NEW q \in Queries, NEW n \in Int, MonthOf(q.today) + n \in DOMAIN MonthLength,
         \A m \in DOMAIN MonthLength : DayOfMonth(q.today) < MonthLength[m]
  PROVE  relative(q.today, n, "months")[2] = relative(q.today, n + 1, "months")[1]
<1> DEFINE today == q.today
           start == addMonths(today, n)
           d == DayOfMonth(today)
<1>1. today \in Int /\ \E m \in DOMAIN MonthLength :
                          MonthStart[m] <= today /\ today < MonthStart[m] + MonthLength[m]
  BY FiltersConstants
<1>2. MonthOf(today) \in DOMAIN MonthLength /\ MonthStart[MonthOf(today)] <= today
  BY <1>1 DEF MonthOf
<1>3. d \in Nat /\ MonthOf(today) \in Nat
  <2>1. MonthStart[MonthOf(today)] \in Nat /\ MonthOf(today) \in 1..Len(MonthLength)
    BY <1>2, MonthsOrdered, FiltersConstants
  <2>2. d = today - MonthStart[MonthOf(today)]
    BY DEF DayOfMonth
  <2> HIDE DEF d, today
  <2> QED BY <1>1, <1>2, <2>1, <2>2
<1> DEFINE k == MonthOf(today) + n
<1>4. k \in DOMAIN MonthLength /\ d < MonthLength[k] /\ MonthStart[k] \in Nat /\ MonthLength[k] \in Nat
  BY MonthsOrdered, FiltersConstants
<1>5. start = MonthStart[k] + d
  BY DEF addMonths
<1> HIDE DEF start, d, k
<1>6. MonthOf(start) = k
  BY <1>3, <1>4, <1>5, MonthUnique
<1>7. DayOfMonth(start) = d
  BY <1>3, <1>4, <1>5, <1>6 DEF DayOfMonth
<1>8. addMonths(start, 1) = MonthStart[k + 1] + d
  BY <1>6, <1>7 DEF addMonths
<1>9. addMonths(today, n + 1) = MonthStart[k + 1] + d
  <2>1. MonthOf(today) + (n + 1) = k + 1
    BY <1>3 DEF k
  <2> QED BY <2>1 DEF addMonths, d
<1>10. relative(today, n, "months")[2] = addMonths(start, 1)
  BY DEF relative, start
<1>11. relative(today, n + 1, "months")[1] = addMonths(today, n + 1)
  BY DEF relative
<1> QED BY <1>8, <1>9, <1>10, <1>11

-----------------------------------------------------------------------------
(* FilterService: the operators. *)

IsFilter(f) ==
  f = [id |-> f.id, operator |-> f.operator, variant |-> f.variant, many |-> f.many,
       quoted |-> f.quoted, value |-> f.value]

LEMMA WithLaws ==
  ASSUME NEW f, IsFilter(f), NEW op, NEW x
  PROVE  /\ With(f, op, x).id = f.id /\ With(f, op, x).operator = op /\ With(f, op, x).variant = f.variant
         /\ With(f, op, x).quoted = f.quoted /\ With(f, op, x).value = x
<1>1. PICK a, b, c, d, e, y : f = [id |-> a, operator |-> b, variant |-> c, many |-> d, quoted |-> e, value |-> y]
  BY DEF IsFilter
<1>2. With(f, op, x) = [id |-> a, operator |-> op, variant |-> c, many |-> d, quoted |-> e, value |-> x]
  <2>1. With(f, op, x) = [[f EXCEPT !.operator = op] EXCEPT !.value = x]
    BY DEF With
  <2>2. [f EXCEPT !.operator = op] =
          [id |-> a, operator |-> op, variant |-> c, many |-> d, quoted |-> e, value |-> y]
    BY <1>1
  <2> QED BY <2>1, <2>2
<1> QED BY <1>1, <1>2

(* What each operator selects of the values that are there. *)
LEMMA HoldsLaws ==
  ASSUME NEW g, NEW v, NEW today, v # NULL
  PROVE  /\ g.operator = "iLike"      => (holds(g, v, today) <=> g.value \subseteq v)
         /\ g.operator = "notILike"   => (holds(g, v, today) <=> ~(g.value \subseteq v))
         /\ g.operator = "eq"         => (holds(g, v, today) <=> equals(g, v))
         /\ g.operator = "ne"         => (holds(g, v, today) <=> ~equals(g, v))
         /\ g.operator = "inArray"    => (holds(g, v, today) <=> member(g, v))
         /\ g.operator = "notInArray" => (holds(g, v, today) <=> ~member(g, v))
         /\ g.operator = "lt"         => (holds(g, v, today) <=> atMost(g, v, TRUE))
         /\ g.operator = "lte"        => (holds(g, v, today) <=> atMost(g, v, FALSE))
         /\ g.operator = "gt"         => (holds(g, v, today) <=> v > g.value)
         /\ g.operator = "gte"        => (holds(g, v, today) <=> v >= g.value)
         /\ g.operator = "isBetween"  => (holds(g, v, today) <=> between(g, v))
<1>1. g.operator = "iLike" => (holds(g, v, today) <=> g.value \subseteq v)
  BY DEF holds
<1>2. g.operator = "notILike" => (holds(g, v, today) <=> ~(g.value \subseteq v))
  BY DEF holds
<1>3. g.operator = "eq" => (holds(g, v, today) <=> equals(g, v))
  BY DEF holds
<1>4. g.operator = "ne" => (holds(g, v, today) <=> ~equals(g, v))
  BY DEF holds
<1>5. g.operator = "inArray" => (holds(g, v, today) <=> member(g, v))
  BY DEF holds
<1>6. g.operator = "notInArray" => (holds(g, v, today) <=> ~member(g, v))
  BY DEF holds
<1>7. g.operator = "lt" => (holds(g, v, today) <=> atMost(g, v, TRUE))
  BY DEF holds
<1>8. g.operator = "lte" => (holds(g, v, today) <=> atMost(g, v, FALSE))
  BY DEF holds
<1>9. g.operator = "gt" => (holds(g, v, today) <=> v > g.value)
  BY DEF holds
<1>10. g.operator = "gte" => (holds(g, v, today) <=> v >= g.value)
  BY DEF holds
<1>11. g.operator = "isBetween" => (holds(g, v, today) <=> between(g, v))
  BY DEF holds
<1> QED BY <1>1, <1>2, <1>3, <1>4, <1>5, <1>6, <1>7, <1>8, <1>9, <1>10, <1>11

LEMMA HoldsRelative ==
  ASSUME NEW g, NEW v, NEW today, v # NULL, g.operator = "isRelativeToToday"
  PROVE  holds(g, v, today) <=>
           within(relative(today, g.value[1], g.value[2])[1] * DayLength,
                  relative(today, g.value[1], g.value[2])[2] * DayLength, v)
BY DEF holds

LEMMA NullSelectsNothing ==
  ASSUME NEW g, NEW today, g.operator \notin {"isEmpty", "isNotEmpty"}
  PROVE  ~holds(g, NULL, today)
BY DEF holds

Operators == {"iLike", "notILike", "eq", "ne", "inArray", "notInArray", "lt", "lte", "gt", "gte",
              "isBetween", "isRelativeToToday"}

There(f) == Values(f.id) \ {NULL}

LEMMA SelectedLaws ==
  ASSUME NEW f, IsFilter(f), NEW op \in Operators, NEW x, NEW today
  PROVE  Selected(With(f, op, x), today) = {v \in There(f) : holds(With(f, op, x), v, today)}
<1>1. With(f, op, x).id = f.id /\ With(f, op, x).operator = op
  BY WithLaws
<1>2. ~holds(With(f, op, x), NULL, today)
  BY <1>1, NullSelectsNothing DEF Operators
<1> QED BY <1>1, <1>2 DEF Selected, There

(* 'not' is the complement. *)
LEMMA Opposites ==
  ASSUME NEW f, IsFilter(f), NEW op \in Operators, NEW not \in Operators, NEW x, NEW today,
         \A v \in There(f) : holds(With(f, not, x), v, today) <=> ~holds(With(f, op, x), v, today)
  PROVE  /\ Selected(With(f, op, x), today) \cup Selected(With(f, not, x), today) = There(f)
         /\ Selected(With(f, op, x), today) \cap Selected(With(f, not, x), today) = {}
<1> QED BY SelectedLaws

LEMMA NegationLaws ==
  ASSUME NEW f, IsFilter(f), NEW today, NEW x, NEW v, v # NULL
  PROVE  /\ holds(With(f, "ne", x), v, today) <=> ~holds(With(f, "eq", x), v, today)
         /\ holds(With(f, "notILike", x), v, today) <=> ~holds(With(f, "iLike", x), v, today)
         /\ holds(With(f, "notInArray", x), v, today) <=> ~holds(With(f, "inArray", x), v, today)
<1>0. \A op : With(f, op, x).operator = op
  BY WithLaws
<1>1. holds(With(f, "ne", x), v, today) <=> ~holds(With(f, "eq", x), v, today)
  <2> DEFINE e == With(f, "eq", x)
             n == With(f, "ne", x)
  <2>1. e.operator = "eq" /\ n.operator = "ne"
    BY <1>0
  <2>2. equals(n, v) <=> equals(e, v)
    <3>1. \A op : equals(With(f, op, x), v) <=>
             IF f.variant = "date" THEN within(x, x + DayLength, v)
             ELSE v = IF ColumnType[f.id] = "boolean" /\ x # "true" THEN "false" ELSE x
      BY WithLaws DEF equals, operand
    <3> QED BY <3>1
  <2> HIDE DEF e, n
  <2>3. (holds(n, v, today) <=> ~equals(n, v)) /\ (holds(e, v, today) <=> equals(e, v))
    BY <2>1, HoldsLaws
  <2>4. holds(n, v, today) <=> ~holds(e, v, today)
    BY <2>2, <2>3
  <2> QED BY <2>4 DEF e, n
<1>2. holds(With(f, "notILike", x), v, today) <=> ~holds(With(f, "iLike", x), v, today)
  <2> DEFINE e == With(f, "iLike", x)
             n == With(f, "notILike", x)
  <2>1. e.operator = "iLike" /\ n.operator = "notILike" /\ e.value = x /\ n.value = x
    BY <1>0, WithLaws
  <2> HIDE DEF e, n
  <2>3. (holds(n, v, today) <=> ~(n.value \subseteq v)) /\ (holds(e, v, today) <=> e.value \subseteq v)
    BY <2>1, HoldsLaws
  <2>4. holds(n, v, today) <=> ~holds(e, v, today)
    BY <2>1, <2>3
  <2> QED BY <2>4 DEF e, n
<1>3. holds(With(f, "notInArray", x), v, today) <=> ~holds(With(f, "inArray", x), v, today)
  <2> DEFINE e == With(f, "inArray", x)
             n == With(f, "notInArray", x)
  <2>1. e.operator = "inArray" /\ n.operator = "notInArray"
    BY <1>0
  <2>2. member(n, v) <=> member(e, v)
    <3>1. \A op : member(With(f, op, x), v) <=> \E i \in DOMAIN x : x[i] = v
      BY WithLaws DEF member
    <3> QED BY <3>1
  <2> HIDE DEF e, n
  <2>3. (holds(n, v, today) <=> ~member(n, v)) /\ (holds(e, v, today) <=> member(e, v))
    BY <2>1, HoldsLaws
  <2>4. holds(n, v, today) <=> ~holds(e, v, today)
    BY <2>2, <2>3
  <2> QED BY <2>4 DEF e, n
<1> QED BY <1>1, <1>2, <1>3

(* Comparisons of numbers. *)
LEMMA ComparisonLaws ==
  ASSUME NEW f, IsFilter(f), NEW today, NEW x \in Int, NEW v \in Int, v # NULL
  PROVE  /\ holds(With(f, "gt", x), v, today) <=> v > x
         /\ holds(With(f, "gte", x), v, today) <=> v >= x
         /\ f.variant # "date" => /\ holds(With(f, "lt", x), v, today) <=> v < x
                                  /\ holds(With(f, "lte", x), v, today) <=> v <= x
         /\ f.variant = "date" => (holds(With(f, "lte", x), v, today) <=> v < x + DayLength)
<1> DEFINE gt == With(f, "gt", x)
           gte == With(f, "gte", x)
           lt == With(f, "lt", x)
           lte == With(f, "lte", x)
<1>1. /\ gt.operator = "gt" /\ gte.operator = "gte" /\ lt.operator = "lt" /\ lte.operator = "lte"
      /\ gt.value = x /\ gte.value = x /\ lt.value = x /\ lte.value = x
      /\ lt.variant = f.variant /\ lte.variant = f.variant
  BY WithLaws
<1> HIDE DEF gt, gte, lt, lte
<1>2. (holds(gt, v, today) <=> v > gt.value) /\ (holds(gte, v, today) <=> v >= gte.value)
  BY <1>1, HoldsLaws
<1>3. (holds(lt, v, today) <=> atMost(lt, v, TRUE)) /\ (holds(lte, v, today) <=> atMost(lte, v, FALSE))
  BY <1>1, HoldsLaws
<1>4. /\ atMost(lt, v, TRUE) <=> IF f.variant = "date" THEN v < x + DayLength ELSE v < x
      /\ atMost(lte, v, FALSE) <=> IF f.variant = "date" THEN v < x + DayLength ELSE v <= x
  BY <1>1 DEF atMost
<1>5. /\ holds(gt, v, today) <=> v > x
      /\ holds(gte, v, today) <=> v >= x
      /\ f.variant # "date" => (holds(lt, v, today) <=> v < x) /\ (holds(lte, v, today) <=> v <= x)
      /\ f.variant = "date" => (holds(lte, v, today) <=> v < x + DayLength)
  BY <1>1, <1>2, <1>3, <1>4
<1> QED BY <1>5 DEF gt, gte, lt, lte

LEMMA Itself ==
  ASSUME NEW f, IsFilter(f)
  PROVE  With(f, f.operator, f.value) = f
BY DEF With, IsFilter

(* A day is what is neither before nor after it; a range is what its ends  *)
(* select.                                                                 *)
LEMMA DayLaw ==
  ASSUME NEW f, IsFilter(f), NEW today, f.operator = "eq", f.variant = "date", f.value \in Int,
         There(f) \subseteq Int
  PROVE  Selected(f, today) = Selected(With(f, "gte", f.value), today) \cap Selected(With(f, "lte", f.value), today)
<1>1. \A v \in There(f) : /\ holds(f, v, today) <=> v >= f.value /\ v < f.value + DayLength
                          /\ holds(With(f, "gte", f.value), v, today) <=> v >= f.value
                          /\ holds(With(f, "lte", f.value), v, today) <=> v < f.value + DayLength
  <2> SUFFICES ASSUME NEW v \in There(f)
               PROVE  /\ holds(f, v, today) <=> v >= f.value /\ v < f.value + DayLength
                      /\ holds(With(f, "gte", f.value), v, today) <=> v >= f.value
                      /\ holds(With(f, "lte", f.value), v, today) <=> v < f.value + DayLength
    OBVIOUS
  <2>1. v \in Int /\ v # NULL /\ DayLength \in Nat
    BY FiltersConstants DEF There
  <2>2. holds(f, v, today) <=> equals(f, v)
    BY <2>1, HoldsLaws
  <2>3. equals(f, v) <=> v >= f.value /\ v < f.value + DayLength
    BY <2>1 DEF equals, within
  <2> QED BY <2>1, <2>2, <2>3, ComparisonLaws
<1>2. Selected(f, today) = {v \in There(f) : holds(f, v, today)}
  BY SelectedLaws, Itself DEF Operators
<1>3. /\ Selected(With(f, "gte", f.value), today) = {v \in There(f) : holds(With(f, "gte", f.value), v, today)}
      /\ Selected(With(f, "lte", f.value), today) = {v \in There(f) : holds(With(f, "lte", f.value), v, today)}
  BY SelectedLaws DEF Operators
<1> QED BY <1>1, <1>2, <1>3

LEMMA DaysLaw ==
  ASSUME NEW f, IsFilter(f), NEW today, f.operator = "isBetween", f.variant = "dateRange",
         Len(f.value) = 2, bound(f, 2) # NULL, f.value[1] \in Int, f.value[2] \in Int,
         There(f) \subseteq Int
  PROVE  Selected(f, today) = {v \in There(f) : v >= f.value[1] /\ v < f.value[2] + DayLength}
<1>1. Selected(f, today) = {v \in There(f) : holds(f, v, today)}
  BY SelectedLaws, Itself DEF Operators
<1>2. bound(f, 2) = f.value[2]
  BY DEF bound
<1>3. ASSUME NEW v \in There(f) PROVE holds(f, v, today) <=> v >= f.value[1] /\ v < f.value[2] + DayLength
  <2>1. v \in Int /\ v # NULL /\ DayLength \in Nat
    BY FiltersConstants DEF There
  <2>2. holds(f, v, today) <=> between(f, v)
    BY <2>1, HoldsLaws
  <2>3. between(f, v) <=> within(f.value[1], f.value[2] + DayLength, v)
    BY <1>2 DEF between
  <2> QED BY <2>1, <2>2, <2>3 DEF within
<1> QED BY <1>1, <1>3

LEMMA RangeLaw ==
  ASSUME NEW f, IsFilter(f), NEW today, f.operator = "isBetween", Numeric(f),
         f.quoted \/ 0 \notin {f.value[1], f.value[2]}, NULL \notin {f.value[1], f.value[2]},
         f.value[1] \in Int, f.value[2] \in Int, There(f) \subseteq Int
  PROVE  Selected(f, today) =
           Selected(With(f, "gte", f.value[1]), today) \cap Selected(With(f, "lte", f.value[2]), today)
<1>1. Selected(f, today) = {v \in There(f) : holds(f, v, today)}
  BY SelectedLaws, Itself DEF Operators
<1>2. bound(f, 1) = f.value[1] /\ bound(f, 2) = f.value[2]
  BY DEF bound
<1>3. f.variant \notin {"date", "dateRange"}
  BY DEF Numeric
<1>4. \A v \in There(f) : /\ holds(f, v, today) <=> f.value[1] <= v /\ v <= f.value[2]
                          /\ holds(With(f, "gte", f.value[1]), v, today) <=> v >= f.value[1]
                          /\ holds(With(f, "lte", f.value[2]), v, today) <=> v <= f.value[2]
  <2> SUFFICES ASSUME NEW v \in There(f)
               PROVE  /\ holds(f, v, today) <=> f.value[1] <= v /\ v <= f.value[2]
                      /\ holds(With(f, "gte", f.value[1]), v, today) <=> v >= f.value[1]
                      /\ holds(With(f, "lte", f.value[2]), v, today) <=> v <= f.value[2]
    OBVIOUS
  <2>1. v \in Int /\ v # NULL
    BY DEF There
  <2>2. holds(f, v, today) <=> between(f, v)
    BY <2>1, HoldsLaws
  <2>3. between(f, v) <=> f.value[1] <= v /\ v <= f.value[2]
    BY <1>2, <1>3 DEF between
  <2> QED BY <1>3, <2>1, <2>2, <2>3, ComparisonLaws
<1>5. /\ Selected(With(f, "gte", f.value[1]), today) = {v \in There(f) : holds(With(f, "gte", f.value[1]), v, today)}
      /\ Selected(With(f, "lte", f.value[2]), today) = {v \in There(f) : holds(With(f, "lte", f.value[2]), v, today)}
  BY SelectedLaws DEF Operators
<1>6. \A v \in There(f) : v >= f.value[1] <=> f.value[1] <= v
  BY DEF There
<1> QED BY <1>1, <1>4, <1>5, <1>6

(* A week is its days. *)
LEMMA RelativeLaw ==
  ASSUME NEW f, IsFilter(f), NEW today \in Int, NEW n \in Int, NEW unit, There(f) \subseteq Int
  PROVE  Relative(f, today, n, unit) =
           {v \in There(f) : within(relative(today, n, unit)[1] * DayLength, relative(today, n, unit)[2] * DayLength, v)}
<1> DEFINE g == With(f, "isRelativeToToday", <<n, unit>>)
<1>1. g.operator = "isRelativeToToday" /\ g.value = <<n, unit>>
  BY WithLaws
<1>2. Relative(f, today, n, unit) = {v \in There(f) : holds(g, v, today)}
  BY SelectedLaws DEF Relative, Operators
<1>3. g.value[1] = n /\ g.value[2] = unit
  BY <1>1
<1> HIDE DEF g
<1>4. ASSUME NEW v \in There(f)
      PROVE  holds(g, v, today) <=> within(relative(today, n, unit)[1] * DayLength, relative(today, n, unit)[2] * DayLength, v)
  <2>1. v # NULL
    BY DEF There
  <2> QED BY <1>1, <1>3, <2>1, HoldsRelative
<1> QED BY <1>2, <1>4

LEMMA WeekLaw ==
  ASSUME NEW f, IsFilter(f), NEW today \in Int, There(f) \subseteq Int
  PROVE  Relative(f, today, 0, "weeks") = UNION {Relative(f, today, i, "days") : i \in 0..6}
<1> DEFINE t == today * DayLength
<1>1. t \in Int /\ DayLength \in Nat
  BY FiltersConstants
<1>2. \A i \in Int : (today + i) * DayLength = t + i * DayLength
  BY <1>1
<1>3. relative(today, 0, "weeks")[1] = today + 0 /\ relative(today, 0, "weeks")[2] = today + 7
  BY DEF relative
<1>4. \A i \in Int : relative(today, i, "days")[1] = today + i /\ relative(today, i, "days")[2] = today + (i + 1)
  BY DEF relative
<1> HIDE DEF t
<1>5. Relative(f, today, 0, "weeks") = {v \in There(f) : t <= v /\ v < t + 7 * DayLength}
  <2>1. (today + 0) * DayLength = t /\ (today + 7) * DayLength = t + 7 * DayLength
    BY <1>1, <1>2
  <2>2. \A v : within(relative(today, 0, "weeks")[1] * DayLength, relative(today, 0, "weeks")[2] * DayLength, v)
                 <=> t <= v /\ v < t + 7 * DayLength
    BY <1>3, <2>1 DEF within
  <2> QED BY <2>2, RelativeLaw
<1>6. \A i \in 0..6 : Relative(f, today, i, "days") =
                        {v \in There(f) : t + i * DayLength <= v /\ v < t + (i + 1) * DayLength}
  <2> SUFFICES ASSUME NEW i \in 0..6
               PROVE  Relative(f, today, i, "days") =
                        {v \in There(f) : t + i * DayLength <= v /\ v < t + (i + 1) * DayLength}
    OBVIOUS
  <2>1. i \in Int /\ i + 1 \in Int
    OBVIOUS
  <2>2. \A v : within(relative(today, i, "days")[1] * DayLength, relative(today, i, "days")[2] * DayLength, v)
                 <=> t + i * DayLength <= v /\ v < t + (i + 1) * DayLength
    BY <1>2, <1>4, <2>1 DEF within
  <2> QED BY <2>1, <2>2, RelativeLaw
<1>7. ASSUME NEW v \in There(f)
      PROVE  (t <= v /\ v < t + 7 * DayLength)
               <=> \E i \in 0..6 : t + i * DayLength <= v /\ v < t + (i + 1) * DayLength
  <2>1. v \in Int
    OBVIOUS
  <2>2. 0..6 = {0, 1, 2, 3, 4, 5, 6}
    OBVIOUS
  <2> QED BY <1>1, <2>1, <2>2
<1> QED BY <1>5, <1>6, <1>7

LEMMA FiltersTyped ==
  ASSUME NEW q \in Queries, NEW f \in Effective(q.filters)
  PROVE  /\ q.today \in Int /\ IsFilter(f)
         /\ Comparing(f) => There(f) \subseteq Int /\ Operands(f) \subseteq Int
         /\ f.operator = "isBetween" => DOMAIN f.value = 1..Len(f.value) /\ Len(f.value) \in {1, 2}
         /\ f.operator = "isRelativeToToday" => MonthOf(q.today) + f.value[1] \in DOMAIN MonthLength
         /\ applies(f)
<1>1. q.today \in Int /\ IsFilter(f) /\ applies(f)
  BY FiltersConstants DEF IsFilter, Effective
<1>2. Comparing(f) => There(f) \subseteq Int /\ Operands(f) \subseteq Int
  BY FiltersConstants DEF There
<1>3. f.operator = "isBetween" => DOMAIN f.value = 1..Len(f.value) /\ Len(f.value) \in {1, 2}
  BY FiltersConstants
<1>4. f.operator = "isRelativeToToday" => MonthOf(q.today) + f.value[1] \in DOMAIN MonthLength
  BY FiltersConstants
<1> QED BY <1>1, <1>2, <1>3, <1>4

LEMMA OppositeLaws ==
  ASSUME NEW q \in Queries, NEW f \in Effective(q.filters), NEW today,
         NEW op \in Operators, NEW not \in Operators, f.operator \in {op, not},
         \/ <<op, not>> \in {<<"eq", "ne">>, <<"iLike", "notILike">>, <<"inArray", "notInArray">>}
         \/ Numeric(f) /\ <<op, not>> \in {<<"lt", "gte">>, <<"lte", "gt">>}
  PROVE  /\ Selected(With(f, op, f.value), today) \cup Selected(With(f, not, f.value), today) = There(f)
         /\ Selected(With(f, op, f.value), today) \cap Selected(With(f, not, f.value), today) = {}
<1>1. IsFilter(f)
  BY FiltersTyped
<1>2. ASSUME NEW v \in There(f)
      PROVE  holds(With(f, not, f.value), v, today) <=> ~holds(With(f, op, f.value), v, today)
  <2>1. v # NULL
    BY DEF There
  <2>2. CASE <<op, not>> \in {<<"eq", "ne">>, <<"iLike", "notILike">>, <<"inArray", "notInArray">>}
    BY <1>1, <2>1, <2>2, NegationLaws
  <2>3. CASE Numeric(f) /\ <<op, not>> \in {<<"lt", "gte">>, <<"lte", "gt">>}
    <3>1. f.value \in Int /\ There(f) \subseteq Int
      BY <2>3, FiltersTyped DEF Comparing, Operands
    <3>2. v \in Int /\ f.variant # "date"
      BY <2>3, <3>1 DEF Numeric
    <3>3. /\ holds(With(f, "gt", f.value), v, today) <=> v > f.value
          /\ holds(With(f, "gte", f.value), v, today) <=> v >= f.value
          /\ holds(With(f, "lt", f.value), v, today) <=> v < f.value
          /\ holds(With(f, "lte", f.value), v, today) <=> v <= f.value
      BY <1>1, <2>1, <3>1, <3>2, ComparisonLaws
    <3> QED BY <2>3, <3>1, <3>2, <3>3
  <2> QED BY <2>2, <2>3
<1> QED BY <1>1, <1>2, Opposites

(* FilterLaws, of one filter. *)
LawsOf(f, today) ==
  LET Sel(op, x) == Selected(With(f, op, x), today)
      there      == Values(f.id) \ {NULL}
      Opposite(op, not) == f.operator \in {op, not} =>
        Sel(op, f.value) \cup Sel(not, f.value) = there
          /\ Sel(op, f.value) \cap Sel(not, f.value) = {}
  IN
  /\ Opposite("eq", "ne") /\ Opposite("iLike", "notILike") /\ Opposite("inArray", "notInArray")
  /\ Numeric(f) => Opposite("lt", "gte") /\ Opposite("lte", "gt")
  /\ f.operator = "eq" /\ f.variant = "date" =>
       Selected(f, today) = Sel("gte", f.value) \cap Sel("lte", f.value)
  /\ f.operator = "isBetween" /\ f.variant = "dateRange" /\ Len(f.value) = 2
       /\ bound(f, 2) # NULL =>
       Selected(f, today) = {v \in there : v >= f.value[1] /\ v < f.value[2] + DayLength}
  /\ f.operator = "isBetween" /\ Numeric(f) /\ (f.quoted \/ 0 \notin {f.value[1], f.value[2]})
       /\ NULL \notin {f.value[1], f.value[2]} =>
       Selected(f, today) = Sel("gte", f.value[1]) \cap Sel("lte", f.value[2])
  /\ f.operator = "isRelativeToToday" =>
       LET n == f.value[1] IN
       /\ Relative(f, today, 0, "weeks") = UNION {Relative(f, today, i, "days") : i \in 0..6}
       /\ (\A m \in DOMAIN MonthLength : DayOfMonth(today) < MonthLength[m]) =>
            relative(today, n, "months")[2] = relative(today, n + 1, "months")[1]

LEMMA LawsHold ==
  ASSUME NEW q \in Queries, NEW f \in Effective(q.filters), NEW today, today = q.today
  PROVE  LawsOf(f, today)
<1> DEFINE Complement(op, not) ==
      /\ Selected(With(f, op, f.value), today) \cup Selected(With(f, not, f.value), today) = Values(f.id) \ {NULL}
      /\ Selected(With(f, op, f.value), today) \cap Selected(With(f, not, f.value), today) = {}
<1>0. IsFilter(f) /\ today \in Int /\ applies(f) /\ There(f) = Values(f.id) \ {NULL}
  BY FiltersTyped DEF There
<1>1. /\ f.operator \in {"eq", "ne"} => Complement("eq", "ne")
      /\ f.operator \in {"iLike", "notILike"} => Complement("iLike", "notILike")
      /\ f.operator \in {"inArray", "notInArray"} => Complement("inArray", "notInArray")
  <2>1. {"eq", "ne", "iLike", "notILike", "inArray", "notInArray"} \subseteq Operators
    BY DEF Operators
  <2> QED BY <1>0, <2>1, OppositeLaws
<1>2. Numeric(f) => /\ f.operator \in {"lt", "gte"} => Complement("lt", "gte")
                    /\ f.operator \in {"lte", "gt"} => Complement("lte", "gt")
  <2>1. {"lt", "lte", "gt", "gte"} \subseteq Operators
    BY DEF Operators
  <2> QED BY <1>0, <2>1, OppositeLaws
<1>3. ASSUME f.operator = "eq", f.variant = "date"
      PROVE  Selected(f, today) = Selected(With(f, "gte", f.value), today) \cap Selected(With(f, "lte", f.value), today)
  <2>1. f.value \in Int /\ There(f) \subseteq Int
    BY <1>3, FiltersTyped DEF Comparing, Operands
  <2> QED BY <1>0, <1>3, <2>1, DayLaw
<1>4. ASSUME f.operator = "isBetween", f.variant = "dateRange", Len(f.value) = 2, bound(f, 2) # NULL
      PROVE  Selected(f, today) = {v \in Values(f.id) \ {NULL} : v >= f.value[1] /\ v < f.value[2] + DayLength}
  <2>1. f.value[1] # NULL /\ f.value[2] # NULL /\ 1 \in DOMAIN f.value /\ 2 \in DOMAIN f.value
    BY <1>0, <1>4, FiltersTyped DEF applies, Numeric, bound
  <2>2. f.value[1] \in Int /\ f.value[2] \in Int /\ There(f) \subseteq Int
    BY <1>4, <2>1, FiltersTyped DEF Comparing, Operands
  <2> QED BY <1>0, <1>4, <2>2, DaysLaw
<1>5. ASSUME f.operator = "isBetween", Numeric(f), f.quoted \/ 0 \notin {f.value[1], f.value[2]},
             NULL \notin {f.value[1], f.value[2]}
      PROVE  Selected(f, today) = Selected(With(f, "gte", f.value[1]), today)
                                    \cap Selected(With(f, "lte", f.value[2]), today)
  <2>1. Len(f.value) = 2
    BY <1>0, <1>5 DEF applies, Numeric
  <2>2. 1 \in DOMAIN f.value /\ 2 \in DOMAIN f.value
    BY <1>5, <2>1, FiltersTyped
  <2>3. f.value[1] \in Int /\ f.value[2] \in Int /\ There(f) \subseteq Int
    BY <1>5, <2>2, FiltersTyped DEF Comparing, Operands
  <2> QED BY <1>0, <1>5, <2>3, RangeLaw
<1>6. ASSUME f.operator = "isRelativeToToday"
      PROVE  /\ Relative(f, today, 0, "weeks") = UNION {Relative(f, today, i, "days") : i \in 0..6}
             /\ (\A m \in DOMAIN MonthLength : DayOfMonth(today) < MonthLength[m]) =>
                  relative(today, f.value[1], "months")[2] = relative(today, f.value[1] + 1, "months")[1]
  <2>1. There(f) \subseteq Int /\ f.value[1] \in Int
    BY <1>6, FiltersTyped DEF Comparing, Operands
  <2>2. MonthOf(q.today) + f.value[1] \in DOMAIN MonthLength
    BY <1>6, FiltersTyped
  <2> QED BY <1>0, <2>1, <2>2, WeekLaw, MonthsFollow
<1> QED BY <1>1, <1>2, <1>3, <1>4, <1>5, <1>6 DEF LawsOf

-----------------------------------------------------------------------------
(* The theorems. *)

LEMMA InitHolds == Init => IInv
<1> SUFFICES ASSUME Init PROVE IInv
  OBVIOUS
<1>1. Places
  BY DEF Init, NoRequests, Places, Part
<1>2. ASSUME part \in {"verification", "reset"} PROVE AccountInv
  <2>1. PICK rows \in AccountRows[part] : AccountInit(rows)
    BY <1>2 DEF Init
  <2>2. AccountTypes
    BY <1>2, <2>1, ServicesConstants DEF AccountInit, AccountTypes
  <2>3. \A s \in Session : AccountCallOK(s)
    BY DEF Init, NoRequests, AccountCallOK
  <2>4. /\ account = rows /\ spent = {} /\ \A u \in User : otp[u] = NULL
        /\ \A u \in User : rows[u] # NULL /\ rows[u].code # NULL => <<u, rows[u].code, "verify">> \in drawn
        /\ \A u \in User : rows[u] # NULL /\ rows[u].code # NULL => <<u, rows[u].code>> \in mailed \cup unsent
        /\ unsent \cap mailed = {}
    <3> DEFINE coded == {<<u, rows[u].code>> : u \in {v \in User : rows[v] # NULL /\ rows[v].code # NULL}}
    <3>1. /\ account = rows /\ spent = {} /\ otp = [u \in User |-> NULL]
          /\ drawn = {<<p[1], p[2], "verify">> : p \in coded}
          /\ unsent \in SUBSET coded /\ mailed = coded \ unsent
      BY <2>1 DEF AccountInit
    <3>2. ASSUME NEW u \in User, rows[u] # NULL, rows[u].code # NULL
          PROVE  <<u, rows[u].code, "verify">> \in drawn /\ <<u, rows[u].code>> \in mailed \cup unsent
      <4>1. <<u, rows[u].code>> \in coded
        BY <3>2
      <4>2. PICK p \in coded : p = <<u, rows[u].code>>
        BY <4>1
      <4>3. p[1] = u /\ p[2] = rows[u].code
        BY <4>2
      <4> HIDE DEF coded
      <4> QED BY <3>1, <4>1, <4>2, <4>3
    <3> HIDE DEF coded
    <3> QED BY <3>1, <3>2
  <2>5. StoredDrawn /\ SpentGone
    BY <2>4 DEF StoredDrawn, SpentGone
  <2>6. StoredDelivered
    BY <2>4 DEF StoredDelivered, Delivered
  <2> QED BY <2>2, <2>3, <2>5, <2>6 DEF AccountInv
<1>7. ASSUME part \in {"verification", "reset"} PROVE ResendsInv
  <2>1. /\ \A e \in Email : resends[e] = [n |-> 0, ttl |-> FALSE] /\ resent[e] = 0
        /\ resends \in [Email -> [n : Nat, ttl : BOOLEAN]] /\ resent \in [Email -> Nat]
        /\ \A s \in Session : pc[s] = "idle"
    BY <1>7 DEF Init, AccountInit, NoCounter, NoRequests
  <2>2. ResendTypes
    BY <2>1 DEF ResendTypes
  <2> QED BY <2>1, <2>2, ResendingFinite, ServicesConstants DEF ResendsInv, ResendsOf
<1>3. ASSUME part \notin {"verification", "reset"} PROVE AccountInit([u \in User |-> NULL])
  BY <1>3 DEF Init
<1>4. AddressInv
  BY DEF Init, NoRequests, AddressesInit, AddressInv, AddressTypes, AddressCallOK, AddressLabels,
         OneDefault, DefaultSurvives, Defaults, Rows
<1>5. PromptsInv
  BY ServicesConstants
     DEF Init, NoRequests, VibeInit, PromptsInv, PromptTypes, VibeRow, JudgedAlone, JudgedCurrent, Judged,
         JudgeLabels, FailuresCounted
<1>6. PagesInv
  BY DEF Init, NoRequests, VibeInit, PagesInv, PageTypes, PageCallOK, TrailOK
<1>8. ListInv /\ ListInit
  BY DEF Init, NoRequests, ListInit, ListInv, ListCallOK, ListLabels
<1> QED BY <1>1, <1>2, <1>3, <1>4, <1>5, <1>6, <1>7, <1>8 DEF IInv, Init

LEMMA NextHolds == IInv /\ [Next]_vars => IInv'
<1> SUFFICES ASSUME IInv, [Next]_vars PROVE IInv'
  OBVIOUS
<1>1. Places /\ Places' /\ UNCHANGED part
  BY NextPlaces DEF IInv, Next, vars
<1>2. CASE Next
  <2>1. CASE part \in {"verification", "reset"}
    <3>1. (VerificationNext \/ ResetNext) /\ UNCHANGED otherThanAccounts
      BY <1>2, <2>1 DEF Next
    <3>2. AccountInv' /\ ResendsInv'
      BY <1>1, <2>1, <3>1, AccountNext, ResendsNext DEF IInv
    <3>3. AddressesInit' /\ VibeInit' /\ ListInit'
      BY <2>1, <3>1 DEF IInv, otherThanAccounts, AddressesInit, VibeInit, ListInit, address_vars, vibe_vars
    <3> QED BY <1>1, <2>1, <3>2, <3>3 DEF IInv
  <2>2. CASE part = "addresses"
    <3>1. AddressesNext /\ UNCHANGED otherThanAddresses
      BY <1>2, <2>2 DEF Next
    <3>2. AddressInv'
      BY <1>1, <2>2, <3>1, AddressNext DEF IInv
    <3>3. AccountInit([u \in User |-> NULL])' /\ VibeInit' /\ ListInit'
      BY <2>2, <3>1 DEF IInv, otherThanAddresses, AccountInit, VibeInit, ListInit, account_vars, codes, vibe_vars
    <3> QED BY <1>1, <2>2, <3>2, <3>3 DEF IInv
  <2>3. CASE part \in {"prompts", "pages"}
    <3>1. (PromptsNext \/ PagesNext) /\ UNCHANGED otherThanVibe
      BY <1>2, <2>3 DEF Next
    <3>2. PromptsInv' /\ PagesInv'
      BY <1>1, <2>3, <3>1, VibeNext DEF IInv
    <3>3. AccountInit([u \in User |-> NULL])' /\ AddressesInit' /\ ListInit'
      BY <2>3, <3>1 DEF IInv, otherThanVibe, AccountInit, AddressesInit, ListInit, account_vars, codes, address_vars
    <3> QED BY <1>1, <2>3, <3>2, <3>3 DEF IInv
  <2>4. CASE part \in {"lists", "pool"}
    <3>1. UNCHANGED <<account_vars, address_vars, vibe_vars>>
      BY <1>2, <2>4 DEF Next, otherThanLists, otherThanPool
    <3>2. AccountInit([u \in User |-> NULL])' /\ AddressesInit' /\ VibeInit'
      BY <2>4, <3>1 DEF IInv, AccountInit, AddressesInit, VibeInit, account_vars, codes, address_vars, vibe_vars
    <3>3. CASE part = "lists"
      <4>1. ListNext(Queries)
        BY <1>2, <3>3 DEF Next
      <4>2. ListInv'
        BY <1>1, <3>3, <4>1, ListsNext DEF IInv
      <4> QED BY <1>1, <3>2, <3>3, <4>2 DEF IInv
    <3>4. CASE part = "pool"
      <4>1. ListInit'
        BY <1>2, <3>4 DEF IInv, Next, otherThanPool, ListInit
      <4> QED BY <1>1, <3>2, <3>4, <4>1 DEF IInv
    <3> QED BY <2>4, <3>3, <3>4
  <2> QED BY <1>1, <2>1, <2>2, <2>3, <2>4 DEF Places, Part
<1>3. CASE UNCHANGED vars
  <2>1. UNCHANGED <<requests, account, otp, drawn, mailed, unsent, spent, address_vars, vibe_vars, prompts, pages>>
    BY <1>3 DEF vars, account_vars, codes, vibe_vars, prompts, pages
  <2>2. AccountInv => AccountInv'
    BY <2>1, AccountRest DEF AccountInv, AccountTypes
  <2>11. ResendsInv => ResendsInv'
    BY <1>3, ResendsRest DEF vars, account_vars, codes
  <2>3. AddressInv => AddressInv'
    BY <2>1 DEF AddressInv, AddressTypes, AddressCallOK, OneDefault, DefaultSurvives, Defaults, Rows,
                Choosing, address_vars, requests
  <2>4. PromptsInv => PromptsInv'
    BY <2>1 DEF PromptsInv, PromptTypes, JudgedAlone, JudgedCurrent, Judged, FailuresCounted,
                prompts, requests
  <2>5. PagesInv => PagesInv'
    BY <2>1, PagesRest
  <2>6. /\ AccountInit([u \in User |-> NULL]) => AccountInit([u \in User |-> NULL])'
        /\ AddressesInit => AddressesInit'
        /\ VibeInit => VibeInit'
        /\ ListInit => ListInit'
    BY <1>3 DEF vars, AccountInit, AddressesInit, VibeInit, ListInit, account_vars, codes, address_vars, vibe_vars
  <2>7. IF part \in {"verification", "reset"} THEN AccountInv' /\ ResendsInv'
        ELSE AccountInit([u \in User |-> NULL])'
    BY <2>2, <2>6, <2>11 DEF IInv
  <2>8. IF part = "addresses" THEN AddressInv' ELSE AddressesInit'
    BY <2>3, <2>6 DEF IInv
  <2>12. ListInv => ListInv'
    BY <1>3, ListRest DEF vars
  <2>13. IF part = "lists" THEN ListInv' ELSE ListInit'
    BY <2>6, <2>12 DEF IInv
  <2>9. CASE part \in {"prompts", "pages"}
    BY <1>1, <2>4, <2>5, <2>7, <2>8, <2>9, <2>13 DEF IInv
  <2>10. CASE part \notin {"prompts", "pages"}
    BY <1>1, <2>6, <2>7, <2>8, <2>10, <2>13 DEF IInv
  <2> QED BY <2>9, <2>10
<1> QED BY <1>2, <1>3

(* Whatever part a behaviour is of, its inductive invariant holds.         *)
THEOREM Invariance == Spec => []IInv
BY InitHolds, NextHolds, PTL DEF Spec

LEMMA CodesOK == IInv => CodesAuthorize /\ CodesDelivered
<1> SUFFICES ASSUME IInv PROVE CodesAuthorize /\ CodesDelivered
  OBVIOUS
<1>1. CASE part \in {"verification", "reset"}
  <2>1. AccountInv
    BY <1>1 DEF IInv
  <2>2. CodesAuthorize
    BY <2>1 DEF AccountInv, CodesAuthorize, AccountCallOK, SpentGone, matches
  <2>3. CodesDelivered
    <3> SUFFICES ASSUME NEW u \in Live, NEW c \in {account[u].code, otp[u]} \ {NULL}
                 PROVE  Delivered(u, c)
      BY <2>1 DEF CodesDelivered, Delivered, AccountInv, StoredDelivered
    <3> QED BY <2>1 DEF AccountInv, StoredDelivered, Live
  <2> QED BY <2>2, <2>3
<1>2. CASE part \notin {"verification", "reset"}
  <2>1. \A s \in Session : pc[s] \notin AccountLabels
    BY <1>2 DEF IInv, Places, Part, LabelsOf, AccountLabels, AddressLabels, VibeLabels, JudgeLabels,
                ListLabels, PoolLabels
  <2>2. AccountInit([u \in User |-> NULL])
    BY <1>2 DEF IInv
  <2> QED BY <2>1, <2>2 DEF CodesAuthorize, CodesDelivered, AccountLabels, AccountInit, Live
<1> QED BY <1>1, <1>2

(* verifyEmail, acceptInvitation, resetPassword: a code opens the account  *)
(* it was drawn for, and one that reset a password is used up.             *)
THEOREM CodesAlwaysAuthorize == Spec => []CodesAuthorize
BY Invariance, CodesOK, PTL

(* updateVerificationToken, inviteUser, forgotPassword: a code that is     *)
(* stored was handed to the mail server, or is about to be, or its request *)
(* was cut short, or was a signup without mail, and no other mailed it.    *)
THEOREM CodesAlwaysDelivered == Spec => []CodesDelivered
BY Invariance, CodesOK, PTL

LEMMA ResendsOK == IInv => ResendsBounded
<1> SUFFICES ASSUME IInv, NEW e \in Email
             PROVE  /\ resent[e] + Cardinality({s \in Session : At(s, "resend.incr") /\ call[s].email = e
                                                                 /\ call[s].user # NULL})
                         < MaxAttempts + Cardinality(Session)
                    /\ resends[e].n > 0 => resends[e].ttl \/ e \in lost \/ Expiring(e)
  BY DEF ResendsBounded, Expiring
<1> DEFINE sent == {s \in Session : At(s, "resend.incr") /\ call[s].email = e /\ call[s].user # NULL}
<1>1. sent \subseteq Resending(e)
  BY DEF Resending, At
<1>2. /\ Cardinality(sent) <= Cardinality(Resending(e)) /\ Cardinality(sent) \in Nat
      /\ Cardinality(Resending(e)) \in Nat /\ Cardinality(Resending(e)) <= Cardinality(Session)
      /\ Cardinality(Session) \in Nat /\ MaxAttempts \in Nat \ {0}
  BY <1>1, ResendingFinite, FS_Subset, FS_CardinalityType, ServicesConstants
<1> HIDE DEF sent
<1>3. CASE part \in {"verification", "reset"}
  <2>1. ResendsOf(e) /\ resent[e] \in Nat
    BY <1>3 DEF IInv, ResendsInv, ResendTypes
  <2> QED BY <1>2, <2>1 DEF ResendsOf, sent
<1>4. CASE part \notin {"verification", "reset"}
  <2>1. resent[e] = 0 /\ resends[e].n = 0
    BY <1>4 DEF IInv, AccountInit, NoCounter
  <2> QED BY <1>2, <2>1 DEF sent
<1> QED BY <1>3, <1>4

(* resendVerificationEmail, incrementResendAttempts: mails resent to an    *)
(* address in a window are as many as the limit allows, and one for each   *)
(* other request under way; and a counter has an expiry, or is about to    *)
(* get it, or that failed.                                                 *)
THEOREM ResendsAlwaysBounded == Spec => []ResendsBounded
BY Invariance, ResendsOK, PTL

LEMMA DefaultOK == IInv => DefaultKept
<1> SUFFICES ASSUME IInv, NEW u \in Owner
             PROVE  Cardinality(Defaults(u)) <= 1 /\ (u \in kept /\ ~Choosing(u) => Defaults(u) # {})
  BY DEF DefaultKept
<1>1. OneDefault /\ DefaultSurvives
  BY DEF IInv, AddressInv, AddressesInit, OneDefault, DefaultSurvives, Defaults, Rows
<1>2. Cardinality(Defaults(u)) <= 1
  <2>1. CASE Defaults(u) = {}
    BY <2>1, FS_EmptySet
  <2>2. CASE Defaults(u) # {}
    <3>1. PICK a \in Defaults(u) : Defaults(u) = {a}
      BY <1>1, <2>2 DEF OneDefault
    <3>2. Cardinality({a}) = 1
      BY FS_Singleton
    <3> QED BY <3>1, <3>2
  <2> QED BY <2>1, <2>2
<1> QED BY <1>1, <1>2 DEF DefaultSurvives

(* UserAddressesService, user_default_address_unique: one default address  *)
(* at most, and one while none of the named events takes it.               *)
THEOREM DefaultAlwaysKept == Spec => []DefaultKept
BY Invariance, DefaultOK, PTL

LEMMA VibeOK == IInv => FailuresCounted /\ PageTrail
<1> SUFFICES ASSUME IInv PROVE FailuresCounted /\ PageTrail
  OBVIOUS
<1>1. FailuresCounted
  BY ServicesConstants DEF IInv, PromptsInv, VibeInit, FailuresCounted
<1>2. PageTrail
  BY DEF IInv, PagesInv, PageTypes, TrailOK, Told, VibeInit, PageTrail
<1> QED BY <1>1, <1>2

(* handleFailure, resetFailCount: refusals since the last success are      *)
(* counted and block for good at HardLock, unless prompts overlapped.      *)
THEOREM FailuresAlwaysCounted == Spec => []FailuresCounted
BY Invariance, VibeOK, PTL

(* savePage, updatePage, deletePage: pages and their audit rows agree, but *)
(* for rows about to be written or that failed.                            *)
THEOREM TrailAlwaysKept == Spec => []PageTrail
BY Invariance, VibeOK, PTL

LEMMA ListsOK == IInv => ListsFaithful
<1> SUFFICES ASSUME IInv, NEW s \in Session, At(s, "list.done")
             PROVE  LET c == call[s]  q == c.query
                        expected == {r \in c.seen : Content[r].org = "own"
                                       /\ filterColumns(q.filters, q.join, Content[r], q.today)}
                        n == Cardinality(expected)
                    IN  /\ \A i \in DOMAIN c.data :
                             /\ c.data[i] \in expected
                             /\ Cardinality({r \in expected : precedes(r, c.data[i], q)}) < offset(q) + i
                             /\ \A j \in 1..i-1 : c.data[j] # c.data[i] /\ ~precedes(c.data[i], c.data[j], q)
                        /\ Len(c.data) = Max2(0, Min2(limitOf(q), n - offset(q)))
                        /\ ~c.changed => c.total = n
  BY DEF ListsFaithful
<1>1. part = "lists"
  BY DEF At, IInv, Places, Part, LabelsOf, AccountLabels, AddressLabels, VibeLabels, JudgeLabels, PoolLabels
<1>2. /\ PageOf(call[s].data, call[s].seen, call[s].query)
      /\ call[s].changed \/ call[s].total = Cardinality(matching(call[s].seen, call[s].query))
  BY <1>1 DEF IInv, ListInv, ListCallOK, At
<1>3. matching(call[s].seen, call[s].query) =
        {r \in call[s].seen : Content[r].org = "own"
           /\ filterColumns(call[s].query.filters, call[s].query.join, Content[r], call[s].query.today)}
  BY DEF matching, combinedWhere, policyWhere
<1> QED BY <1>2, <1>3 DEF PageOf

(* FilterableQueryBuilder: a page holds the rows that policy and filters   *)
(* select, in order, none twice, none skipped, whatever order the database *)
(* gives ties; and the total is theirs unless rows came or went meanwhile. *)
THEOREM ListsAlwaysFaithful == Spec => []ListsFaithful
BY Invariance, ListsOK, PTL

LEMMA FiltersOK == IInv => FilterLaws
<1> SUFFICES ASSUME IInv, NEW s \in Session, At(s, "list.data") PROVE call[s].query \in Queries
  <2>1. FilterLaws <=> \A s \in Session : At(s, "list.data") =>
                         \A f \in Effective(call[s].query.filters) : LawsOf(f, call[s].query.today)
    BY DEF FilterLaws, LawsOf
  <2> QED BY <2>1, LawsHold
<1>1. part = "lists"
  BY DEF At, IInv, Places, Part, LabelsOf, AccountLabels, AddressLabels, VibeLabels, JudgeLabels, PoolLabels
<1> QED BY <1>1 DEF IInv, ListInv, ListCallOK, ListLabels, At

(* FilterService.filterColumns: the operators of a filter mean what they   *)
(* say of each other, on every column, in every calendar.                  *)
THEOREM FiltersAlwaysLawful == Spec => []FilterLaws
BY Invariance, FiltersOK, PTL

-----------------------------------------------------------------------------
(* The pool of connections. *)

(* What is lent when each request holds f of it. *)
Lent(f) == {p \in Session \X (1..2) : p[2] <= f[p[1]]}

LEMMA LentFinite ==
  ASSUME NEW f PROVE IsFiniteSet(Lent(f)) /\ Cardinality(Lent(f)) \in Nat
<1>1. IsFiniteSet(Session \X (1..2))
  <2>1. IsFiniteSet(1..2) /\ IsFiniteSet(Session)
    BY FS_Interval, 1 \in Int, 2 \in Int, ServicesConstants
  <2> QED BY <2>1, FS_Product
<1>2. Lent(f) \subseteq Session \X (1..2)
  BY DEF Lent
<1> QED BY <1>1, <1>2, FS_Subset, FS_CardinalityType

(* One more is lent than before, or no more. *)
LEMMA LentMore ==
  ASSUME NEW f \in [Session -> 0..2], NEW s \in Session, f[s] < 2
  PROVE  Cardinality(Lent([f EXCEPT ![s] = @ + 1])) = Cardinality(Lent(f)) + 1
<1> DEFINE g == [f EXCEPT ![s] = @ + 1]  x == <<s, f[s] + 1>>
<1>1. x \notin Lent(f)
  BY DEF Lent
<1>2. Lent(g) = Lent(f) \cup {x}
  <2>1. ASSUME NEW t \in Session, NEW n \in 1..2
        PROVE  n <= g[t] <=> (n <= f[t] \/ (t = s /\ n = f[s] + 1))
    BY f[t] \in 0..2
  <2>2. x \in Session \X (1..2)
    BY f[s] \in 0..1
  <2>3. ASSUME NEW p \in Session \X (1..2) PROVE p \in Lent(g) <=> p \in Lent(f) \cup {x}
    <3>1. p = <<p[1], p[2]>> /\ p[1] \in Session /\ p[2] \in 1..2
      OBVIOUS
    <3>2. p[2] <= g[p[1]] <=> (p[2] <= f[p[1]] \/ (p[1] = s /\ p[2] = f[s] + 1))
      BY <3>1, <2>1
    <3>3. p = x <=> p[1] = s /\ p[2] = f[s] + 1
      BY <3>1
    <3> HIDE DEF g, x
    <3> QED BY <3>2, <3>3 DEF Lent
  <2> HIDE DEF g, x
  <2> QED BY <2>2, <2>3 DEF Lent
<1> HIDE DEF g, x
<1> QED BY <1>1, <1>2, LentFinite, FS_AddElement DEF g

LEMMA LentNoMore ==
  ASSUME NEW f \in [Session -> 0..2], NEW g \in [Session -> 0..2],
         \A s \in Session : g[s] <= f[s]
  PROVE  Cardinality(Lent(g)) <= Cardinality(Lent(f))
<1>1. Lent(g) \subseteq Lent(f)
  <2>1. ASSUME NEW p \in Session \X (1..2), p[2] <= g[p[1]] PROVE p[2] <= f[p[1]]
    <3>1. p[1] \in Session /\ p[2] \in 1..2
      OBVIOUS
    <3>2. g[p[1]] <= f[p[1]] /\ g[p[1]] \in 0..2 /\ f[p[1]] \in 0..2
      BY <3>1
    <3> QED BY <2>1, <3>1, <3>2
  <2> QED BY <2>1 DEF Lent
<1> QED BY <1>1, LentFinite, FS_Subset

LEMMA HoldsOf ==
  /\ Holds("pool.read") = 2 /\ Holds("pool.run") = 1 /\ Holds("pool.wait.second") = 1
  /\ Holds("pool.wait") = 0 /\ Holds("idle") = 0
  /\ \A l \in AccountLabels \cup AddressLabels \cup VibeLabels \cup ListLabels : Holds(l) = 0
BY DEF Holds, AccountLabels, AddressLabels, VibeLabels, JudgeLabels, ListLabels

LEMMA HoldsTyped == \A l : Holds(l) \in 0..2
BY DEF Holds

(* A request moves on with what its new statement needs. *)
LEMMA ConnectionMoves ==
  ASSUME ConnectionsHeld, Shape, NEW s \in Session, NEW l, Shape', pc'[s] = l, Others(s),
         boot = "listening", UNCHANGED boot,
         connected' = [connected EXCEPT ![s] = Holds(l)],
         Holds(l) <= Holds(pc[s]) \/ (Holds(l) = Holds(pc[s]) + 1 /\ Free > 0)
  PROVE  ConnectionsHeld'
<1>1. connected \in [Session -> 0..2] /\ connected[s] = Holds(pc[s])
  BY HoldsTyped DEF ConnectionsHeld
<1>2. connected' \in [Session -> 0..2]
  BY <1>1, HoldsTyped
<1>3. connected' = [t \in Session |-> Holds(pc'[t])]
  BY DEF ConnectionsHeld, Others
<1>4. InUse = Cardinality(Lent(connected)) /\ InUse' = Cardinality(Lent(connected'))
  BY DEF InUse, Lent
<1>5. InUse \in Nat /\ InUse' \in Nat
  BY <1>4, LentFinite
<1>6. InUse' <= PoolSize
  <2>1. CASE Holds(l) <= Holds(pc[s])
    <3>1. \A t \in Session : connected'[t] <= connected[t]
      BY <1>1, <2>1
    <3>2. InUse' <= InUse
      BY <1>1, <1>2, <1>4, <3>1, LentNoMore
    <3> QED BY <1>5, <3>2, ServicesConstants DEF ConnectionsHeld
  <2>2. CASE Holds(l) = Holds(pc[s]) + 1 /\ Free > 0
    <3>1. connected' = [connected EXCEPT ![s] = @ + 1]
      BY <1>1, <2>2
    <3>2. connected[s] < 2
      BY <1>1, <2>2, HoldsTyped, Holds(l) \in 0..2, Holds(pc[s]) \in 0..2
    <3>3. InUse' = InUse + 1
      BY <1>1, <1>4, <3>1, <3>2, LentMore
    <3> QED BY <1>5, <2>2, <3>3, ServicesConstants DEF Free, ConnectionsHeld
  <2> QED BY <2>1, <2>2
<1> QED BY <1>3, <1>5, <1>6, ServicesConstants DEF ConnectionsHeld

(* connect, findOneOutside, readOutside, finish, and the failures. *)
LEMMA ConnectionStep ==
  ASSUME ConnectionsHeld, Places, part = "pool", NEW s \in Session, PoolStep(s)
  PROVE  ConnectionsHeld'
<1>1. Shape /\ connected = [t \in Session |-> Holds(pc[t])] /\ connected[s] = Holds(pc[s])
  BY PlacesShaped DEF ConnectionsHeld
<1>2. ASSUME pc[s] # "idle" PROVE boot = "listening"
  BY <1>2 DEF ConnectionsHeld
<1>3. CASE connect(s)
  <2>1. PICK l \in {"pool.wait.second", "pool.run"} : Goto(s, l, call[s])
    BY <1>3 DEF connect
  <2>2. Holds(pc[s]) = 0 /\ Holds(l) = 1 /\ pc[s] # "idle" /\ Free > 0
    BY <1>3, <2>1, HoldsOf DEF connect, At
  <2>3. Shape' /\ pc'[s] = l /\ Others(s)
    BY <1>1, <2>1, GotoEffect
  <2>4. connected' = [connected EXCEPT ![s] = Holds(l)] /\ UNCHANGED boot
    BY <1>1, <1>3, <2>2 DEF connect, Take
  <2> QED BY <1>1, <1>2, <2>2, <2>3, <2>4, ConnectionMoves
<1>4. CASE findOneOutside(s)
  <2>1. Holds(pc[s]) = 1 /\ Holds("pool.read") = 2 /\ pc[s] # "idle" /\ Free > 0
    BY <1>4, HoldsOf DEF findOneOutside, At
  <2>2. Shape' /\ pc'[s] = "pool.read" /\ Others(s)
    BY <1>1, <1>4, GotoEffect DEF findOneOutside
  <2>3. connected' = [connected EXCEPT ![s] = Holds("pool.read")] /\ UNCHANGED boot
    <3>1. connected' = [connected EXCEPT ![s] = connected[s] + 1] /\ UNCHANGED boot
      BY <1>4 DEF findOneOutside, Take
    <3>2. connected[s] + 1 = Holds("pool.read")
      BY <1>1, <2>1
    <3> QED BY <3>1, <3>2
  <2> QED BY <1>1, <1>2, <2>1, <2>2, <2>3, ConnectionMoves
<1>5. CASE readOutside(s)
  <2>1. Holds(pc[s]) = 2 /\ Holds("pool.run") = 1 /\ pc[s] # "idle"
    BY <1>5, HoldsOf DEF readOutside, At
  <2>2. Shape' /\ pc'[s] = "pool.run" /\ Others(s)
    BY <1>1, <1>5, GotoEffect DEF readOutside
  <2>3. connected' = [connected EXCEPT ![s] = Holds("pool.run")] /\ UNCHANGED boot
    <3>1. connected' = [connected EXCEPT ![s] = connected[s] - 1] /\ UNCHANGED boot
      BY <1>5 DEF readOutside, Release
    <3>2. connected[s] - 1 = Holds("pool.run")
      BY <1>1, <2>1
    <3> QED BY <3>1, <3>2
  <2> QED BY <1>1, <1>2, <2>1, <2>2, <2>3, ConnectionMoves
<1>6. CASE finish(s)
  <2>1. Holds(pc[s]) = 1 /\ Holds("idle") = 0 /\ pc[s] # "idle"
    BY <1>6, HoldsOf DEF finish, At
  <2>2. Shape' /\ pc'[s] = "idle" /\ Others(s)
    BY <1>1, <1>6, ReturnEffect DEF finish
  <2>3. connected' = [connected EXCEPT ![s] = Holds("idle")] /\ UNCHANGED boot
    <3>1. connected' = [connected EXCEPT ![s] = connected[s] - 1] /\ UNCHANGED boot
      BY <1>6 DEF finish, Release
    <3>2. connected[s] - 1 = Holds("idle")
      BY <1>1, <2>1
    <3> QED BY <3>1, <3>2
  <2> QED BY <1>1, <1>2, <2>1, <2>2, <2>3, ConnectionMoves
<1>7. CASE connectionTimeout(s) \/ queryFails(s)
  <2>1. /\ Holds("idle") = 0 /\ Holds(pc[s]) \in 0..2 /\ pc[s] # "idle"
    BY <1>7, HoldsOf, HoldsTyped DEF connectionTimeout, queryFails
  <2>2. Shape' /\ pc'[s] = "idle" /\ Others(s)
    BY <1>1, <1>7, ReturnEffect DEF connectionTimeout, queryFails
  <2>3. connected' = [connected EXCEPT ![s] = Holds("idle")] /\ UNCHANGED boot
    BY <1>7, <2>1 DEF connectionTimeout, queryFails
  <2> QED BY <1>1, <1>2, <2>1, <2>2, <2>3, ConnectionMoves
<1> QED BY <1>3, <1>4, <1>5, <1>6, <1>7 DEF PoolStep

LEMMA ConnectionStart ==
  ASSUME ConnectionsHeld, Places, part = "pool",
         \/ \E s \in Session, nested \in BOOLEAN : query(s, nested)
         \/ initialized \/ initializationFails \/ redisRefused
  PROVE  ConnectionsHeld'
<1>1. Shape /\ connected = [t \in Session |-> Holds(pc[t])]
  BY PlacesShaped DEF ConnectionsHeld
<1>2. ASSUME NEW s \in Session, NEW nested \in BOOLEAN, query(s, nested) PROVE ConnectionsHeld'
  <2>1. Holds(pc[s]) = 0 /\ Holds("pool.wait") = 0 /\ boot = "listening" /\ UNCHANGED <<connected, boot>>
    BY <1>2, HoldsOf DEF query, At, pool_vars
  <2>2. Shape' /\ pc'[s] = "pool.wait" /\ Others(s)
    BY <1>1, <1>2, GotoEffect DEF query
  <2>3. connected' = [connected EXCEPT ![s] = Holds("pool.wait")]
    BY <1>1, <2>1
  <2> QED BY <1>1, <2>1, <2>2, <2>3, ConnectionMoves
<1>3. CASE initialized \/ initializationFails
  <2>1. boot # "listening" /\ UNCHANGED <<connected, pc>>
    BY <1>3 DEF initialized, initializationFails, requests
  <2>2. \A s \in Session : pc'[s] = "idle"
    BY <2>1 DEF ConnectionsHeld
  <2> QED BY <2>1, <2>2 DEF ConnectionsHeld, InUse
<1>4. CASE redisRefused
  <2>1. connected' = [s \in Session |-> 0] /\ pc' = [s \in Session |-> "idle"]
    BY <1>4 DEF redisRefused
  <2>2. /\ connected \in [Session -> 0..2] /\ connected' \in [Session -> 0..2]
        /\ \A s \in Session : connected'[s] <= connected[s]
    BY <1>1, <2>1, HoldsTyped, \A s \in Session : connected[s] \in 0..2
  <2>3. InUse = Cardinality(Lent(connected)) /\ InUse' = Cardinality(Lent(connected'))
    BY DEF InUse, Lent
  <2>4. InUse' <= InUse /\ InUse' \in Nat /\ InUse \in Nat
    BY <2>2, <2>3, LentNoMore, LentFinite
  <2> QED BY <2>1, <2>4, HoldsOf, ServicesConstants DEF ConnectionsHeld
<1> QED BY <1>2, <1>3, <1>4

LEMMA ConnectionNext ==
  ASSUME ConnectionsHeld, Places, Places', [Next]_vars
  PROVE  ConnectionsHeld'
<1>1. CASE UNCHANGED vars
  BY <1>1 DEF ConnectionsHeld, InUse, vars, requests, pool_vars
<1>2. CASE Next /\ part = "pool"
  BY <1>2, ConnectionStep, ConnectionStart DEF Next, PoolNext
<1>3. CASE Next /\ part # "pool"
  <2>1. UNCHANGED <<connected, part>>
    BY <1>3 DEF Next, otherThanAccounts, otherThanAddresses, otherThanVibe, otherThanLists, pool_vars
  <2>2. \A s \in Session : Holds(pc[s]) = 0 /\ Holds(pc'[s]) = 0
    <3>1. LabelsOf(part) \subseteq AccountLabels \cup AddressLabels \cup VibeLabels \cup ListLabels
      BY <1>3 DEF LabelsOf, Places, Part
    <3> QED BY <2>1, <3>1, HoldsOf DEF Places
  <2> QED BY <1>3, <2>1, <2>2 DEF ConnectionsHeld, InUse
<1> QED BY <1>1, <1>2, <1>3

LEMMA ConnectionInit == Init => ConnectionsHeld
<1> SUFFICES ASSUME Init PROVE ConnectionsHeld
  OBVIOUS
<1>1. /\ pc = [s \in Session |-> "idle"] /\ connected = [s \in Session |-> 0]
  BY DEF Init, NoRequests, PoolInit
<1>2. Lent(connected) = {}
  BY <1>1 DEF Lent
<1>3. InUse = 0
  BY <1>2, FS_EmptySet DEF InUse, Lent
<1> QED BY <1>1, <1>3, HoldsOf, ServicesConstants DEF ConnectionsHeld

(* DrizzleService: no connection is lent twice, kept by a request that     *)
(* ended, or taken before the process listens; a request that waits for    *)
(* one therefore either gets it or times out.                              *)
THEOREM ConnectionsAlwaysHeld == Spec => []ConnectionsHeld
<1>1. IInv /\ IInv' /\ ConnectionsHeld /\ [Next]_vars => ConnectionsHeld'
  BY ConnectionNext DEF IInv
<1> QED BY <1>1, ConnectionInit, Invariance, PTL DEF Spec

-----------------------------------------------------------------------------
(* The tries of the language model. *)

(* Tries change in the prompts and pages parts only. *)
LEMMA TriesElsewhere ==
  ASSUME TriesCounted, NEW s \in Session, Others(s), pc'[s] \notin {"intent.try", "layout.try"}
  PROVE  TriesCounted'
<1> SUFFICES ASSUME NEW t \in Session, pc'[t] \in {"intent.try", "layout.try"}
             PROVE  /\ call'[t] = [user |-> call'[t].user, row |-> call'[t].row, tries |-> call'[t].tries]
                    /\ call'[t].tries \in 1..(IF pc'[t] = "intent.try" THEN 2 ELSE 3)
  BY DEF TriesCounted, At
<1>1. pc'[t] = pc[t] /\ call'[t] = call[t]
  BY DEF Others
<1> QED BY <1>1 DEF TriesCounted, At

LEMMA TriesAt ==
  ASSUME TriesCounted, NEW s \in Session, Others(s), NEW n,
         call'[s] = [user |-> call'[s].user, row |-> call'[s].row, tries |-> n],
         \/ pc'[s] = "intent.try" /\ n \in 1..2
         \/ pc'[s] = "layout.try" /\ n \in 1..3
  PROVE  TriesCounted'
<1> SUFFICES ASSUME NEW t \in Session, pc'[t] \in {"intent.try", "layout.try"}
             PROVE  /\ call'[t] = [user |-> call'[t].user, row |-> call'[t].row, tries |-> call'[t].tries]
                    /\ call'[t].tries \in 1..(IF pc'[t] = "intent.try" THEN 2 ELSE 3)
  BY DEF TriesCounted, At
<1>1. CASE t = s
  BY <1>1
<1>2. CASE t # s
  <2>1. pc'[t] = pc[t] /\ call'[t] = call[t]
    BY <1>2 DEF Others
  <2> QED BY <2>1 DEF TriesCounted, At
<1> QED BY <1>1, <1>2

LEMMA TriesStep ==
  ASSUME IInv, TriesCounted, part \in {"prompts", "pages"}, NEW s \in Session, VibeStep(s)
  PROVE  TriesCounted'
<1>1. Shape /\ PromptTypes
  BY PlacesShaped DEF IInv, PromptsInv
<1>2. ASSUME NEW outcome, validateIntent(s, outcome) PROVE TriesCounted'
  <2>1. /\ pc[s] = "intent.try" /\ call[s].tries \in 1..2
        /\ call[s] = [user |-> call[s].user, row |-> call[s].row, tries |-> call[s].tries]
    BY <1>2 DEF validateIntent, At, TriesCounted
  <2>2. CASE call[s].tries < 2 /\ Goto(s, "intent.try", [call[s] EXCEPT !.tries = @ + 1])
    <3>1. pc'[s] = "intent.try" /\ Others(s) /\ call'[s] = [call[s] EXCEPT !.tries = @ + 1]
      BY <1>1, <2>2, GotoEffect
    <3>2. call'[s] = [user |-> call[s].user, row |-> call[s].row, tries |-> call[s].tries + 1]
      BY <2>1, <3>1
    <3>3. call'[s] = [user |-> call'[s].user, row |-> call'[s].row, tries |-> call[s].tries + 1]
      BY <3>2
    <3>4. call[s].tries + 1 \in 1..2
      BY <2>1, <2>2
    <3> QED BY <3>1, <3>3, <3>4, TriesAt
  <2>3. CASE \E l \in {"failure.write", "success.write"} : Goto(s, l, call[s])
    BY <1>1, <2>3, GotoEffect, TriesElsewhere
  <2> QED BY <1>2, <2>2, <2>3 DEF validateIntent
<1>3. ASSUME NEW outcome, requestLayout(s, outcome) PROVE TriesCounted'
  <2>1. /\ pc[s] = "layout.try" /\ call[s].tries \in 1..3
        /\ call[s] = [user |-> call[s].user, row |-> call[s].row, tries |-> call[s].tries]
    BY <1>3 DEF requestLayout, At, TriesCounted
  <2>2. CASE call[s].tries < 3 /\ Goto(s, "layout.try", [call[s] EXCEPT !.tries = @ + 1])
    <3>1. pc'[s] = "layout.try" /\ Others(s) /\ call'[s] = [call[s] EXCEPT !.tries = @ + 1]
      BY <1>1, <2>2, GotoEffect
    <3>2. call'[s] = [user |-> call[s].user, row |-> call[s].row, tries |-> call[s].tries + 1]
      BY <2>1, <3>1
    <3>3. call'[s] = [user |-> call'[s].user, row |-> call'[s].row, tries |-> call[s].tries + 1]
      BY <3>2
    <3>4. call[s].tries + 1 \in 1..3
      BY <2>1, <2>2
    <3> QED BY <3>1, <3>3, <3>4, TriesAt
  <2>3. CASE Return(s)
    BY <1>1, <2>3, ReturnEffect, TriesElsewhere
  <2> QED BY <1>3, <2>2, <2>3 DEF requestLayout
<1>4. CASE resetFailures(s)
  <2>1. call[s] = [user |-> call[s].user, row |-> call[s].row, tries |-> call[s].tries]
    BY <1>1, <1>4 DEF resetFailures, At, PromptTypes, JudgeLabels
  <2>2. pc'[s] = "layout.try" /\ Others(s) /\ call'[s] = [call[s] EXCEPT !.tries = 1]
    BY <1>1, <1>4, GotoEffect DEF resetFailures
  <2>3. call'[s] = [user |-> call[s].user, row |-> call[s].row, tries |-> 1]
    BY <2>1, <2>2
  <2>4. call'[s] = [user |-> call'[s].user, row |-> call'[s].row, tries |-> 1]
    BY <2>3
  <2> QED BY <2>2, <2>4, TriesAt
<1>5. CASE \/ recordFailure(s) \/ updatePage(s) \/ deletePage(s) \/ recordChange(s) \/ vibeFails(s)
  <2>1. Return(s) \/ \E c : Goto(s, "page.audit", c)
    BY <1>5 DEF recordFailure, updatePage, deletePage, recordChange, vibeFails, Abort
  <2> QED BY <1>1, <2>1, GotoEffect, ReturnEffect, TriesElsewhere
<1> QED BY <1>2, <1>3, <1>4, <1>5 DEF VibeStep

LEMMA TriesNext ==
  ASSUME IInv, TriesCounted, Places', [Next]_vars
  PROVE  TriesCounted'
<1>1. CASE UNCHANGED vars
  BY <1>1 DEF TriesCounted, At, vars, requests
<1>2. CASE Next /\ part \notin {"prompts", "pages"}
  <2>1. \A s \in Session : pc'[s] \notin {"intent.try", "layout.try"}
    <3>1. part' = part /\ part \in Part
      BY <1>2 DEF Next, IInv, Places
    <3> QED BY <1>2, <3>1 DEF Places, LabelsOf, Part, AccountLabels, AddressLabels, ListLabels, PoolLabels
  <2> QED BY <2>1 DEF TriesCounted
<1>3. CASE Next /\ part \in {"prompts", "pages"}
  <2>1. Shape
    BY PlacesShaped DEF IInv
  <2>2. ASSUME NEW s \in Session, NEW u, generateLayout(s, u) PROVE TriesCounted'
    <3>1. /\ pc'[s] = "intent.try" /\ Others(s)
          /\ call'[s] = [user |-> u, row |-> vibe[u], tries |-> 1]
      BY <2>1, <2>2, GotoEffect DEF generateLayout
    <3>2. call'[s] = [user |-> call'[s].user, row |-> call'[s].row, tries |-> 1]
      BY <3>1
    <3> QED BY <3>1, <3>2, TriesAt
  <2>3. ASSUME NEW s \in Session, \E l \in {"page.audit", "page.write"} : \E c : Goto(s, l, c)
        PROVE  TriesCounted'
    BY <2>1, <2>3, GotoEffect, TriesElsewhere
  <2>4. ASSUME UNCHANGED requests PROVE TriesCounted'
    BY <2>4 DEF requests, TriesCounted, At
  <2>5. PromptsNext \/ PagesNext
    BY <1>3 DEF Next
  <2> QED BY <1>3, <2>2, <2>3, <2>4, <2>5, TriesStep
          DEF PromptsNext, PagesNext, createPage, changePage, blockEnds
<1> QED BY <1>1, <1>2, <1>3

LEMMA TriesInit == Init => TriesCounted
BY DEF Init, NoRequests, TriesCounted

(* validateIntent and VibeProvider.generateLayout: the language model is   *)
(* asked no more than twice to judge a prompt, three times for a layout.   *)
THEOREM TriesAlwaysCounted == Spec => []TriesCounted
<1>1. IInv /\ IInv' /\ TriesCounted /\ [Next]_vars => TriesCounted'
  BY TriesNext DEF IInv
<1> QED BY <1>1, TriesInit, Invariance, PTL DEF Spec

-----------------------------------------------------------------------------
(* What a request has left. *)

LEMMA LeftOf ==
  /\ Left("resend.find") = 5 /\ Left("otp.del") = 5 /\ Left("reset.find") = 5
  /\ Left("otp.set") = 4 /\ Left("token.write") = 4 /\ Left("invite.insert") = 4
  /\ Left("success.write") = 4 /\ Left("reset.get") = 4 /\ Left("pool.wait") = 4
  /\ Left("code.mail") = 3 /\ Left("list.data") = 3 /\ Left("pool.wait.second") = 3
  /\ Left("resend.incr") = 2 /\ Left("reset.write") = 2 /\ Left("address.clear") = 2
  /\ Left("page.write") = 2 /\ Left("list.count") = 2 /\ Left("pool.read") = 2
  /\ \A l \in {"verify.write", "accept.write", "resend.expire", "reset.del", "profile.write",
               "failure.write", "page.audit", "address.insert", "address.update", "address.delete",
               "list.done", "pool.run"} : Left(l) = 1
  /\ Left("idle") = 0
BY DEF Left

LEMMA LeftPositive == \A l : l # "idle" => Left(l) \in 1..5
BY DEF Left

LEMMA StatementsPositive ==
  ASSUME TriesCounted, NEW s \in Session, pc[s] # "idle"
  PROVE  StatementsLeft(s) \in 1..6
<1>1. CASE pc[s] = "intent.try"
  <2>1. call[s].tries \in 1..2
    BY <1>1 DEF TriesCounted, At
  <2> QED BY <1>1, <2>1 DEF StatementsLeft, At
<1>2. CASE pc[s] = "layout.try"
  <2>1. call[s].tries \in 1..3
    BY <1>2 DEF TriesCounted, At
  <2> QED BY <1>2, <2>1 DEF StatementsLeft, At
<1>3. CASE pc[s] \notin {"intent.try", "layout.try"}
  BY <1>3, LeftPositive DEF StatementsLeft, At
<1> QED BY <1>1, <1>2, <1>3

Nearer(s) == StatementsLeft(s)' \in 0..(StatementsLeft(s) - 1)

LEMMA EndsNearer ==
  ASSUME TriesCounted, NEW s \in Session, pc[s] # "idle", pc'[s] = "idle"
  PROVE  Nearer(s)
<1>1. StatementsLeft(s)' = 0
  BY LeftOf DEF StatementsLeft, At
<1> QED BY <1>1, StatementsPositive DEF Nearer

LEMMA GoesNearer ==
  ASSUME NEW s \in Session, pc[s] \notin {"intent.try", "layout.try", "idle"},
         pc'[s] \notin {"intent.try", "layout.try", "idle"},
         Left(pc'[s]) < Left(pc[s])
  PROVE  Nearer(s)
<1>1. StatementsLeft(s) = Left(pc[s]) /\ StatementsLeft(s)' = Left(pc'[s])
  BY DEF StatementsLeft, At
<1> QED BY <1>1, LeftPositive DEF Nearer

LEMMA AccountNearer ==
  ASSUME Shape, TriesCounted, NEW s \in Session, AccountStep(s)
  PROVE  pc[s] # "idle" /\ Nearer(s) /\ \A t \in Session \ {s} : pc'[t] = pc[t]
<1> USE DEF Others, At
<1>1. CASE open(s) \/ expireResends(s) \/ deleteUsed(s) \/ accountFails(s)
  BY <1>1, ReturnEffect, EndsNearer DEF open, expireResends, deleteUsed, accountFails, Abort
<1>2. CASE updateVerificationToken(s) \/ deleteOtp(s) \/ writeReset(s)
  BY <1>2, GotoEffect, GoesNearer, LeftOf DEF updateVerificationToken, deleteOtp, writeReset
<1>3. CASE insertInvited(s) \/ setOtp(s)
  <2>1. /\ pc[s] \in {"invite.insert", "otp.set"}
        /\ Return(s) \/ \E c : Goto(s, "code.mail", c)
    BY <1>3 DEF insertInvited, setOtp
  <2> QED BY <2>1, GotoEffect, ReturnEffect, GoesNearer, EndsNearer, LeftOf
<1>4. CASE sendCode(s)
  BY <1>4, GotoEffect, ReturnEffect, GoesNearer, EndsNearer, LeftOf DEF sendCode
<1>5. CASE resendFind(s)
  <2>1. pc[s] = "resend.find" /\ \E l \in {"resend.incr", "code.mail", "token.write"} : \E c : Goto(s, l, c)
    BY <1>5 DEF resendFind
  <2> QED BY <2>1, GotoEffect, GoesNearer, LeftOf
<1>6. CASE incrementResendAttempts(s)
  BY <1>6, GotoEffect, ReturnEffect, GoesNearer, EndsNearer, LeftOf DEF incrementResendAttempts
<1>7. CASE verifyOTP(s)
  <2>1. pc[s] = "reset.find" /\ (Return(s) \/ \E c : Goto(s, "reset.get", c))
    BY <1>7 DEF verifyOTP
  <2> QED BY <2>1, GotoEffect, ReturnEffect, GoesNearer, EndsNearer, LeftOf
<1>8. CASE compareOtp(s)
  BY <1>8, GotoEffect, ReturnEffect, GoesNearer, EndsNearer, LeftOf DEF compareOtp
<1>9. CASE writeProfile(s)
  <2>1. pc[s] = "profile.write" /\ pc' = [pc EXCEPT ![s] = "idle"]
    BY <1>9 DEF writeProfile
  <2>2. pc'[s] = "idle" /\ \A t \in Session \ {s} : pc'[t] = pc[t]
    BY <2>1 DEF Shape
  <2> QED BY <2>1, <2>2, EndsNearer
<1> QED BY <1>1, <1>2, <1>3, <1>4, <1>5, <1>6, <1>7, <1>8, <1>9 DEF AccountStep

LEMMA AddressNearer ==
  ASSUME Shape, TriesCounted, NEW s \in Session, AddressesStep(s)
  PROVE  pc[s] # "idle" /\ Nearer(s) /\ \A t \in Session \ {s} : pc'[t] = pc[t]
<1> USE DEF Others, At
<1>1. CASE clearDefaults(s)
  <2>1. pc[s] = "address.clear" /\ \E l \in {"address.insert", "address.update"} : \E c : Goto(s, l, c)
    BY <1>1 DEF clearDefaults
  <2> QED BY <2>1, GotoEffect, GoesNearer, LeftOf
<1>2. CASE insertAddress(s) \/ setIsDefault(s) \/ deleteAddress(s) \/ addressFails(s)
  <2>1. pc[s] # "idle" /\ Return(s)
    BY <1>2 DEF insertAddress, setIsDefault, deleteAddress, addressFails, Abort
  <2> QED BY <2>1, ReturnEffect, EndsNearer
<1> QED BY <1>1, <1>2 DEF AddressesStep

LEMMA VibeNearer ==
  ASSUME Shape, TriesCounted, TriesCounted', NEW s \in Session, VibeStep(s)
  PROVE  pc[s] # "idle" /\ Nearer(s) /\ \A t \in Session \ {s} : pc'[t] = pc[t]
<1> USE DEF Others, At
<1>1. ASSUME NEW outcome, validateIntent(s, outcome)
      PROVE  pc[s] # "idle" /\ Nearer(s) /\ \A t \in Session \ {s} : pc'[t] = pc[t]
  <2>1. pc[s] = "intent.try" /\ call[s].tries \in 1..2 /\ StatementsLeft(s) = 7 - call[s].tries
    BY <1>1 DEF validateIntent, TriesCounted, StatementsLeft
  <2>2. CASE Goto(s, "intent.try", [call[s] EXCEPT !.tries = @ + 1])
    <3>1. Others(s) /\ pc'[s] = "intent.try" /\ call'[s] = [call[s] EXCEPT !.tries = @ + 1]
      BY <2>2, GotoEffect
    <3>2. call[s] = [user |-> call[s].user, row |-> call[s].row, tries |-> call[s].tries]
      BY <2>1 DEF TriesCounted
    <3>3. call'[s].tries = call[s].tries + 1 /\ call'[s].tries \in 1..2
      BY <3>1, <3>2 DEF TriesCounted
    <3>4. StatementsLeft(s)' = 7 - call'[s].tries
      BY <3>1 DEF StatementsLeft
    <3> QED BY <2>1, <3>1, <3>3, <3>4 DEF Nearer
  <2>3. CASE \E l \in {"failure.write", "success.write"} : Goto(s, l, call[s])
    <3>1. Others(s) /\ pc'[s] \in {"failure.write", "success.write"}
      BY <2>3, GotoEffect
    <3>2. StatementsLeft(s)' \in {1, 4}
      BY <3>1, LeftOf DEF StatementsLeft
    <3> QED BY <2>1, <3>1, <3>2 DEF Nearer
  <2> QED BY <1>1, <2>2, <2>3 DEF validateIntent
<1>2. ASSUME NEW outcome, requestLayout(s, outcome)
      PROVE  pc[s] # "idle" /\ Nearer(s) /\ \A t \in Session \ {s} : pc'[t] = pc[t]
  <2>1. pc[s] = "layout.try" /\ call[s].tries \in 1..3 /\ StatementsLeft(s) = 4 - call[s].tries
    BY <1>2 DEF requestLayout, TriesCounted, StatementsLeft
  <2>2. CASE Goto(s, "layout.try", [call[s] EXCEPT !.tries = @ + 1])
    <3>1. Others(s) /\ pc'[s] = "layout.try" /\ call'[s] = [call[s] EXCEPT !.tries = @ + 1]
      BY <2>2, GotoEffect
    <3>2. call[s] = [user |-> call[s].user, row |-> call[s].row, tries |-> call[s].tries]
      BY <2>1 DEF TriesCounted
    <3>3. call'[s].tries = call[s].tries + 1 /\ call'[s].tries \in 1..3
      BY <3>1, <3>2 DEF TriesCounted
    <3>4. StatementsLeft(s)' = 4 - call'[s].tries
      BY <3>1 DEF StatementsLeft
    <3> QED BY <2>1, <3>1, <3>3, <3>4 DEF Nearer
  <2>3. CASE Return(s)
    BY <2>1, <2>3, ReturnEffect, EndsNearer
  <2> QED BY <1>2, <2>2, <2>3 DEF requestLayout
<1>3. CASE resetFailures(s)
  <2>1. /\ pc[s] = "success.write" /\ pc'[s] = "layout.try" /\ Others(s)
    BY <1>3, GotoEffect DEF resetFailures
  <2>2. call'[s].tries \in 1..3
    BY <2>1 DEF TriesCounted
  <2>3. StatementsLeft(s) = 4 /\ StatementsLeft(s)' = 4 - call'[s].tries
    BY <2>1, LeftOf DEF StatementsLeft
  <2> QED BY <2>1, <2>2, <2>3 DEF Nearer
<1>4. CASE recordFailure(s) \/ recordChange(s) \/ vibeFails(s)
  <2>1. pc[s] # "idle" /\ Return(s)
    BY <1>4 DEF recordFailure, recordChange, vibeFails, Abort
  <2> QED BY <2>1, ReturnEffect, EndsNearer
<1>5. CASE updatePage(s) \/ deletePage(s)
  <2>1. pc[s] = "page.write" /\ (Return(s) \/ Goto(s, "page.audit", call[s]))
    BY <1>5 DEF updatePage, deletePage
  <2> QED BY <2>1, GotoEffect, ReturnEffect, GoesNearer, EndsNearer, LeftOf
<1> QED BY <1>1, <1>2, <1>3, <1>4, <1>5 DEF VibeStep

LEMMA ListPoolNearer ==
  ASSUME Shape, TriesCounted, NEW s \in Session, ListStep(s) \/ PoolStep(s)
  PROVE  pc[s] # "idle" /\ Nearer(s) /\ \A t \in Session \ {s} : pc'[t] = pc[t]
<1> USE DEF Others, At
<1>1. CASE selectPage(s)
  <2>1. pc[s] = "list.data" /\ \E c : Goto(s, "list.count", c)
    BY <1>1 DEF selectPage
  <2> QED BY <2>1, GotoEffect, GoesNearer, LeftOf
<1>2. CASE executeCount(s)
  <2>1. pc[s] = "list.count" /\ \E c : Goto(s, "list.done", c)
    BY <1>2 DEF executeCount
  <2> QED BY <2>1, GotoEffect, GoesNearer, LeftOf
<1>3. CASE respondList(s) \/ finish(s) \/ connectionTimeout(s) \/ queryFails(s)
  <2>1. pc[s] # "idle" /\ Return(s)
    BY <1>3 DEF respondList, finish, connectionTimeout, queryFails
  <2> QED BY <2>1, ReturnEffect, EndsNearer
<1>4. CASE connect(s)
  <2>1. pc[s] = "pool.wait" /\ \E l \in {"pool.wait.second", "pool.run"} : Goto(s, l, call[s])
    BY <1>4 DEF connect
  <2> QED BY <2>1, GotoEffect, GoesNearer, LeftOf
<1>5. CASE findOneOutside(s) \/ readOutside(s)
  BY <1>5, GotoEffect, GoesNearer, LeftOf DEF findOneOutside, readOutside
<1> QED BY <1>1, <1>2, <1>3, <1>4, <1>5 DEF ListStep, PoolStep

LEMMA StepNearer ==
  ASSUME Shape, TriesCounted, TriesCounted', NEW s \in Session, Step(s)
  PROVE  pc[s] # "idle" /\ Nearer(s) /\ \A t \in Session \ {s} : pc'[t] = pc[t]
BY AccountNearer, AddressNearer, VibeNearer, ListPoolNearer DEF Step

(* What moves a request is one of its own steps, or its end. *)
LEMMA OthersRest ==
  ASSUME Shape, TriesCounted, TriesCounted', [Next]_vars, NEW s \in Session, pc[s] # "idle"
  PROVE  pc'[s] = pc[s] \/ Step(s) \/ pc'[s] = "idle"
<1>1. CASE \E t \in Session : Step(t)
  BY <1>1, StepNearer
<1>2. CASE \E t \in Session : pc[t] = "idle" /\ \E l, c : Goto(t, l, c)
  BY <1>2, GotoEffect DEF Others
<1>3. CASE UNCHANGED pc
  BY <1>3
<1>4. CASE pc' = [t \in Session |-> "idle"]
  BY <1>4
<1>5. CASE UNCHANGED vars
  BY <1>3, <1>5 DEF vars, requests
<1>6. CASE Next
  <2>1. UNCHANGED part
    BY <1>6 DEF Next
  <2>2. CASE part = "verification"
    <3>1. VerificationNext /\ UNCHANGED otherThanAccounts
      BY <1>6, <2>2 DEF Next
    <3>2. CASE \E t \in Session : AccountStep(t)
      BY <1>1, <2>1, <2>2, <3>1, <3>2 DEF Step
    <3>3. CASE \E t \in Session : Verification(t)
      BY <1>2, <3>3 DEF Verification, verifyEmail, acceptInvitation, loginUnverified, inviteUser, resend, At
    <3>4. CASE \E e \in Written : resendsEnd(e)
      BY <1>3, <3>4 DEF resendsEnd, requests
    <3> QED BY <3>1, <3>2, <3>3, <3>4 DEF VerificationNext
  <2>3. CASE part = "reset"
    <3>1. ResetNext /\ UNCHANGED otherThanAccounts
      BY <1>6, <2>3 DEF Next
    <3>2. CASE \E t \in Session : AccountStep(t)
      BY <1>1, <2>1, <2>3, <3>1, <3>2 DEF Step
    <3>3. CASE \E t \in Session : Reset(t)
      BY <1>2, <3>3 DEF Reset, forgotPassword, resetPassword, updateProfile, At
    <3>4. CASE \E u \in User : otpEnds(u)
      BY <1>3, <3>4 DEF otpEnds, requests
    <3> QED BY <3>1, <3>2, <3>3, <3>4 DEF ResetNext
  <2>4. CASE part = "addresses"
    <3>1. AddressesNext /\ UNCHANGED otherThanAddresses
      BY <1>6, <2>4 DEF Next
    <3>2. CASE \E t \in Session : AddressesStep(t)
      BY <1>1, <2>1, <2>4, <3>1, <3>2 DEF Step
    <3>3. CASE \E t \in Session : AddressesRequest(t)
      BY <1>2, <3>3 DEF AddressesRequest, createAddress, updateAddress, removeAddress, At
    <3> QED BY <3>1, <3>2, <3>3 DEF AddressesNext
  <2>5. CASE part \in {"prompts", "pages"}
    <3>1. (PromptsNext \/ PagesNext) /\ UNCHANGED otherThanVibe
      BY <1>6, <2>5 DEF Next
    <3>2. CASE \E t \in Session : VibeStep(t)
      BY <1>1, <2>1, <2>5, <3>1, <3>2 DEF Step
    <3>3. CASE \E t \in Session, u \in Author :
                 \/ generateLayout(t, u) \/ createPage(t, u)
                 \/ \E p \in Page, action \in {"UPDATE", "DELETE"} : changePage(t, u, p, action)
      BY <1>2, <3>3 DEF generateLayout, createPage, changePage, At
    <3>4. CASE \E u \in Author : blockEnds(u)
      BY <1>3, <3>4 DEF blockEnds, requests
    <3> QED BY <3>1, <3>2, <3>3, <3>4 DEF PromptsNext, PagesNext
  <2>6. CASE part = "lists"
    <3>1. ListNext(Queries) /\ UNCHANGED otherThanLists
      BY <1>6, <2>6 DEF Next
    <3>2. CASE \E t \in Session : ListStep(t)
      BY <1>1, <2>1, <2>6, <3>1, <3>2 DEF Step
    <3>3. CASE \E t \in Session, q \in Queries : list(t, q)
      BY <1>2, <3>3 DEF list, NoRequests
    <3>4. CASE tableChanges
      BY <1>3, <3>4 DEF tableChanges
    <3> QED BY <3>1, <3>2, <3>3, <3>4 DEF ListNext
  <2>7. CASE part = "pool"
    <3>1. PoolNext /\ UNCHANGED otherThanPool
      BY <1>6, <2>7 DEF Next
    <3>2. CASE \E t \in Session : PoolStep(t)
      BY <1>1, <2>1, <2>7, <3>1, <3>2 DEF Step
    <3>3. CASE \E t \in Session, nested \in BOOLEAN : query(t, nested)
      BY <1>2, <3>3 DEF query, At
    <3>4. CASE initialized \/ initializationFails
      BY <1>3, <3>4 DEF initialized, initializationFails, requests
    <3>5. CASE redisRefused
      BY <1>4, <3>5 DEF redisRefused
    <3> QED BY <3>1, <3>2, <3>3, <3>4, <3>5 DEF PoolNext
  <2> QED BY <1>6, <2>2, <2>3, <2>4, <2>5, <2>6, <2>7 DEF Next
<1> QED BY <1>5, <1>6

(* Whatever the service: no statement, call or wait is repeated without    *)
(* end, so that RequestsEnd is left with fairness alone.                   *)
THEOREM RequestsAlwaysAdvance == Spec => RequestsAdvance
<1>1. ASSUME IInv, TriesCounted, TriesCounted', [Next]_vars, NEW s \in Session,
             Step(s) \/ (pc[s] # "idle" /\ pc'[s] # pc[s])
      PROVE  StatementsLeft(s)' \in 0..(StatementsLeft(s) - 1)
  <2>1. Shape
    BY <1>1, PlacesShaped DEF IInv
  <2> QED BY <1>1, <2>1, StepNearer, OthersRest, EndsNearer DEF Nearer
<1>2. IInv /\ TriesCounted /\ TriesCounted' /\ [Next]_vars =>
        [\A s \in Session :
           Step(s) \/ (pc[s] # "idle" /\ pc'[s] # pc[s]) =>
             StatementsLeft(s)' \in 0..(StatementsLeft(s) - 1)]_vars
  BY <1>1
<1> QED BY <1>2, Invariance, TriesAlwaysCounted, PTL DEF Spec, RequestsAdvance
=============================================================================
