--------------------------- MODULE MesCoreProofs ---------------------------
(***************************************************************************)
(* Proofs about MesCore for every number of requests, products and         *)
(* revisions, and every version a user may type.                           *)
(***************************************************************************)
EXTENDS MesCoreInvariant, TLAPS

-----------------------------------------------------------------------------
(* What the other requests rely on. *)

LocalsOK(s) == CallType(s) /\ MakingOK(s) /\ NumberOK(s) /\ RecordOK(s)

(* A step of s: a row that is there keeps its place, a revision its number *)
(* too; a revision appears under the identifier s holds; who changes a     *)
(* product others are about to record puts its log in doubt.               *)
Evolves(s) ==
  /\ \A r \in Revision : revision[r] # NULL => revision'[r] = revision[r]
  /\ \A r \in Revision : revision[r] = NULL /\ revision'[r] # NULL =>
       pc[s] \in Making /\ call[s].row = r
  /\ \A p \in Product : product[p] # NULL => product'[p] # NULL
  /\ \A t \in Session \ {s}, p \in Product : Records(t, p) =>
       /\ product'[p] = product[p] \/ p \in unlogged'
       /\ p \in unlogged => p \in unlogged'

LEMMA SeenStays ==
  ASSUME NEW s \in Session, Evolves(s), NEW p
  PROVE  VersionsOf(p) \subseteq VersionsOf(p)'
BY DEF Evolves, VersionsOf, RevisionsOf

LEMMA LocalsKept ==
  ASSUME TypeOK, MakersDistinct, NEW s \in Session, NEW t \in Session \ {s}, LocalsOK(t),
         Evolves(s), UNCHANGED <<pc[t], call[t]>>
  PROVE  LocalsOK(t)'
<1>1. CallType(t)'
  BY DEF LocalsOK, CallType
<1>2. MakingOK(t)'
  <2>1. ASSUME pc[t] \in Making PROVE revision'[call[t].row] = NULL
    <3>1. call[t].row \in Revision /\ revision[call[t].row] = NULL
      BY <2>1 DEF LocalsOK, CallType, MakingOK, Making, Chosen
    <3> QED BY <2>1, <3>1 DEF Evolves, MakersDistinct
  <2>2. ASSUME pc[t] = "createAlternative.number" PROVE \E r \in Revision : revision'[r] = call[t].base
    <3>1. PICK r \in Revision : revision[r] = call[t].base
      BY <2>2 DEF LocalsOK, MakingOK
    <3>2. revision[r] # NULL
      BY <2>2, <3>1, NullDistinct DEF LocalsOK, CallType
    <3> QED BY <3>1, <3>2 DEF Evolves
  <2> QED BY <2>1, <2>2 DEF MakingOK
<1>3. NumberOK(t)'
  BY SeenStays DEF LocalsOK, NumberOK
<1>4. RecordOK(t)'
  <2>1. ASSUME pc[t] = "product.update" PROVE product'[call[t].row] # NULL
    BY <2>1 DEF LocalsOK, CallType, RecordOK, Evolves
  <2>2. ASSUME pc[t] \in {"product.create.audit", "product.update.audit"}
        PROVE  /\ product'[call[t].row] # NULL
               /\ call[t].row \in unlogged' \/ call[t].new = product'[call[t].row]
    <3>1. call[t].row \in Product /\ Records(t, call[t].row)
      BY <2>2 DEF LocalsOK, CallType, Records, Recording
    <3> QED BY <2>2, <3>1 DEF LocalsOK, RecordOK, Evolves
  <2>3. ASSUME pc[t] = "createRevision.audit" PROVE call[t].new = revision'[call[t].row]
    <3>1. call[t].row \in Revision /\ call[t].new = revision[call[t].row]
          /\ call[t].new \in RevisionRow
      BY <2>3 DEF LocalsOK, CallType, RecordOK
    <3> QED BY <3>1, NullDistinct DEF Evolves
  <2> QED BY <2>1, <2>2, <2>3 DEF RecordOK
<1> QED BY <1>1, <1>2, <1>3, <1>4 DEF LocalsOK

(* What a step of s has to show, for the state and for itself.             *)
TablesOK ==
  /\ product  \in [Product -> ProductRow \cup {NULL}]
  /\ revision \in [Revision -> RevisionRow \cup {NULL}]
  /\ audit \in Audit
  /\ answer \in [Session -> Answer]
  /\ misnumbered \subseteq Revision /\ unlogged \subseteq Product \cup Revision

NumbersOK == VersionsDistinct /\ MinorsAreNumbers

(* The identifier of the row it makes, if any, is its own. *)
OwnIdentifier(s) ==
  pc'[s] \in Making =>
    (pc[s] \in Making /\ call'[s].row = call[s].row) \/ Fresh(call'[s].row)

StepOK(s) ==
  /\ Evolves(s) /\ Others(s) /\ Shape' /\ LocalsOK(s)'
  /\ OwnIdentifier(s)
  /\ TablesOK' /\ NumbersOK' /\ LogEndsCurrent'

LEMMA StepKeeps ==
  ASSUME IInv, NEW s \in Session, StepOK(s)
  PROVE  IInv'
<1>1. ASSUME NEW t \in Session, t # s PROVE LocalsOK(t)'
  BY <1>1, LocalsKept DEF IInv, TypeOK, LocalsOK, StepOK, Others
<1>2. MakersDistinct'
  <2>1. ASSUME NEW t \in Session, t # s, pc'[s] \in Making, pc'[t] \in Making
        PROVE  call'[s].row # call'[t].row
    BY <2>1 DEF StepOK, OwnIdentifier, Others, Fresh, IInv, MakersDistinct
  <2> QED BY <2>1 DEF MakersDistinct, StepOK, Others, IInv
<1> QED BY <1>1, <1>2 DEF StepOK, IInv, TypeOK, TablesOK, NumbersOK, LocalsOK

-----------------------------------------------------------------------------
(* Steps that leave the tables as they are. *)

LEMMA RespondEffect ==
  ASSUME Shape, NEW s \in Session, NEW a \in Answer, Respond(s, a),
         answer \in [Session -> Answer]
  PROVE  /\ Shape' /\ pc'[s] = "idle" /\ call'[s] = NULL /\ Others(s)
         /\ answer' \in [Session -> Answer]
BY ReturnEffect DEF Respond

LEMMA ProceedEffect ==
  ASSUME Shape, NEW s \in Session, NEW l, NEW c, Proceed(s, l, c),
         answer \in [Session -> Answer]
  PROVE  /\ Shape' /\ pc'[s] = l /\ call'[s] = c /\ Others(s)
         /\ answer' \in [Session -> Answer]
BY GotoEffect DEF Proceed, Answer

LEMMA IdleOK ==
  ASSUME NEW s \in Session, pc[s] = "idle", call[s] = NULL
  PROVE  LocalsOK(s)
BY DEF LocalsOK, CallType, MakingOK, NumberOK, RecordOK, Making

(* It leaves nothing unrecorded that was about to be recorded. *)
LEMMA LogKept ==
  ASSUME LogEndsCurrent, NEW s \in Session, pc[s] \notin Recording, Others(s),
         UNCHANGED <<tables, unlogged>>
  PROVE  LogEndsCurrent'
<1>1. \A x : (\E t \in Session : Records(t, x)) => \E t \in Session : Records(t, x)'
  BY DEF Records, Others
<1> QED BY <1>1 DEF LogEndsCurrent, Current, tables

LEMMA QuietKeeps ==
  ASSUME IInv, NEW s \in Session, UNCHANGED <<tables, history>>, pc[s] \notin Recording,
         Shape', Others(s), answer' \in [Session -> Answer], LocalsOK(s)',
         OwnIdentifier(s)
  PROVE  IInv'
<1>1. Evolves(s)
  BY DEF Evolves, tables, history
<1>2. TablesOK' /\ NumbersOK'
  BY DEF IInv, TypeOK, TablesOK, NumbersOK, tables, history, VersionsDistinct, MinorsAreNumbers,
         VersionsOf, RevisionsOf
<1>3. LogEndsCurrent'
  BY LogKept DEF IInv, history
<1> QED BY <1>1, <1>2, <1>3, StepKeeps DEF StepOK

(* The first and the last steps of a request that makes no row. *)
LEMMA RespondKeeps ==
  ASSUME IInv, NEW s \in Session, NEW a \in Answer, Respond(s, a), pc[s] \notin Recording,
         UNCHANGED <<tables, history>>
  PROVE  IInv'
<1>1. /\ Shape' /\ pc'[s] = "idle" /\ call'[s] = NULL /\ Others(s)
      /\ answer' \in [Session -> Answer]
  BY RespondEffect DEF IInv, TypeOK
<1>2. LocalsOK(s)'
  BY <1>1 DEF LocalsOK, CallType, MakingOK, NumberOK, RecordOK, Making
<1> QED BY <1>1, <1>2, QuietKeeps DEF OwnIdentifier, Making

LEMMA TransactionKeeps ==
  ASSUME IInv, NEW s \in Session, NEW o \in Operation, NEW x \in Product \cup Revision \cup {NULL},
         Transaction(s, o, x)
  PROVE  IInv'
<1> DEFINE c == [operation |-> o, row |-> x]
<1>1. c \in [operation : Operation, row : Product \cup Revision \cup {NULL}]
  OBVIOUS
<1>2. Proceed(s, "transaction", c) /\ pc[s] = "idle" /\ UNCHANGED <<tables, history>>
  BY DEF Transaction, At
<1> HIDE DEF c
<1>3. /\ Shape' /\ pc'[s] = "transaction" /\ call'[s] = c /\ Others(s)
      /\ answer' \in [Session -> Answer]
  BY <1>2, ProceedEffect DEF IInv, TypeOK
<1>4. LocalsOK(s)'
  BY <1>1, <1>3 DEF LocalsOK, CallType, MakingOK, NumberOK, RecordOK, Making
<1> QED BY <1>2, <1>3, <1>4, QuietKeeps DEF OwnIdentifier, Making, Recording

LEMMA OperationsKeep ==
  ASSUME IInv, NEW s \in Session,
         \/ \E r \in Revision :
              \/ updateRevision(s, r) \/ deleteRevision(s, r) \/ submitRevision(s, r)
              \/ approveRevision(s, r) \/ activateRevision(s, r)
              \/ addMaterial(s, r) \/ updateMaterial(s, r) \/ deleteMaterial(s, r)
         \/ \E p \in Product : product_delete(s, p)
         \/ releaseWorkOrder(s)
  PROVE  IInv'
<1>1. \E o \in Operation, x \in Product \cup Revision \cup {NULL} : Transaction(s, o, x)
  BY DEF updateRevision, deleteRevision, submitRevision, approveRevision, activateRevision,
         addMaterial, updateMaterial, deleteMaterial, ensureDraft, product_delete,
         releaseWorkOrder, Operation
<1> QED BY <1>1, TransactionKeeps

LEMMA RefusalsKeep ==
  ASSUME IInv, NEW s \in Session, forUpdate(s) \/ \E r \in Revision : createWorkOrder(s, r)
  PROVE  IInv'
BY RespondKeeps DEF forUpdate, createWorkOrder, At, Recording, Answer

-----------------------------------------------------------------------------
(* Choosing a number. *)

LEMMA CreateRevisionKeeps ==
  ASSUME IInv, NEW s \in Session, NEW r \in Revision, NEW p \in Product,
         NEW v \in UserVersion \cup {NULL}, createRevision(s, r, p, v)
  PROVE  IInv'
<1> DEFINE c == [row |-> r, product |-> p, typed |-> v]
<1>1. c \in [row : Revision, product : Product, typed : UserVersion \cup {NULL}] /\ c.row = r
  OBVIOUS
<1>2. Proceed(s, "createRevision.number", c) /\ pc[s] = "idle" /\ Fresh(r)
      /\ UNCHANGED <<tables, history>>
  BY DEF createRevision, At
<1> HIDE DEF c
<1>3. /\ Shape' /\ pc'[s] = "createRevision.number" /\ call'[s] = c /\ Others(s)
      /\ answer' \in [Session -> Answer]
  BY <1>2, ProceedEffect DEF IInv, TypeOK
<1>4. LocalsOK(s)'
  BY <1>1, <1>2, <1>3 DEF LocalsOK, CallType, MakingOK, NumberOK, RecordOK, Making, Fresh, tables
<1> QED BY <1>1, <1>2, <1>3, <1>4, QuietKeeps DEF OwnIdentifier, Recording

LEMMA CreateAlternativeKeeps ==
  ASSUME IInv, NEW s \in Session, NEW r \in Revision, NEW b \in Revision,
         createAlternative(s, r, b)
  PROVE  IInv'
<1> DEFINE c == [row |-> r, base |-> revision[b]]
<1>1. c \in [row : Revision, base : RevisionRow] /\ c.row = r /\ c.base = revision[b]
  BY DEF createAlternative, IInv, TypeOK
<1>2. Proceed(s, "createAlternative.number", c) /\ pc[s] = "idle" /\ Fresh(r)
      /\ UNCHANGED <<tables, history>>
  BY DEF createAlternative, At
<1> HIDE DEF c
<1>3. /\ Shape' /\ pc'[s] = "createAlternative.number" /\ call'[s] = c /\ Others(s)
      /\ answer' \in [Session -> Answer]
  BY <1>2, ProceedEffect DEF IInv, TypeOK
<1>4. LocalsOK(s)'
  BY <1>1, <1>2, <1>3 DEF LocalsOK, CallType, MakingOK, NumberOK, RecordOK, Making, Fresh, tables
<1> QED BY <1>1, <1>2, <1>3, <1>4, QuietKeeps DEF OwnIdentifier, Recording

LEMMA VersionsTyped ==
  ASSUME TypeOK, NEW p
  PROVE  VersionsOf(p) \subseteq Version
BY DEF TypeOK, VersionsOf, RevisionsOf, RevisionRow

(* A number that is chosen is well typed, and fits what it was chosen from. *)
LEMMA NumberedKeeps ==
  ASSUME IInv, NEW s \in Session, NEW l \in {"createRevision.insert", "createAlternative.commit"},
         NEW r \in Revision, NEW p \in Product, NEW v \in Version, NEW sure \in BOOLEAN,
         Numbered(s, l, r, p, v, sure), UNCHANGED <<tables, history>>,
         pc[s] \in Making, call[s].row = r,
         l = "createRevision.insert" =>
           /\ sure => \A w \in VersionsOf(p) : compareVersions(v, w) > 0
           /\ v.minor \in Nat,
         l = "createAlternative.commit" =>
           /\ sure =>
                /\ \E w \in VersionsOf(p) : w.major = v.major
                /\ \A w \in VersionsOf(p) : w.major = v.major => w.minor < v.minor
           /\ v.minor = NegInfinity => \E w \in VersionsOf(p) : w.major = v.major /\ w.zeros > 0
  PROVE  IInv'
<1> DEFINE c == [row |-> r, product |-> p, version |-> v, seen |-> VersionsOf(p), sure |-> sure]
<1>1. /\ c \in Chosen /\ c.row = r /\ c.product = p /\ c.version = v
      /\ c.seen = VersionsOf(p) /\ c.sure = sure
  BY VersionsTyped DEF Chosen, IInv
<1>2. Proceed(s, l, c)
  BY DEF Numbered
<1> HIDE DEF c
<1>3. /\ Shape' /\ pc'[s] = l /\ call'[s] = c /\ Others(s)
      /\ answer' \in [Session -> Answer]
  BY <1>2, ProceedEffect DEF IInv, TypeOK
<1>4. VersionsOf(p)' = VersionsOf(p)
  BY DEF VersionsOf, RevisionsOf, tables
<1>5. revision'[r] = NULL
  BY DEF IInv, MakingOK, tables
<1>6. CallType(s)' /\ MakingOK(s)' /\ RecordOK(s)'
  BY <1>1, <1>3, <1>5 DEF CallType, MakingOK, RecordOK
<1>7. NumberOK(s)'
  BY <1>1, <1>3, <1>4 DEF NumberOK
<1>8. pc[s] \notin Recording
  BY DEF Making, Recording
<1> QED BY <1>1, <1>3, <1>6, <1>7, <1>8, QuietKeeps DEF OwnIdentifier, LocalsOK

LEMMA ComparedThrough ==
  ASSUME NEW u \in Version, NEW v \in Version, NEW w \in Version,
         compareVersions(u, v) > 0, compareVersions(v, w) >= 0
  PROVE  compareVersions(u, w) > 0
BY DEF Version, Minor, NegInfinity, compareVersions

LEMMA NumberRevisionKeeps ==
  ASSUME IInv, NEW s \in Session, numberRevision(s)
  PROVE  IInv'
<1> DEFINE c == call[s]
           versions == VersionsOf(c.product)
           highest(v) == \A w \in versions : compareVersions(v, w) >= 0
           take(v, sure) == Numbered(s, "createRevision.insert", c.row, c.product, v, sure)
<1>1. /\ c.row \in Revision /\ c.product \in Product /\ c.typed \in UserVersion \cup {NULL}
      /\ pc[s] = "createRevision.number" /\ pc[s] \in Making /\ pc[s] \notin Recording
  BY DEF IInv, TypeOK, CallType, numberRevision, At, Making, Recording
<1>2. UNCHANGED <<tables, history>>
  BY DEF numberRevision
<1>3. versions \subseteq Version
  BY VersionsTyped DEF IInv
<1>4. ASSUME NEW v \in Version, v.minor \in Nat, NEW sure \in BOOLEAN, take(v, sure),
             sure => \A w \in versions : compareVersions(v, w) > 0
      PROVE  IInv'
  BY <1>1, <1>2, <1>4, NumberedKeeps
<1>5. c.typed # NULL => c.typed \in Version /\ c.typed.minor \in Nat
  BY <1>1, UserVersionIsVersion DEF Version, Minor
<1>6. \A v \in Version : /\ NextMajor(v) \in Version /\ NextMajor(v).minor \in Nat
                         /\ compareVersions(NextMajor(v), v) > 0
  BY DEF NextMajor, Plain, Version, Minor, NegInfinity, compareVersions
<1>7. CASE versions = {}
  <2> DEFINE first == IF c.typed = NULL THEN Plain(1, 0) ELSE c.typed
  <2>1. first \in Version /\ first.minor \in Nat
    BY <1>5 DEF Plain, Version, Minor
  <2>2. take(first, TRUE)
    BY <1>7 DEF numberRevision, Latest
  <2> HIDE DEF first
  <2> QED BY <1>4, <1>7, <2>1, <2>2
<1>8. CASE versions # {}
  <2>1. PICK latest \in Latest(versions) :
          \/ c.typed = NULL /\ take(NextMajor(latest), highest(latest))
          \/ /\ c.typed # NULL /\ compareVersions(c.typed, latest) > 0
             /\ take(c.typed, highest(latest))
          \/ Respond(s, "refused")
    BY <1>8 DEF numberRevision
  <2>2. latest \in Version /\ highest(latest) \in BOOLEAN
    BY <1>3 DEF Latest
  <2>3. ASSUME NEW v \in Version, v.minor \in Nat, compareVersions(v, latest) > 0,
               take(v, highest(latest))
        PROVE  IInv'
    <3>1. highest(latest) => \A w \in versions : compareVersions(v, w) > 0
      BY <1>3, <2>2, <2>3, ComparedThrough
    <3> HIDE DEF highest, take, versions
    <3> QED BY <1>4, <2>2, <2>3, <3>1
  <2>4. Respond(s, "refused") => IInv'
    BY <1>1, <1>2, RespondKeeps DEF Answer
  <2> HIDE DEF highest, take, versions
  <2> QED BY <1>5, <1>6, <2>1, <2>2, <2>3, <2>4
<1> QED BY <1>7, <1>8

LEMMA NumberAlternativeKeeps ==
  ASSUME IInv, NEW s \in Session, numberAlternative(s)
  PROVE  IInv'
<1> DEFINE c == call[s]
           p == c.base.product
           versions == VersionsOf(p)
           major  == c.base.version.major
           minors == {v.minor : v \in Like(versions, major)}
           sure   == \A v \in versions : v.major = major => v.zeros = 0
<1>1. /\ c.row \in Revision /\ c.base \in RevisionRow
      /\ pc[s] = "createAlternative.number" /\ pc[s] \in Making
  BY DEF IInv, TypeOK, CallType, numberAlternative, At, Making
<1>2. p \in Product /\ major \in Nat /\ c.base.version \in Version
  BY <1>1 DEF RevisionRow, Version
<1>3. c.base.version \in versions
  <2>1. PICK r \in Revision : revision[r] = c.base
    BY <1>1 DEF IInv, MakingOK
  <2> QED BY <1>1, <2>1, NullDistinct DEF VersionsOf, RevisionsOf
<1>4. versions \subseteq Version /\ minors \subseteq Minor
  BY VersionsTyped DEF IInv, Like, Version
<1>5. PICK latest \in LatestMinor(minors) :
        Numbered(s, "createAlternative.commit", c.row, p, Plain(major, NextMinor(latest)), sure)
  BY DEF numberAlternative
<1> DEFINE v == Plain(major, NextMinor(latest))
<1>6. latest \in Minor /\ NextMinor(latest) \in Minor /\ (\A m \in minors : m <= latest)
      /\ (minors # {} => latest \in minors) /\ (minors = {} => latest = NegInfinity)
  <2> HIDE DEF minors
  <2>1. CASE minors = {}
    BY <1>5, <2>1 DEF LatestMinor, NextMinor, Minor
  <2>2. CASE minors # {}
    <3>1. latest \in minors /\ \A m \in minors : m <= latest
      BY <1>5, <2>2 DEF LatestMinor
    <3>2. latest \in Minor
      BY <1>4, <3>1
    <3> QED BY <2>2, <3>1, <3>2 DEF NextMinor, Minor, NegInfinity
  <2> QED BY <2>1, <2>2
<1>7. v \in Version /\ v.major = major /\ v.minor = NextMinor(latest)
  BY <1>2, <1>6 DEF Plain, Version
<1>8. v.minor = NegInfinity => \E w \in versions : w.major = major /\ w.zeros > 0
  <2>1. SUFFICES ASSUME latest = NegInfinity PROVE \E w \in versions : w.major = major /\ w.zeros > 0
    BY <1>6, <1>7 DEF NextMinor, Minor, NegInfinity
  <2>2. CASE minors = {}
    <3>1. c.base.version \notin Like(versions, major)
      BY <2>2
    <3>2. c.base.version.zeros # 0
      BY <1>3, <3>1 DEF Like
    <3> QED BY <1>2, <1>3, <3>2 DEF Version
  <2>3. CASE minors # {}
    <3>1. PICK w \in versions : w.major = major /\ w.minor = NegInfinity
      BY <1>6, <2>1, <2>3 DEF Like
    <3>2. PICK r \in Revision : revision[r] # NULL /\ revision[r].product = p
                              /\ revision[r].version = w
      BY DEF VersionsOf, RevisionsOf
    <3> QED BY <3>1, <3>2 DEF IInv, MinorsAreNumbers
  <2> QED BY <2>2, <2>3
<1>9. sure => /\ \E w \in versions : w.major = major
              /\ \A w \in versions : w.major = major => w.minor < v.minor
  <2>1. SUFFICES ASSUME sure, NEW w \in versions, w.major = major PROVE w.minor < v.minor
    BY <1>3
  <2>2. w.minor \in minors
    BY <2>1 DEF Like
  <2>3. latest # NegInfinity
    BY <1>7, <1>8, <2>1 DEF NextMinor
  <2>4. v.minor = latest + 1
    BY <1>7, <2>3 DEF NextMinor
  <2>5. w.minor <= latest /\ w.minor \in Minor
    BY <1>4, <1>6, <2>2
  <2> QED BY <1>6, <2>4, <2>5 DEF Minor, NegInfinity
<1>10. UNCHANGED <<tables, history>> /\ sure \in BOOLEAN
  BY DEF numberAlternative
<1> HIDE DEF v, sure, versions, p
<1> QED BY <1>1, <1>2, <1>5, <1>7, <1>8, <1>9, <1>10, NumberedKeeps DEF v, versions, sure

-----------------------------------------------------------------------------
(* Inserting the revision. *)

Above(v, V) == \A w \in V : compareVersions(v, w) > 0
NextOf(v, V) == (\E w \in V : w.major = v.major)
                 /\ \A w \in V : w.major = v.major => w.minor < v.minor

Fits(c) ==
  /\ c \in Chosen /\ revision[c.row] = NULL
  /\ c.seen \subseteq VersionsOf(c.product)
  /\ c.sure => Above(c.version, c.seen) \/ NextOf(c.version, c.seen)
  /\ c.version.minor = NegInfinity =>
       \E v \in c.seen : v.major = c.version.major /\ v.zeros > 0

LEMMA MakersFit ==
  ASSUME IInv, NEW s \in Session, pc[s] \in {"createRevision.insert", "createAlternative.commit"}
  PROVE  Fits(call[s])
BY DEF IInv, TypeOK, CallType, MakingOK, NumberOK, Making, Fits, Above, NextOf, NegInfinity

(* The revision that appears, and no other; what was there stays. *)
LEMMA InsertedRows ==
  ASSUME TypeOK, NEW c, Fits(c), insertDraft(c)
  PROVE  /\ c.row \in Revision /\ c.product \in Product /\ c.version \in Version
         /\ NewRevision(c.product, c.version) \in RevisionRow
         /\ NewRevision(c.product, c.version) # NULL
         /\ revision' \in [Revision -> RevisionRow \cup {NULL}]
         /\ revision'[c.row] = NewRevision(c.product, c.version)
         /\ \A r \in Revision : r # c.row => revision'[r] = revision[r]
         /\ misnumbered' \subseteq Revision /\ misnumbered \subseteq misnumbered'
         /\ c.row \in misnumbered' \/ (c.sure /\ VersionsOf(c.product) \subseteq c.seen)
<1>1. c.row \in Revision /\ c.product \in Product /\ c.version \in Version
  BY DEF Fits, Chosen
<1>2. NewRevision(c.product, c.version) \in RevisionRow
  BY <1>1 DEF NewRevision, RevisionRow
<1>3. NewRevision(c.product, c.version) # NULL
  BY <1>2, NullDistinct
<1>4. /\ revision' \in [Revision -> RevisionRow \cup {NULL}]
      /\ revision'[c.row] = NewRevision(c.product, c.version)
      /\ \A r \in Revision : r # c.row => revision'[r] = revision[r]
  BY <1>1, <1>2 DEF insertDraft, TypeOK
<1>5. misnumbered' \subseteq Revision /\ misnumbered \subseteq misnumbered'
      /\ (c.row \in misnumbered' \/ (c.sure /\ VersionsOf(c.product) \subseteq c.seen))
  BY <1>1 DEF insertDraft, TypeOK
<1> QED BY <1>1, <1>2, <1>3, <1>4, <1>5

LEMMA NewNumber ==
  ASSUME NEW v \in Version, NEW V \in SUBSET Version, Above(v, V) \/ NextOf(v, V), NEW w \in V
  PROVE  compareVersions(v, w) # 0 /\ compareVersions(w, v) # 0
BY DEF Above, NextOf, compareVersions, Version, Minor, NegInfinity

LEMMA InsertKeepsNumbers ==
  ASSUME TypeOK, NumbersOK, NEW c, Fits(c), insertDraft(c)
  PROVE  NumbersOK'
<1>1. /\ c.row \in Revision /\ c.version \in Version
      /\ NewRevision(c.product, c.version) # NULL
      /\ revision'[c.row] = NewRevision(c.product, c.version)
      /\ \A r \in Revision : r # c.row => revision'[r] = revision[r]
      /\ misnumbered \subseteq misnumbered'
      /\ c.row \in misnumbered' \/ (c.sure /\ VersionsOf(c.product) \subseteq c.seen)
  BY InsertedRows
<1>2. VersionsDistinct'
  <2>1. ASSUME NEW q \in Revision, q # c.row, revision[q] # NULL,
               revision[q].product = c.product, c.row \notin misnumbered'
        PROVE  /\ compareVersions(c.version, revision[q].version) # 0
               /\ compareVersions(revision[q].version, c.version) # 0
    <3>1. revision[q].version \in c.seen
      BY <1>1, <2>1 DEF VersionsOf, RevisionsOf
    <3>2. c.seen \in SUBSET Version
      BY DEF Fits, Chosen
    <3>3. Above(c.version, c.seen) \/ NextOf(c.version, c.seen)
      BY <1>1, <2>1 DEF Fits
    <3> QED BY <1>1, <3>1, <3>2, <3>3, NewNumber
  <2>2. revision'[c.row].product = c.product /\ revision'[c.row].version = c.version
    BY <1>1 DEF NewRevision
  <2>3. ASSUME NEW r \in Revision, NEW q \in Revision, r # q, revision'[r] # NULL,
               revision'[q] # NULL, revision'[r].product = revision'[q].product,
               compareVersions(revision'[r].version, revision'[q].version) = 0
        PROVE  r \in misnumbered' \/ q \in misnumbered'
    <3>1. CASE r = c.row
      BY <1>1, <2>1, <2>2, <2>3, <3>1
    <3>2. CASE q = c.row
      BY <1>1, <2>1, <2>2, <2>3, <3>2
    <3>3. CASE r # c.row /\ q # c.row
      BY <1>1, <2>3, <3>3 DEF NumbersOK, VersionsDistinct
    <3> QED BY <3>1, <3>2, <3>3
  <2>4. VersionsDistinct' = (\A r, q \in Revision :
          /\ r # q /\ revision'[r] # NULL /\ revision'[q] # NULL
          /\ revision'[r].product = revision'[q].product
          /\ compareVersions(revision'[r].version, revision'[q].version) = 0
          => r \in misnumbered' \/ q \in misnumbered')
    BY DEF VersionsDistinct, compareVersions
  <2> QED BY <2>3, <2>4
<1> DEFINE After(p) ==
     {revision'[q].version : q \in {q \in Revision : revision'[q] # NULL
                                                     /\ revision'[q].product = p}}
<1>3. \A p : VersionsOf(p) \subseteq After(p)
  BY <1>1 DEF VersionsOf, RevisionsOf, Fits
<1>4. MinorsAreNumbers'
  <2>1. ASSUME NEW r \in Revision, revision'[r] # NULL,
               revision'[r].version.minor = NegInfinity
        PROVE  \E v \in After(revision'[r].product) :
                 v.major = revision'[r].version.major /\ v.zeros > 0
    <3>1. CASE r = c.row
      <4>1. revision'[r].product = c.product /\ revision'[r].version = c.version
        BY <1>1, <3>1 DEF NewRevision
      <4>2. c.seen \subseteq After(c.product)
        BY <1>3 DEF Fits
      <4> HIDE DEF After
      <4> QED BY <2>1, <4>1, <4>2 DEF Fits
    <3>2. CASE r # c.row
      <4>1. revision'[r] = revision[r]
        BY <1>1, <3>2
      <4>2. PICK v \in VersionsOf(revision[r].product) :
              v.major = revision[r].version.major /\ v.zeros > 0
        BY <2>1, <4>1 DEF NumbersOK, MinorsAreNumbers
      <4> HIDE DEF After
      <4> QED BY <1>3, <4>1, <4>2
    <3> QED BY <3>1, <3>2
  <2> QED BY <2>1 DEF MinorsAreNumbers, VersionsOf, RevisionsOf, NegInfinity
<1> QED BY <1>2, <1>4 DEF NumbersOK

LEMMA InsertEvolves ==
  ASSUME IInv, NEW s \in Session, pc[s] \in Making, Fits(call[s]), insertDraft(call[s]),
         UNCHANGED <<product, unlogged>>
  PROVE  Evolves(s)
<1>1. \A r \in Revision : r # call[s].row => revision'[r] = revision[r]
  BY InsertedRows DEF IInv
<1>2. revision[call[s].row] = NULL
  BY DEF Fits
<1> QED BY <1>1, <1>2 DEF Evolves

LEMMA InsertRevisionKeeps ==
  ASSUME IInv, NEW s \in Session, insertRevision(s)
  PROVE  IInv'
<1> DEFINE c == call[s]
           new == NewRevision(c.product, c.version)
           d == [row |-> c.row, new |-> new]
<1>1. pc[s] = "createRevision.insert" /\ pc[s] \in Making /\ insertDraft(c)
      /\ UNCHANGED <<product, audit, unlogged>> /\ Proceed(s, "createRevision.audit", d)
  BY DEF insertRevision, At, Making
<1>2. Fits(c)
  BY <1>1, MakersFit
<1>3. TypeOK /\ NumbersOK
  BY DEF IInv, NumbersOK
<1>4. /\ c.row \in Revision /\ new \in RevisionRow /\ new # NULL
      /\ revision' \in [Revision -> RevisionRow \cup {NULL}] /\ revision'[c.row] = new
      /\ \A r \in Revision : r # c.row => revision'[r] = revision[r]
      /\ misnumbered' \subseteq Revision
  BY <1>1, <1>2, <1>3, InsertedRows
<1>5. d \in [row : Revision, new : RevisionRow] /\ d.row = c.row /\ d.new = new
  BY <1>4
<1>6. Evolves(s)
  BY <1>1, <1>2, InsertEvolves
<1>7. NumbersOK'
  BY <1>1, <1>2, <1>3, InsertKeepsNumbers
<1> HIDE DEF d, new
<1>8. /\ Shape' /\ pc'[s] = "createRevision.audit" /\ call'[s] = d /\ Others(s)
      /\ answer' \in [Session -> Answer]
  BY <1>1, <1>3, ProceedEffect DEF TypeOK
<1>9. LocalsOK(s)'
  BY <1>4, <1>5, <1>8 DEF LocalsOK, CallType, MakingOK, NumberOK, RecordOK, Making
<1>10. TablesOK'
  BY <1>1, <1>3, <1>4, <1>8 DEF TablesOK, TypeOK
<1>11. LogEndsCurrent'
  <2>1. \A x : \A t \in Session : Records(t, x) => Records(t, x)'
    BY <1>1, <1>8 DEF Records, Others, Recording
  <2>2. pc'[s] \in Recording /\ call'[s].row = c.row
    BY <1>5, <1>8 DEF Recording
  <2>3. \A p \in Product : Current(product, audit.product, p)'
    BY <1>1, <2>1 DEF IInv, LogEndsCurrent, Current
  <2>4. ASSUME NEW r \in Revision PROVE Current(revision, audit.bom_revision, r)'
    <3>1. CASE r = c.row
      BY <2>2, <3>1 DEF Current, Records
    <3>2. CASE r # c.row
      BY <1>1, <1>4, <2>1, <3>2 DEF IInv, LogEndsCurrent, Current
    <3> QED BY <3>1, <3>2
  <2> QED BY <2>3, <2>4 DEF LogEndsCurrent
<1> QED BY <1>6, <1>7, <1>8, <1>9, <1>10, <1>11, StepKeeps DEF StepOK, OwnIdentifier, Making

(* An audit row of the right types is written. *)
LEMMA RevisionLogged ==
  ASSUME audit \in Audit, NEW r \in Revision, NEW old \in RevisionRow \cup {NULL},
         NEW new \in RevisionRow,
         audit' = [audit EXCEPT !.bom_revision[r] = recordChange(old, new)]
  PROVE  /\ audit' \in Audit /\ audit'.product = audit.product
         /\ audit'.bom_revision[r] # NULL /\ audit'.bom_revision[r].new = new
         /\ \A q \in Revision : q # r => audit'.bom_revision[q] = audit.bom_revision[q]
<1>1. recordChange(old, new) \in Entry(RevisionRow) /\ recordChange(old, new).new = new
  BY DEF recordChange, Entry
<1>2. recordChange(old, new) # NULL
  BY <1>1, NullDistinct
<1> QED BY <1>1, <1>2 DEF Audit

LEMMA ProductLogged ==
  ASSUME audit \in Audit, NEW p \in Product, NEW old \in ProductRow \cup {NULL},
         NEW new \in ProductRow,
         audit' = [audit EXCEPT !.product[p] = recordChange(old, new)]
  PROVE  /\ audit' \in Audit /\ audit'.bom_revision = audit.bom_revision
         /\ audit'.product[p] # NULL /\ audit'.product[p].new = new
         /\ \A q \in Product : q # p => audit'.product[q] = audit.product[q]
<1>1. recordChange(old, new) \in Entry(ProductRow) /\ recordChange(old, new).new = new
  BY DEF recordChange, Entry
<1>2. recordChange(old, new) # NULL
  BY <1>1, NullDistinct
<1> QED BY <1>1, <1>2 DEF Audit

LEMMA AuditRevisionKeeps ==
  ASSUME IInv, NEW s \in Session, auditRevision(s)
  PROVE  IInv'
<1> DEFINE c == call[s]
<1>1. /\ pc[s] = "createRevision.audit" /\ Respond(s, "ok")
      /\ UNCHANGED <<product, revision, history>>
      /\ audit' = [audit EXCEPT !.bom_revision[c.row] = recordChange(NULL, c.new)]
  BY DEF auditRevision, At
<1>2. c.row \in Revision /\ c.new \in RevisionRow /\ c.new = revision[c.row]
  BY <1>1 DEF IInv, TypeOK, CallType, RecordOK
<1>3. /\ audit' \in Audit /\ audit'.product = audit.product
      /\ audit'.bom_revision[c.row] # NULL /\ audit'.bom_revision[c.row].new = c.new
      /\ \A q \in Revision : q # c.row => audit'.bom_revision[q] = audit.bom_revision[q]
  BY <1>1, <1>2, RevisionLogged DEF IInv, TypeOK
<1>4. /\ Shape' /\ pc'[s] = "idle" /\ call'[s] = NULL /\ Others(s)
      /\ answer' \in [Session -> Answer]
  BY <1>1, RespondEffect DEF IInv, TypeOK, Answer
<1>5. LocalsOK(s)'
  BY <1>4 DEF LocalsOK, CallType, MakingOK, NumberOK, RecordOK, Making
<1>6. TablesOK' /\ NumbersOK' /\ Evolves(s)
  BY <1>1, <1>3, <1>4 DEF IInv, TypeOK, TablesOK, NumbersOK, history, VersionsDistinct,
     MinorsAreNumbers, VersionsOf, RevisionsOf, Evolves
<1>7. LogEndsCurrent'
  <2>1. \A x : \A t \in Session : t # s /\ Records(t, x) => Records(t, x)'
    BY <1>4 DEF Records, Others
  <2>2. \A x : Records(s, x) => x = c.row
    BY DEF Records
  <2>3. ASSUME NEW p \in Product PROVE Current(product, audit.product, p)'
    <3>1. p # c.row
      BY <1>2, IdentifiersDistinct
    <3> QED BY <1>1, <1>3, <2>1, <2>2, <3>1 DEF IInv, LogEndsCurrent, Current, history
  <2>4. ASSUME NEW r \in Revision PROVE Current(revision, audit.bom_revision, r)'
    <3>1. CASE r = c.row
      BY <1>1, <1>2, <1>3, <3>1 DEF Current
    <3>2. CASE r # c.row
      BY <1>1, <1>3, <2>1, <2>2, <3>2 DEF IInv, LogEndsCurrent, Current, history
    <3> QED BY <3>1, <3>2
  <2> QED BY <2>3, <2>4 DEF LogEndsCurrent
<1> QED BY <1>4, <1>5, <1>6, <1>7, StepKeeps DEF StepOK, OwnIdentifier, Making

LEMMA CommitAlternativeKeeps ==
  ASSUME IInv, NEW s \in Session, commitAlternative(s)
  PROVE  IInv'
<1> DEFINE c == call[s]
           new == NewRevision(c.product, c.version)
<1>1. /\ pc[s] = "createAlternative.commit" /\ pc[s] \in Making /\ insertDraft(c)
      /\ UNCHANGED <<product, unlogged>> /\ Respond(s, "ok")
      /\ audit' = [audit EXCEPT !.bom_revision[c.row] = recordChange(NULL, new)]
  BY DEF commitAlternative, At, Making
<1>2. Fits(c)
  BY <1>1, MakersFit
<1>3. TypeOK /\ NumbersOK
  BY DEF IInv, NumbersOK
<1>4. /\ c.row \in Revision /\ new \in RevisionRow /\ new # NULL
      /\ revision' \in [Revision -> RevisionRow \cup {NULL}] /\ revision'[c.row] = new
      /\ \A r \in Revision : r # c.row => revision'[r] = revision[r]
      /\ misnumbered' \subseteq Revision
  BY <1>1, <1>2, <1>3, InsertedRows
<1>5. /\ audit' \in Audit /\ audit'.product = audit.product
      /\ audit'.bom_revision[c.row] # NULL /\ audit'.bom_revision[c.row].new = new
      /\ \A q \in Revision : q # c.row => audit'.bom_revision[q] = audit.bom_revision[q]
  BY <1>1, <1>3, <1>4, RevisionLogged DEF TypeOK
<1>6. Evolves(s)
  BY <1>1, <1>2, InsertEvolves
<1>7. NumbersOK'
  BY <1>1, <1>2, <1>3, InsertKeepsNumbers
<1> HIDE DEF new
<1>8. /\ Shape' /\ pc'[s] = "idle" /\ call'[s] = NULL /\ Others(s)
      /\ answer' \in [Session -> Answer]
  BY <1>1, <1>3, RespondEffect DEF TypeOK, Answer
<1>9. LocalsOK(s)'
  BY <1>8 DEF LocalsOK, CallType, MakingOK, NumberOK, RecordOK, Making
<1>10. TablesOK'
  BY <1>1, <1>3, <1>4, <1>5, <1>8 DEF TablesOK, TypeOK
<1>11. LogEndsCurrent'
  <2>1. \A x : \A t \in Session : Records(t, x) => Records(t, x)'
    BY <1>1, <1>8 DEF Records, Others, Recording
  <2>2. \A p \in Product : Current(product, audit.product, p)'
    BY <1>1, <1>5, <2>1 DEF IInv, LogEndsCurrent, Current
  <2>3. ASSUME NEW r \in Revision PROVE Current(revision, audit.bom_revision, r)'
    <3>1. CASE r = c.row
      BY <1>4, <1>5, <3>1 DEF Current
    <3>2. CASE r # c.row
      BY <1>1, <1>4, <1>5, <2>1, <3>2 DEF IInv, LogEndsCurrent, Current
    <3> QED BY <3>1, <3>2
  <2> QED BY <2>2, <2>3 DEF LogEndsCurrent
<1> QED BY <1>6, <1>7, <1>8, <1>9, <1>10, <1>11, StepKeeps DEF StepOK, OwnIdentifier, Making

-----------------------------------------------------------------------------
(* Products, and failures. *)

LEMMA RecordsOfProducts ==
  ASSUME IInv, NEW t \in Session, NEW p \in Product, Records(t, p)
  PROVE  product[p] # NULL
BY IdentifiersDistinct DEF IInv, TypeOK, CallType, RecordOK, Records, Recording

(* A row of product p is written, and its audit row comes next. *)
LEMMA WrittenKeeps ==
  ASSUME IInv, NEW s \in Session, pc[s] \notin Recording, NEW p \in Product,
         NEW old \in ProductRow \cup {NULL}, NEW new \in ProductRow,
         NEW l \in {"product.create.audit", "product.update.audit"},
         Proceed(s, l, [row |-> p, old |-> old, new |-> new]),
         product' = [product EXCEPT ![p] = new], UNCHANGED <<revision, audit, misnumbered>>,
         unlogged' \subseteq Product \cup Revision,
         \A x : x # p => (x \in unlogged <=> x \in unlogged'),
         (\E t \in Session : Records(t, p)) => p \in unlogged'
  PROVE  IInv'
<1> DEFINE d == [row |-> p, old |-> old, new |-> new]
<1>1. d \in [row : Product, old : ProductRow \cup {NULL}, new : ProductRow]
      /\ d.row = p /\ d.new = new
  OBVIOUS
<1> HIDE DEF d
<1>2. /\ Shape' /\ pc'[s] = l /\ call'[s] = d /\ Others(s)
      /\ answer' \in [Session -> Answer]
  BY ProceedEffect DEF d, IInv, TypeOK
<1>3. /\ product' \in [Product -> ProductRow \cup {NULL}] /\ product'[p] = new /\ new # NULL
      /\ \A q \in Product : q # p => product'[q] = product[q]
  BY NullDistinct DEF IInv, TypeOK
<1>4. Evolves(s)
  BY <1>3 DEF Evolves
<1>5. LocalsOK(s)'
  BY <1>1, <1>2, <1>3 DEF LocalsOK, CallType, MakingOK, NumberOK, RecordOK, Making
<1>6. TablesOK' /\ NumbersOK'
  BY <1>2, <1>3 DEF IInv, TypeOK, TablesOK, NumbersOK, VersionsDistinct, MinorsAreNumbers,
     VersionsOf, RevisionsOf
<1>7. LogEndsCurrent'
  <2>1. \A x : \A t \in Session : Records(t, x) => Records(t, x)'
    BY <1>2 DEF Records, Others
  <2>2. pc'[s] \in Recording /\ call'[s].row = p
    BY <1>1, <1>2 DEF Recording
  <2>3. ASSUME NEW q \in Product PROVE Current(product, audit.product, q)'
    <3>1. CASE q = p
      BY <2>2, <3>1 DEF Current, Records
    <3>2. CASE q # p
      BY <1>3, <2>1, <3>2 DEF IInv, LogEndsCurrent, Current
    <3> QED BY <3>1, <3>2
  <2>4. ASSUME NEW r \in Revision PROVE Current(revision, audit.bom_revision, r)'
    <3>1. r # p
      BY IdentifiersDistinct
    <3> QED BY <2>1, <3>1 DEF IInv, LogEndsCurrent, Current
  <2> QED BY <2>3, <2>4 DEF LogEndsCurrent
<1>8. OwnIdentifier(s)
  BY <1>2 DEF OwnIdentifier, Making
<1> QED BY <1>2, <1>4, <1>5, <1>6, <1>7, <1>8, StepKeeps DEF StepOK

LEMMA ProductCreateKeeps ==
  ASSUME IInv, NEW s \in Session, NEW p \in Product, NEW name \in Name,
         product_create(s, p, name)
  PROVE  IInv'
<1>1. \A t \in Session : ~Records(t, p)
  BY RecordsOfProducts DEF product_create
<1>2. [name |-> name] \in ProductRow /\ pc[s] \notin Recording
  BY DEF ProductRow, product_create, At, Recording
<1>3. unlogged' = unlogged /\ unlogged' \subseteq Product \cup Revision
  BY DEF product_create, history, IInv, TypeOK
<1> DEFINE new == [name |-> name]
<1>4. /\ Proceed(s, "product.create.audit", [row |-> p, old |-> NULL, new |-> new])
      /\ product' = [product EXCEPT ![p] = new] /\ UNCHANGED <<revision, audit, misnumbered>>
  BY DEF product_create, history
<1> HIDE DEF new
<1> QED BY <1>1, <1>2, <1>3, <1>4, WrittenKeeps DEF new

LEMMA ProductWriteKeeps ==
  ASSUME IInv, NEW s \in Session, writeProductUpdate(s)
  PROVE  IInv'
<1> DEFINE c == call[s]
           new == [product[c.row] EXCEPT !.name = c.name]
<1>1. /\ c.row \in Product /\ c.old \in ProductRow /\ c.name \in Name
      /\ product[c.row] \in ProductRow /\ pc[s] \notin Recording
  BY DEF writeProductUpdate, At, IInv, TypeOK, CallType, RecordOK, Recording
<1>2. new \in ProductRow
  BY <1>1 DEF ProductRow
<1>3. unlogged' \subseteq Product \cup Revision
      /\ (\A x : x # c.row => (x \in unlogged <=> x \in unlogged'))
      /\ ((\E t \in Session : Records(t, c.row)) => c.row \in unlogged')
  BY <1>1 DEF writeProductUpdate, IInv, TypeOK
<1>4. /\ Proceed(s, "product.update.audit", [row |-> c.row, old |-> c.old, new |-> new])
      /\ product' = [product EXCEPT ![c.row] = new] /\ UNCHANGED <<revision, audit, misnumbered>>
  BY DEF writeProductUpdate
<1> HIDE DEF new, c
<1> QED BY <1>1, <1>2, <1>3, <1>4, WrittenKeeps

LEMMA ProductUpdateKeeps ==
  ASSUME IInv, NEW s \in Session, NEW p \in Product, NEW name \in Name,
         product_update(s, p, name)
  PROVE  IInv'
<1> DEFINE c == [row |-> p, old |-> product[p], name |-> name]
<1>1. c \in [row : Product, old : ProductRow, name : Name] /\ c.row = p /\ product[p] # NULL
  BY DEF product_update, IInv, TypeOK
<1>2. Proceed(s, "product.update", c) /\ pc[s] = "idle" /\ UNCHANGED <<tables, history>>
  BY DEF product_update, At
<1> HIDE DEF c
<1>3. /\ Shape' /\ pc'[s] = "product.update" /\ call'[s] = c /\ Others(s)
      /\ answer' \in [Session -> Answer]
  BY <1>2, ProceedEffect DEF IInv, TypeOK
<1>4. LocalsOK(s)'
  BY <1>1, <1>2, <1>3 DEF LocalsOK, CallType, MakingOK, NumberOK, RecordOK, Making, tables
<1> QED BY <1>2, <1>3, <1>4, QuietKeeps DEF OwnIdentifier, Making, Recording

LEMMA AuditProductKeeps ==
  ASSUME IInv, NEW s \in Session, NEW l \in {"product.create.audit", "product.update.audit"},
         auditProduct(s, l)
  PROVE  IInv'
<1> DEFINE c == call[s]
<1>1. /\ pc[s] = l /\ Respond(s, "ok") /\ UNCHANGED <<product, revision, history>>
      /\ audit' = [audit EXCEPT !.product[c.row] = recordChange(c.old, c.new)]
  BY DEF auditProduct, At
<1>2. /\ c.row \in Product /\ c.old \in ProductRow \cup {NULL} /\ c.new \in ProductRow
      /\ c.row \in unlogged \/ c.new = product[c.row]
  BY <1>1 DEF IInv, TypeOK, CallType, RecordOK
<1>3. /\ audit' \in Audit /\ audit'.bom_revision = audit.bom_revision
      /\ audit'.product[c.row] # NULL /\ audit'.product[c.row].new = c.new
      /\ \A q \in Product : q # c.row => audit'.product[q] = audit.product[q]
  BY <1>1, <1>2, ProductLogged DEF IInv, TypeOK
<1>4. /\ Shape' /\ pc'[s] = "idle" /\ call'[s] = NULL /\ Others(s)
      /\ answer' \in [Session -> Answer]
  BY <1>1, RespondEffect DEF IInv, TypeOK, Answer
<1>5. LocalsOK(s)'
  BY <1>4 DEF LocalsOK, CallType, MakingOK, NumberOK, RecordOK, Making
<1>6. TablesOK' /\ NumbersOK' /\ Evolves(s)
  BY <1>1, <1>3, <1>4 DEF IInv, TypeOK, TablesOK, NumbersOK, history, VersionsDistinct,
     MinorsAreNumbers, VersionsOf, RevisionsOf, Evolves
<1>7. LogEndsCurrent'
  <2>1. \A x : \A t \in Session : t # s /\ Records(t, x) => Records(t, x)'
    BY <1>4 DEF Records, Others
  <2>2. \A x : Records(s, x) => x = c.row
    BY DEF Records
  <2>3. ASSUME NEW p \in Product PROVE Current(product, audit.product, p)'
    <3>1. CASE p = c.row
      BY <1>1, <1>2, <1>3, <3>1 DEF Current, history
    <3>2. CASE p # c.row
      BY <1>1, <1>3, <2>1, <2>2, <3>2 DEF IInv, LogEndsCurrent, Current, history
    <3> QED BY <3>1, <3>2
  <2>4. ASSUME NEW r \in Revision PROVE Current(revision, audit.bom_revision, r)'
    <3>1. r # c.row
      BY <1>2, IdentifiersDistinct
    <3> QED BY <1>1, <1>3, <2>1, <2>2, <3>1 DEF IInv, LogEndsCurrent, Current, history
  <2> QED BY <2>3, <2>4 DEF LogEndsCurrent
<1> QED BY <1>4, <1>5, <1>6, <1>7, StepKeeps DEF StepOK, OwnIdentifier, Making

LEMMA FailKeeps ==
  ASSUME IInv, NEW s \in Session, Fail(s)
  PROVE  IInv'
<1>1. /\ Respond(s, "cut") /\ UNCHANGED <<tables, misnumbered>>
      /\ unlogged' = unlogged \cup {x \in Product \cup Revision : Records(s, x)}
  BY DEF Fail
<1>2. /\ Shape' /\ pc'[s] = "idle" /\ call'[s] = NULL /\ Others(s)
      /\ answer' \in [Session -> Answer]
  BY <1>1, RespondEffect DEF IInv, TypeOK, Answer
<1>3. LocalsOK(s)'
  BY <1>2 DEF LocalsOK, CallType, MakingOK, NumberOK, RecordOK, Making
<1>4. TablesOK' /\ NumbersOK' /\ Evolves(s)
  BY <1>1, <1>2 DEF IInv, TypeOK, TablesOK, NumbersOK, tables, VersionsDistinct,
     MinorsAreNumbers, VersionsOf, RevisionsOf, Evolves
<1>5. LogEndsCurrent'
  <2>1. \A x : \A t \in Session : t # s /\ Records(t, x) => Records(t, x)'
    BY <1>2 DEF Records, Others
  <2>2. \A x \in Product \cup Revision : Records(s, x) => x \in unlogged'
    BY <1>1
  <2>3. \A p \in Product : Current(product, audit.product, p)'
    BY <1>1, <2>1, <2>2 DEF IInv, LogEndsCurrent, Current, tables
  <2>4. \A r \in Revision : Current(revision, audit.bom_revision, r)'
    BY <1>1, <2>1, <2>2 DEF IInv, LogEndsCurrent, Current, tables
  <2> QED BY <2>3, <2>4 DEF LogEndsCurrent
<1> QED BY <1>2, <1>3, <1>4, <1>5, StepKeeps DEF StepOK, OwnIdentifier, Making

-----------------------------------------------------------------------------
(* The invariant. *)

LEMMA InitOK ==
  ASSUME Init
  PROVE  IInv
<1>1. TypeOK
  BY DEF Init, TypeOK, Audit, Answer, NoRequests, Shape, CallType
<1>2. VersionsDistinct /\ MinorsAreNumbers /\ LogEndsCurrent
  BY DEF Init, VersionsDistinct, MinorsAreNumbers, LogEndsCurrent, Current
<1>3. MakersDistinct /\ \A s \in Session : MakingOK(s) /\ NumberOK(s) /\ RecordOK(s)
  BY DEF Init, NoRequests, MakersDistinct, MakingOK, NumberOK, RecordOK, Making
<1> QED BY <1>1, <1>2, <1>3 DEF IInv

LEMMA StutterKeeps ==
  ASSUME IInv, UNCHANGED vars
  PROVE  IInv'
BY DEF vars, requests, tables, history, IInv, TypeOK, Shape, CallType, MakersDistinct,
   MakingOK, NumberOK, RecordOK, VersionsDistinct, MinorsAreNumbers, LogEndsCurrent, Current,
   Records, VersionsOf, RevisionsOf

LEMMA NextKeeps ==
  ASSUME IInv, [Next]_vars
  PROVE  IInv'
<1>1. ASSUME NEW s \in Session, BomRequest(s) PROVE IInv'
  BY <1>1, OperationsKeep, CreateRevisionKeeps, CreateAlternativeKeeps DEF BomRequest
<1>2. ASSUME NEW s \in Session, BomStep(s) PROVE IInv'
  BY <1>2, NumberRevisionKeeps, InsertRevisionKeeps, AuditRevisionKeeps, NumberAlternativeKeeps,
     CommitAlternativeKeeps DEF BomStep
<1>3. ASSUME NEW s \in Session, ProductRequest(s) PROVE IInv'
  BY <1>3, OperationsKeep, ProductCreateKeeps, ProductUpdateKeeps DEF ProductRequest
<1>4. ASSUME NEW s \in Session, ProductStep(s) PROVE IInv'
  BY <1>4, ProductWriteKeeps, AuditProductKeeps
     DEF ProductStep, auditProductCreate, auditProductUpdate
<1>5. ASSUME NEW s \in Session, WorkOrderRequest(s) PROVE IInv'
  BY <1>5, OperationsKeep, RefusalsKeep DEF WorkOrderRequest
<1> QED BY <1>1, <1>2, <1>3, <1>4, <1>5, RefusalsKeep, FailKeeps, StutterKeeps DEF Next

(* Everything IInv says holds in every state of the services (BomService,  *)
(* ProductService, WorkOrderService): the types of rows and locals, what   *)
(* each request may rely on at each await, and the three properties.       *)
THEOREM Invariance == Spec => []IInv
BY InitOK, NextKeeps, PTL DEF Spec

(* Two revisions of a product with one number were not both numbered by    *)
(* what was there (createRevision, createAlternative).                     *)
THEOREM VersionsStayDistinct == Spec => []VersionsDistinct
<1>1. IInv => VersionsDistinct
  BY DEF IInv
<1> QED BY <1>1, Invariance, PTL

(* "-Infinity" is drawn beside versions typed with zeros only.             *)
THEOREM MinorsStayNumbers == Spec => []MinorsAreNumbers
<1>1. IInv => MinorsAreNumbers
  BY DEF IInv
<1> QED BY <1>1, Invariance, PTL

(* The audit log ends with the rows as they are (recordChange), or the     *)
(* step that broke it off is on record.                                    *)
THEOREM LogStaysCurrent == Spec => []LogEndsCurrent
<1>1. IInv => LogEndsCurrent
  BY DEF IInv
<1> QED BY <1>1, Invariance, PTL
-----------------------------------------------------------------------------
(* The services implement the catalogue. *)

LEMMA CataloguedVersions ==
  ASSUME TypeOK, NEW p \in Product
  PROVE  Catalogue!Catalogued(p) = VersionsOf(p)
<1>1. \A r \in Revision : /\ Entered[r] # NULL <=> revision[r] # NULL
                          /\ revision[r] # NULL =>
                               /\ Entered[r].product = revision[r].product
                               /\ Entered[r].version = revision[r].version
  BY EntriesNotNull DEF Entered, TypeOK, RevisionRow
<1> HIDE DEF Entered
<1> QED BY <1>1 DEF Catalogue!Catalogued, VersionsOf, RevisionsOf

LEMMA EntersCatalogue ==
  ASSUME IInv, NEW c, Fits(c), insertDraft(c)
  PROVE  Catalogue!Next
<1> DEFINE new == [product |-> c.product, version |-> c.version]
<1>1. /\ c.row \in Revision /\ c.product \in Product /\ c.version \in Version
      /\ NewRevision(c.product, c.version) # NULL
      /\ revision'[c.row] = NewRevision(c.product, c.version)
      /\ \A r \in Revision : r # c.row => revision'[r] = revision[r]
      /\ revision[c.row] = NULL
  BY InsertedRows DEF IInv, Fits
<1>2. new # NULL /\ new.product = c.product /\ new.version = c.version
  BY <1>1, EntriesNotNull
<1>3. Entered' = [Entered EXCEPT ![c.row] = new]
  <2>1. revision'[c.row].product = c.product /\ revision'[c.row].version = c.version
    BY <1>1 DEF NewRevision
  <2>2. ASSUME NEW r \in Revision
        PROVE  Entered'[r] = (IF r = c.row THEN new ELSE Entered[r])
    BY <1>1, <2>1 DEF Entered
  <2> QED BY <1>1, <2>2 DEF Entered
<1>4. Entered[c.row] = NULL /\ Entered'[c.row] = new
  BY <1>1, <1>3 DEF Entered
<1>5. Catalogue!Catalogued(c.product) = VersionsOf(c.product)
  BY <1>1, CataloguedVersions DEF IInv
<1>6. \/ Catalogue!Highest(c.product, c.version) /\ misnumbered' = misnumbered
      \/ Catalogue!NextInSeries(c.product, c.version) /\ misnumbered' = misnumbered
      \/ misnumbered' = misnumbered \cup {c.row}
  <2>1. CASE c.sure /\ VersionsOf(c.product) \subseteq c.seen
    <3>1. c.seen = VersionsOf(c.product) /\ misnumbered' = misnumbered
      BY <2>1 DEF Fits, insertDraft
    <3>2. Above(c.version, VersionsOf(c.product)) \/ NextOf(c.version, VersionsOf(c.product))
      BY <2>1, <3>1 DEF Fits
    <3>3. VersionsOf(c.product) \subseteq Version
      BY VersionsTyped DEF IInv
    <3>4. Above(c.version, VersionsOf(c.product)) => Catalogue!Highest(c.product, c.version)
      BY <1>5 DEF Catalogue!Highest, Above, compareVersions, Catalogue!compareVersions
    <3>5. NextOf(c.version, VersionsOf(c.product)) => Catalogue!NextInSeries(c.product, c.version)
      BY <1>1, <1>5, <3>3 DEF Catalogue!NextInSeries, NextOf, Version, Minor, NegInfinity
    <3> QED BY <3>1, <3>2, <3>4, <3>5
  <2>2. CASE ~(c.sure /\ VersionsOf(c.product) \subseteq c.seen)
    BY <2>2 DEF insertDraft
  <2> QED BY <2>1, <2>2
<1>7. c.version \in Catalogue!Version
  BY <1>1 DEF Version, Minor, NegInfinity, Catalogue!Version, Catalogue!Minor, Catalogue!NegInfinity
<1> HIDE DEF new
<1>8. Catalogue!Enter(c.row)
  BY <1>1, <1>2, <1>3, <1>4, <1>6, <1>7 DEF Catalogue!Enter, new
<1> QED BY <1>1, <1>2, <1>4, <1>8 DEF Catalogue!Next

LEMMA CatalogueSteps ==
  ASSUME IInv, Next
  PROVE  Catalogue!Next \/ UNCHANGED <<Entered, misnumbered>>
<1>1. PICK s \in Session :
        BomRequest(s) \/ ProductRequest(s) \/ WorkOrderRequest(s) \/ BomStep(s)
        \/ ProductStep(s) \/ forUpdate(s) \/ Fail(s)
  BY DEF Next
<1>2. CASE insertRevision(s) \/ commitAlternative(s)
  <2>1. insertDraft(call[s]) /\ pc[s] \in {"createRevision.insert", "createAlternative.commit"}
    BY <1>2 DEF insertRevision, commitAlternative, At
  <2> QED BY <2>1, MakersFit, EntersCatalogue
<1>3. CASE ~(insertRevision(s) \/ commitAlternative(s))
  <2>1. ASSUME BomRequest(s) PROVE UNCHANGED <<revision, misnumbered>>
    BY <2>1 DEF BomRequest, createRevision, createAlternative, updateRevision, deleteRevision,
       submitRevision, approveRevision, activateRevision, addMaterial, updateMaterial,
       deleteMaterial, ensureDraft, Transaction, tables, history
  <2>2. ASSUME BomStep(s) PROVE UNCHANGED <<revision, misnumbered>>
    BY <1>3, <2>2 DEF BomStep, numberRevision, auditRevision, numberAlternative, tables, history
  <2>3. ASSUME ProductRequest(s) \/ ProductStep(s) \/ WorkOrderRequest(s) \/ forUpdate(s) \/ Fail(s)
        PROVE  UNCHANGED <<revision, misnumbered>>
    BY <2>3 DEF ProductRequest, ProductStep, WorkOrderRequest, product_create, product_update,
       product_delete, writeProductUpdate, auditProductCreate, auditProductUpdate, auditProduct,
       createWorkOrder, releaseWorkOrder, Transaction, forUpdate, Fail, tables, history
  <2> QED BY <1>1, <2>1, <2>2, <2>3 DEF Entered
<1> QED BY <1>2, <1>3

(* Every statement of createRevision and createAlternative is a step of    *)
(* the catalogue or leaves it as it is: revisions keep their numbers, and  *)
(* each new one is above the others or next in its series, but for those   *)
(* VersionsDistinct excepts.                                               *)
THEOREM CatalogueImplemented == Spec => ImplementsCatalogue
<1>1. Init => Catalogue!Init
  BY DEF Init, Catalogue!Init, Entered
<1>2. IInv /\ [Next]_vars => [Catalogue!Next]_<<Entered, misnumbered>>
  <2>1. UNCHANGED vars => UNCHANGED <<Entered, misnumbered>>
    BY DEF vars, tables, history, Entered
  <2> QED BY <2>1, CatalogueSteps
<1> QED BY <1>1, <1>2, Invariance, PTL DEF Spec, ImplementsCatalogue, Catalogue!Spec
=============================================================================
