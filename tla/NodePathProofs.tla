--------------------------- MODULE NodePathProofs ---------------------------
(***************************************************************************)
(* Proofs about the paths of NodeService: no two rows ever have the same   *)
(* one, and until a request is overtaken they follow the parents.          *)
(***************************************************************************)
EXTENDS NodeProofs, WellFoundedInduction

-----------------------------------------------------------------------------
(* Sequences. *)

LEMMA PathIsSeq ==
  ASSUME NEW p \in Path
  PROVE  /\ p \in Seq(Label) /\ Len(p) \in Nat /\ Len(p) > 0 /\ p # <<>>
         /\ \A i \in 1..Len(p) : p[i] \in Label
<1>1. p \in Seq(Label) /\ p # <<>>
  BY DEF Path
<1>2. Len(p) \in Nat /\ Len(p) # 0
  BY <1>1, EmptySeq
<1> QED BY <1>1, <1>2

LEMMA LastOfSingle ==
  ASSUME NEW l \in Label
  PROVE  Len(<<l>>) = 1 /\ <<l>>[1] = l /\ Last(<<l>>) = l
BY DEF Last

LEMMA LastOfAppend ==
  ASSUME NEW p \in Path, NEW l \in Label
  PROVE  /\ Last(Append(p, l)) = l /\ Front(Append(p, l)) = p
         /\ Len(Append(p, l)) = Len(p) + 1
<1>1. p \in Seq(Label) /\ Len(p) \in Nat
  BY PathIsSeq
<1>2. Append(p, l) \in Seq(Label) /\ Len(Append(p, l)) = Len(p) + 1 /\ Append(p, l)[Len(p) + 1] = l
  BY <1>1, AppendProperties
<1>3. SubSeq(Append(p, l), 1, Len(p)) = p
  BY <1>1, HeadTailAppend, AppendProperties
<1> QED BY <1>2, <1>3, <1>1 DEF Last, Front

LEMMA FrontIsPath ==
  ASSUME NEW p \in Path, Len(p) > 1
  PROVE  /\ Front(p) \in Path /\ Len(Front(p)) = Len(p) - 1
         /\ \A i \in 1 .. Len(p) - 1 : Front(p)[i] = p[i]
         /\ Append(Front(p), Last(p)) = p
<1>1. p \in Seq(Label) /\ Len(p) \in Nat
  BY PathIsSeq
<1>2. Front(p) \in Seq(Label) /\ Len(Front(p)) = Len(p) - 1
  <2>1. \A i \in 1 .. Len(p) - 1 : p[i] \in Label
    BY <1>1
  <2> QED BY <1>1, <2>1, SubSeqProperties DEF Front
<1>3. \A i \in 1 .. Len(p) - 1 : Front(p)[i] = p[i]
  BY <1>1, SubSeqProperties DEF Front
<1>4. Front(p) # <<>>
  BY <1>2
<1>5. Append(Front(p), Last(p)) = p
  <2>1. Last(p) \in Label
    BY <1>1 DEF Last
  <2>2. /\ Append(Front(p), Last(p)) \in Seq(Label) /\ Len(Append(Front(p), Last(p))) = Len(p)
        /\ Append(Front(p), Last(p))[Len(p)] = Last(p)
        /\ \A i \in 1 .. Len(p) - 1 : Append(Front(p), Last(p))[i] = Front(p)[i]
    BY <1>1, <1>2, <2>1, AppendProperties
  <2>3. \A i \in 1 .. Len(p) : Append(Front(p), Last(p))[i] = p[i]
    BY <1>1, <1>3, <2>2 DEF Last
  <2> QED BY <1>1, <2>2, <2>3, SeqEqual
<1> QED BY <1>2, <1>3, <1>4, <1>5 DEF Path

(* What is above a path lies at the same places. *)
LEMMA PrefixPlaces ==
  ASSUME NEW old \in Path, NEW p \in Path
  PROVE  IsPrefix(old, p) <=> Len(old) <= Len(p) /\ \A i \in 1..Len(old) : old[i] = p[i]
<1>1. old \in Seq(Label) /\ p \in Seq(Label) /\ Len(old) \in Nat /\ Len(p) \in Nat
  BY PathIsSeq
<1>2. SubSeq(old, 1, Len(old)) = old
  BY <1>1, SubSeqFull
<1>3. ASSUME Len(old) <= Len(p)
      PROVE  /\ SubSeq(p, 1, Len(old)) \in Seq(Label) /\ Len(SubSeq(p, 1, Len(old))) = Len(old)
             /\ \A i \in 1..Len(old) : SubSeq(p, 1, Len(old))[i] = p[i]
  <2>1. \A i \in 1..Len(old) : p[i] \in Label
    BY <1>1, <1>3
  <2> QED BY <1>1, <1>3, <2>1, SubSeqProperties
<1>4. CASE Len(old) <= Len(p)
  <2>1. old = SubSeq(p, 1, Len(old)) <=> \A i \in 1..Len(old) : old[i] = p[i]
    BY <1>1, <1>3, <1>4, SeqEqual
  <2> QED BY <1>2, <1>4, <2>1 DEF IsPrefix
<1>5. CASE ~(Len(old) <= Len(p))
  BY <1>5 DEF IsPrefix
<1> QED BY <1>4, <1>5

LEMMA PrefixOfSameLength ==
  ASSUME NEW old \in Path, NEW p \in Path, IsPrefix(old, p)
  PROVE  /\ Len(old) <= Len(p) /\ (Len(p) = Len(old) <=> p = old)
         /\ Len(old) < Len(p) => IsPrefix(old, Front(p)) /\ Len(p) > 1
<1>1. old \in Seq(Label) /\ p \in Seq(Label) /\ Len(old) \in Nat /\ Len(p) \in Nat /\ Len(old) > 0
  BY PathIsSeq
<1>2. Len(old) <= Len(p) /\ \A i \in 1..Len(old) : old[i] = p[i]
  BY PrefixPlaces
<1>3. Len(p) = Len(old) => p = old
  BY <1>1, <1>2, SeqEqual
<1>4. Len(old) < Len(p) => IsPrefix(old, Front(p)) /\ Len(p) > 1
  <2>1. SUFFICES ASSUME Len(old) < Len(p) PROVE IsPrefix(old, Front(p)) /\ Len(p) > 1
    OBVIOUS
  <2>2. Len(p) > 1
    BY <1>1, <2>1
  <2>3. /\ Front(p) \in Path /\ Len(Front(p)) = Len(p) - 1
        /\ \A i \in 1 .. Len(p) - 1 : Front(p)[i] = p[i]
    BY <2>2, FrontIsPath
  <2>4. Len(old) <= Len(Front(p)) /\ \A i \in 1..Len(old) : old[i] = Front(p)[i]
    BY <1>1, <1>2, <2>1, <2>3
  <2> QED BY <2>2, <2>3, <2>4, PrefixPlaces
<1> QED BY <1>2, <1>3, <1>4

(* Taking the last label off, and moving what is above: in either order.   *)
LEMMA RebasedPlaces ==
  ASSUME NEW p \in Path, NEW old \in Path, NEW new \in Path, Len(old) <= Len(p)
  PROVE  LET r == Rebased(p, old, new) IN
         /\ r \in Path /\ Len(r) = Len(new) + Len(p) - Len(old)
         /\ \A i \in 1..Len(new) : r[i] = new[i]
         /\ \A i \in Len(new) + 1 .. Len(r) : r[i] = p[i - Len(new) + Len(old)]
<1> DEFINE rest == SubSeq(p, Len(old) + 1, Len(p))
<1>1. /\ p \in Seq(Label) /\ old \in Seq(Label) /\ new \in Seq(Label)
      /\ Len(p) \in Nat /\ Len(old) \in Nat /\ Len(new) \in Nat
  BY PathIsSeq
<1>2. /\ rest \in Seq(Label) /\ Len(rest) = Len(p) - Len(old)
      /\ \A i \in 1..Len(rest) : rest[i] = p[i + Len(old)]
  <2>1. \A i \in Len(old) + 1 .. Len(p) : p[i] \in Label
    BY <1>1
  <2>2. rest \in Seq(Label) /\ Len(rest) = Len(p) - Len(old)
    BY <1>1, <2>1, SubSeqProperties
  <2>3. \A i \in 1 .. Len(p) - Len(old) : rest[i] = p[Len(old) + 1 + i - 1]
    BY <1>1, <2>1, SubSeqProperties
  <2> QED BY <1>1, <2>2, <2>3
<1> HIDE DEF rest
<1> DEFINE r == new \o rest
<1>3. /\ Len(r) = Len(new) + Len(rest)
      /\ \A i \in 1..Len(r) : r[i] = IF i <= Len(new) THEN new[i] ELSE rest[i - Len(new)]
  BY <1>1, <1>2, ConcatProperties
<1>4. r \in Path
  BY RebasedIsPath DEF Rebased, rest
<1> HIDE DEF r
<1>5. \A i \in Len(new) + 1 .. Len(r) : r[i] = p[i - Len(new) + Len(old)]
  <2>1. TAKE i \in Len(new) + 1 .. Len(r)
  <2>2. i \in 1..Len(r) /\ ~(i <= Len(new)) /\ i - Len(new) \in 1..Len(rest)
    BY <1>1, <1>2, <1>3
  <2>3. r[i] = rest[i - Len(new)]
    BY <1>3, <2>2
  <2> QED BY <1>2, <2>2, <2>3
<1>6. \A i \in 1..Len(new) : r[i] = new[i]
  <2>1. TAKE i \in 1..Len(new)
  <2>2. i \in 1..Len(r) /\ i <= Len(new)
    BY <1>1, <1>2, <1>3
  <2> QED BY <1>3, <2>2
<1>7. Rebased(p, old, new) = r
  BY DEF Rebased, r, rest
<1> QED BY <1>1, <1>2, <1>3, <1>4, <1>5, <1>6, <1>7

LEMMA RebasedFront ==
  ASSUME NEW p \in Path, NEW old \in Path, NEW new \in Path, Len(old) < Len(p)
  PROVE  /\ Front(Rebased(p, old, new)) = Rebased(Front(p), old, new)
         /\ Last(Rebased(p, old, new)) = Last(p)
         /\ Len(Rebased(p, old, new)) > 1
<1> DEFINE r == Rebased(p, old, new)
           q == Rebased(Front(p), old, new)
<1>1. /\ Len(p) \in Nat /\ Len(old) \in Nat /\ Len(new) \in Nat /\ Len(old) > 0 /\ Len(new) > 0
      /\ Len(p) > 1
  BY PathIsSeq
<1>2. /\ Front(p) \in Path /\ Len(Front(p)) = Len(p) - 1
      /\ \A i \in 1 .. Len(p) - 1 : Front(p)[i] = p[i]
  BY <1>1, FrontIsPath
<1>3. /\ r \in Path /\ Len(r) = Len(new) + Len(p) - Len(old)
      /\ \A i \in 1..Len(new) : r[i] = new[i]
      /\ \A i \in Len(new) + 1 .. Len(r) : r[i] = p[i - Len(new) + Len(old)]
  BY RebasedPlaces
<1>4. /\ q \in Path /\ Len(q) = Len(new) + Len(p) - 1 - Len(old)
      /\ \A i \in 1..Len(new) : q[i] = new[i]
      /\ \A i \in Len(new) + 1 .. Len(q) : q[i] = Front(p)[i - Len(new) + Len(old)]
  <2>1. Len(old) <= Len(Front(p))
    BY <1>1, <1>2
  <2>2. /\ q \in Path /\ Len(q) = Len(new) + Len(Front(p)) - Len(old)
        /\ \A i \in 1..Len(new) : q[i] = new[i]
        /\ \A i \in Len(new) + 1 .. Len(q) : q[i] = Front(p)[i - Len(new) + Len(old)]
    BY <1>2, <2>1, RebasedPlaces
  <2>3. Len(new) + Len(Front(p)) - Len(old) = Len(new) + Len(p) - 1 - Len(old)
    BY <1>1, <1>2
  <2> QED BY <2>2, <2>3
<1> HIDE DEF r, q
<1>5. Len(r) > 1 /\ Last(r) = Last(p)
  <2>1. Len(r) > 1 /\ Len(r) \in Len(new) + 1 .. Len(r) /\ Len(r) - Len(new) + Len(old) = Len(p)
    BY <1>1, <1>3
  <2> QED BY <1>3, <2>1 DEF Last
<1>6. /\ Front(r) \in Path /\ Len(Front(r)) = Len(r) - 1
      /\ \A i \in 1 .. Len(r) - 1 : Front(r)[i] = r[i]
  BY <1>3, <1>5, FrontIsPath
<1>7. \A i \in 1..Len(q) : Front(r)[i] = q[i]
  <2>1. TAKE i \in 1..Len(q)
  <2>2. i \in 1 .. Len(r) - 1 /\ Len(q) = Len(r) - 1
    BY <1>1, <1>3, <1>4
  <2>3. CASE i <= Len(new)
    BY <1>1, <1>3, <1>4, <1>6, <2>2, <2>3
  <2>4. CASE i > Len(new)
    <3>1. i \in Len(new) + 1 .. Len(r) /\ i \in Len(new) + 1 .. Len(q)
          /\ i - Len(new) + Len(old) \in 1 .. Len(p) - 1
      BY <1>1, <1>3, <1>4, <2>2, <2>4
    <3> QED BY <1>2, <1>3, <1>4, <1>6, <2>2, <3>1
  <2> QED BY <1>1, <2>3, <2>4
<1>8. Front(r) = q
  <2>1. Front(r) \in Seq(Label) /\ q \in Seq(Label) /\ Len(Front(r)) = Len(q)
    BY <1>1, <1>3, <1>4, <1>6, PathIsSeq
  <2> QED BY <1>7, <2>1, SeqEqual
<1> QED BY <1>5, <1>8 DEF r, q

LEMMA RebasedWhole ==
  ASSUME NEW old \in Path, NEW new \in Path
  PROVE  Rebased(old, old, new) = new
<1>1. Len(old) \in Nat /\ Len(new) \in Nat /\ new \in Seq(Label)
  BY PathIsSeq
<1>2. /\ Rebased(old, old, new) \in Path /\ Len(Rebased(old, old, new)) = Len(new)
      /\ \A i \in 1..Len(new) : Rebased(old, old, new)[i] = new[i]
  BY <1>1, RebasedPlaces
<1> QED BY <1>1, <1>2, PathIsSeq, SeqEqual

-----------------------------------------------------------------------------
(* Whose a path is. *)

(* What is used of the setups.                                             *)
LEMMA SetupFacts ==
  ASSUME TypeOK, SetupsApart, NEW d \in made
  PROVE  /\ d.facility \in Node /\ d.center \in Node /\ d.station \in Node /\ d.facility # d.center
         /\ d.labels[1] \in TimeLabel /\ d.labels[2] \in TimeLabel /\ d.labels[3] \in TimeLabel
         /\ Node \cap TimeLabel = {}
         /\ \A e \in made : d # e =>
              /\ d.facility \notin {e.facility, e.center} /\ d.center \notin {e.facility, e.center}
              /\ d.labels[1] # e.labels[1]
<1>1. d \in DefaultSetup
  BY DEF TypeOK
<1>2. Node \cap TimeLabel = {}
  BY NodeConstants DEF TimeLabel
<1>3. /\ d.facility \in Node /\ d.center \in Node /\ d.station \in Node
      /\ d.labels[1] \in TimeLabel /\ d.labels[2] \in TimeLabel /\ d.labels[3] \in TimeLabel
  <2>1. d.labels \in [1..3 -> TimeLabel] /\ 1 \in 1..3 /\ 2 \in 1..3 /\ 3 \in 1..3
    BY <1>1 DEF DefaultSetup
  <2> QED BY <1>1, <2>1 DEF DefaultSetup
<1>4. d.facility # d.center
  BY DEF SetupsApart
<1>5. ASSUME NEW e \in made, d # e
      PROVE  /\ d.facility \notin {e.facility, e.center} /\ d.center \notin {e.facility, e.center}
             /\ d.labels[1] # e.labels[1]
  BY <1>5 DEF SetupsApart, Defaults
<1> QED BY <1>2, <1>3, <1>4, <1>5

LEMMA FacilitiesDiffer ==
  ASSUME TypeOK, SetupsApart, NEW d \in made, NEW e \in made, NEW p \in Path,
         AtFacility(d, p), AtFacility(e, p)
  PROVE  d = e
<1>1. FacilityPath(d, p) => Last(p) = d.labels[1]
  BY DEF FacilityPath, Last
<1>2. FacilityPath(e, p) => Last(p) = e.labels[1]
  BY DEF FacilityPath, Last
<1> QED BY <1>1, <1>2, SetupFacts DEF AtFacility

LEMMA FacilityIsNoCenter ==
  ASSUME TypeOK, SetupsApart, NEW d \in made, NEW e \in made, NEW p \in Path,
         AtFacility(d, p), AtCenter(e, p)
  PROVE  FALSE
<1>1. FacilityPath(d, p) => Last(p) = d.labels[1] /\ Len(p) = 1
  BY DEF FacilityPath, Last
<1>2. CenterPath(e, p) => Last(p) = e.labels[2] /\ Len(p) > 1
  BY DEF CenterPath
<1>3. ~(FacilityPath(d, p) /\ CenterPath(e, p))
  BY <1>1, <1>2, PathIsSeq
<1>4. ~(Last(p) = d.facility /\ Last(p) = e.center)
  BY SetupFacts
<1> QED BY <1>1, <1>2, <1>3, <1>4, SetupFacts DEF AtFacility, AtCenter

LEMMA CentersDiffer ==
  ASSUME TypeOK, SetupsApart, NEW d \in made, NEW e \in made, NEW p \in Path,
         AtCenter(d, p), AtCenter(e, p)
  PROVE  d = e
<1>1. CenterPath(d, p) => Last(p) = d.labels[2]
  BY DEF CenterPath
<1>2. CenterPath(e, p) => Last(p) = e.labels[2]
  BY DEF CenterPath
<1>3. CASE CenterPath(d, p) /\ CenterPath(e, p)
  <2>1. Front(p) \in Path /\ AtFacility(d, Front(p)) /\ AtFacility(e, Front(p))
    BY <1>3, FrontIsPath DEF CenterPath
  <2> QED BY <2>1, FacilitiesDiffer
<1> QED BY <1>1, <1>2, <1>3, SetupFacts DEF AtCenter

(* A path says of at most one node that it is its own.                     *)
LEMMA PathsTell ==
  ASSUME TypeOK, SetupsApart, NEW p \in Path, NEW n \in Node, NEW m \in Node,
         PathOf(made, n, p), PathOf(made, m, p)
  PROVE  n = m
<1> DEFINE Default(d, k) ==
             \/ k = d.facility /\ FacilityPath(d, p)
             \/ k = d.center /\ CenterPath(d, p)
             \/ k = d.station /\ StationPath(d, p)
<1>1. ASSUME NEW d \in made, NEW k, Default(d, k)
      PROVE  Last(p) \in TimeLabel
  BY <1>1, SetupFacts DEF FacilityPath, CenterPath, StationPath, Last
<1>2. ASSUME NEW d \in made, NEW e \in made, Default(d, n), Default(e, m)
      PROVE  n = m
  <2>1. FacilityPath(d, p) => AtFacility(d, p) /\ Len(p) = 1
    BY DEF FacilityPath, AtFacility
  <2>2. FacilityPath(e, p) => AtFacility(e, p) /\ Len(p) = 1
    BY DEF FacilityPath, AtFacility
  <2>3. CenterPath(d, p) => AtCenter(d, p) /\ AtFacility(d, Front(p)) /\ Len(p) > 1
    BY DEF CenterPath, AtCenter
  <2>4. CenterPath(e, p) => AtCenter(e, p) /\ AtFacility(e, Front(p)) /\ Len(p) > 1
    BY DEF CenterPath, AtCenter
  <2>5. StationPath(d, p) => AtCenter(d, Front(p)) /\ Len(p) > 1
    BY DEF StationPath
  <2>6. StationPath(e, p) => AtCenter(e, Front(p)) /\ Len(p) > 1
    BY DEF StationPath
  <2>7. Len(p) > 1 => Front(p) \in Path
    BY FrontIsPath
  <2>8. CASE Len(p) = 1
    BY <1>2, <2>1, <2>2, <2>3, <2>4, <2>5, <2>6, <2>8, FacilitiesDiffer
  <2>9. CASE Len(p) # 1
    <3>1. ~FacilityPath(d, p) /\ ~FacilityPath(e, p) /\ Front(p) \in Path
      BY <1>2, <2>1, <2>2, <2>3, <2>5, <2>7, <2>9
    <3>2. ~(CenterPath(d, p) /\ StationPath(e, p))
      BY <2>3, <2>6, <3>1, FacilityIsNoCenter
    <3>3. ~(CenterPath(e, p) /\ StationPath(d, p))
      BY <2>4, <2>5, <3>1, FacilityIsNoCenter
    <3>4. CenterPath(d, p) /\ CenterPath(e, p) => d = e
      BY <2>3, <2>4, CentersDiffer
    <3>5. StationPath(d, p) /\ StationPath(e, p) => d = e
      BY <2>5, <2>6, <3>1, CentersDiffer
    <3> QED BY <1>2, <3>1, <3>2, <3>3, <3>4, <3>5
  <2> QED BY <2>8, <2>9
<1> HIDE DEF Default
<1>3. Last(p) = n \/ \E d \in made : Default(d, n)
  BY DEF PathOf, Default
<1>4. Last(p) = m \/ \E d \in made : Default(d, m)
  BY DEF PathOf, Default
<1>5. Node \cap TimeLabel = {}
  BY NodeConstants DEF TimeLabel
<1> QED BY <1>1, <1>2, <1>3, <1>4, <1>5

-----------------------------------------------------------------------------
(* A move leaves the others' paths their own. *)

LEMMA AtFacilityMoved ==
  ASSUME TypeOK, SetupsApart, NEW n \in Node, NEW old \in Path, NEW new \in Path, NEW q \in Path,
         PathOf(made, n, old), Last(new) = n, IsPrefix(old, q), NEW d \in made, AtFacility(d, q)
  PROVE  AtFacility(d, Rebased(q, old, new))
<1>1. CASE q = old
  <2>1. PathOf(made, d.facility, old) /\ d.facility \in Node
    BY <1>1, SetupFacts DEF AtFacility, PathOf
  <2>2. d.facility = n
    BY <2>1, PathsTell
  <2> QED BY <1>1, <2>2, RebasedWhole DEF AtFacility
<1>2. CASE q # old
  <2>1. Len(old) < Len(q) /\ Len(q) > 1
    BY <1>2, PrefixOfSameLength, PathIsSeq
  <2>2. Last(q) = d.facility
    BY <2>1, PathIsSeq DEF AtFacility, FacilityPath
  <2> QED BY <2>1, <2>2, RebasedFront DEF AtFacility
<1> QED BY <1>1, <1>2

LEMMA AtCenterMoved ==
  ASSUME TypeOK, SetupsApart, NEW n \in Node, NEW old \in Path, NEW new \in Path, NEW q \in Path,
         PathOf(made, n, old), Last(new) = n, IsPrefix(old, q), NEW d \in made, AtCenter(d, q)
  PROVE  AtCenter(d, Rebased(q, old, new))
<1>1. CASE q = old
  <2>1. PathOf(made, d.center, old) /\ d.center \in Node
    BY <1>1, SetupFacts DEF AtCenter, PathOf
  <2>2. d.center = n
    BY <2>1, PathsTell
  <2> QED BY <1>1, <2>2, RebasedWhole DEF AtCenter
<1>2. CASE q # old
  <2>1. Len(old) < Len(q) /\ Len(q) > 1 /\ IsPrefix(old, Front(q)) /\ Front(q) \in Path
    BY <1>2, PrefixOfSameLength, PathIsSeq, FrontIsPath
  <2>2. /\ Last(Rebased(q, old, new)) = Last(q) /\ Len(Rebased(q, old, new)) > 1
        /\ Front(Rebased(q, old, new)) = Rebased(Front(q), old, new)
    BY <2>1, RebasedFront
  <2>3. CenterPath(d, q) => AtFacility(d, Rebased(Front(q), old, new))
    BY <2>1, AtFacilityMoved DEF CenterPath
  <2> QED BY <2>2, <2>3 DEF AtCenter, CenterPath
<1> QED BY <1>1, <1>2

LEMMA PathMoved ==
  ASSUME TypeOK, SetupsApart, NEW n \in Node, NEW old \in Path, NEW new \in Path,
         PathOf(made, n, old), Last(new) = n,
         NEW m \in Node \ {n}, NEW p \in Path, PathOf(made, m, p), IsPrefix(old, p)
  PROVE  PathOf(made, m, Rebased(p, old, new))
<1>1. p # old
  BY PathsTell
<1>2. Len(old) < Len(p) /\ Len(p) > 1 /\ IsPrefix(old, Front(p)) /\ Front(p) \in Path
  BY <1>1, PrefixOfSameLength, PathIsSeq, FrontIsPath
<1>3. /\ Last(Rebased(p, old, new)) = Last(p) /\ Len(Rebased(p, old, new)) > 1
      /\ Front(Rebased(p, old, new)) = Rebased(Front(p), old, new)
  BY <1>2, RebasedFront
<1>4. ASSUME NEW d \in made, CenterPath(d, p)
      PROVE  CenterPath(d, Rebased(p, old, new))
  BY <1>2, <1>3, <1>4, AtFacilityMoved DEF CenterPath
<1>5. ASSUME NEW d \in made, StationPath(d, p)
      PROVE  StationPath(d, Rebased(p, old, new))
  BY <1>2, <1>3, <1>5, AtCenterMoved DEF StationPath
<1>6. ASSUME NEW d \in made PROVE ~FacilityPath(d, p)
  BY <1>2, PathIsSeq DEF FacilityPath
<1> QED BY <1>3, <1>4, <1>5, <1>6 DEF PathOf

-----------------------------------------------------------------------------
(* Every step keeps whose the paths are. *)

LEMMA PathOfGrows ==
  ASSUME NEW D, NEW E, D \subseteq E, NEW n, NEW p, PathOf(D, n, p)
  PROVE  PathOf(E, n, p)
BY DEF PathOf

(* A step that sets up no organization. *)
LEMMA PlacedKept ==
  ASSUME Placed, NEW s \in Session, Others(s), UNCHANGED made, used \subseteq used',
         RowsPlaced', RequestPlaced(s)'
  PROVE  Placed'
<1>1. SetupsApart'
  BY DEF Placed, SetupsApart
<1>2. \A t \in Session : RequestPlaced(t)'
  BY DEF Placed, RequestPlaced, Moving, Others
<1> QED BY <1>1, <1>2 DEF Placed

(* A step that writes no path, of a request that knows none afterwards.    *)
LEMMA PathsUnwritten ==
  ASSUME Placed, NEW s \in Session, Others(s), UNCHANGED made, used \subseteq used',
         \A n \in Node : node'[n] # NULL => node[n] # NULL /\ node'[n].path = node[n].path,
         pc'[s] # "create.insert", ~Moving(s)'
  PROVE  Placed'
<1>1. RowsPlaced'
  BY DEF Placed, RowsPlaced
<1>2. RequestPlaced(s)'
  BY DEF RequestPlaced
<1> QED BY <1>1, <1>2, PlacedKept

LEMMA ChildPathOf ==
  ASSUME TypeOK, NEW n \in Node, NEW p \in Node \cup {NULL}, p # NULL => node[p] # NULL
  PROVE  Last(ChildPath(n, p)) = n
<1>1. n \in Label
  BY DEF Label
<1>2. p # NULL => node[p].path \in Path
  BY DEF TypeOK, NodeRow
<1> QED BY <1>1, <1>2, LastOfSingle, LastOfAppend DEF ChildPath

LEMMA CreatePlaced ==
  ASSUME IInv, Placed, NEW s \in Session, NEW o \in Org, NEW n \in Node, NEW p \in Node \cup {NULL},
         NEW name \in Name, NEW status \in Status, create(s, o, n, name, p, status)
  PROVE  Placed'
<1>1. TypeOK /\ Shape
  BY TypedShape DEF IInv
<1> DEFINE row == Row(o, name, p, ChildPath(n, p), status)
           c == Call(o, n, NULL, row, NULL)
<1>2. c.node = n /\ c.new.path = ChildPath(n, p)
  BY DEF Call, Row
<1>3. Last(ChildPath(n, p)) = n
  BY <1>1, ChildPathOf DEF create, Live
<1>4. Goto(s, "create.insert", c) /\ UNCHANGED <<node, made>> /\ used \subseteq used'
  BY DEF create
<1> HIDE DEF c
<1>5. Others(s) /\ pc'[s] = "create.insert" /\ call'[s] = c
  BY <1>1, <1>4, GotoEffect
<1>6. RowsPlaced'
  BY <1>4 DEF Placed, RowsPlaced
<1>7. RequestPlaced(s)'
  BY <1>2, <1>3, <1>5 DEF RequestPlaced, Moving, PathOf
<1> QED BY <1>4, <1>5, <1>6, <1>7, PlacedKept

LEMMA MovePlaced ==
  ASSUME IInv, Placed, NEW s \in Session, NEW o \in Org, NEW n \in Node, NEW p \in Node \cup {NULL},
         move(s, o, n, p)
  PROVE  Placed'
<1>1. TypeOK /\ Shape
  BY TypedShape DEF IInv
<1> DEFINE c == [Call(o, n, node[n], NULL, NULL) EXCEPT !.parent = p, !.path = <<n>>]
           label == IF p = NULL THEN "move.update" ELSE "move.parent"
<1>2. c.node = n /\ c.old = node[n] /\ c.path = <<n>>
  BY DEF Call
<1>3. Last(<<n>>) = n
  BY LastOfSingle DEF Label
<1>4. PathOf(made, n, node[n].path)
  BY DEF Placed, RowsPlaced, move, Visible, Live
<1>5. Goto(s, label, c) /\ UNCHANGED <<node, made, used>>
  BY DEF move, Unwritten
<1> HIDE DEF c, label
<1>6. Others(s) /\ pc'[s] = label /\ call'[s] = c
  BY <1>1, <1>5, GotoEffect
<1>7. RowsPlaced'
  BY <1>5 DEF Placed, RowsPlaced
<1>8. RequestPlaced(s)'
  BY <1>2, <1>3, <1>4, <1>5, <1>6 DEF RequestPlaced, Moving, label
<1> QED BY <1>5, <1>6, <1>7, <1>8, PlacedKept

(* A move that goes on, or ends. *)
LEMMA MovingPlaced ==
  ASSUME IInv, Placed, NEW s \in Session, readNewParent(s) \/ lockMoved(s) \/ findDescendants(s)
  PROVE  Placed'
<1>1. TypeOK /\ Shape /\ RequestOK(s) /\ RequestPlaced(s) /\ Moving(s) /\ pc[s] # "idle"
  BY TypedShape DEF IInv, RequestsOK, Placed, readNewParent, lockMoved, findDescendants, Moving, At
<1>2. UNCHANGED <<node, made, used>>
  BY DEF readNewParent, lockMoved, findDescendants, Unwritten
<1>3. RowsPlaced'
  BY <1>2 DEF Placed, RowsPlaced
<1>4. call[s] \in NodeCall /\ call[s].node \in Node /\ call[s].parent \in Node \cup {NULL}
  BY <1>1 DEF RequestOK, NodeCall
<1>5. CASE Return(s)
  <2>1. Others(s) /\ pc'[s] = "idle"
    BY <1>1, <1>5, ReturnEffect
  <2> QED BY <1>2, <2>1, PathsUnwritten DEF Moving
<1>6. CASE readNewParent(s) /\ ~Return(s)
  <2> DEFINE path == ChildPath(call[s].node, call[s].parent)
             c == [call[s] EXCEPT !.path = path]
  <2>1. Last(path) = call[s].node
    BY <1>1, <1>4, <1>6, ChildPathOf DEF readNewParent, Visible, Live
  <2>2. Goto(s, "move.update", c)
    BY <1>6 DEF readNewParent
  <2> HIDE DEF path
  <2>3. c.node = call[s].node /\ c.old = call[s].old /\ c.path = path
    BY <1>4 DEF NodeCall
  <2> HIDE DEF c
  <2>4. Others(s) /\ pc'[s] = "move.update" /\ call'[s] = c
    BY <1>1, <2>2, GotoEffect
  <2>5. RequestPlaced(s)'
    BY <1>1, <1>2, <2>1, <2>3, <2>4 DEF RequestPlaced, Moving
  <2> QED BY <1>2, <1>3, <2>4, <2>5, PlacedKept
<1>7. CASE lockMoved(s) /\ ~Return(s)
  <2>1. Others(s) /\ pc'[s] = "move.descendants" /\ call'[s] = call[s]
    BY <1>1, <1>7, GotoEffect DEF lockMoved
  <2>2. RequestPlaced(s)'
    BY <1>1, <1>2, <2>1 DEF RequestPlaced, Moving
  <2> QED BY <1>2, <1>3, <2>1, <2>2, PlacedKept
<1>8. CASE findDescendants(s)
  <2> DEFINE c == [call[s] EXCEPT !.rows = Under(call[s].node, call[s].old.path)]
  <2>1. Goto(s, "move.commit", c)
    BY <1>8 DEF findDescendants
  <2>2. c.node = call[s].node /\ c.old = call[s].old /\ c.path = call[s].path
    BY <1>4 DEF NodeCall
  <2> HIDE DEF c
  <2>3. Others(s) /\ pc'[s] = "move.commit" /\ call'[s] = c
    BY <1>1, <2>1, GotoEffect
  <2>4. RequestPlaced(s)'
    BY <1>1, <1>2, <2>2, <2>3 DEF RequestPlaced, Moving
  <2> QED BY <1>2, <1>3, <2>3, <2>4, PlacedKept
<1> QED BY <1>5, <1>6, <1>7, <1>8

LEMMA InsertPlaced ==
  ASSUME IInv, Placed, NEW s \in Session, insertNode(s)
  PROVE  Placed'
<1>1. TypeOK /\ Shape /\ RequestOK(s) /\ pc[s] = "create.insert" /\ RequestPlaced(s)
  BY TypedShape DEF IInv, RequestsOK, insertNode, At, Placed
<1>2. call[s].node \in Node /\ PathOf(made, call[s].node, call[s].new.path)
  BY <1>1 DEF RequestOK, NodeCall, RequestPlaced
<1>3. /\ Goto(s, "create.audit", call[s]) /\ UNCHANGED <<made, used>>
      /\ node' = [node EXCEPT ![call[s].node] = call[s].new]
  BY DEF insertNode
<1>4. Others(s) /\ pc'[s] = "create.audit"
  BY <1>1, <1>3, GotoEffect
<1>5. RowsPlaced'
  BY <1>1, <1>2, <1>3 DEF Placed, RowsPlaced, TypeOK
<1>6. RequestPlaced(s)'
  BY <1>4 DEF RequestPlaced, Moving
<1> QED BY <1>3, <1>4, <1>5, <1>6, PlacedKept

(* A step that leaves every path alone. *)
LEMMA OtherPlaced ==
  ASSUME IInv, Placed, NEW s \in Session, NEW o \in Org, NEW n \in Node,
         \/ \E name \in Name : update(s, o, n, name)
         \/ changeStatus(s, o, n) \/ delete(s, o, n) \/ auditNode(s)
         \/ checkChildren(s) \/ readLogs(s) \/ forUpdate(s) \/ Fail(s)
  PROVE  Placed'
<1>1. Shape
  BY TypedShape DEF IInv
<1>2. UNCHANGED <<node, made, used>>
  BY DEF update, changeStatus, delete, auditNode, checkChildren, readLogs, forUpdate, Fail, Unwritten
<1>3. \/ Return(s)
      \/ \E c, l : Goto(s, l, c)
           /\ l \in {"update", "changeStatus", "delete.children", "delete.logs",
                     "delete.hard", "delete.soft"}
  <2>1. CASE checkChildren(s) \/ readLogs(s)
    BY <2>1 DEF checkChildren, readLogs
  <2>2. CASE auditNode(s) \/ forUpdate(s) \/ Fail(s)
    BY <2>2 DEF auditNode, forUpdate, Fail, Abort
  <2> QED BY <2>1, <2>2 DEF update, changeStatus, delete
<1>4. /\ Others(s)
      /\ pc'[s] \in {"idle", "update", "changeStatus", "delete.children", "delete.logs",
                     "delete.hard", "delete.soft"}
  BY <1>1, <1>3, GotoEffect, ReturnEffect
<1> QED BY <1>2, <1>4, PathsUnwritten DEF Moving

LEMMA WritePlaced ==
  ASSUME IInv, Placed, NEW s \in Session,
         writeNode(s) \/ hardDelete(s) \/ softDelete(s)
  PROVE  Placed'
<1> DEFINE n == call[s].node
<1>1. TypeOK /\ Shape /\ RequestOK(s) /\ pc[s] # "idle"
  BY TypedShape DEF IInv, RequestsOK, writeNode, hardDelete, softDelete, At
<1>2. n \in Node
  BY <1>1 DEF RequestOK, NodeCall
<1>3. UNCHANGED <<made, used>>
  BY DEF writeNode, hardDelete, softDelete, Unwritten
<1>4. \A m \in Node : node'[m] # NULL => node[m] # NULL /\ node'[m].path = node[m].path
  <2>1. node[n] # NULL => node[n] \in NodeRow
    BY <1>1, <1>2 DEF TypeOK
  <2>2. CASE writeNode(s)
    BY <1>1, <1>2, <2>1, <2>2 DEF writeNode, Visible, Live, TypeOK, NodeRow
  <2>3. CASE hardDelete(s)
    BY <1>1, <1>2, <2>3 DEF hardDelete, Unwritten, TypeOK
  <2>4. CASE softDelete(s)
    BY <1>1, <1>2, <2>1, <2>4 DEF softDelete, Visible, Live, TypeOK, NodeRow
  <2> QED BY <2>2, <2>3, <2>4
<1>5. Return(s) \/ \E c : Goto(s, "update.audit", c)
  BY DEF writeNode, hardDelete, softDelete
<1>6. Others(s) /\ pc'[s] \in {"idle", "update.audit"}
  BY <1>1, <1>5, GotoEffect, ReturnEffect
<1> QED BY <1>3, <1>4, <1>6, PathsUnwritten DEF Moving

LEMMA CommitPlaced ==
  ASSUME IInv, Placed, NEW s \in Session, commitMove(s)
  PROVE  Placed'
<1> DEFINE n     == call[s].node
           old   == call[s].old.path
           new   == call[s].path
           moved == [node[n] EXCEPT !.parent = call[s].parent, !.path = new]
           Moved(m) == [node[m] EXCEPT !.path = Rebased(node[m].path, old, new)]
<1>1. /\ TypeOK /\ Shape /\ RequestOK(s) /\ pc[s] = "move.commit" /\ RequestPlaced(s)
      /\ SetupsApart /\ RowsPlaced
  BY TypedShape DEF IInv, RequestsOK, commitMove, At, Placed
<1>2. /\ n \in Node /\ Live(n) /\ node[n] \in NodeRow /\ new \in Path /\ old \in Path
      /\ PathOf(made, n, old) /\ Last(new) = n
  BY <1>1 DEF RequestOK, RequestPlaced, Moving, NodeCall, Live, TypeOK, NodeRow
<1>3. moved.path = new
  BY <1>2 DEF NodeRow
<1> DEFINE below == call[s].rows \cap Under(n, old)
<1>4. ASSUME NEW m \in below
      PROVE  Moved(m).path = Rebased(node[m].path, old, new) /\ PathOf(made, m, Moved(m).path)
  <2>1. m \in Node \ {n} /\ node[m] # NULL /\ node[m] \in NodeRow /\ IsPrefix(old, node[m].path)
    BY <1>1 DEF Under, TypeOK
  <2>2. node[m].path \in Path /\ PathOf(made, m, node[m].path)
    BY <1>1, <2>1 DEF NodeRow, RowsPlaced
  <2>3. PathOf(made, m, Rebased(node[m].path, old, new))
    BY <1>1, <1>2, <2>1, <2>2, PathMoved
  <2>4. Moved(m).path = Rebased(node[m].path, old, new)
    BY <2>1 DEF NodeRow
  <2> QED BY <2>3, <2>4
<1>5. /\ node' = [m \in Node |-> IF m = n THEN moved
                                 ELSE IF m \in below THEN Moved(m) ELSE node[m]]
      /\ Return(s) /\ UNCHANGED <<made, used>>
  BY DEF commitMove
<1> HIDE DEF old, new, moved, below, Moved
<1>6. Others(s) /\ pc'[s] = "idle"
  BY <1>1, <1>5, ReturnEffect
<1>7. ASSUME NEW m \in Node, node'[m] # NULL
      PROVE  PathOf(made, m, node'[m].path)
  <2>1. CASE m = n
    BY <1>2, <1>3, <1>5, <2>1 DEF PathOf
  <2>2. CASE m # n /\ m \in below
    BY <1>4, <1>5, <2>2
  <2>3. CASE m # n /\ m \notin below
    BY <1>1, <1>5, <1>7, <2>3 DEF RowsPlaced
  <2> QED BY <2>1, <2>2, <2>3
<1>8. RowsPlaced'
  BY <1>5, <1>7 DEF RowsPlaced
<1>9. RequestPlaced(s)'
  BY <1>6 DEF RequestPlaced, Moving
<1> QED BY <1>5, <1>6, <1>8, <1>9, PlacedKept

(* The labels of the new nodes are those of the new setup.                 *)
LEMMA SetupPaths ==
  ASSUME NEW d, NEW l1 \in Label, NEW l2 \in Label, NEW l3 \in Label,
         d.labels = Append(Append(<<l1>>, l2), l3)
  PROVE  /\ d.labels[1] = l1 /\ FacilityPath(d, <<l1>>)
         /\ CenterPath(d, Append(<<l1>>, l2))
         /\ StationPath(d, Append(Append(<<l1>>, l2), l3))
<1>1. <<l1>> \in Path /\ Append(<<l1>>, l2) \in Path
  BY SingleIsPath, AppendIsPath
<1>2. Len(<<l1>>) = 1 /\ <<l1>>[1] = l1
  BY LastOfSingle
<1>3. PICK p2 \in Path : p2 = Append(<<l1>>, l2)
  BY <1>1
<1>4. Last(p2) = l2 /\ Front(p2) = <<l1>> /\ Len(p2) = 2
  BY <1>1, <1>2, <1>3, LastOfAppend
<1>5. d.labels = Append(p2, l3)
  BY <1>3
<1>6. Last(Append(p2, l3)) = l3 /\ Front(Append(p2, l3)) = p2 /\ Len(Append(p2, l3)) = 3
  <2>1. p2 \in Path
    BY <1>3
  <2>2. Last(Append(p2, l3)) = l3 /\ Front(Append(p2, l3)) = p2 /\ Len(Append(p2, l3)) = Len(p2) + 1
    BY <2>1, LastOfAppend
  <2> QED BY <1>4, <2>2
<1>7. d.labels[1] = l1 /\ d.labels[2] = l2 /\ d.labels[3] = l3
  OBVIOUS
<1>8. FacilityPath(d, <<l1>>)
  BY <1>2, <1>7 DEF FacilityPath
<1>9. CenterPath(d, p2)
  BY <1>4, <1>7, <1>8 DEF CenterPath, AtFacility
<1>10. StationPath(d, Append(p2, l3))
  BY <1>6, <1>7, <1>9 DEF StationPath, AtCenter
<1> QED BY <1>3, <1>7, <1>8, <1>9, <1>10

LEMMA SetupPlaced ==
  ASSUME IInv, Placed, NEW s \in Session, NEW o \in Org, NEW f \in Node, NEW c \in Node, NEW w \in Node,
         NEW t1 \in Time, NEW t2 \in Time, NEW t3 \in Time, NEW name \in Name,
         createDefaultSetup(s, o, f, c, w, t1, t2, t3, name)
  PROVE  Placed'
<1> DEFINE path1 == <<t1>>
           path2 == Append(path1, t2 + 1)
           path3 == Append(path2, t3 + 2)
           row1 == Row(o, name, NULL, path1, "IDLE")
           row2 == Row(o, name, f, path2, "IDLE")
           row3 == Row(o, name, c, path3, "IDLE")
           d == [facility |-> f, center |-> c, station |-> w, labels |-> path3]
<1>1. TypeOK /\ SetupsApart /\ RowsPlaced
  BY DEF IInv, Placed
<1>2. /\ {f, c, w} \cap used = {} /\ f # c /\ w \notin {f, c} /\ FreshTime(t1)
      /\ used' = used \cup {f, c, w} /\ made' = made \cup {d}
      /\ node' = [node EXCEPT ![f] = row1, ![c] = row2, ![w] = row3]
      /\ UNCHANGED requests
  BY DEF createDefaultSetup
<1>3. d.facility = f /\ d.center = c /\ d.station = w /\ d.labels = path3
  OBVIOUS
<1>4. row1.path = path1 /\ row2.path = path2 /\ row3.path = path3
  BY DEF Row
<1>5. d.labels[1] = t1 /\ FacilityPath(d, path1) /\ CenterPath(d, path2) /\ StationPath(d, path3)
  <2>1. t1 \in Label /\ t2 + 1 \in Label /\ t3 + 2 \in Label
    BY TimeLabels DEF Label
  <2>2. d.labels = Append(Append(<<t1>>, t2 + 1), t3 + 2)
    OBVIOUS
  <2> HIDE DEF d
  <2> QED BY <2>1, <2>2, SetupPaths
<1> HIDE DEF path1, path2, path3, row1, row2, row3, d
<1>6. SetupsApart'
  <2>1. Defaults(d) = {f, c, w}
    BY <1>3 DEF Defaults
  <2>2. ASSUME NEW e \in made
        PROVE  Defaults(e) \cap {f, c, w} = {} /\ e.labels[1] # t1
    BY <1>1, <1>2 DEF SetupsApart, FreshTime
  <2> QED BY <1>1, <1>2, <1>3, <1>5, <2>1, <2>2 DEF SetupsApart
<1>7. PathOf(made', f, path1) /\ PathOf(made', c, path2) /\ PathOf(made', w, path3)
  <2>1. d \in made'
    BY <1>2
  <2> QED BY <1>3, <1>5, <2>1 DEF PathOf
<1>8. ASSUME NEW m \in Node, node'[m] # NULL
      PROVE  PathOf(made', m, node'[m].path)
  <2>1. CASE m = f
    BY <1>1, <1>2, <1>4, <1>7, <2>1 DEF TypeOK
  <2>2. CASE m = c
    BY <1>1, <1>2, <1>4, <1>7, <2>2 DEF TypeOK
  <2>3. CASE m = w
    BY <1>1, <1>2, <1>4, <1>7, <2>3 DEF TypeOK
  <2>4. CASE m \notin {f, c, w}
    <3>1. node'[m] = node[m] /\ PathOf(made, m, node[m].path)
      BY <1>1, <1>2, <1>8, <2>4 DEF TypeOK, RowsPlaced
    <3> QED BY <1>2, <3>1, PathOfGrows
  <2> QED BY <2>1, <2>2, <2>3, <2>4
<1>9. RowsPlaced'
  BY <1>8 DEF RowsPlaced
<1>10. \A t \in Session : RequestPlaced(t)'
  BY <1>2, PathOfGrows DEF Placed, RequestPlaced, Moving, requests
<1> QED BY <1>6, <1>9, <1>10 DEF Placed

LEMMA NextPlaces ==
  ASSUME IInv, Placed, [Next]_vars
  PROVE  Placed'
<1>1. ASSUME UNCHANGED <<node, used, made, requests>> PROVE Placed'
  BY <1>1 DEF Placed, SetupsApart, RowsPlaced, RequestPlaced, Moving, requests
<1>2. ASSUME NEW s \in Session, Setup(s) PROVE Placed'
  BY <1>2, SetupPlaced DEF Setup
<1>3. ASSUME NEW s \in Session, OtherRequest(s) PROVE Placed'
  <2>1. PICK o \in Org, n \in Node :
          \/ \E p \in Node \cup {NULL}, name \in Name, status \in Status :
               create(s, o, n, name, p, status)
          \/ \E name \in Name : update(s, o, n, name)
          \/ changeStatus(s, o, n)
          \/ recordActivity(s, n)
          \/ delete(s, o, n)
    BY <1>3 DEF OtherRequest
  <2>2. CASE recordActivity(s, n)
    BY <1>1, <2>2 DEF recordActivity
  <2> QED BY <2>1, <2>2, CreatePlaced, OtherPlaced
<1>4. ASSUME NEW s \in Session, Move(s) PROVE Placed'
  BY <1>4, MovePlaced DEF Move
<1>5. ASSUME NEW s \in Session,
             auditNode(s) \/ checkChildren(s) \/ readLogs(s) \/ forUpdate(s) \/ Fail(s)
      PROVE  Placed'
  <2>1. pc[s] # "idle"
    BY <1>5 DEF auditNode, checkChildren, readLogs, forUpdate, Fail, Abort, At
  <2>2. call[s].org \in Org /\ call[s].node \in Node
    BY <2>1 DEF IInv, RequestsOK, RequestOK, NodeCall
  <2> QED BY <1>5, <2>2, OtherPlaced
<1>6. ASSUME NEW s \in Session, Step(s) PROVE Placed'
  BY <1>5, <1>6, InsertPlaced, WritePlaced, MovingPlaced, CommitPlaced DEF Step
<1> QED BY <1>1, <1>2, <1>3, <1>4, <1>5, <1>6 DEF Next, vars

LEMMA InitPlaced ==
  ASSUME Init
  PROVE  Placed
BY DEF Init, NoRequests, Placed, SetupsApart, RowsPlaced, RequestPlaced, Moving

LEMMA PlacedApart ==
  ASSUME IInv, Placed
  PROVE  PathsDistinct
<1>1. SUFFICES ASSUME NEW n \in Node, NEW m \in Node, node[n] # NULL, node[m] # NULL,
                      node[n].path = node[m].path
               PROVE  n = m
  BY DEF PathsDistinct
<1>2. TypeOK /\ SetupsApart /\ node[n].path \in Path
  BY <1>1 DEF IInv, Placed, TypeOK, NodeRow
<1>3. PathOf(made, n, node[n].path) /\ PathOf(made, m, node[n].path)
  BY <1>1 DEF Placed, RowsPlaced
<1> QED BY <1>2, <1>3, PathsTell

(* create, move and the default setup: whatever is done at the same time,  *)
(* no two rows ever have the same path, so that the UPDATE of a move finds *)
(* one node at the path it was read with.                                  *)
THEOREM PathsStayDistinct == Spec => []PathsDistinct
<1>1. Init => Placed
  BY InitPlaced
<1>2. IInv /\ Placed /\ [Next]_vars => Placed'
  BY NextPlaces
<1>3. IInv /\ Placed => PathsDistinct
  BY PlacedApart
<1> QED BY <1>1, <1>2, <1>3, Invariance, PTL DEF Spec

-----------------------------------------------------------------------------
(* The tree. *)

LEMMA PrefixOfFront ==
  ASSUME NEW old \in Path, NEW p \in Path, Front(p) \in Path
  PROVE  Len(p) > 1 /\ (IsPrefix(old, Front(p)) => IsPrefix(old, p))
<1>1. p \in Seq(Label) /\ Len(p) \in Nat /\ Len(p) > 0 /\ Len(old) \in Nat /\ Front(p) # <<>>
  BY PathIsSeq
<1>2. Len(p) > 1
  <2>1. Len(p) = 1 => Front(p) = SubSeq(p, 1, 0)
    BY DEF Front
  <2>2. SubSeq(p, 1, 0) = <<>>
    BY <1>1, SubSeqEmpty
  <2>3. Len(p) # 1
    BY <1>1, <2>1, <2>2, Zenon
  <2>4. \A k \in Nat : k > 0 /\ k # 1 => k > 1
    OBVIOUS
  <2> QED BY <1>1, <2>3, <2>4
<1>3. Len(Front(p)) = Len(p) - 1 /\ \A i \in 1 .. Len(p) - 1 : Front(p)[i] = p[i]
  BY <1>2, FrontIsPath
<1>4. ASSUME IsPrefix(old, Front(p)) PROVE IsPrefix(old, p)
  <2>1. Len(old) <= Len(Front(p)) /\ \A i \in 1..Len(old) : old[i] = Front(p)[i]
    BY <1>4, PrefixPlaces
  <2>2. Len(old) <= Len(p) /\ \A i \in 1..Len(old) : old[i] = p[i]
    BY <1>1, <1>3, <2>1
  <2> QED BY <2>2, PrefixPlaces
<1> QED BY <1>2, <1>4

LEMMA PrefixOfItself ==
  ASSUME NEW p \in Path
  PROVE  IsPrefix(p, p)
BY PathIsSeq, PrefixPlaces

(* The path of a child, and of the node above. *)
LEMMA ChildFollows ==
  ASSUME TypeOK, NEW n \in Node, NEW p \in Node \cup {NULL}, p # NULL => node[p] # NULL
  PROVE  /\ p = NULL => Len(ChildPath(n, p)) = 1
         /\ p # NULL => Front(ChildPath(n, p)) = node[p].path
<1>1. n \in Label
  BY DEF Label
<1>2. p # NULL => node[p].path \in Path
  BY DEF TypeOK, NodeRow
<1> QED BY <1>1, <1>2, LastOfSingle, LastOfAppend DEF ChildPath

-----------------------------------------------------------------------------
(* What the requests have read. *)

(* The plain forms of what holds until something has gone wrong.           *)
LiveParents == \A n \in Node : Live(n) /\ node[n].parent # NULL => Live(node[n].parent)

ParentPaths ==
  \A n \in Node : Live(n) =>
    /\ node[n].parent = NULL => Len(node[n].path) = 1
    /\ node[n].parent # NULL /\ node[node[n].parent] # NULL =>
         node[node[n].parent].path = Front(node[n].path)

LEMMA PlainForms ==
  /\ ParentsLive <=> (irregular \cap {"parent", "children"} = {} => LiveParents)
  /\ PathsFollow <=> (irregular \cap {"paths", "below"} = {} => ParentPaths)
BY DEF ParentsLive, PathsFollow, LiveParents, ParentPaths

(* A request whose reading another makes untrue has been overtaken.        *)
LEMMA OvertakenNoted ==
  ASSUME NEW s \in Session, NEW t \in Session \ {s}, Overtakes(s), Informed(t)
  PROVE  Informed(t)' /\ irregular \subseteq irregular'
<1>1. irregular \subseteq irregular' /\ StillSo(t) \ StillSo(t)' \subseteq irregular'
  BY DEF Overtakes
<1>2. ParentStillLive(t) => "parent" \in StillSo(t)
  BY DEF StillSo, Irregularity
<1>3. PathsStillSo(t) => "paths" \in StillSo(t)
  BY DEF StillSo, Irregularity
<1>4. StillChildless(t) => "children" \in StillSo(t)
  BY DEF StillSo, Irregularity
<1>5. "parent" \in StillSo(t)' => ParentStillLive(t)'
  BY DEF StillSo
<1>6. "paths" \in StillSo(t)' => PathsStillSo(t)'
  BY DEF StillSo
<1>7. "children" \in StillSo(t)' => StillChildless(t)'
  BY DEF StillSo
<1> QED BY <1>1, <1>2, <1>3, <1>4, <1>5, <1>6, <1>7 DEF Informed

(* A step that changes the place of no node. *)
SamePlaces ==
  \A n \in Node : /\ (node'[n] = NULL) <=> (node[n] = NULL)
                  /\ node[n] # NULL =>
                       /\ node'[n].parent = node[n].parent /\ node'[n].path = node[n].path
                       /\ node'[n].deleted = node[n].deleted

LEMMA ReadingsStay ==
  ASSUME SamePlaces, NEW t \in Session, RequestOK(t), Informed(t), irregular \subseteq irregular',
         UNCHANGED <<pc[t], call[t]>>
  PROVE  Informed(t)'
<1>1. /\ pc[t] # "idle" => call[t].node \in Node
      /\ Placing(t) => Place(t).parent \in Node \cup {NULL}
  <2>1. pc[t] # "idle" => call[t].node \in Node /\ call[t].parent \in Node \cup {NULL}
    BY DEF RequestOK, NodeCall
  <2>2. At(t, "create.insert") => call[t].new.parent \in Node \cup {NULL}
    BY DEF RequestOK, At, NodeRow
  <2> QED BY <2>1, <2>2 DEF Placing, Place
<1>2. UNCHANGED <<Placing(t), Moving(t), Removing(t), Place(t), At(t, "move.commit")>>
  BY DEF Placing, Moving, Removing, Place, At
<1>3. \A n \in Node : Live(n)' <=> Live(n)
  BY DEF SamePlaces, Live
<1>4. ParentStillLive(t) => ParentStillLive(t)'
  BY <1>1, <1>2, <1>3 DEF ParentStillLive
<1>5. \A n, m \in Node : node[m] # NULL => ChildPath(n, m)' = ChildPath(n, m)
  BY NodeConstants DEF SamePlaces, ChildPath
<1>6. Placing(t) => (Fits(Place(t), call[t].node) => Fits(Place(t), call[t].node)')
  <2>1. SUFFICES ASSUME Placing(t), Fits(Place(t), call[t].node) PROVE Fits(Place(t), call[t].node)'
    OBVIOUS
  <2>2. call[t].node \in Node /\ Place(t).parent \in Node \cup {NULL}
    BY <1>1, <2>1 DEF Placing
  <2>3. CASE Place(t).parent = NULL
    BY <1>2, <2>1, <2>3 DEF Fits, ChildPath
  <2>4. CASE Place(t).parent # NULL
    BY <1>2, <1>5, <2>1, <2>2, <2>4 DEF Fits, SamePlaces
  <2> QED BY <2>3, <2>4
<1>7. \A n \in Node : \A old : Under(n, old)' = Under(n, old)
  BY DEF SamePlaces, Under
<1>8. PathsStillSo(t) => PathsStillSo(t)'
  <2>1. SUFFICES ASSUME PathsStillSo(t) PROVE PathsStillSo(t)'
    OBVIOUS
  <2>2. (Placing(t) => Fits(Place(t), call[t].node))'
    BY <1>2, <1>6, <2>1 DEF PathsStillSo
  <2>3. (Moving(t) /\ node[call[t].node] # NULL => call[t].old.path = node[call[t].node].path)'
    BY <1>1, <1>2, <2>1 DEF PathsStillSo, SamePlaces, Moving
  <2>4. (At(t, "move.commit") => Under(call[t].node, call[t].old.path) \subseteq call[t].rows)'
    BY <1>1, <1>2, <1>7, <2>1 DEF PathsStillSo, At
  <2> QED BY <2>2, <2>3, <2>4 DEF PathsStillSo
<1>9. \A n \in Node : HasChildren(n)' <=> HasChildren(n)
  BY <1>3 DEF SamePlaces, HasChildren, Live
<1>10. StillChildless(t) => StillChildless(t)'
  BY <1>1, <1>2, <1>9 DEF StillChildless, Removing
<1> QED BY <1>4, <1>8, <1>10 DEF Informed

LEMMA BesideStays ==
  ASSUME NEW t \in Session, Beside(t), irregular \subseteq irregular', UNCHANGED <<pc[t], call[t]>>
  PROVE  Beside(t)'
BY DEF Beside, Moving, Placing

(* Identifiers are drawn once. *)
LEMMA BornStays ==
  ASSUME NEW s \in Session, Others(s), used \subseteq used', NEW n, Born(n),
         At(s, "create.insert")' => call'[s].node \notin used
  PROVE  Born(n)'
BY DEF Born, Others, At

(* What a step of request s has to show. *)
TreeStep(s) ==
  /\ Others(s) /\ irregular \subseteq irregular' /\ used \subseteq used'
  /\ At(s, "create.insert")' => call'[s].node \notin used
  /\ ParentsLive' /\ PathsFollow' /\ Informed(s)' /\ Beside(s)'
  /\ \A t \in Session \ {s} : Informed(t)'
  /\ \A n \in Node : node'[n] # NULL /\ node'[n].parent # NULL =>
       Born(node'[n].parent) \/ Born(node[n].parent)'
  /\ (Placing(s) /\ Place(s).parent # NULL)' => Born(Place(s)'.parent)

LEMMA TreeKept ==
  ASSUME Tree, NEW s \in Session, TreeStep(s)
  PROVE  Tree'
<1>1. \A n : Born(n) => Born(n)'
  BY BornStays DEF TreeStep
<1>2. \A t \in Session \ {s} : Beside(t)'
  BY BesideStays DEF TreeStep, Tree, Others
<1>3. ParentsBorn'
  <2>1. \A n \in Node : node'[n] # NULL /\ node'[n].parent # NULL => Born(node[n].parent)'
    BY <1>1 DEF TreeStep
  <2>2. ASSUME NEW t \in Session, (Placing(t) /\ Place(t).parent # NULL)'
        PROVE  Born(Place(t).parent)'
    <3>1. CASE t = s
      BY <1>1, <2>2, <3>1 DEF TreeStep
    <3>2. CASE t # s
      <4>1. UNCHANGED <<pc[t], call[t]>>
        BY <3>2 DEF TreeStep, Others
      <4>2. UNCHANGED <<Placing(t), Place(t)>>
        BY <4>1 DEF Placing, Place, At
      <4>3. Born(Place(t).parent)
        BY <2>2, <4>2 DEF Tree, ParentsBorn
      <4> QED BY <1>1, <4>2, <4>3
    <3> QED BY <3>1, <3>2
  <2> QED BY <2>1, <2>2 DEF ParentsBorn
<1> QED BY <1>2, <1>3 DEF Tree, TreeStep

(* A step that changes no place, of a request that goes on or ends.        *)
LEMMA PlacesKept ==
  ASSUME IInv, Tree, NEW s \in Session, Others(s), SamePlaces, irregular \subseteq irregular',
         used \subseteq used', At(s, "create.insert")' => call'[s].node \notin used,
         Informed(s)', Beside(s)',
         (Placing(s) /\ Place(s).parent # NULL)' => Born(Place(s)'.parent)
  PROVE  Tree'
<1>1. \A n \in Node : node[n] # NULL => node[n].parent \in Node \cup {NULL}
  BY DEF IInv, TypeOK, NodeRow
<1>2. LiveParents => LiveParents'
  BY <1>1 DEF LiveParents, SamePlaces, Live
<1>3. ParentPaths => ParentPaths'
  BY <1>1 DEF ParentPaths, SamePlaces, Live
<1>4. ParentsLive' /\ PathsFollow'
  BY <1>2, <1>3 DEF Tree, ParentsLive, PathsFollow, LiveParents, ParentPaths
<1>5. \A t \in Session \ {s} : Informed(t)'
  BY ReadingsStay DEF IInv, RequestsOK, Tree, Others
<1>6. \A n \in Node : node'[n] # NULL /\ node'[n].parent # NULL => Born(node'[n].parent)
  BY DEF SamePlaces, Tree, ParentsBorn
<1> QED BY <1>4, <1>5, <1>6, TreeKept DEF TreeStep

LEMMA NodesKept ==
  ASSUME UNCHANGED node
  PROVE  SamePlaces
BY DEF SamePlaces

-----------------------------------------------------------------------------
(* Requests that read, or go on. *)

LEMMA LiveIsBorn ==
  ASSUME IInv, NEW n \in Node, node[n] # NULL
  PROVE  Born(n)
BY DEF IInv, FreshRows, RequestsOK, RequestOK, Born, At

(* create: the parent that was read is there. *)
LEMMA CreateGrows ==
  ASSUME IInv, Tree, NEW s \in Session, NEW o \in Org, NEW n \in Node,
         NEW p \in Node \cup {NULL}, NEW name \in Name, NEW status \in Status,
         create(s, o, n, name, p, status)
  PROVE  Tree'
<1>1. TypeOK /\ Shape
  BY TypedShape DEF IInv
<1> DEFINE row == Row(o, name, p, ChildPath(n, p), status)
           c == Call(o, n, NULL, row, NULL)
<1>2. c.node = n /\ c.new.path = ChildPath(n, p) /\ c.new.parent = p
  BY DEF Call, Row
<1>3. /\ Goto(s, "create.insert", c) /\ UNCHANGED <<node, irregular>> /\ (p # NULL => Live(p))
      /\ n \notin used /\ used' = used \cup {n}
  BY DEF create
<1> HIDE DEF c
<1>4. Others(s) /\ pc'[s] = "create.insert" /\ call'[s] = c
  BY <1>1, <1>3, GotoEffect
<1>5. /\ Placing(s)' /\ ~Moving(s)' /\ ~Removing(s)' /\ At(s, "create.insert")' /\ ~At(s, "move.commit")'
      /\ Place(s)'.parent = p /\ Place(s)'.path = ChildPath(n, p)
  BY <1>2, <1>4 DEF Placing, Moving, Removing, Place, At
<1>6. Informed(s)' /\ Beside(s)'
  <2>1. ParentStillLive(s)'
    BY <1>3, <1>5 DEF ParentStillLive, Live
  <2>2. Fits(Place(s), call[s].node)'
    BY <1>2, <1>3, <1>4, <1>5 DEF Fits, ChildPath
  <2> QED BY <1>5, <2>1, <2>2 DEF Informed, PathsStillSo, StillChildless, Beside
<1>7. p # NULL => Born(p)
  BY <1>3, LiveIsBorn DEF Live
<1> QED BY <1>2, <1>3, <1>4, <1>5, <1>6, <1>7, NodesKept, PlacesKept

(* Requests that rely on nothing yet, or no more. *)
LEMMA IdleStep ==
  ASSUME IInv, Tree, NEW s \in Session, Others(s), UNCHANGED <<node, irregular, used>>,
         pc'[s] \in {"idle", "create.audit", "update", "update.audit", "changeStatus", "delete.children"}
  PROVE  Tree'
<1>1. ~Placing(s)' /\ ~Moving(s)' /\ ~Removing(s)' /\ ~At(s, "create.insert")'
  BY DEF Placing, Moving, Removing, At
<1>2. Informed(s)' /\ Beside(s)'
  BY <1>1 DEF Informed, ParentStillLive, PathsStillSo, StillChildless, Beside, Placing, Moving, At
<1> QED BY <1>1, <1>2, NodesKept, PlacesKept

LEMMA ReadsKeepTree ==
  ASSUME IInv, Tree, NEW s \in Session, NEW o \in Org, NEW n \in Node,
         \/ \E name \in Name : update(s, o, n, name)
         \/ changeStatus(s, o, n) \/ delete(s, o, n) \/ auditNode(s)
         \/ checkChildren(s) \/ readLogs(s) \/ forUpdate(s) \/ Fail(s)
  PROVE  Tree'
<1>1. Shape /\ Informed(s)
  BY TypedShape DEF IInv, Tree
<1>2. UNCHANGED <<node, irregular, used>>
  BY DEF update, changeStatus, delete, auditNode, checkChildren, readLogs, forUpdate, Fail, Unwritten
<1>3. CASE (checkChildren(s) /\ ~Return(s)) \/ readLogs(s)
  <2>1. /\ \E l \in {"delete.logs", "delete.hard", "delete.soft"} : Goto(s, l, call[s])
        /\ readLogs(s) => At(s, "delete.logs")
        /\ ~readLogs(s) => ~HasChildren(call[s].node)
    BY <1>3 DEF checkChildren, readLogs
  <2>2. /\ Others(s) /\ pc'[s] \in {"delete.logs", "delete.hard", "delete.soft"}
        /\ call'[s] = call[s]
    BY <1>1, <2>1, GotoEffect
  <2>3. ~Placing(s)' /\ ~Moving(s)' /\ Removing(s)' /\ ~At(s, "create.insert")' /\ ~At(s, "move.commit")'
    BY <2>2 DEF Placing, Moving, Removing, At
  <2>4. "children" \in irregular \/ ~HasChildren(call[s].node)
    BY <1>1, <2>1 DEF Informed, StillChildless, Removing, At
  <2>5. Informed(s)' /\ Beside(s)'
    BY <1>2, <2>2, <2>3, <2>4
       DEF Informed, ParentStillLive, PathsStillSo, StillChildless, Beside, HasChildren, Live
  <2> QED BY <1>2, <2>2, <2>3, <2>5, NodesKept, PlacesKept
<1>4. CASE \/ Return(s)
           \/ \E c : \E l \in {"update", "changeStatus", "delete.children"} : Goto(s, l, c)
  <2>1. Others(s) /\ pc'[s] \in {"idle", "update", "changeStatus", "delete.children"}
    BY <1>1, <1>4, GotoEffect, ReturnEffect
  <2> QED BY <1>2, <2>1, IdleStep
<1> QED BY <1>3, <1>4 DEF update, changeStatus, delete, auditNode, checkChildren, forUpdate, Fail, Abort

LEMMA MoveBegins ==
  ASSUME IInv, Tree, NEW s \in Session, Move(s)
  PROVE  Tree'
<1>1. TypeOK /\ Shape
  BY TypedShape DEF IInv
<1>2. PICK o \in Org, n \in Node, p \in Node \cup {NULL} : move(s, o, n, p)
  BY DEF Move
<1> DEFINE c == [Call(o, n, node[n], NULL, NULL) EXCEPT !.parent = p, !.path = <<n>>]
           label == IF p = NULL THEN "move.update" ELSE "move.parent"
<1>3. c.node = n /\ c.old = node[n] /\ c.path = <<n>> /\ c.parent = p
  BY DEF Call
<1>4. Goto(s, label, c) /\ UNCHANGED <<node, irregular, used>>
  BY <1>2 DEF move, Unwritten
<1> HIDE DEF c
<1>5. Others(s) /\ pc'[s] = label /\ call'[s] = c
  BY <1>1, <1>4, GotoEffect
<1>6. /\ Moving(s)' /\ ~Removing(s)' /\ ~At(s, "create.insert")' /\ ~At(s, "move.commit")'
      /\ Placing(s)' => p = NULL /\ Place(s)'.parent = NULL /\ Place(s)'.path = <<n>>
  BY <1>3, <1>5 DEF Placing, Moving, Removing, Place, At
<1>7. Informed(s)' /\ Beside(s)'
  <2>1. ParentStillLive(s)'
    BY <1>6 DEF ParentStillLive
  <2>2. (Placing(s) => Fits(Place(s), call[s].node))'
    BY <1>3, <1>5, <1>6 DEF Fits, ChildPath
  <2>3. call'[s].old.path = node'[call'[s].node].path
    BY <1>3, <1>4, <1>5
  <2> QED BY <1>3, <1>5, <1>6, <2>1, <2>2, <2>3 DEF Informed, PathsStillSo, StillChildless, Beside
<1> QED BY <1>4, <1>5, <1>6, <1>7, NodesKept, PlacesKept

(* move goes on: with the parent it has read, the lock, and the descendants. *)
LEMMA ParentRead ==
  ASSUME IInv, Tree, NEW s \in Session, readNewParent(s)
  PROVE  Tree'
<1>1. TypeOK /\ Shape /\ RequestOK(s) /\ Informed(s) /\ pc[s] = "move.parent"
  BY TypedShape DEF IInv, RequestsOK, Tree, readNewParent, At
<1>2. UNCHANGED <<node, used>>
  BY DEF readNewParent, Unwritten
<1> DEFINE n == call[s].node
           p == call[s].parent
           path == ChildPath(n, p)
           c == [call[s] EXCEPT !.path = path]
<1>3. call[s] \in NodeCall /\ n \in Node /\ p \in Node
  BY <1>1 DEF RequestOK, NodeCall
<1>4. CASE Return(s) /\ UNCHANGED irregular
  <2>1. Others(s) /\ pc'[s] = "idle"
    BY <1>1, <1>4, ReturnEffect
  <2> QED BY <1>2, <1>4, <2>1, IdleStep
<1>5. CASE /\ Live(p) /\ Goto(s, "move.update", c)
           /\ irregular' = irregular \cup
                (IF IsPrefix(call[s].old.path, node[p].path) THEN {"below"} ELSE {})
  <2>1. c.node = n /\ c.old = call[s].old /\ c.path = path /\ c.parent = p
    BY <1>3 DEF NodeCall
  <2> HIDE DEF c
  <2>2. Others(s) /\ pc'[s] = "move.update" /\ call'[s] = c
    BY <1>1, <1>5, GotoEffect
  <2>3. /\ Moving(s)' /\ ~Removing(s)' /\ ~At(s, "create.insert")' /\ ~At(s, "move.commit")'
        /\ Place(s)'.parent = p /\ Place(s)'.path = path
    BY <2>1, <2>2 DEF Moving, Removing, Place, At
  <2>4. irregular \subseteq irregular'
    BY <1>5
  <2>5. ParentStillLive(s)'
    BY <1>2, <1>5, <2>3 DEF ParentStillLive, Live
  <2>6. Fits(Place(s), call[s].node)'
    BY <1>2, <2>1, <2>2, <2>3 DEF Fits, ChildPath
  <2>7. "paths" \notin irregular /\ node[n] # NULL => call[s].old.path = node[n].path
    BY <1>1 DEF Informed, PathsStillSo, Moving
  <2>8. Informed(s)'
    BY <1>2, <2>1, <2>2, <2>3, <2>4, <2>5, <2>6, <2>7 DEF Informed, PathsStillSo, StillChildless
  <2>9. Front(path) = node[p].path
    BY <1>1, <1>3, <1>5, NodeConstants, ChildFollows DEF Live
  <2>10. Beside(s)'
    BY <1>5, <2>1, <2>2, <2>9 DEF Beside
  <2>11. Born(p)
    BY <1>3, <1>5, LiveIsBorn DEF Live
  <2> QED BY <1>2, <2>2, <2>3, <2>4, <2>8, <2>10, <2>11, NodesKept, PlacesKept
<1> QED BY <1>4, <1>5 DEF readNewParent, Visible

LEMMA MoveGoesOn ==
  ASSUME IInv, Tree, NEW s \in Session, lockMoved(s) \/ findDescendants(s)
  PROVE  Tree'
<1>1. /\ TypeOK /\ Shape /\ RequestOK(s) /\ Informed(s) /\ Beside(s)
      /\ pc[s] \in {"move.update", "move.descendants"}
  BY TypedShape DEF IInv, RequestsOK, Tree, lockMoved, findDescendants, At
<1>2. UNCHANGED <<node, irregular, used>>
  BY DEF lockMoved, findDescendants, Unwritten
<1>3. call[s] \in NodeCall
  BY <1>1 DEF RequestOK
<1>4. CASE Return(s)
  <2>1. Others(s) /\ pc'[s] = "idle"
    BY <1>1, <1>4, ReturnEffect
  <2> QED BY <1>2, <2>1, IdleStep
<1>5. CASE ~Return(s)
  <2>1. PICK rows, l :
          /\ Goto(s, l, [call[s] EXCEPT !.rows = rows])
          /\ \/ l = "move.descendants"
             \/ l = "move.commit" /\ rows = Under(call[s].node, call[s].old.path)
    <3>1. [call[s] EXCEPT !.rows = call[s].rows] = call[s]
      BY <1>3 DEF NodeCall
    <3> QED BY <1>5, <3>1 DEF lockMoved, findDescendants
  <2> DEFINE c == [call[s] EXCEPT !.rows = rows]
  <2>2. /\ c.node = call[s].node /\ c.old = call[s].old /\ c.path = call[s].path
        /\ c.parent = call[s].parent /\ c.rows = rows
    BY <1>3 DEF NodeCall
  <2> HIDE DEF c
  <2>3. Others(s) /\ pc'[s] = l /\ call'[s] = c
    BY <1>1, <2>1, GotoEffect DEF c
  <2>4. Moving(s) /\ Placing(s) /\ ~At(s, "create.insert")
    BY <1>1 DEF Moving, Placing, At
  <2>5. /\ Moving(s)' /\ Placing(s)' /\ ~Removing(s)' /\ ~At(s, "create.insert")'
        /\ Place(s)'.parent = call[s].parent /\ Place(s)' = Place(s)
    BY <2>1, <2>2, <2>3, <2>4 DEF Moving, Placing, Removing, Place, At
  <2>6. ParentStillLive(s) => ParentStillLive(s)'
    BY <1>2, <2>4, <2>5 DEF ParentStillLive, Live
  <2>7. PathsStillSo(s) => PathsStillSo(s)'
    <3>1. Fits(Place(s), call[s].node) => Fits(Place(s), call[s].node)'
      BY <1>2, <2>2, <2>3, <2>5 DEF Fits, ChildPath
    <3>2. (At(s, "move.commit") => Under(call[s].node, call[s].old.path) \subseteq call[s].rows)'
      BY <1>2, <2>1, <2>2, <2>3 DEF Under, At
    <3> QED BY <1>2, <2>2, <2>3, <2>4, <2>5, <3>1, <3>2 DEF PathsStillSo
  <2>8. StillChildless(s)'
    BY <2>5 DEF StillChildless
  <2>9. Informed(s)'
    BY <1>1, <1>2, <2>6, <2>7, <2>8 DEF Informed
  <2>10. Beside(s)'
    BY <1>1, <1>2, <2>2, <2>3, <2>4 DEF Beside
  <2>11. call[s].parent # NULL => Born(call[s].parent)
    BY <2>4 DEF Tree, ParentsBorn, Place
  <2> QED BY <1>2, <2>3, <2>5, <2>9, <2>10, <2>11, NodesKept, PlacesKept
<1> QED BY <1>4, <1>5

(* update: the row keeps its place. *)
LEMMA WritesKeepTree ==
  ASSUME IInv, Tree, NEW s \in Session, writeNode(s)
  PROVE  Tree'
<1> DEFINE n == call[s].node
           new == [node[n] EXCEPT !.name = call[s].name]
<1>1. TypeOK /\ Shape /\ RequestOK(s) /\ pc[s] = "update" /\ UNCHANGED <<irregular, used>>
  BY TypedShape DEF IInv, RequestsOK, writeNode, At
<1>2. n \in Node /\ call[s].name \in Name
  BY <1>1 DEF RequestOK, NodeCall
<1>3. SamePlaces
  <2>1. CASE UNCHANGED node
    BY <2>1, NodesKept
  <2>2. CASE Live(n) /\ node' = [node EXCEPT ![n] = new]
    <3>1. node[n] \in NodeRow /\ new \in NodeRow
      BY <1>1, <1>2, <2>2 DEF Live, TypeOK, NodeRow
    <3>2. new # NULL /\ new.parent = node[n].parent /\ new.path = node[n].path /\ new.deleted = node[n].deleted
      BY <3>1, NodeNull DEF NodeRow
    <3> QED BY <1>1, <1>2, <2>2, <3>2 DEF SamePlaces, Live, TypeOK
  <2> QED BY <2>1, <2>2 DEF writeNode, Visible
<1>4. Return(s) \/ \E c : Goto(s, "update.audit", c)
  BY DEF writeNode
<1>5. Others(s) /\ pc'[s] \in {"idle", "update.audit"}
  BY <1>1, <1>4, GotoEffect, ReturnEffect
<1>6. ~Placing(s)' /\ ~Moving(s)' /\ ~Removing(s)' /\ ~At(s, "create.insert")'
  BY <1>5 DEF Placing, Moving, Removing, At
<1>7. Informed(s)' /\ Beside(s)'
  BY <1>6 DEF Informed, ParentStillLive, PathsStillSo, StillChildless, Beside, Placing, Moving, At
<1> QED BY <1>1, <1>3, <1>5, <1>6, <1>7, PlacesKept

-----------------------------------------------------------------------------
(* Requests that write a row: with what they wrote they end, and those     *)
(* they have overtaken are noted.                                          *)

LEMMA WriteKept ==
  ASSUME Tree, NEW s \in Session, Others(s), Overtakes(s), used \subseteq used',
         pc'[s] \in {"idle", "create.audit"},
         \A n \in Node : node'[n] # NULL /\ node'[n].parent # NULL =>
           Born(node'[n].parent) \/ Born(node[n].parent)',
         irregular' \cap {"parent", "children"} = {} => LiveParents',
         irregular' \cap {"paths", "below"} = {} => ParentPaths'
  PROVE  Tree'
<1>1. irregular \subseteq irregular' /\ \A t \in Session \ {s} : Informed(t)'
  BY OvertakenNoted DEF Tree, Overtakes
<1>2. ~Placing(s)' /\ ~Moving(s)' /\ ~Removing(s)' /\ ~At(s, "create.insert")'
  BY DEF Placing, Moving, Removing, At
<1>3. Informed(s)' /\ Beside(s)'
  BY <1>2 DEF Informed, ParentStillLive, PathsStillSo, StillChildless, Beside, Placing, Moving, At
<1>4. ParentsLive' /\ PathsFollow'
  BY DEF ParentsLive, PathsFollow, LiveParents, ParentPaths
<1> QED BY <1>1, <1>2, <1>3, <1>4, TreeKept DEF TreeStep

(* create: the parent that was read is there still, with the same path.    *)
LEMMA InsertGrows ==
  ASSUME IInv, Tree, NEW s \in Session, insertNode(s)
  PROVE  Tree'
<1> DEFINE n == call[s].node
           row == call[s].new
           k == row.parent
<1>1. TypeOK /\ Shape /\ RequestOK(s) /\ pc[s] = "create.insert" /\ Informed(s)
  BY TypedShape DEF IInv, RequestsOK, insertNode, At, Tree
<1>2. n \in Node /\ n \in used /\ node[n] = NULL /\ row \in NodeRow /\ k \in Node \cup {NULL}
  BY <1>1 DEF RequestOK, NodeCall, NodeRow
<1>3. Placing(s) /\ Place(s).parent = k /\ Place(s).path = row.path
  BY <1>1 DEF Placing, Place, At
<1>4. /\ k # NULL => Born(k) /\ k # n
      /\ "parent" \notin irregular /\ k # NULL => Live(k)
      /\ "paths" \notin irregular /\ (k = NULL \/ node[k] # NULL) => row.path = ChildPath(n, k)
  <2>1. k # NULL => Born(k)
    BY <1>3 DEF Tree, ParentsBorn
  <2>2. k # NULL => k # n
    BY <1>1, <2>1 DEF Born, At
  <2>3. "parent" \notin irregular /\ k # NULL => Live(k)
    BY <1>1, <1>3 DEF Informed, ParentStillLive
  <2>4. "paths" \notin irregular => Fits(Place(s), n)
    BY <1>1, <1>3 DEF Informed, PathsStillSo
  <2> QED BY <1>3, <2>1, <2>2, <2>3, <2>4 DEF Fits
<1>5. \A m \in Node : node[m] # NULL /\ node[m].parent # NULL => Born(node[m].parent) /\ node[m].parent # n
  BY <1>1 DEF Tree, ParentsBorn, Born, At
<1>6. /\ node' = [node EXCEPT ![n] = row] /\ Goto(s, "create.audit", call[s])
      /\ UNCHANGED used /\ Overtakes(s)
  BY DEF insertNode
<1> HIDE DEF n, row, k
<1>7. Others(s) /\ pc'[s] = "create.audit"
  BY <1>1, <1>6, GotoEffect
<1>8. irregular \subseteq irregular'
  BY <1>6 DEF Overtakes
<1>9. \A m \in Node : (m # n => node'[m] = node[m]) /\ (m = n => node'[m] = row)
  BY <1>1, <1>6 DEF TypeOK
<1>10. \A m \in Node : node[m] # NULL => node[m].parent \in Node \cup {NULL}
  BY <1>1 DEF TypeOK, NodeRow
<1>11. \A m \in Node : node'[m] # NULL /\ node'[m].parent # NULL => Born(node'[m].parent)
  BY <1>4, <1>5, <1>9 DEF k
<1>12. ASSUME irregular' \cap {"parent", "children"} = {}
       PROVE  LiveParents'
  <2>1. irregular \cap {"parent", "children"} = {}
    BY <1>8, <1>12
  <2>2. \A m \in Node : Live(m) /\ node[m].parent # NULL => Live(node[m].parent)
    BY <2>1 DEF Tree, ParentsLive
  <2>3. k # NULL => Live(k) /\ k \in Node \ {n}
    BY <1>2, <1>4, <2>1
  <2>4. \A m \in Node : Live(m) => Live(m)' /\ m # n
    BY <1>2, <1>9 DEF Live
  <2>5. SUFFICES ASSUME NEW m \in Node, Live(m)', node'[m].parent # NULL
                 PROVE  node'[node'[m].parent] # NULL /\ ~node'[node'[m].parent].deleted
    BY DEF LiveParents, Live
  <2>6. CASE m = n
    BY <1>9, <2>3, <2>5, <2>6 DEF Live, k
  <2>7. CASE m # n
    <3>1. node'[m] = node[m] /\ Live(m) /\ node[m].parent \in Node
      BY <1>9, <1>10, <2>5, <2>7 DEF Live
    <3>2. Live(node[m].parent) /\ node[m].parent # n
      BY <1>5, <2>2, <2>5, <3>1 DEF Live
    <3> QED BY <1>9, <3>1, <3>2 DEF Live
  <2> QED BY <2>6, <2>7
<1>13. ASSUME irregular' \cap {"paths", "below"} = {}
       PROVE  ParentPaths'
  <2>1. irregular \cap {"paths", "below"} = {}
    BY <1>8, <1>13
  <2>2. ParentPaths
    BY <2>1, PlainForms DEF Tree
  <2>3. SUFFICES ASSUME NEW m \in Node, Live(m)'
                 PROVE  /\ node'[m].parent = NULL => Len(node'[m].path) = 1
                        /\ node'[m].parent # NULL /\ node'[node'[m].parent] # NULL =>
                             node'[node'[m].parent].path = Front(node'[m].path)
    BY DEF ParentPaths
  <2>4. CASE m = n
    <3>1. node'[m] = row /\ (k # NULL => node'[k] = node[k])
      BY <1>2, <1>4, <1>9, <2>4
    <3>2. CASE k = NULL \/ node[k] # NULL
      <4>1. row.path = ChildPath(n, k)
        BY <1>4, <2>1, <3>2
      <4>2. /\ k = NULL => Len(ChildPath(n, k)) = 1
            /\ k # NULL => Front(ChildPath(n, k)) = node[k].path
        BY <1>1, <1>2, <3>2, ChildFollows
      <4> QED BY <3>1, <4>1, <4>2 DEF k
    <3>3. CASE ~(k = NULL \/ node[k] # NULL)
      BY <3>1, <3>3 DEF k
    <3> QED BY <3>2, <3>3
  <2>5. CASE m # n
    <3>1. node'[m] = node[m] /\ Live(m) /\ node[m].parent \in Node \cup {NULL} /\ node[m].parent # n
      BY <1>2, <1>5, <1>9, <1>10, <2>3, <2>5, NodeConstants DEF Live
    <3>2. node[m].parent # NULL => node'[node[m].parent] = node[node[m].parent]
      BY <1>9, <3>1
    <3> QED BY <2>2, <3>1, <3>2 DEF ParentPaths
  <2> QED BY <2>4, <2>5
<1> QED BY <1>6, <1>7, <1>11, <1>12, <1>13, WriteKept

(* delete: the children that were not there are not there still. *)
LEMMA DeletesKeepTree ==
  ASSUME IInv, Tree, NEW s \in Session, hardDelete(s) \/ softDelete(s)
  PROVE  Tree'
<1> DEFINE n == call[s].node
<1>1. TypeOK /\ Shape /\ RequestOK(s) /\ Informed(s) /\ pc[s] \in {"delete.hard", "delete.soft"}
  BY TypedShape DEF IInv, RequestsOK, hardDelete, softDelete, At, Tree
<1>2. n \in Node /\ ("children" \notin irregular => ~HasChildren(n))
  BY <1>1 DEF RequestOK, NodeCall, Informed, StillChildless, Removing
<1>3. /\ \A m \in Node \ {n} : node'[m] = node[m]
      /\ \/ node'[n] = NULL
         \/ node'[n] = node[n]
         \/ node[n] # NULL /\ node'[n] = [node[n] EXCEPT !.deleted = TRUE]
  <2>1. CASE hardDelete(s)
    BY <1>1, <1>2, <2>1 DEF hardDelete, Unwritten, TypeOK
  <2>2. CASE softDelete(s)
    BY <1>1, <1>2, <2>2 DEF softDelete, Visible, Live, TypeOK
  <2> QED BY <2>1, <2>2
<1>4. Return(s) /\ Overtakes(s) /\ UNCHANGED used
  BY DEF hardDelete, softDelete, Unwritten
<1> HIDE DEF n
<1>5. Others(s) /\ pc'[s] = "idle" /\ irregular \subseteq irregular'
  BY <1>1, <1>4, ReturnEffect DEF Overtakes
<1>6. \A m \in Node : node[m] # NULL => node[m] \in NodeRow /\ node[m].parent \in Node \cup {NULL}
  BY <1>1 DEF TypeOK, NodeRow
<1>7. \A m \in Node : node'[m] # NULL =>
        /\ node[m] # NULL /\ node'[m].parent = node[m].parent /\ node'[m].path = node[m].path
        /\ Live(m)' => Live(m)
  <2>1. node[n] # NULL =>
          LET r == [node[n] EXCEPT !.deleted = TRUE]
          IN  r.deleted /\ r.parent = node[n].parent /\ r.path = node[n].path
    BY <1>2, <1>6 DEF NodeRow
  <2> QED BY <1>2, <1>3, <2>1 DEF Live
<1>8. \A m \in Node : node'[m] # NULL /\ node'[m].parent # NULL => Born(node'[m].parent)
  BY <1>7 DEF Tree, ParentsBorn
<1>9. ASSUME irregular' \cap {"parent", "children"} = {}
      PROVE  LiveParents'
  <2>1. ~HasChildren(n) /\ LiveParents
    BY <1>2, <1>5, <1>9, PlainForms DEF Tree
  <2>2. SUFFICES ASSUME NEW m \in Node, Live(m)', node'[m].parent # NULL
                 PROVE  node'[node'[m].parent] # NULL /\ ~node'[node'[m].parent].deleted
    BY DEF LiveParents, Live
  <2>3. Live(m) /\ node'[m].parent = node[m].parent /\ node[m].parent \in Node
    BY <1>6, <1>7, <2>2 DEF Live
  <2>4. Live(node[m].parent) /\ node[m].parent # n
    BY <2>1, <2>2, <2>3 DEF LiveParents, HasChildren
  <2> QED BY <1>3, <2>3, <2>4 DEF Live
<1>10. ASSUME irregular' \cap {"paths", "below"} = {}
       PROVE  ParentPaths'
  <2>1. ParentPaths
    BY <1>5, <1>10, PlainForms DEF Tree
  <2>2. SUFFICES ASSUME NEW m \in Node, Live(m)'
                 PROVE  /\ node'[m].parent = NULL => Len(node'[m].path) = 1
                        /\ node'[m].parent # NULL /\ node'[node'[m].parent] # NULL =>
                             node'[node'[m].parent].path = Front(node'[m].path)
    BY DEF ParentPaths
  <2>3. /\ Live(m) /\ node'[m].parent = node[m].parent /\ node'[m].path = node[m].path
        /\ node[m].parent \in Node \cup {NULL}
    BY <1>6, <1>7, <2>2 DEF Live
  <2> QED BY <1>7, <2>1, <2>3 DEF ParentPaths
<1> QED BY <1>4, <1>5, <1>8, <1>9, <1>10, WriteKept

(* The move itself: those at or below the path of the node are exactly     *)
(* those below the node, and the new parent is none of them.               *)
LEMMA MoveKeepsTree ==
  ASSUME IInv, PathsDistinct, Tree, NEW s \in Session, commitMove(s)
  PROVE  Tree'
<1> DEFINE n     == call[s].node
           p     == call[s].parent
           old   == call[s].old.path
           new   == call[s].path
           below == call[s].rows \cap Under(n, old)
           moved == [node[n] EXCEPT !.parent = p, !.path = new]
           Moved(m) == [node[m] EXCEPT !.path = Rebased(node[m].path, old, new)]
<1>1. TypeOK /\ Shape /\ RequestOK(s) /\ Informed(s) /\ Beside(s) /\ pc[s] = "move.commit"
  BY TypedShape DEF IInv, RequestsOK, commitMove, At, Tree
<1>2. /\ n \in Node /\ Live(n) /\ node[n] \in NodeRow /\ new \in Path /\ old \in Path
      /\ p \in Node \cup {NULL}
  BY <1>1 DEF RequestOK, Moving, NodeCall, Live, TypeOK, NodeRow
<1>3. Placing(s) /\ Moving(s) /\ Place(s).parent = p /\ Place(s).path = new /\ At(s, "move.commit")
  BY <1>1 DEF Placing, Moving, Place, At
<1>4. /\ p # NULL => Born(p)
      /\ "parent" \notin irregular /\ p # NULL => Live(p)
      /\ "below" \notin irregular /\ p # NULL => ~IsPrefix(old, Front(new))
      /\ "paths" \notin irregular =>
           /\ p = NULL \/ node[p] # NULL => new = ChildPath(n, p)
           /\ old = node[n].path /\ below = Under(n, old)
  <2>1. p # NULL => Born(p)
    BY <1>3 DEF Tree, ParentsBorn
  <2>2. "parent" \notin irregular /\ p # NULL => Live(p)
    BY <1>1, <1>3 DEF Informed, ParentStillLive
  <2>3. "below" \notin irregular /\ p # NULL => ~IsPrefix(old, Front(new))
    BY <1>1, <1>3 DEF Beside
  <2>4. "paths" \notin irregular =>
          Fits(Place(s), n) /\ old = node[n].path /\ Under(n, old) \subseteq call[s].rows
    BY <1>1, <1>2, <1>3 DEF Informed, PathsStillSo, Live
  <2> QED BY <1>3, <2>1, <2>2, <2>3, <2>4 DEF Fits
<1>5. /\ node' = [m \in Node |-> IF m = n THEN moved
                                 ELSE IF m \in below THEN Moved(m) ELSE node[m]]
      /\ Return(s) /\ Overtakes(s) /\ UNCHANGED used
  BY DEF commitMove
<1>6. ASSUME NEW m \in Node, node[m] # NULL
      PROVE  /\ node[m] \in NodeRow /\ node[m].path \in Path
             /\ node[m].parent \in Node \cup {NULL}
             /\ Moved(m) \in NodeRow
             /\ Moved(m).path = Rebased(node[m].path, old, new)
             /\ Moved(m).parent = node[m].parent /\ Moved(m).deleted = node[m].deleted
  <2>1. node[m] \in NodeRow /\ node[m].path \in Path /\ node[m].parent \in Node \cup {NULL}
    BY <1>1, <1>6 DEF TypeOK, NodeRow
  <2>2. Rebased(node[m].path, old, new) \in Path
    BY <1>2, <2>1, RebasedIsPath
  <2> HIDE DEF old, new
  <2> QED BY <2>1, <2>2 DEF NodeRow
<1>7. /\ moved \in NodeRow /\ moved.path = new /\ moved.parent = p
      /\ moved.deleted = node[n].deleted
  BY <1>2 DEF NodeRow
<1>8. \A m \in below : m \in Node \ {n} /\ node[m] # NULL /\ IsPrefix(old, node[m].path)
  BY DEF Under
<1> HIDE DEF n, p, old, new, moved, below, Moved
<1>9. Others(s) /\ pc'[s] = "idle" /\ irregular \subseteq irregular'
  BY <1>1, <1>5, ReturnEffect DEF Overtakes
<1>10. \A m \in Node : /\ (node'[m] = NULL) <=> (node[m] = NULL)
                       /\ Live(m)' <=> Live(m)
  <2>1. TAKE m \in Node
  <2>2. CASE m = n
    BY <1>2, <1>5, <1>7, <2>2, NodeNull DEF Live
  <2>3. CASE m # n /\ m \in below
    BY <1>5, <1>6, <1>8, <2>3, NodeNull DEF Live
  <2>4. CASE m # n /\ m \notin below
    BY <1>5, <2>4 DEF Live
  <2> QED BY <2>2, <2>3, <2>4
<1>11. /\ node'[n].parent = p /\ node'[n].path = new
       /\ \A m \in Node \ {n} : node[m] # NULL => node'[m].parent = node[m].parent
  BY <1>2, <1>5, <1>6, <1>7
<1>12. \A m \in Node : node'[m] # NULL /\ node'[m].parent # NULL => Born(node'[m].parent)
  BY <1>2, <1>4, <1>10, <1>11 DEF Tree, ParentsBorn
<1>13. ASSUME irregular' \cap {"parent", "children"} = {}
       PROVE  LiveParents'
  <2>1. LiveParents /\ (p # NULL => Live(p))
    BY <1>4, <1>9, <1>13, PlainForms DEF Tree
  <2>2. SUFFICES ASSUME NEW m \in Node, Live(m)', node'[m].parent # NULL
                 PROVE  node'[m].parent \in Node /\ Live(node'[m].parent)
    BY <1>10 DEF LiveParents, Live
  <2>3. Live(m) /\ node[m] # NULL
    BY <1>10, <2>2 DEF Live
  <2> QED BY <1>2, <1>6, <1>11, <2>1, <2>2, <2>3 DEF LiveParents
<1>14. ASSUME irregular' \cap {"paths", "below"} = {}
       PROVE  ParentPaths'
  <2>1. /\ ParentPaths /\ old = node[n].path /\ below = Under(n, old)
        /\ p = NULL \/ node[p] # NULL => new = ChildPath(n, p)
        /\ p # NULL => ~IsPrefix(old, Front(new))
    BY <1>4, <1>9, <1>14, PlainForms DEF Tree
  <2>2. ASSUME NEW m \in Node, node[m] # NULL
        PROVE  /\ IsPrefix(old, node[m].path) => node'[m].path = Rebased(node[m].path, old, new)
               /\ ~IsPrefix(old, node[m].path) => node'[m].path = node[m].path
    <3>1. CASE m = n
      BY <1>2, <1>11, <2>1, <3>1, RebasedWhole, PrefixOfItself
    <3>2. CASE m # n
      BY <1>5, <1>6, <2>1, <2>2, <3>2 DEF Under
    <3> QED BY <3>1, <3>2
  <2>3. SUFFICES ASSUME NEW m \in Node, Live(m)'
                 PROVE  /\ node'[m].parent = NULL => Len(node'[m].path) = 1
                        /\ node'[m].parent # NULL /\ node'[node'[m].parent] # NULL =>
                             node'[node'[m].parent].path = Front(node'[m].path)
    BY DEF ParentPaths
  <2>4. Live(m) /\ node[m] # NULL
    BY <1>10, <2>3 DEF Live
  <2>5. CASE m = n
    <3>1. CASE p = NULL \/ node[p] # NULL
      <4>1. (p = NULL => Len(new) = 1) /\ (p # NULL => Front(new) = node[p].path)
        BY <1>1, <1>2, <2>1, <3>1, ChildFollows
      <4>2. p # NULL => node'[p].path = node[p].path
        BY <1>2, <2>1, <2>2, <3>1, <4>1
      <4> QED BY <1>11, <2>5, <4>1, <4>2
    <3>2. CASE p # NULL /\ node[p] = NULL
      <4>1. node'[p] = NULL
        BY <1>2, <1>10, <3>2
      <4> QED BY <1>11, <2>5, <3>2, <4>1
    <3> QED BY <3>1, <3>2
  <2>6. CASE m # n
    <3> DEFINE k == node[m].parent
    <3>1. node'[m].parent = k /\ k \in Node \cup {NULL} /\ node[m].path \in Path
      BY <1>6, <1>11, <2>4, <2>6
    <3>2. k = NULL => Len(node[m].path) = 1
      BY <2>1, <2>4 DEF ParentPaths
    <3>3. k # NULL /\ node'[k] # NULL =>
            node[k] # NULL /\ node[k].path = Front(node[m].path) /\ node[k].path \in Path
      BY <1>6, <1>10, <2>1, <2>4, <3>1 DEF ParentPaths
    <3>4. node[m].path # old
      BY <1>2, <2>1, <2>4, <2>6 DEF PathsDistinct, Live
    <3> HIDE DEF k
    <3>5. CASE IsPrefix(old, node[m].path)
      <4>1. Len(old) < Len(node[m].path) /\ Len(node[m].path) > 1 /\ IsPrefix(old, Front(node[m].path))
        BY <1>2, <3>1, <3>4, <3>5, PrefixOfSameLength, PathIsSeq
      <4>2. k # NULL
        BY <3>1, <3>2, <4>1, PathIsSeq
      <4>3. node'[k] # NULL => node'[k].path = Rebased(Front(node[m].path), old, new)
        BY <2>2, <3>1, <3>3, <4>1, <4>2
      <4>4. Front(Rebased(node[m].path, old, new)) = Rebased(Front(node[m].path), old, new)
        BY <1>2, <3>1, <4>1, RebasedFront
      <4> QED BY <2>2, <2>4, <3>1, <3>5, <4>2, <4>3, <4>4
    <3>6. CASE ~IsPrefix(old, node[m].path)
      <4>1. node'[m].path = node[m].path
        BY <2>2, <2>4, <3>6
      <4>2. k # NULL /\ node'[k] # NULL => ~IsPrefix(old, node[k].path)
        BY <1>2, <3>1, <3>3, <3>6, PrefixOfFront
      <4>3. k # NULL /\ node'[k] # NULL => node'[k].path = node[k].path
        BY <2>2, <3>1, <3>3, <4>2
      <4> QED BY <3>1, <3>2, <3>3, <4>1, <4>3
    <3> QED BY <3>5, <3>6
  <2> QED BY <2>5, <2>6
<1> QED BY <1>5, <1>9, <1>12, <1>13, <1>14, WriteKept

(* A new organization's three nodes hang together, and from nobody else's. *)
LEMMA SetupGrows ==
  ASSUME IInv, Tree, NEW s \in Session, Setup(s)
  PROVE  Tree'
<1>1. TypeOK /\ FreshRows /\ RequestsOK
  BY DEF IInv
<1>2. PICK o \in Org, f, c, w \in Node, t1, t2, t3 \in Time, name \in Name :
        createDefaultSetup(s, o, f, c, w, t1, t2, t3, name)
  BY DEF Setup
<1> DEFINE path1 == <<t1>>
           path2 == Append(path1, t2 + 1)
           path3 == Append(path2, t3 + 2)
           row1 == Row(o, name, NULL, path1, "IDLE")
           row2 == Row(o, name, f, path2, "IDLE")
           row3 == Row(o, name, c, path3, "IDLE")
           new  == {f, c, w}
<1>3. /\ new \cap used = {} /\ f # c /\ w \notin {f, c} /\ pc[s] = "idle"
      /\ node' = [node EXCEPT ![f] = row1, ![c] = row2, ![w] = row3]
      /\ used' = used \cup new /\ UNCHANGED requests /\ Overtakes(s)
  BY <1>2 DEF createDefaultSetup, At
<1>4. Len(path1) = 1 /\ Front(path2) = path1 /\ Front(path3) = path2
  <2>1. t1 \in Label /\ t2 + 1 \in Label /\ t3 + 2 \in Label
    BY TimeLabels DEF Label
  <2>2. path1 \in Path /\ path2 \in Path
    BY <2>1, SingleIsPath, AppendIsPath
  <2>3. Len(path1) = 1
    BY <2>1, LastOfSingle
  <2>4. Front(path2) = path1
    BY <2>1, <2>2, LastOfAppend
  <2> HIDE DEF path2
  <2>5. Front(path3) = path2
    BY <2>1, <2>2, LastOfAppend
  <2> QED BY <2>3, <2>4, <2>5
<1>5. /\ row1.path = path1 /\ row1.parent = NULL /\ ~row1.deleted
      /\ row2.path = path2 /\ row2.parent = f /\ ~row2.deleted
      /\ row3.path = path3 /\ row3.parent = c /\ ~row3.deleted
  BY DEF Row
<1>6. row1 # NULL /\ row2 # NULL /\ row3 # NULL
  <2>1. path1 \in Path /\ path2 \in Path /\ path3 \in Path
    BY TimeLabels, SingleIsPath, AppendIsPath DEF Label
  <2> HIDE DEF path1, path2, path3
  <2>2. row1 \in NodeRow /\ row2 \in NodeRow /\ row3 \in NodeRow
    BY <2>1, NodeConstants DEF Row, NodeRow
  <2> QED BY <2>2, NodeNull
<1>7. new = {f, c, w}
  OBVIOUS
<1> HIDE DEF path1, path2, path3, row1, row2, row3, new
<1>8. /\ node'[f] = row1 /\ node'[c] = row2 /\ node'[w] = row3
      /\ \A m \in Node \ new : node'[m] = node[m]
  BY <1>1, <1>3, <1>7 DEF TypeOK
<1>9. Others(s) /\ pc'[s] = "idle" /\ irregular \subseteq irregular'
  BY <1>3 DEF Others, Overtakes, requests
<1>10. Born(f)' /\ Born(c)'
  <2>1. \A t \in Session : At(t, "create.insert") => call[t].node \in used
    BY <1>1 DEF RequestsOK, RequestOK, At
  <2> QED BY <1>3, <1>7, <2>1 DEF Born, At, requests
<1>11. ASSUME NEW m \in Node, node[m] # NULL
       PROVE  /\ m \notin new /\ node'[m] = node[m] /\ node[m].parent \in Node \cup {NULL}
              /\ node[m].parent # NULL =>
                   Born(node[m].parent) /\ node'[node[m].parent] = node[node[m].parent]
  <2>1. m \notin new /\ node[m].parent \in Node \cup {NULL}
    BY <1>1, <1>3, <1>7, <1>11 DEF FreshRows, TypeOK, NodeRow
  <2>2. node[m].parent # NULL => Born(node[m].parent) /\ node[m].parent \notin new
    BY <1>3, <1>11 DEF Tree, ParentsBorn, Born
  <2> QED BY <1>8, <2>1, <2>2
<1>12. \A m \in Node : node'[m] # NULL => node[m] # NULL \/ m \in new
  BY <1>8
<1>13. f # NULL /\ c # NULL
  BY NodeConstants
<1>14. \A m \in Node : node'[m] # NULL /\ node'[m].parent # NULL =>
         Born(node'[m].parent) \/ Born(node[m].parent)'
  BY <1>5, <1>7, <1>8, <1>10, <1>11, <1>12
<1>15. ASSUME irregular' \cap {"parent", "children"} = {}
       PROVE  LiveParents'
  <2>1. LiveParents
    BY <1>9, <1>15, PlainForms DEF Tree
  <2>2. SUFFICES ASSUME NEW m \in Node, Live(m)', node'[m].parent # NULL
                 PROVE  node'[node'[m].parent] # NULL /\ ~node'[node'[m].parent].deleted
    BY DEF LiveParents, Live
  <2>3. CASE node[m] # NULL
    BY <1>11, <2>1, <2>2, <2>3 DEF LiveParents, Live
  <2>4. CASE m \in new
    BY <1>5, <1>6, <1>7, <1>8, <2>2, <2>4
  <2> QED BY <1>12, <2>2, <2>3, <2>4 DEF Live
<1>16. ASSUME irregular' \cap {"paths", "below"} = {}
       PROVE  ParentPaths'
  <2>1. ParentPaths
    BY <1>9, <1>16, PlainForms DEF Tree
  <2>2. SUFFICES ASSUME NEW m \in Node, Live(m)'
                 PROVE  /\ node'[m].parent = NULL => Len(node'[m].path) = 1
                        /\ node'[m].parent # NULL /\ node'[node'[m].parent] # NULL =>
                             node'[node'[m].parent].path = Front(node'[m].path)
    BY DEF ParentPaths
  <2>3. CASE node[m] # NULL
    BY <1>11, <2>1, <2>2, <2>3 DEF ParentPaths, Live
  <2>4. CASE m \in new
    BY <1>4, <1>5, <1>7, <1>8, <1>13, <2>4
  <2> QED BY <1>12, <2>2, <2>3, <2>4 DEF Live
<1> QED BY <1>3, <1>9, <1>14, <1>15, <1>16, WriteKept

-----------------------------------------------------------------------------
(* The theorems. *)

LEMMA TreeNext ==
  ASSUME IInv, PathsDistinct, Tree, [Next]_vars
  PROVE  Tree'
<1>1. ASSUME UNCHANGED <<node, used, irregular, requests>> PROVE Tree'
  <2>1. ParentsLive' /\ PathsFollow' /\ ParentsBorn'
    BY <1>1 DEF Tree, ParentsLive, PathsFollow, ParentsBorn, Born, Placing, Place, At, Live, requests
  <2>2. \A t \in Session : Informed(t)' /\ Beside(t)'
    BY <1>1, NodesKept, ReadingsStay, BesideStays DEF IInv, RequestsOK, Tree, requests
  <2> QED BY <2>1, <2>2 DEF Tree
<1>2. ASSUME NEW s \in Session, OtherRequest(s) PROVE Tree'
  <2>1. PICK o \in Org, n \in Node :
          \/ \E p \in Node \cup {NULL}, name \in Name, status \in Status :
               create(s, o, n, name, p, status)
          \/ \E name \in Name : update(s, o, n, name)
          \/ changeStatus(s, o, n)
          \/ recordActivity(s, n)
          \/ delete(s, o, n)
    BY <1>2 DEF OtherRequest
  <2>2. CASE recordActivity(s, n)
    BY <1>1, <2>2 DEF recordActivity
  <2> QED BY <2>1, <2>2, CreateGrows, ReadsKeepTree
<1>3. ASSUME NEW s \in Session,
             auditNode(s) \/ checkChildren(s) \/ readLogs(s) \/ forUpdate(s) \/ Fail(s)
      PROVE  Tree'
  <2>1. pc[s] # "idle"
    BY <1>3 DEF auditNode, checkChildren, readLogs, forUpdate, Fail, Abort, At
  <2>2. call[s].org \in Org /\ call[s].node \in Node
    BY <2>1 DEF IInv, RequestsOK, RequestOK, NodeCall
  <2> QED BY <1>3, <2>2, ReadsKeepTree
<1>4. ASSUME NEW s \in Session, Move(s) PROVE Tree'
  BY <1>4, MoveBegins DEF Move
<1>5. ASSUME NEW s \in Session, Step(s) PROVE Tree'
  BY <1>3, <1>5, InsertGrows, WritesKeepTree, DeletesKeepTree, ParentRead, MoveGoesOn, MoveKeepsTree
     DEF Step
<1> QED BY <1>1, <1>2, <1>3, <1>4, <1>5, SetupGrows DEF Next, vars

(* With paths that follow the parents, no node is above itself: going up,  *)
(* the paths get shorter.                                                  *)
LEMMA TreeHasNoCycle ==
  ASSUME TypeOK, ParentPaths
  PROVE  Hierarchy
<1>1. SUFFICES ASSUME NEW C \in SUBSET Node, C # {}, \A n \in C : Live(n) /\ node[n].parent \in C
               PROVE  FALSE
  BY DEF Hierarchy
<1> DEFINE depths == {Len(node[n].path) : n \in C}
<1>2. \A n \in C : /\ node[n].path \in Path /\ node[n].parent \in C
                   /\ node[node[n].parent].path = Front(node[n].path)
                   /\ node[node[n].parent].path \in Path
  <2>1. TAKE n \in C
  <2>2. node[n] \in NodeRow /\ node[n].parent \in C /\ node[n].parent # NULL
    BY <1>1, NodeConstants DEF TypeOK, Live
  <2>3. node[node[n].parent] # NULL /\ node[node[n].parent] \in NodeRow
    BY <1>1, <2>2 DEF TypeOK, Live
  <2>4. node[node[n].parent].path = Front(node[n].path)
    BY <1>1, <2>2, <2>3 DEF ParentPaths
  <2> QED BY <2>2, <2>3, <2>4 DEF NodeRow
<1>3. depths \in SUBSET Nat /\ depths # {}
  BY <1>1, <1>2, PathIsSeq
<1>4. PICK n \in C : \A m \in C : ~(Len(node[m].path) < Len(node[n].path))
  <2>1. \E d \in depths : \A e \in depths : ~(e < d)
    <3>1. IsWellFoundedOn(OpToRel(<, Nat), Nat)
      BY NatLessThanWellFounded
    <3>2. PICK d \in depths : \A e \in depths : <<e, d>> \notin OpToRel(<, Nat)
      BY <1>3, <3>1, WFMin
    <3> QED BY <1>3, <3>2 DEF OpToRel
  <2> QED BY <2>1
<1>5. Len(Front(node[n].path)) = Len(node[n].path) - 1 /\ Len(node[n].path) \in Nat
  BY <1>2, PrefixOfFront, FrontIsPath, PathIsSeq
<1>6. Len(node[node[n].parent].path) < Len(node[n].path) /\ node[n].parent \in C
  BY <1>2, <1>5
<1> QED BY <1>4, <1>6

LEMMA TreeInvariance == Spec => [](IInv /\ Tree)
<1>1. Init => Tree
  BY DEF Init, NoRequests, Tree, ParentsLive, PathsFollow, ParentsBorn, Informed, ParentStillLive,
         PathsStillSo, StillChildless, Beside, Placing, Moving, Removing, At, Live
<1>2. IInv /\ PathsDistinct /\ Tree /\ [Next]_vars => Tree'
  BY TreeNext
<1> QED BY <1>1, <1>2, Invariance, PathsStayDistinct, PTL DEF Spec

(* create, move, delete and the default setup, whatever is done at the     *)
(* same time: the parent of a live node is a live node, until a request    *)
(* that was told a parent is there, or that no children are, writes after  *)
(* another has changed that.                                               *)
THEOREM ParentsStayLive == Spec => []ParentsLive
BY TreeInvariance, PTL DEF Tree

(* And the path of every live node is its parent's with one more label,    *)
(* until another rewrites a path between a request's read of it and its    *)
(* write, or a node is moved below itself.                                 *)
THEOREM PathsFollowParents == Spec => []PathsFollow
BY TreeInvariance, PTL DEF Tree

(* Up to then, no node is above itself.                                    *)
THEOREM NoNodeAboveItself == Spec => []HierarchyKept
<1>1. IInv /\ Tree => HierarchyKept
  BY PlainForms, TreeHasNoCycle DEF IInv, Tree, HierarchyKept
<1> QED BY <1>1, TreeInvariance, PTL
=============================================================================
