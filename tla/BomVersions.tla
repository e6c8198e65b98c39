---------------------------- MODULE BomVersions ----------------------------
(***************************************************************************)
(* The version strings of BOM revisions.  The column is a varchar holding  *)
(* "<major>.<minor>"; the service splits it at the dot and turns the two   *)
(* parts into numbers, while the database sorts and matches the same       *)
(* column as text.  A version is modelled by the two numbers it is read as *)
(* and by the zeros a user typed in front of the first, which the numbers  *)
(* lose; Text gives back the characters the database compares.             *)
(***************************************************************************)
EXTENDS Integers, Sequences

(* The number JavaScript writes as "-Infinity": Math.max() of no argument. *)
(* It is below every minor number, which is all that is used of it.        *)
NegInfinity == -1

Minor == Nat \cup {NegInfinity}
Version == [zeros : Nat, major : Nat, minor : Minor]

Plain(major, minor) == [zeros |-> 0, major |-> major, minor |-> minor]

(* Decimal digits, most significant first.  MaxDigits bounds the length of *)
(* one number; the varchar(50) column leaves room for no more than 48.     *)
MaxDigits == 8
Digits(n) ==
  LET k == CHOOSE i \in 1..MaxDigits : n < 10^i /\ \A j \in 1..(i - 1) : n >= 10^j
  IN  [i \in 1..k |-> (n \div 10^(k - i)) % 10]

(* Characters in byte order ('-' < '.' < '0'..'9'), the order postgres:15- *)
(* alpine (musl) sorts a varchar by.                                       *)
Dash == -2
Dot  == -1
Text(v) == [i \in 1..v.zeros |-> 0] \o Digits(v.major) \o <<Dot>>
             \o (IF v.minor = NegInfinity THEN <<Dash>> ELSE Digits(v.minor))

TextBefore(a, b) ==
  \E i \in 1..Len(b) :
    /\ i - 1 <= Len(a)
    /\ \A j \in 1..(i - 1) : a[j] = b[j]
    /\ i <= Len(a) => a[i] < b[i]

(* findFirst with orderBy desc(version): the greatest text among the set V. *)
Latest(V) == {v \in V : \A w \in V : ~TextBefore(Text(v), Text(w))}

(* version LIKE '<major>.%': a version typed with zeros does not match.    *)
Like(V, major) == {v \in V : v.major = major /\ v.zeros = 0}

(* BomService.compareVersions: numeric, component by component.            *)
compareVersions(v, w) ==
  IF v.major > w.major \/ (v.major = w.major /\ v.minor > w.minor) THEN 1
  ELSE IF v.major = w.major /\ v.minor = w.minor THEN 0 ELSE -1

(* Faulty variant: the major number is not incremented.                     *)
NextMajorSame(v) == Plain(v.major, 0)

(* `${major + 1}.0` of createRevision.                                     *)
NextMajor(v) == Plain(v.major + 1, 0)

(* Faulty variant: no related revision is ever found.                       *)
LatestMinorOfNone(minors) == {NegInfinity}

(* Faulty variant: the minor number is not incremented.                     *)
NextMinorSame(m) == m

(* Math.max(...minors) of createAlternative, and the number after it:      *)
(* -Infinity + 1 is -Infinity.                                             *)
LatestMinor(minors) ==
  IF minors = {} THEN {NegInfinity} ELSE {m \in minors : \A n \in minors : n <= m}
NextMinor(m) == IF m = NegInfinity THEN NegInfinity ELSE m + 1
=============================================================================
