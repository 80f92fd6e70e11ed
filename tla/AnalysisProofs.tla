--------------------------- MODULE AnalysisProofs ---------------------------
(***************************************************************************)
(* Six parts of the analysis, for any inputs. For any captures, any        *)
(* clock and any threshold: merging, moving, cutting and sorting the timed *)
(* signals keeps every event once and in order, and the stall windows made *)
(* of them are apart and cover the late heartbeats. For any pipeline and   *)
(* any choice of the parts that throw: the report is that of the pipeline  *)
(* without those parts, and says which they were. For any async operation: *)
(* its life is divided into running and waiting without gap or overlap.    *)
(* For any async operations and CPU samples: a sample belongs to the       *)
(* innermost of the operations that run when it is taken. For any two      *)
(* reports: their diff places every finding once, and agrees with the one  *)
(* taken the other way round. For any view of a CPU profile and any order  *)
(* of its detectors: a hot frame is told of once, and the findings are the *)
(* same.                                                                   *)
(***************************************************************************)
EXTENDS EventAnalysis, ReportAnalysis, AsyncAnalysis, FiniteSetTheorems, FunctionTheorems, SequenceTheorems,
        WellFoundedInduction, TLAPS

Sample == [at : Nat, lag : Nat]

(* The order that a sort by key leaves: equal keys keep their places. *)
Precedes(key, j, i) == key[j] < key[i] \/ (key[j] = key[i] /\ j <= i)

Place(I, key, i) == Cardinality({j \in I : Precedes(key, j, i)})

(* p lists the places of I, smaller keys first. *)
Lists(p, I, key) ==
  /\ p \in [1 .. Cardinality(I) -> I]
  /\ \A i \in I : \E k \in 1 .. Cardinality(I) : p[k] = i
  /\ \A k, l \in 1 .. Cardinality(I) : k < l => Precedes(key, p[k], p[l]) /\ p[k] # p[l]

------------------------------------------------------------------------------
(* The greater and the smaller of two numbers. *)
LEMMA MaxOfTwo ==
  ASSUME NEW a \in Int, NEW b \in Int
  PROVE  Max({a, b}) = IF a >= b THEN a ELSE b
<1> DEFINE m == IF a >= b THEN a ELSE b
<1>1. m \in {a, b} /\ \A y \in {a, b} : m >= y
  OBVIOUS
<1>2. \A x \in {a, b} : (\A y \in {a, b} : x >= y) => x = m
  OBVIOUS
<1> QED
  BY <1>1, <1>2 DEF Max

(* And the smaller. *)
LEMMA MinOfTwo ==
  ASSUME NEW a \in Int, NEW b \in Int
  PROVE  Min({a, b}) = IF a <= b THEN a ELSE b
<1> DEFINE m == IF a <= b THEN a ELSE b
<1>1. m \in {a, b} /\ \A y \in {a, b} : m <= y
  OBVIOUS
<1>2. \A x \in {a, b} : (\A y \in {a, b} : x <= y) => x = m
  OBVIOUS
<1> QED
  BY <1>1, <1>2 DEF Min

(* A set of numbers that is not empty has a least one. *)
LEMMA LeastNatural ==
  ASSUME NEW S \in SUBSET Nat, S # {}
  PROVE  \E m \in S : \A n \in S : m <= n
<1> DEFINE R == {pair \in Nat \X Nat : pair[1] < pair[2]}
<1>1. IsWellFoundedOn(R, Nat)
  BY NatLessThanWellFounded DEF OpToRel
<1>2. PICK m \in S : \A n \in S : <<n, m>> \notin R
  BY <1>1, WFMin, Zenon
<1>3. ASSUME NEW n \in S PROVE m <= n
  <2>1. <<n, m>> \notin R
    BY <1>2
  <2>2. n \in Nat /\ m \in Nat /\ <<n, m>> \in Nat \X Nat
    OBVIOUS
  <2>3. ~(n < m)
    BY <2>1, <2>2
  <2> QED
    BY <2>2, <2>3
<1> QED
  BY <1>3

(* The places of a sort: each element of I has one, and no two share it. *)
LEMMA PlaceIs ==
  ASSUME NEW I, IsFiniteSet(I), I \subseteq Int, NEW key \in [I -> Int]
  PROVE  /\ \A i \in I : Place(I, key, i) \in 1 .. Cardinality(I)
         /\ \A i, j \in I : i # j /\ Precedes(key, j, i) => Place(I, key, j) < Place(I, key, i)
<1> DEFINE P(i) == {j \in I : Precedes(key, j, i)}
<1>1. \A i \in I : key[i] \in Int /\ i \in Int
  OBVIOUS
<1>2. ASSUME NEW i \in I
      PROVE  P(i) \subseteq I /\ i \in P(i) /\ IsFiniteSet(P(i)) /\ Cardinality(P(i)) \in 1 .. Cardinality(I)
  <2>1. P(i) \subseteq I
    OBVIOUS
  <2>2. i \in P(i)
    BY <1>1 DEF Precedes
  <2> HIDE DEF P
  <2>3. IsFiniteSet(P(i)) /\ Cardinality(P(i)) <= Cardinality(I)
    BY <2>1, FS_Subset
  <2>4. Cardinality(P(i)) \in Nat /\ Cardinality(P(i)) # 0 /\ Cardinality(I) \in Nat
    BY <2>2, <2>3, FS_CardinalityType, FS_EmptySet
  <2> QED
    BY <2>1, <2>2, <2>3, <2>4
<1>3. ASSUME NEW i \in I, NEW j \in I, i # j, Precedes(key, j, i)
      PROVE  Cardinality(P(j)) < Cardinality(P(i))
  <2>1. i \notin P(j)
    BY <1>1, <1>3 DEF Precedes
  <2>2. P(j) \subseteq P(i)
    <3> SUFFICES ASSUME NEW l \in I, Precedes(key, l, j) PROVE Precedes(key, l, i)
      OBVIOUS
    <3>1. key[l] \in Int /\ key[j] \in Int /\ key[i] \in Int /\ l \in Int /\ j \in Int /\ i \in Int
      BY <1>1
    <3> QED
      BY <1>3, <3>1 DEF Precedes
  <2>3. i \in P(i) /\ IsFiniteSet(P(i)) /\ IsFiniteSet(P(j))
    BY <1>2
  <2> HIDE DEF P
  <2>4. Cardinality(P(j)) <= Cardinality(P(i)) /\ Cardinality(P(j)) # Cardinality(P(i))
    BY <2>1, <2>2, <2>3, FS_Subset
  <2> QED
    BY <2>3, <2>4, FS_CardinalityType
<1> QED
  BY <1>2, <1>3 DEF Place

(* A sort lists the places it was given. *)
LEMMA SortLists ==
  ASSUME NEW I, IsFiniteSet(I), I \subseteq Int, NEW key \in [I -> Int]
  PROVE  Lists([k \in 1 .. Cardinality(I) |-> CHOOSE i \in I : Place(I, key, i) = k], I, key)
<1> DEFINE n == Cardinality(I)
           q == [i \in I |-> Place(I, key, i)]
           p == [k \in 1 .. n |-> CHOOSE i \in I : Place(I, key, i) = k]
<1>1. /\ \A i \in I : Place(I, key, i) \in 1 .. n
      /\ \A i, j \in I : i # j /\ Precedes(key, j, i) => Place(I, key, j) < Place(I, key, i)
  BY PlaceIs
<1>2. n \in Nat
  BY FS_CardinalityType
<1>3. \A i, j \in I : Precedes(key, i, j) \/ Precedes(key, j, i)
  BY DEF Precedes
<1>4. \A i, j \in I : Place(I, key, i) = Place(I, key, j) => i = j
  BY <1>1, <1>2, <1>3
<1>5. \A k \in 1 .. n : \E i \in I : Place(I, key, i) = k
  <2>1. q \in Injection(I, 1 .. n)
    BY <1>1, <1>4 DEF Injection, IsInjective
  <2>2. IsFiniteSet(1 .. n) /\ Cardinality(1 .. n) = n
    BY <1>2, FS_Interval
  <2>3. q \in Surjection(I, 1 .. n)
    BY <2>1, <2>2, FS_Injection
  <2> QED
    BY <2>3 DEF Surjection
<1>6. \A k \in 1 .. n : p[k] \in I /\ Place(I, key, p[k]) = k
  BY <1>5
<1>7. p \in [1 .. n -> I]
  BY <1>6
<1>8. \A i \in I : \E k \in 1 .. n : p[k] = i
  BY <1>1, <1>4, <1>6
<1>9. ASSUME NEW k \in 1 .. n, NEW l \in 1 .. n, k < l
      PROVE  Precedes(key, p[k], p[l]) /\ p[k] # p[l]
  <2>1. p[k] \in I /\ p[l] \in I /\ Place(I, key, p[k]) < Place(I, key, p[l])
    BY <1>2, <1>6, <1>9
  <2>2. p[k] # p[l]
    BY <1>2, <1>6, <1>9
  <2> HIDE DEF p
  <2>3. Place(I, key, p[k]) \in Int /\ Place(I, key, p[l]) \in Int
    BY <1>6
  <2>4. ~(Place(I, key, p[l]) < Place(I, key, p[k]))
    BY <2>1, <2>3
  <2> QED
    BY <1>1, <1>3, <2>1, <2>2, <2>4
<1> QED
  BY <1>7, <1>8, <1>9 DEF Lists

(* What Arranged returns: the elements at the places of I, listed by key. *)
LEMMA ArrangedIs ==
  ASSUME NEW S, NEW s \in Seq(S), NEW I \in SUBSET DOMAIN s, NEW key \in [I -> Int]
  PROVE  /\ IsFiniteSet(I) /\ Cardinality(I) \in Nat
         /\ Arranged(s, I, key) \in Seq(S) /\ Len(Arranged(s, I, key)) = Cardinality(I)
         /\ \E p : Lists(p, I, key) /\ \A k \in 1 .. Cardinality(I) : Arranged(s, I, key)[k] = s[p[k]]
<1> DEFINE n == Cardinality(I)
           p == [k \in 1 .. n |-> CHOOSE i \in I : Place(I, key, i) = k]
<1>1. DOMAIN s = 1 .. Len(s) /\ Len(s) \in Nat /\ \A i \in DOMAIN s : s[i] \in S
  BY LenProperties, ElementOfSeq
<1>2. IsFiniteSet(I) /\ I \subseteq Int /\ n \in Nat
  <2>1. IsFiniteSet(1 .. Len(s)) /\ I \subseteq 1 .. Len(s) /\ I \subseteq Int
    BY <1>1, FS_Interval
  <2> QED
    BY <2>1, FS_Subset, FS_CardinalityType
<1>3. Lists(p, I, key)
  BY <1>2, SortLists
<1>4. Arranged(s, I, key) = [k \in 1 .. n |-> s[p[k]]]
  BY DEF Arranged, Place, Precedes
<1> HIDE DEF p
<1>5. \A k \in 1 .. n : s[p[k]] \in S
  BY <1>1, <1>3 DEF Lists
<1> QED
  BY <1>2, <1>3, <1>4, <1>5

(* What a filter leaves: the elements at the places of I, in the order they had. *)
LEMMA PickedIs ==
  ASSUME NEW S, NEW s \in Seq(S), NEW I \in SUBSET DOMAIN s
  PROVE  /\ IsFiniteSet(I) /\ Cardinality(I) \in Nat
         /\ Picked(s, I) \in Seq(S) /\ Len(Picked(s, I)) = Cardinality(I)
         /\ \E p \in [1 .. Cardinality(I) -> I] :
              /\ \A i \in I : \E k \in 1 .. Cardinality(I) : p[k] = i
              /\ \A k, l \in 1 .. Cardinality(I) : k < l => p[k] < p[l]
              /\ \A k \in 1 .. Cardinality(I) : Picked(s, I)[k] = s[p[k]]
<1> DEFINE key == [i \in I |-> i]
<1>1. DOMAIN s = 1 .. Len(s) /\ Len(s) \in Nat
  BY LenProperties
<1>2. I \subseteq Int /\ key \in [I -> Int] /\ \A i \in I : key[i] = i
  BY <1>1
<1>3. Picked(s, I) = Arranged(s, I, key)
  BY DEF Picked
<1> HIDE DEF key
<1>4. /\ IsFiniteSet(I) /\ Cardinality(I) \in Nat
      /\ Arranged(s, I, key) \in Seq(S) /\ Len(Arranged(s, I, key)) = Cardinality(I)
  BY <1>2, ArrangedIs
<1>5. PICK p : Lists(p, I, key) /\ \A k \in 1 .. Cardinality(I) : Arranged(s, I, key)[k] = s[p[k]]
  BY <1>2, ArrangedIs
<1>6. ASSUME NEW k \in 1 .. Cardinality(I), NEW l \in 1 .. Cardinality(I), k < l
      PROVE  p[k] < p[l]
  <2>1. p[k] \in I /\ p[l] \in I /\ Precedes(key, p[k], p[l]) /\ p[k] # p[l]
    BY <1>5, <1>6 DEF Lists
  <2>2. p[k] \in Int /\ p[l] \in Int /\ key[p[k]] = p[k] /\ key[p[l]] = p[l]
    BY <1>2, <2>1
  <2> QED
    BY <2>1, <2>2 DEF Precedes
<1>7. p \in [1 .. Cardinality(I) -> I] /\ \A i \in I : \E k \in 1 .. Cardinality(I) : p[k] = i
  BY <1>5 DEF Lists
<1>8. /\ \A k, l \in 1 .. Cardinality(I) : k < l => p[k] < p[l]
      /\ \A k \in 1 .. Cardinality(I) : Picked(s, I)[k] = s[p[k]]
  BY <1>3, <1>5, <1>6
<1>9. Picked(s, I) \in Seq(S) /\ Len(Picked(s, I)) = Cardinality(I)
  BY <1>3, <1>4
<1> QED
  BY ONLY <1>4, <1>7, <1>8, <1>9, Zenon

(* Picking every element leaves the sequence as it was. *)
LEMMA PickedAll ==
  ASSUME NEW S, NEW s \in Seq(S)
  PROVE  Picked(s, DOMAIN s) = s
<1> DEFINE I == DOMAIN s
           key == [i \in I |-> i]
<1>1. I = 1 .. Len(s) /\ Len(s) \in Nat /\ Cardinality(I) = Len(s) /\ s \in [1 .. Len(s) -> S]
  BY LenProperties, FS_Interval
<1>2. ASSUME NEW i \in I
      PROVE  Place(I, key, i) = i
  <2>1. {j \in I : Precedes(key, j, i)} = 1 .. i
    BY <1>1 DEF Precedes
  <2>2. Cardinality(1 .. i) = i
    BY <1>1, FS_Interval
  <2> QED
    BY <2>1, <2>2 DEF Place
<1>3. Arranged(s, I, key) = [k \in 1 .. Cardinality(I) |-> s[CHOOSE i \in I : Place(I, key, i) = k]]
  BY DEF Arranged, Place, Precedes
<1>4. \A k \in 1 .. Len(s) : (CHOOSE i \in I : Place(I, key, i) = k) = k
  BY <1>1, <1>2
<1> QED
  BY <1>1, <1>3, <1>4 DEF Picked

(* A Map keyed by the whole entry keeps each entry once. *)
LEMMA OnceEachIs ==
  ASSUME NEW S, NEW s \in Seq(S)
  PROVE  /\ OnceEach(s) \in Seq(S) /\ ToSet(OnceEach(s)) = ToSet(s)
         /\ \A k, l \in DOMAIN OnceEach(s) : OnceEach(s)[k] = OnceEach(s)[l] => k = l
<1> DEFINE I == {i \in DOMAIN s : \A j \in 1 .. (i - 1) : s[j] # s[i]}
           n == Cardinality(I)
           r == Picked(s, I)
<1>1. DOMAIN s = 1 .. Len(s) /\ Len(s) \in Nat /\ OnceEach(s) = r
  BY LenProperties DEF OnceEach
<1>2. I \in SUBSET DOMAIN s
  OBVIOUS
<1>3. ASSUME NEW i \in DOMAIN s
      PROVE  \E m \in I : s[m] = s[i]
  <2> DEFINE T == {j \in DOMAIN s : s[j] = s[i]}
  <2>1. T \in SUBSET Nat /\ T # {}
    BY <1>1
  <2> HIDE DEF T
  <2>2. PICK m \in T : \A j \in T : m <= j
    BY <2>1, LeastNatural
  <2>3. m \in DOMAIN s /\ s[m] = s[i]
    BY DEF T
  <2>4. \A j \in 1 .. (m - 1) : s[j] # s[m]
    <3> SUFFICES ASSUME NEW j \in 1 .. (m - 1), s[j] = s[m] PROVE FALSE
      OBVIOUS
    <3>1. j \in T /\ j < m
      BY <1>1, <2>3 DEF T
    <3> QED
      BY <1>1, <2>2, <2>3, <3>1
  <2> QED
    BY <2>3, <2>4
<1>4. ASSUME NEW i \in I, NEW j \in I, j < i
      PROVE  s[j] # s[i]
  BY <1>1, <1>4
<1>5. I \subseteq Nat
  BY <1>1
<1> HIDE DEF I
<1>6. r \in Seq(S) /\ Len(r) = n /\ DOMAIN r = 1 .. n /\ n \in Nat
  BY <1>2, PickedIs, LenProperties
<1>7. PICK p \in [1 .. n -> I] :
        /\ \A i \in I : \E k \in 1 .. n : p[k] = i
        /\ \A k, l \in 1 .. n : k < l => p[k] < p[l]
        /\ \A k \in 1 .. n : r[k] = s[p[k]]
  BY <1>2, PickedIs
<1> HIDE DEF r, n
<1>8. ToSet(r) = ToSet(s)
  <2>1. \A k \in DOMAIN r : \E i \in DOMAIN s : r[k] = s[i]
    BY <1>2, <1>6, <1>7
  <2>2. \A i \in DOMAIN s : \E k \in DOMAIN r : r[k] = s[i]
    <3> SUFFICES ASSUME NEW i \in DOMAIN s PROVE \E k \in DOMAIN r : r[k] = s[i]
      OBVIOUS
    <3>1. PICK m \in I : s[m] = s[i]
      BY <1>3
    <3>2. PICK k \in 1 .. n : p[k] = m
      BY <1>7
    <3> QED
      BY <1>6, <1>7, <3>1, <3>2
  <2> QED
    BY <2>1, <2>2 DEF ToSet
<1>9. ASSUME NEW k \in DOMAIN r, NEW l \in DOMAIN r, k < l
      PROVE  r[k] # r[l]
  BY <1>4, <1>6, <1>7, <1>9
<1>10. \A k, l \in DOMAIN r : k \in Int /\ l \in Int
  BY <1>6
<1>11. \A k, l \in DOMAIN r : r[k] = r[l] => k = l
  BY <1>9, <1>10
<1> QED
  BY <1>1, <1>6, <1>8, <1>11

(* What has no doubles is left alone. *)
LEMMA OnceEachTwice ==
  ASSUME NEW S, NEW s \in Seq(S)
  PROVE  OnceEach(OnceEach(s)) = OnceEach(s)
<1> DEFINE r == OnceEach(s)
<1>1. r \in Seq(S) /\ \A k, l \in DOMAIN r : r[k] = r[l] => k = l
  BY OnceEachIs
<1> HIDE DEF r
<1>2. DOMAIN r = 1 .. Len(r) /\ Len(r) \in Nat
  BY <1>1, LenProperties
<1>3. {i \in DOMAIN r : \A j \in 1 .. (i - 1) : r[j] # r[i]} = DOMAIN r
  <2> SUFFICES ASSUME NEW i \in DOMAIN r, NEW j \in 1 .. (i - 1) PROVE r[j] # r[i]
    OBVIOUS
  <2>1. j \in DOMAIN r /\ j # i
    BY <1>2
  <2> QED
    BY <1>1, <2>1
<1>4. OnceEach(r) = Picked(r, DOMAIN r)
  BY <1>3 DEF OnceEach
<1> QED
  BY <1>1, <1>4, PickedAll DEF r

(* The set of a sequence made of two. *)
LEMMA SetOfConcat ==
  ASSUME NEW S, NEW s \in Seq(S), NEW t \in Seq(S)
  PROVE  s \o t \in Seq(S) /\ ToSet(s \o t) = ToSet(s) \cup ToSet(t)
<1>1. /\ s \o t \in Seq(S) /\ Len(s \o t) = Len(s) + Len(t)
      /\ \A i \in 1 .. Len(s) + Len(t) : (s \o t)[i] = IF i <= Len(s) THEN s[i] ELSE t[i - Len(s)]
  BY ConcatProperties
<1>2. /\ DOMAIN s = 1 .. Len(s) /\ Len(s) \in Nat /\ DOMAIN t = 1 .. Len(t) /\ Len(t) \in Nat
      /\ DOMAIN (s \o t) = 1 .. Len(s) + Len(t)
  BY <1>1, LenProperties
<1> DEFINE u == s \o t
<1> HIDE DEF u
<1>3. \A i \in DOMAIN u : u[i] \in ToSet(s) \cup ToSet(t)
  <2> SUFFICES ASSUME NEW i \in DOMAIN u PROVE u[i] \in ToSet(s) \cup ToSet(t)
    OBVIOUS
  <2>1. i \in 1 .. Len(s) + Len(t) /\ u[i] = IF i <= Len(s) THEN s[i] ELSE t[i - Len(s)]
    BY <1>1, <1>2 DEF u
  <2>2. CASE i <= Len(s)
    BY <1>2, <2>1, <2>2 DEF ToSet
  <2>3. CASE ~(i <= Len(s))
    <3>1. i - Len(s) \in DOMAIN t
      BY <1>2, <2>1, <2>3
    <3> QED
      BY <2>1, <2>3, <3>1 DEF ToSet
  <2> QED
    BY <2>2, <2>3
<1>4. \A i \in DOMAIN s : i \in DOMAIN u /\ u[i] = s[i]
  BY <1>1, <1>2 DEF u
<1>5. \A i \in DOMAIN t : Len(s) + i \in DOMAIN u /\ u[Len(s) + i] = t[i]
  <2> SUFFICES ASSUME NEW i \in DOMAIN t PROVE Len(s) + i \in DOMAIN u /\ u[Len(s) + i] = t[i]
    OBVIOUS
  <2>1. Len(s) + i \in 1 .. Len(s) + Len(t) /\ ~(Len(s) + i <= Len(s)) /\ (Len(s) + i) - Len(s) = i
    BY <1>2
  <2>2. u[Len(s) + i] = t[(Len(s) + i) - Len(s)]
    BY <1>1, <2>1 DEF u
  <2> QED
    BY <1>2, <2>1, <2>2 DEF u
<1>6. ToSet(u) = ToSet(s) \cup ToSet(t)
  <2>1. ToSet(s) \subseteq ToSet(u)
    BY <1>4 DEF ToSet
  <2>2. ToSet(t) \subseteq ToSet(u)
    BY <1>5 DEF ToSet
  <2>3. ToSet(u) \subseteq ToSet(s) \cup ToSet(t)
    BY <1>3 DEF ToSet
  <2> QED
    BY <2>1, <2>2, <2>3
<1> QED
  BY <1>1, <1>6 DEF u

------------------------------------------------------------------------------
(* Moving, cutting and sorting: the events of a capture are the samples up *)
(* to the cut, moved onto its clock, and in order.                         *)
Before(m, start, duration) == {i \in DOMAIN m : m[i].at - start <= duration + EventSlack}
OnClock(s, start) == [s EXCEPT !.at = Max({0, @ - start})]

(* Every sample moves onto the clock of the capture. *)
LEMMA MovedIs ==
  ASSUME NEW m \in Seq(Sample), NEW start \in Nat
  PROVE  /\ Moved(m, start) \in Seq(Sample) /\ DOMAIN Moved(m, start) = DOMAIN m
         /\ \A i \in DOMAIN m : /\ Moved(m, start)[i] = OnClock(m[i], start)
                               /\ Moved(m, start)[i].at = IF m[i].at >= start THEN m[i].at - start ELSE 0
<1>1. DOMAIN m = 1 .. Len(m) /\ Len(m) \in Nat /\ \A i \in DOMAIN m : m[i] \in Sample
  BY LenProperties, ElementOfSeq
<1>2. ASSUME NEW i \in DOMAIN m
      PROVE  /\ OnClock(m[i], start) \in Sample
             /\ OnClock(m[i], start).at = IF m[i].at >= start THEN m[i].at - start ELSE 0
  <2>1. m[i] \in Sample /\ m[i].at - start \in Int
    BY <1>1 DEF Sample
  <2>2. Max({0, m[i].at - start}) = IF 0 >= m[i].at - start THEN 0 ELSE m[i].at - start
    BY <2>1, MaxOfTwo
  <2>3. OnClock(m[i], start) = [m[i] EXCEPT !.at = Max({0, m[i].at - start})]
    BY DEF OnClock
  <2>4. Max({0, m[i].at - start}) = IF m[i].at >= start THEN m[i].at - start ELSE 0
    BY <2>1, <2>2 DEF Sample
  <2>5. Max({0, m[i].at - start}) \in Nat
    BY <2>1, <2>4 DEF Sample
  <2> QED
    BY <2>1, <2>3, <2>4, <2>5 DEF Sample
<1>3. Moved(m, start) = [i \in 1 .. Len(m) |-> OnClock(m[i], start)]
  BY <1>1 DEF Moved, OnClock
<1>4. Moved(m, start) \in Seq(Sample)
  BY <1>1, <1>2, <1>3
<1> QED
  BY <1>1, <1>2, <1>3, <1>4

(* The events are the samples up to the cut, by time. *)
LEMMA NormalizedIs ==
  ASSUME NEW m \in Seq(Sample), NEW start \in Nat, NEW duration \in Nat
  PROVE  LET events == NormalizeTimedEvents(m, start, duration)
             I == Before(m, start, duration)
         IN /\ events \in Seq(Sample) /\ IsFiniteSet(I) /\ Len(events) = Cardinality(I)
            /\ ToSet(events) = {OnClock(m[i], start) : i \in I}
            /\ \A k \in DOMAIN events : events[k].at \in 0 .. (duration + EventSlack)
            /\ \A k, l \in DOMAIN events : k <= l => events[k].at <= events[l].at
<1> DEFINE events == NormalizeTimedEvents(m, start, duration)
           I == Before(m, start, duration)
           moved == Moved(m, start)
           cut == Cut(moved, duration)
           n == Cardinality(I)
           key == [k \in DOMAIN cut |-> cut[k].at]
<1>1. DOMAIN m = 1 .. Len(m) /\ Len(m) \in Nat /\ \A i \in DOMAIN m : m[i] \in Sample
  BY LenProperties, ElementOfSeq
<1>2. /\ moved \in Seq(Sample) /\ DOMAIN moved = DOMAIN m
      /\ \A i \in DOMAIN m : /\ moved[i] = OnClock(m[i], start)
                            /\ moved[i].at = IF m[i].at >= start THEN m[i].at - start ELSE 0
  BY MovedIs
<1>3. {i \in DOMAIN moved : moved[i].at <= duration + EventSlack} = I
  <2>1. ASSUME NEW i \in DOMAIN m
        PROVE  moved[i].at <= duration + EventSlack <=> m[i].at - start <= duration + EventSlack
    <3>1. m[i].at \in Nat /\ duration + EventSlack \in Nat
      BY <1>1 DEF Sample, EventSlack
    <3> QED
      BY <1>2, <3>1
  <2> QED
    BY <1>2, <2>1 DEF Before
<1>4. I \in SUBSET DOMAIN moved
  BY <1>3
<1>5. cut = Picked(moved, I)
  BY <1>3 DEF Cut
<1> HIDE DEF moved, I, cut
<1>6. /\ IsFiniteSet(I) /\ n \in Nat /\ cut \in Seq(Sample) /\ Len(cut) = n
  BY <1>2, <1>4, <1>5, PickedIs
<1>7. PICK p \in [1 .. n -> I] :
        /\ \A i \in I : \E k \in 1 .. n : p[k] = i
        /\ \A k \in 1 .. n : cut[k] = moved[p[k]]
  BY <1>2, <1>4, <1>5, PickedIs
<1>8. /\ DOMAIN cut = 1 .. n /\ Cardinality(1 .. n) = n
      /\ \A k \in 1 .. n : cut[k] \in Sample /\ cut[k].at \in Int
  <2>1. DOMAIN cut = 1 .. n /\ \A k \in 1 .. n : cut[k] \in Sample
    BY <1>6, LenProperties, ElementOfSeq
  <2>2. Cardinality(1 .. n) = n
    BY <1>6, FS_Interval
  <2>3. \A k \in 1 .. n : cut[k].at \in Int
    BY <2>1 DEF Sample
  <2> QED
    BY <2>1, <2>2, <2>3
<1>9. key \in [1 .. n -> Int] /\ \A k \in 1 .. n : key[k] = cut[k].at
  BY <1>8
<1>10. events = Arranged(cut, 1 .. n, key)
  BY <1>8 DEF NormalizeTimedEvents, InTime, cut, moved
<1> HIDE DEF key, n, events
<1>11. /\ events \in Seq(Sample) /\ Len(events) = n
  <2>1. 1 .. n \in SUBSET DOMAIN cut
    BY <1>8
  <2>2. Arranged(cut, 1 .. n, key) \in Seq(Sample) /\ Len(Arranged(cut, 1 .. n, key)) = Cardinality(1 .. n)
    BY <1>6, <1>9, <2>1, ArrangedIs
  <2> QED
    BY <1>8, <1>10, <2>2
<1>12. PICK q : Lists(q, 1 .. n, key) /\ \A k \in 1 .. n : events[k] = cut[q[k]]
  <2>1. 1 .. n \in SUBSET DOMAIN cut
    BY <1>8
  <2>2. \E q : /\ Lists(q, 1 .. n, key)
              /\ \A k \in 1 .. Cardinality(1 .. n) : Arranged(cut, 1 .. n, key)[k] = cut[q[k]]
    <3> DEFINE J == 1 .. n
    <3>1. J \in SUBSET DOMAIN cut /\ key \in [J -> Int]
      BY <1>9, <2>1
    <3> HIDE DEF J
    <3>2. \E q : Lists(q, J, key) /\ \A k \in 1 .. Cardinality(J) : Arranged(cut, J, key)[k] = cut[q[k]]
      BY <1>6, <3>1, ArrangedIs
    <3> QED
      BY <3>2 DEF J
  <2> QED
    BY <1>8, <1>10, <2>2
<1>13. /\ q \in [1 .. n -> 1 .. n]
       /\ \A i \in 1 .. n : \E k \in 1 .. n : q[k] = i
       /\ \A k, l \in 1 .. n : k < l => Precedes(key, q[k], q[l])
  BY <1>8, <1>12 DEF Lists
<1>14. DOMAIN events = 1 .. n
  BY <1>11, LenProperties
<1>15. \A k \in 1 .. n : events[k] = OnClock(m[p[q[k]]], start) /\ p[q[k]] \in I
  BY <1>2, <1>4, <1>7, <1>12, <1>13
<1>16. ToSet(events) = {OnClock(m[i], start) : i \in I}
  <2>1. ASSUME NEW i \in I
        PROVE  \E k \in DOMAIN events : events[k] = OnClock(m[i], start)
    <3>1. PICK j \in 1 .. n : p[j] = i
      BY <1>7
    <3>2. PICK k \in 1 .. n : q[k] = j
      BY <1>13
    <3> QED
      BY <1>14, <1>15, <3>1, <3>2
  <2> QED
    BY <1>14, <1>15, <2>1 DEF ToSet
<1>17. \A k \in DOMAIN events : events[k].at \in 0 .. (duration + EventSlack)
  <2> SUFFICES ASSUME NEW k \in 1 .. n PROVE events[k].at \in 0 .. (duration + EventSlack)
    BY <1>14
  <2>1. p[q[k]] \in I /\ events[k] = moved[p[q[k]]]
    BY <1>7, <1>12, <1>13
  <2>2. events[k] \in Sample
    BY <1>11, <1>14, ElementOfSeq
  <2>3. events[k].at <= duration + EventSlack
    BY <1>3, <2>1
  <2> QED
    BY <2>2, <2>3 DEF Sample, EventSlack
<1>18. \A k, l \in DOMAIN events : k <= l => events[k].at <= events[l].at
  <2> SUFFICES ASSUME NEW k \in 1 .. n, NEW l \in 1 .. n, k <= l PROVE events[k].at <= events[l].at
    BY <1>14
  <2>1. /\ q[k] \in 1 .. n /\ q[l] \in 1 .. n
        /\ events[k].at = key[q[k]] /\ events[l].at = key[q[l]] /\ key[q[k]] \in Int /\ key[q[l]] \in Int
    BY <1>9, <1>12, <1>13
  <2>2. CASE k = l
    BY <2>1, <2>2
  <2>3. CASE k < l
    <3>1. Precedes(key, q[k], q[l])
      BY <1>13, <2>3
    <3> QED
      BY <2>1, <3>1 DEF Precedes
  <2> QED
    BY <2>2, <2>3
<1> QED
  BY <1>6, <1>11, <1>16, <1>17, <1>18 DEF n, I, events

HeardOn(a, b, start, duration) ==
  {s \in ToSet(a) \cup ToSet(b) : s.at - start <= duration + EventSlack}
AllOnClock(heard, start) == {OnClock(s, start) : s \in heard}

(* Each sample of either route that is not cut away is kept once. *)
LEMMA EveryEventKept ==
  ASSUME NEW a \in Seq(Sample), NEW b \in Seq(Sample), NEW start \in Nat, NEW duration \in Nat
  PROVE  LET m == MergeTimedSamples(a, b)
             events == NormalizeTimedEvents(m, start, duration)
             heard == HeardOn(a, b, start, duration)
         IN /\ m \in Seq(Sample) /\ DedupeTimedEvents(m) = m
            /\ events \in Seq(Sample) /\ Len(events) = Cardinality(heard)
            /\ ToSet(events) = AllOnClock(heard, start)
<1> DEFINE m == MergeTimedSamples(a, b)
           events == NormalizeTimedEvents(m, start, duration)
           heard == HeardOn(a, b, start, duration)
           I == Before(m, start, duration)
           f == [i \in I |-> m[i]]
<1>1. a \o b \in Seq(Sample) /\ ToSet(a \o b) = ToSet(a) \cup ToSet(b)
  BY SetOfConcat
<1>2. /\ m \in Seq(Sample) /\ ToSet(m) = ToSet(a) \cup ToSet(b)
      /\ \A k, l \in DOMAIN m : m[k] = m[l] => k = l
  BY <1>1, OnceEachIs DEF MergeTimedSamples
<1>3. DedupeTimedEvents(m) = m
  BY <1>1, OnceEachTwice DEF MergeTimedSamples, DedupeTimedEvents
<1> HIDE DEF m
<1>4. /\ events \in Seq(Sample) /\ IsFiniteSet(I) /\ Len(events) = Cardinality(I)
      /\ ToSet(events) = {OnClock(m[i], start) : i \in I}
  BY <1>2, NormalizedIs
<1> HIDE DEF events
<1>5. /\ \A i \in I : i \in DOMAIN m /\ m[i] \in heard
      /\ \A s \in heard : \E i \in I : m[i] = s
  BY <1>2 DEF Before, ToSet, HeardOn
<1>6. heard = {m[i] : i \in I}
  BY <1>5
<1> HIDE DEF I, heard
<1>7. f \in Bijection(I, heard)
  BY <1>2, <1>5 DEF Bijection, Injection, Surjection, IsInjective
<1>8. ExistsBijection(I, heard)
  BY <1>7 DEF ExistsBijection
<1>9. Cardinality(heard) = Cardinality(I)
  BY <1>4, <1>8, FS_Bijection
<1>10. {OnClock(m[i], start) : i \in I} = AllOnClock(heard, start)
  BY <1>6 DEF AllOnClock
<1> QED
  BY <1>2, <1>3, <1>4, <1>9, <1>10 DEF m, events, heard

------------------------------------------------------------------------------
(* Merging the windows. ms is what the first n windows of ws, which come in *)
(* the order of their starts, have been merged into.                        *)
Window == [start : Nat, end : Nat, lag : Nat]
Windows == {s \in Seq(Window) : \A i \in 1 .. Len(s) : s[i].start <= s[i].end}

Apart(ms) == \A i, j \in 1 .. Len(ms) : i < j => ms[i].end + 1 < ms[j].start
Covered(ms, ws, n) ==
  \A i \in 1 .. Len(ms) : \A t \in ms[i].start .. ms[i].end :
    \E k \in 1 .. n : ws[k].start <= t /\ t <= ws[k].end
Housed(ms, ws, n) ==
  \A k \in 1 .. n : \E i \in 1 .. Len(ms) : Lies(ws[k], ms[i]) /\ ws[k].lag <= ms[i].lag
Attained(ms, ws, n) ==
  \A i \in 1 .. Len(ms) : \E k \in 1 .. n : Lies(ws[k], ms[i]) /\ ws[k].lag = ms[i].lag

MergeInv(ms, ws, n) ==
  /\ ms \in Windows /\ Apart(ms)
  /\ Covered(ms, ws, n) /\ Housed(ms, ws, n) /\ Attained(ms, ws, n)
  /\ n > 0 => ms # <<>> /\ Last(ms).start <= ws[n].start

(* A window that lies apart is put behind the others. *)
LEMMA AbsorbApart ==
  ASSUME NEW ws \in Windows, NEW n \in Nat, n + 1 <= Len(ws), NEW ms, MergeInv(ms, ws, n),
         ms = <<>> \/ ws[n + 1].start > Last(ms).end + 1
  PROVE  MergeInv(Absorbed(ms, ws[n + 1]), ws, n + 1)
<1> DEFINE w == ws[n + 1]
           L == Len(ms)
           r == Append(ms, w)
<1>1. w \in Window /\ w.start <= w.end /\ w.start \in Nat /\ w.end \in Nat /\ w.lag \in Nat
  <2>1. n + 1 \in 1 .. Len(ws) /\ ws \in Seq(Window)
    BY LenProperties DEF Windows
  <2>2. w \in Window
    BY <2>1, ElementOfSeq
  <2> QED
    BY <2>1, <2>2 DEF Windows, Window
<1>2. Absorbed(ms, w) = r
  BY DEF Absorbed
<1>3. ms \in Seq(Window) /\ L \in Nat /\ \A i \in 1 .. L : ms[i] \in Window /\ ms[i].start <= ms[i].end
  BY LenProperties, ElementOfSeq DEF MergeInv, Windows
<1> HIDE DEF w
<1>4. /\ r \in Seq(Window) /\ Len(r) = L + 1 /\ r # <<>>
      /\ \A i \in 1 .. L : r[i] = ms[i]
      /\ r[L + 1] = w
  BY <1>1, <1>3, AppendProperties
<1>5. \A i \in 1 .. Len(r) : i \in 1 .. L \/ i = L + 1
  BY <1>3, <1>4
<1>6. \A i \in 1 .. L : i \in 1 .. Len(r)
  BY <1>3, <1>4
<1> HIDE DEF r
<1>7. r \in Windows
  <2>1. \A i \in 1 .. Len(r) : r[i].start <= r[i].end
    BY <1>1, <1>3, <1>4, <1>5
  <2> QED
    BY <1>4, <2>1 DEF Windows
<1>8. Apart(r)
  <2> SUFFICES ASSUME NEW i \in 1 .. Len(r), NEW j \in 1 .. Len(r), i < j
               PROVE  r[i].end + 1 < r[j].start
    BY DEF Apart
  <2>1. i \in 1 .. L
    BY <1>3, <1>4, <1>5
  <2>2. CASE j \in 1 .. L
    BY <1>4, <2>1, <2>2 DEF MergeInv, Apart
  <2>3. CASE j = L + 1
    <3>1. L \in 1 .. L /\ ms # <<>> /\ Last(ms) = ms[L]
      BY <1>3, <2>1, EmptySeq DEF Last
    <3>2. ms[L].end + 1 < w.start /\ ms[L] \in Window /\ ms[i] \in Window /\ ms[L].start <= ms[L].end
      BY <1>1, <1>3, <2>1, <3>1 DEF w, Window
    <3>3. i < L => ms[i].end + 1 < ms[L].start
      BY <2>1, <3>1 DEF MergeInv, Apart
    <3>4. ms[i].end + 1 < w.start
      <4>1. /\ ms[i].end \in Nat /\ ms[L].end \in Nat /\ ms[L].start \in Nat /\ w.start \in Nat
            /\ i \in Int /\ i <= L /\ L \in Int
        <5>1. ms[i].end \in Nat /\ ms[L].end \in Nat /\ ms[L].start \in Nat
          BY <3>2 DEF Window
        <5>2. i \in Int /\ i <= L /\ L \in Int
          BY <1>3, <2>1
        <5> QED
          BY <1>1, <5>1, <5>2
      <4>2. CASE i = L
        BY <3>2, <4>2
      <4>3. CASE i < L
        <5>1. ms[i].end + 1 < ms[L].start /\ ms[L].start <= ms[L].end /\ ms[L].end + 1 < w.start
          BY <3>2, <3>3, <4>3
        <5>2. \A a, b, c, d \in Nat : a + 1 < b /\ b <= c /\ c + 1 < d => a + 1 < d
          OBVIOUS
        <5> QED
          BY ONLY <4>1, <5>1, <5>2
      <4> QED
        BY <4>1, <4>2, <4>3
    <3> QED
      BY <1>4, <2>1, <2>3, <3>4
  <2> QED
    BY <1>5, <2>2, <2>3
<1>9. \A k \in 1 .. n : k \in 1 .. n + 1
  OBVIOUS
<1>10. n + 1 \in 1 .. n + 1 /\ \A k \in 1 .. n + 1 : k \in 1 .. n \/ k = n + 1
  OBVIOUS
<1>11. Covered(r, ws, n + 1)
  <2> SUFFICES ASSUME NEW i \in 1 .. Len(r), NEW t \in r[i].start .. r[i].end
               PROVE  \E k \in 1 .. n + 1 : ws[k].start <= t /\ t <= ws[k].end
    BY DEF Covered
  <2>1. CASE i \in 1 .. L
    <3>1. \E k \in 1 .. n : ws[k].start <= t /\ t <= ws[k].end
      BY <1>4, <2>1 DEF MergeInv, Covered
    <3> QED
      BY <1>9, <3>1
  <2>2. CASE i = L + 1
    BY <1>1, <1>4, <1>10, <2>2 DEF w
  <2> QED
    BY <1>5, <2>1, <2>2
<1>12. Housed(r, ws, n + 1)
  <2> SUFFICES ASSUME NEW k \in 1 .. n + 1
               PROVE  \E i \in 1 .. Len(r) : Lies(ws[k], r[i]) /\ ws[k].lag <= r[i].lag
    BY DEF Housed
  <2>1. CASE k \in 1 .. n
    <3>1. PICK i \in 1 .. L : Lies(ws[k], ms[i]) /\ ws[k].lag <= ms[i].lag
      BY <2>1 DEF MergeInv, Housed
    <3> QED
      BY <1>4, <1>6, <3>1
  <2>2. CASE k = n + 1
    <3>1. L + 1 \in 1 .. Len(r) /\ Lies(w, w) /\ w.lag <= w.lag
      BY <1>1, <1>3, <1>4 DEF Lies
    <3> QED
      BY <1>4, <2>2, <3>1 DEF w
  <2> QED
    BY <1>10, <2>1, <2>2
<1>13. Attained(r, ws, n + 1)
  <2> SUFFICES ASSUME NEW i \in 1 .. Len(r)
               PROVE  \E k \in 1 .. n + 1 : Lies(ws[k], r[i]) /\ ws[k].lag = r[i].lag
    BY DEF Attained
  <2>1. CASE i \in 1 .. L
    <3>1. \E k \in 1 .. n : Lies(ws[k], ms[i]) /\ ws[k].lag = ms[i].lag
      BY <2>1 DEF MergeInv, Attained
    <3> QED
      BY <1>4, <1>9, <2>1, <3>1
  <2>2. CASE i = L + 1
    <3>1. Lies(w, w)
      BY <1>1 DEF Lies
    <3> QED
      BY <1>4, <1>10, <2>2, <3>1 DEF w
  <2> QED
    BY <1>5, <2>1, <2>2
<1>14. r # <<>> /\ Last(r).start <= w.start
  BY <1>1, <1>4 DEF Last
<1> QED
  BY <1>2, <1>7, <1>8, <1>11, <1>12, <1>13, <1>14 DEF MergeInv, w

(* A window that begins in the last one, or right after it, is joined to it. *)
LEMMA AbsorbJoined ==
  ASSUME NEW ws \in Windows, NEW n \in Nat, n + 1 <= Len(ws), NEW ms, MergeInv(ms, ws, n),
         n > 0 => ws[n].start <= ws[n + 1].start,
         ms # <<>>, ~(ws[n + 1].start > Last(ms).end + 1)
  PROVE  MergeInv(Absorbed(ms, ws[n + 1]), ws, n + 1)
<1> DEFINE w == ws[n + 1]
           L == Len(ms)
           v == ms[L]
           joined == [start |-> v.start, end |-> Max({v.end, w.end}), lag |-> Max({v.lag, w.lag})]
           r == Append(Front(ms), joined)
<1>1. /\ w \in Window /\ w.start <= w.end /\ w.start \in Nat /\ w.end \in Nat /\ w.lag \in Nat
  <2>1. n + 1 \in 1 .. Len(ws) /\ ws \in Seq(Window)
    BY LenProperties DEF Windows
  <2>2. w \in Window
    BY <2>1, ElementOfSeq
  <2> QED
    BY <2>1, <2>2 DEF Windows, Window
<1>2. Absorbed(ms, w) = r
  BY DEF Absorbed, Last
<1>3. /\ ms \in Seq(Window) /\ L \in Nat \ {0} /\ L \in 1 .. L
      /\ \A i \in 1 .. L : ms[i] \in Window /\ ms[i].start <= ms[i].end
  <2>1. ms \in Seq(Window) /\ L \in Nat \ {0}
    BY EmptySeq DEF MergeInv, Windows
  <2>2. \A i \in 1 .. L : ms[i] \in Window /\ ms[i].start <= ms[i].end
    BY <2>1, ElementOfSeq DEF MergeInv, Windows
  <2> QED
    BY <2>1, <2>2
<1>4. n > 0
  <2> SUFFICES ASSUME n = 0 PROVE FALSE
    OBVIOUS
  <2>1. \E k \in 1 .. n : Lies(ws[k], ms[L]) /\ ws[k].lag = ms[L].lag
    BY <1>3 DEF MergeInv, Attained
  <2> QED
    BY <2>1
<1>5. /\ v \in Window /\ v.start \in Nat /\ v.end \in Nat /\ v.lag \in Nat /\ v.start <= v.end
      /\ v.start <= w.start /\ w.start <= v.end + 1
  <2>1. v \in Window /\ v.start \in Nat /\ v.end \in Nat /\ v.lag \in Nat /\ v.start <= v.end
    BY <1>3 DEF Window
  <2>2. ws[n].start \in Nat
    <3>1. n \in 1 .. Len(ws) /\ ws \in Seq(Window)
      BY <1>4, LenProperties DEF Windows
    <3>2. ws[n] \in Window
      BY <3>1, ElementOfSeq
    <3> QED
      BY <3>2 DEF Window
  <2>3. v.start <= ws[n].start
    BY <1>4 DEF MergeInv, Last
  <2> QED
    BY <1>1, <1>4, <2>1, <2>2, <2>3 DEF Last
<1> HIDE DEF w, v
<1>6. /\ joined.start = v.start
      /\ joined.end = IF v.end >= w.end THEN v.end ELSE w.end
      /\ joined.lag = IF v.lag >= w.lag THEN v.lag ELSE w.lag
      /\ joined \in Window
  <2>1. /\ Max({v.end, w.end}) = IF v.end >= w.end THEN v.end ELSE w.end
        /\ Max({v.lag, w.lag}) = IF v.lag >= w.lag THEN v.lag ELSE w.lag
    <3>1. v.end \in Int /\ w.end \in Int /\ v.lag \in Int /\ w.lag \in Int
      BY <1>1, <1>5
    <3> QED
      BY <3>1, MaxOfTwo
  <2> QED
    BY <1>1, <1>5, <2>1 DEF Window
<1> HIDE DEF joined
<1>7. /\ Front(ms) \in Seq(Window) /\ Len(Front(ms)) = L - 1
      /\ \A i \in 1 .. L - 1 : Front(ms)[i] = ms[i]
  <2>1. \A i \in 1 .. L - 1 : ms[i] \in Window
    BY <1>3
  <2>2. 1 \in Int /\ L - 1 \in Int
    BY <1>3
  <2>3. /\ SubSeq(ms, 1, L - 1) \in Seq(Window)
        /\ Len(SubSeq(ms, 1, L - 1)) = IF 1 <= L - 1 THEN (L - 1) - 1 + 1 ELSE 0
        /\ \A i \in 1 .. (L - 1) - 1 + 1 : SubSeq(ms, 1, L - 1)[i] = ms[1 + i - 1]
    BY <2>1, <2>2, SubSeqProperties
  <2>4. (L - 1) - 1 + 1 = L - 1 /\ \A i \in 1 .. L - 1 : 1 + i - 1 = i
    BY <1>3
  <2> QED
    BY <1>3, <2>3, <2>4 DEF Front
<1>8. /\ r \in Seq(Window) /\ Len(r) = L /\ r # <<>> /\ r[L] = joined
      /\ \A i \in 1 .. L - 1 : r[i] = ms[i]
  <2>1. /\ r \in Seq(Window) /\ Len(r) = (L - 1) + 1 /\ r # <<>> /\ r[(L - 1) + 1] = joined
        /\ \A i \in 1 .. L - 1 : r[i] = Front(ms)[i]
    <3> DEFINE f == Front(ms)
    <3> HIDE DEF f
    <3>1. LET s == Append(f, joined)
          IN /\ s \in Seq(Window) /\ Len(s) = Len(f) + 1 /\ s # <<>> /\ s[Len(f) + 1] = joined
             /\ \A i \in 1 .. Len(f) : s[i] = f[i]
      BY <1>6, <1>7, AppendProperties DEF f
    <3> QED
      BY <1>7, <3>1 DEF f
  <2>2. (L - 1) + 1 = L
    BY <1>3
  <2> QED
    BY <1>7, <2>1, <2>2
<1>9. \A i \in 1 .. L : i \in 1 .. L - 1 \/ i = L
  BY <1>3
<1>10. \A i \in 1 .. L - 1 : i \in 1 .. L /\ i < L
  BY <1>3
<1> HIDE DEF r
<1>11. r \in Windows
  <2>1. \A i \in 1 .. Len(r) : r[i].start <= r[i].end
    <3> SUFFICES ASSUME NEW i \in 1 .. L PROVE r[i].start <= r[i].end
      BY <1>8
    <3>1. CASE i \in 1 .. L - 1
      BY <1>3, <1>8, <1>10, <3>1
    <3>2. joined.start <= joined.end
      BY <1>1, <1>5, <1>6
    <3> QED
      BY <1>8, <1>9, <3>1, <3>2
  <2> QED
    BY <1>8, <2>1 DEF Windows
<1>12. Apart(r)
  <2> SUFFICES ASSUME NEW i \in 1 .. L, NEW j \in 1 .. L, i < j
               PROVE  r[i].end + 1 < r[j].start
    BY <1>8 DEF Apart
  <2>1. i \in 1 .. L - 1 /\ ms[i].end + 1 < ms[j].start
    BY <1>3 DEF MergeInv, Apart
  <2>2. r[i] = ms[i] /\ r[j].start = ms[j].start
    BY <1>6, <1>8, <1>9, <2>1 DEF v
  <2> QED
    BY <2>1, <2>2
<1>13. n + 1 \in 1 .. n + 1 /\ \A k \in 1 .. n + 1 : k \in 1 .. n \/ k = n + 1
  OBVIOUS
<1>14. \A k \in 1 .. n : k \in 1 .. n + 1
  OBVIOUS
<1>15. Covered(r, ws, n + 1)
  <2> SUFFICES ASSUME NEW i \in 1 .. L, NEW t \in r[i].start .. r[i].end
               PROVE  \E k \in 1 .. n + 1 : ws[k].start <= t /\ t <= ws[k].end
    BY <1>8 DEF Covered
  <2>1. CASE t \in ms[i].start .. ms[i].end
    <3>1. \E k \in 1 .. n : ws[k].start <= t /\ t <= ws[k].end
      BY <2>1 DEF MergeInv, Covered
    <3> QED
      BY <1>14, <3>1
  <2>2. CASE t \notin ms[i].start .. ms[i].end
    <3>1. i = L
      BY <1>8, <1>9, <2>2
    <3>2. t \in v.start .. joined.end /\ t \notin v.start .. v.end
      BY <1>6, <1>8, <2>2, <3>1 DEF v
    <3>3. w.start <= t /\ t <= w.end
      BY <1>1, <1>5, <1>6, <3>2
    <3> QED
      BY <1>13, <3>3 DEF w
  <2> QED
    BY <2>1, <2>2
<1>16. /\ Lies(v, joined) /\ v.lag <= joined.lag
       /\ Lies(w, joined) /\ w.lag <= joined.lag
       /\ joined.lag = v.lag \/ joined.lag = w.lag
  BY <1>1, <1>5, <1>6 DEF Lies
<1>17. ASSUME NEW u \in Window, Lies(u, v)
       PROVE  Lies(u, joined)
  BY <1>5, <1>6, <1>16, <1>17 DEF Lies, Window
<1>18. \A k \in 1 .. n : ws[k] \in Window
  <2>1. ws \in Seq(Window) /\ Len(ws) \in Nat
    BY LenProperties DEF Windows
  <2> QED
    BY <2>1, ElementOfSeq
<1>19. Housed(r, ws, n + 1)
  <2> SUFFICES ASSUME NEW k \in 1 .. n + 1
               PROVE  \E i \in 1 .. L : Lies(ws[k], r[i]) /\ ws[k].lag <= r[i].lag
    BY <1>8 DEF Housed
  <2>1. CASE k \in 1 .. n
    <3>1. PICK i \in 1 .. L : Lies(ws[k], ms[i]) /\ ws[k].lag <= ms[i].lag
      BY <2>1 DEF MergeInv, Housed
    <3>2. CASE i \in 1 .. L - 1
      BY <1>8, <3>1, <3>2
    <3>3. CASE i = L
      <4>1. ws[k] \in Window /\ Lies(ws[k], v) /\ ws[k].lag <= v.lag
        BY <1>18, <2>1, <3>1, <3>3 DEF v
      <4>2. Lies(ws[k], joined) /\ ws[k].lag <= joined.lag
        <5>1. ws[k].lag \in Nat
          BY <4>1 DEF Window
        <5> QED
          BY <1>5, <1>6, <1>16, <1>17, <4>1, <5>1 DEF Window
      <4> QED
        BY <1>3, <1>8, <4>2
    <3> QED
      BY <1>9, <3>2, <3>3
  <2>2. CASE k = n + 1
    BY <1>3, <1>8, <1>16, <2>2 DEF w
  <2> QED
    BY <1>13, <2>1, <2>2
<1>20. Attained(r, ws, n + 1)
  <2> SUFFICES ASSUME NEW i \in 1 .. L
               PROVE  \E k \in 1 .. n + 1 : Lies(ws[k], r[i]) /\ ws[k].lag = r[i].lag
    BY <1>8 DEF Attained
  <2>1. PICK k \in 1 .. n : Lies(ws[k], ms[i]) /\ ws[k].lag = ms[i].lag
    BY DEF MergeInv, Attained
  <2>2. CASE i \in 1 .. L - 1
    BY <1>8, <1>14, <2>1, <2>2
  <2>3. CASE i = L /\ joined.lag = v.lag
    <3>1. Lies(ws[k], joined) /\ ws[k].lag = joined.lag
      BY <1>17, <1>18, <2>1, <2>3 DEF v
    <3> QED
      BY <1>8, <1>14, <2>3, <3>1
  <2>4. CASE i = L /\ joined.lag = w.lag
    BY <1>8, <1>13, <1>16, <2>4 DEF w
  <2> QED
    BY <1>9, <1>16, <2>2, <2>3, <2>4
<1>21. Last(r).start <= w.start
  BY <1>5, <1>6, <1>8 DEF Last
<1> QED
  BY <1>2, <1>8, <1>11, <1>12, <1>15, <1>19, <1>20, <1>21 DEF MergeInv, w

(* The windows after n steps of the merge are defined for every n. *)
IsMerge(f, ws, n) == f = [m \in 0 .. n |-> IF m = 0 THEN <<>> ELSE Absorbed(f[m - 1], ws[m])]

(* There is such a fold, by induction on its length. *)
LEMMA MergeExists ==
  ASSUME NEW ws, NEW n \in Nat
  PROVE  \E f : IsMerge(f, ws, n)
<1> DEFINE Bad == {m \in Nat : ~ \E f : IsMerge(f, ws, m)}
<1> SUFFICES ASSUME Bad # {} PROVE FALSE
  OBVIOUS
<1>1. Bad \in SUBSET Nat
  OBVIOUS
<1> HIDE DEF Bad
<1>2. PICK m \in Bad : \A k \in Bad : m <= k
  BY <1>1, LeastNatural
<1>3. m \in Nat /\ ~ \E f : IsMerge(f, ws, m)
  BY DEF Bad
<1>4. m # 0
  <2> DEFINE f == [k \in {0} |-> <<>>]
  <2>1. 0 .. 0 = {0}
    OBVIOUS
  <2>2. f = [k \in 0 .. 0 |-> IF k = 0 THEN <<>> ELSE Absorbed(f[k - 1], ws[k])]
    BY <2>1
  <2> QED
    BY <1>3, <2>2 DEF IsMerge
<1>5. m - 1 \in Nat /\ ~(m <= m - 1)
  BY <1>3, <1>4
<1>6. PICK g : IsMerge(g, ws, m - 1)
  BY <1>2, <1>5 DEF Bad
<1> DEFINE h == [k \in 0 .. m |-> IF k = m THEN Absorbed(g[m - 1], ws[m]) ELSE g[k]]
<1>7. \A k \in 0 .. m - 1 : g[k] = IF k = 0 THEN <<>> ELSE Absorbed(g[k - 1], ws[k])
  BY <1>6 DEF IsMerge
<1>8. ASSUME NEW k \in 0 .. m
      PROVE  h[k] = IF k = 0 THEN <<>> ELSE Absorbed(h[k - 1], ws[k])
  <2>1. k # 0 => h[k - 1] = g[k - 1]
    BY <1>3, <1>5
  <2>2. CASE k = m
    BY <1>4, <2>1, <2>2
  <2>3. CASE k # m
    <3>1. k \in 0 .. m - 1
      BY <1>3, <2>3
    <3> QED
      BY <1>7, <2>1, <2>3, <3>1
  <2> QED
    BY <2>2, <2>3
<1>9. h = [k \in 0 .. m |-> IF k = 0 THEN <<>> ELSE Absorbed(h[k - 1], ws[k])]
  BY <1>8
<1> QED
  BY <1>3, <1>9 DEF IsMerge

(* Every step of the merge keeps what has been merged so far. *)
LEMMA MergeKeeps ==
  ASSUME NEW ws \in Windows, \A i, j \in 1 .. Len(ws) : i <= j => ws[i].start <= ws[j].start,
         NEW f, IsMerge(f, ws, Len(ws))
  PROVE  MergeInv(f[Len(ws)], ws, Len(ws))
<1> DEFINE N == Len(ws)
           Bad == {n \in 0 .. N : ~ MergeInv(f[n], ws, n)}
<1>1. N \in Nat /\ N \in 0 .. N
  <2>1. N \in Nat
    BY LenProperties DEF Windows
  <2> QED
    BY <2>1
<1>2. \A n \in 0 .. N : f[n] = IF n = 0 THEN <<>> ELSE Absorbed(f[n - 1], ws[n])
  BY DEF IsMerge
<1> SUFFICES ASSUME Bad # {} PROVE FALSE
  BY <1>1
<1>3. Bad \in SUBSET Nat
  BY <1>1
<1> HIDE DEF Bad
<1>4. PICK n \in Bad : \A k \in Bad : n <= k
  BY <1>3, LeastNatural
<1>5. n \in 0 .. N /\ n \in Nat /\ ~ MergeInv(f[n], ws, n)
  BY <1>1, <1>3 DEF Bad
<1>6. n # 0
  <2>1. <<>> \in Seq(Window) /\ Len(<<>>) = 0
    BY EmptySeq
  <2>2. MergeInv(<<>>, ws, 0)
    BY <2>1 DEF MergeInv, Windows, Apart, Covered, Housed, Attained
  <2> QED
    BY <1>1, <1>2, <1>5, <2>2
<1>7. /\ n - 1 \in Nat /\ n - 1 \in 0 .. N /\ (n - 1) + 1 = n /\ n <= N /\ ~(n <= n - 1)
      /\ n - 1 > 0 => n - 1 \in 1 .. N /\ n \in 1 .. N /\ n - 1 <= n
  BY <1>1, <1>5, <1>6
<1> DEFINE m == n - 1
           ms == f[m]
<1>8. MergeInv(ms, ws, m)
  BY <1>4, <1>7 DEF Bad
<1>9. f[n] = Absorbed(ms, ws[n])
  BY <1>2, <1>5, <1>6
<1>10. m > 0 => ws[m].start <= ws[n].start
  BY <1>7
<1>11. m \in Nat /\ m + 1 = n /\ m + 1 <= Len(ws)
  BY <1>7
<1> HIDE DEF m, ms
<1>12. CASE ms = <<>> \/ ws[m + 1].start > Last(ms).end + 1
  <2>1. MergeInv(Absorbed(ms, ws[m + 1]), ws, m + 1)
    BY <1>8, <1>11, <1>12, AbsorbApart
  <2> QED
    BY <1>5, <1>9, <1>11, <2>1
<1>13. CASE ms # <<>> /\ ~(ws[m + 1].start > Last(ms).end + 1)
  <2>1. m > 0 => ws[m].start <= ws[m + 1].start
    BY <1>10, <1>11
  <2>2. MergeInv(Absorbed(ms, ws[m + 1]), ws, m + 1)
    BY <1>8, <1>11, <1>13, <2>1, AbsorbJoined
  <2> QED
    BY <1>5, <1>9, <1>11, <2>2
<1> QED
  BY <1>12, <1>13

(* The windows of a merge are apart, cover the same time as the ones they   *)
(* are made of, and each of those lies in exactly one of them.              *)
LEMMA MergeIntervalsIs ==
  ASSUME NEW raw \in Windows
  PROVE  MergeIntervals(raw) \in Windows /\ StallsKept(raw, MergeIntervals(raw))
<1> DEFINE key == [i \in DOMAIN raw |-> raw[i].start]
           ws == Arranged(raw, DOMAIN raw, key)
           N == Len(raw)
           f == CHOOSE f : IsMerge(f, ws, Len(ws))
           ms == f[Len(ws)]
<1>1. /\ raw \in Seq(Window) /\ N \in Nat /\ DOMAIN raw = 1 .. N
      /\ \A i \in 1 .. N : raw[i] \in Window /\ raw[i].start <= raw[i].end
  <2>1. raw \in Seq(Window)
    BY DEF Windows
  <2>2. N \in Nat /\ DOMAIN raw = 1 .. N /\ \A i \in 1 .. N : raw[i] \in Window
    BY <2>1, LenProperties, ElementOfSeq
  <2> QED
    BY <2>1, <2>2 DEF Windows
<1>2. /\ key \in [DOMAIN raw -> Int] /\ \A i \in 1 .. N : key[i] = raw[i].start
      /\ Cardinality(DOMAIN raw) = N
  <2>1. Cardinality(1 .. N) = N
    BY <1>1, FS_Interval
  <2> QED
    BY <1>1, <2>1 DEF Window
<1> HIDE DEF key
<1>3. ws \in Seq(Window) /\ Len(ws) = N
  BY <1>1, <1>2, ArrangedIs
<1>4. PICK p : /\ Lists(p, DOMAIN raw, key)
               /\ \A k \in 1 .. Cardinality(DOMAIN raw) : ws[k] = raw[p[k]]
  <2> DEFINE J == DOMAIN raw
  <2>1. J \in SUBSET DOMAIN raw /\ key \in [J -> Int]
    BY <1>2
  <2> HIDE DEF J
  <2>2. \E p : Lists(p, J, key) /\ \A k \in 1 .. Cardinality(J) : Arranged(raw, J, key)[k] = raw[p[k]]
    BY <1>1, <2>1, ArrangedIs
  <2> QED
    BY <2>2 DEF J
<1>5. MergeIntervals(raw) = ms
  BY DEF MergeIntervals, IsMerge, key
<1> HIDE DEF ws
<1>6. /\ \A k \in 1 .. N : p[k] \in 1 .. N /\ ws[k] = raw[p[k]]
      /\ \A i \in 1 .. N : \E k \in 1 .. N : p[k] = i
      /\ \A k, l \in 1 .. N : k < l => Precedes(key, p[k], p[l])
  BY <1>1, <1>2, <1>4 DEF Lists
<1>7. ws \in Windows
  BY <1>1, <1>3, <1>6 DEF Windows
<1>8. \A k, l \in 1 .. N : k <= l => ws[k].start <= ws[l].start
  <2> SUFFICES ASSUME NEW k \in 1 .. N, NEW l \in 1 .. N, k <= l
               PROVE  ws[k].start <= ws[l].start
    OBVIOUS
  <2>1. /\ ws[k].start = key[p[k]] /\ ws[l].start = key[p[l]]
        /\ key[p[k]] \in Int /\ key[p[l]] \in Int
    BY <1>1, <1>2, <1>6
  <2>2. CASE k = l
    BY <2>1, <2>2
  <2>3. CASE k < l
    <3>1. Precedes(key, p[k], p[l])
      BY <1>6, <2>3
    <3> QED
      BY <2>1, <3>1 DEF Precedes
  <2> QED
    BY <2>2, <2>3
<1>9. IsMerge(f, ws, Len(ws))
  BY <1>1, <1>3, MergeExists
<1> HIDE DEF f
<1>10. MergeInv(ms, ws, N)
  BY <1>3, <1>7, <1>8, <1>9, MergeKeeps
<1> HIDE DEF ms
<1>11. ms \in Seq(Window) /\ DOMAIN ms = 1 .. Len(ms) /\ Len(ms) \in Nat
       /\ \A i \in DOMAIN ms : ms[i] \in Window
  <2>1. ms \in Seq(Window)
    BY <1>10 DEF MergeInv, Windows
  <2> QED
    BY <2>1, LenProperties, ElementOfSeq
<1>12. \A i, j \in DOMAIN ms : i < j => ms[i].end + 1 < ms[j].start
  BY <1>10, <1>11 DEF MergeInv, Apart
<1>13. \A i \in DOMAIN ms : \A t \in ms[i].start .. ms[i].end : During(raw, t)
  <2> SUFFICES ASSUME NEW i \in DOMAIN ms, NEW t \in ms[i].start .. ms[i].end
               PROVE  \E k \in DOMAIN raw : raw[k].start <= t /\ t <= raw[k].end
    BY DEF During
  <2>1. PICK k \in 1 .. N : ws[k].start <= t /\ t <= ws[k].end
    BY <1>10, <1>11 DEF MergeInv, Covered
  <2> QED
    BY <1>1, <1>6, <2>1
<1>14. ASSUME NEW k \in DOMAIN raw
       PROVE  \E i \in DOMAIN ms :
                /\ Lies(raw[k], ms[i]) /\ raw[k].lag <= ms[i].lag
                /\ \A j \in (DOMAIN ms) \ {i} : ~Lies(raw[k], ms[j])
  <2>1. PICK l \in 1 .. N : p[l] = k
    BY <1>1, <1>6
  <2>2. ws[l] = raw[k] /\ raw[k] \in Window /\ raw[k].start <= raw[k].end
    BY <1>1, <1>6, <2>1
  <2>3. PICK i \in DOMAIN ms : Lies(raw[k], ms[i]) /\ raw[k].lag <= ms[i].lag
    BY <1>10, <1>11, <2>2 DEF MergeInv, Housed
  <2>4. ASSUME NEW j \in DOMAIN ms, j # i, Lies(raw[k], ms[j])
        PROVE  FALSE
    <3>1. /\ raw[k].start \in Nat /\ raw[k].end \in Nat
          /\ ms[i].start \in Nat /\ ms[i].end \in Nat /\ ms[j].start \in Nat /\ ms[j].end \in Nat
      BY <1>11, <2>2 DEF Window
    <3>2. i < j \/ j < i
      BY <1>11, <2>4
    <3>3. /\ ms[i].start <= raw[k].start /\ raw[k].end <= ms[i].end
          /\ ms[j].start <= raw[k].start /\ raw[k].end <= ms[j].end
      BY <2>3, <2>4 DEF Lies
    <3>4. ms[i].end + 1 < ms[j].start \/ ms[j].end + 1 < ms[i].start
      BY <1>12, <3>2
    <3> QED
      BY <2>2, <3>1, <3>3, <3>4
  <2> QED
    BY <2>3, <2>4
<1>15. \A i \in DOMAIN ms : \E k \in DOMAIN raw : Lies(raw[k], ms[i]) /\ raw[k].lag = ms[i].lag
  <2> SUFFICES ASSUME NEW i \in DOMAIN ms
               PROVE  \E k \in DOMAIN raw : Lies(raw[k], ms[i]) /\ raw[k].lag = ms[i].lag
    OBVIOUS
  <2>1. PICK k \in 1 .. N : Lies(ws[k], ms[i]) /\ ws[k].lag = ms[i].lag
    BY <1>10, <1>11 DEF MergeInv, Attained
  <2>2. p[k] \in DOMAIN raw /\ ws[k] = raw[p[k]]
    BY <1>1, <1>6
  <2> QED
    BY <2>1, <2>2
<1>16. ms \in Windows
  BY <1>10 DEF MergeInv
<1> QED
  BY <1>5, <1>12, <1>13, <1>14, <1>15, <1>16 DEF StallsKept

------------------------------------------------------------------------------
(* The raw windows: one for each late heartbeat, and one for a loop that   *)
(* was still stalled when the capture ended.                               *)
LEMMA RawStallsAreWindows ==
  ASSUME NEW events \in Seq(Sample), NEW duration \in Nat, NEW resolution \in Nat, NEW threshold \in Nat \ {0}
  PROVE  /\ RawStalls(events, duration, resolution, threshold) \in Windows
         /\ events = <<>> => RawStalls(events, duration, resolution, threshold) = <<>>
<1> DEFINE I == {i \in DOMAIN events : events[i].lag >= threshold}
           late == Picked(events, I)
           trailing == TrailingLag(events, duration, resolution)
           W(s) == [start |-> Max({0, s.at - s.lag}), end |-> s.at, lag |-> s.lag]
           front == [i \in DOMAIN late |-> W(late[i])]
           open == events # <<>> /\ trailing >= threshold
           v == [start |-> Max({0, Last(events).at + resolution}), end |-> duration, lag |-> trailing]
           back == IF open THEN <<v>> ELSE <<>>
           raw == RawStalls(events, duration, resolution, threshold)
<1>1. raw = front \o back
  BY DEF RawStalls, Mapped
<1>2. /\ DOMAIN events = 1 .. Len(events) /\ Len(events) \in Nat
      /\ \A i \in DOMAIN events : events[i] \in Sample
  BY LenProperties, ElementOfSeq
<1>3. late \in Seq(Sample) /\ Len(late) = Cardinality(I)
  <2>1. I \in SUBSET DOMAIN events
    OBVIOUS
  <2> HIDE DEF I
  <2> QED
    BY <2>1, PickedIs
<1>4. events = <<>> => Len(late) = 0
  <2> SUFFICES ASSUME events = <<>> PROVE Cardinality(I) = 0
    BY <1>3
  <2>1. I = {}
    BY <1>2
  <2> QED
    BY <2>1, FS_EmptySet
<1> HIDE DEF late
<1>5. /\ DOMAIN late = 1 .. Len(late) /\ Len(late) \in Nat
      /\ \A i \in DOMAIN late : late[i] \in Sample
  BY <1>3, LenProperties, ElementOfSeq
<1>6. ASSUME NEW s \in Sample
      PROVE  W(s) \in Window /\ W(s).start <= W(s).end
  <2>1. s.at \in Nat /\ s.lag \in Nat /\ s.at - s.lag \in Int
    BY DEF Sample
  <2>2. Max({0, s.at - s.lag}) = IF 0 >= s.at - s.lag THEN 0 ELSE s.at - s.lag
    BY <2>1, MaxOfTwo
  <2> QED
    BY <2>1, <2>2 DEF Window
<1>7. front = [i \in 1 .. Len(late) |-> W(late[i])] /\ \A i \in 1 .. Len(late) : W(late[i]) \in Window
  BY <1>5, <1>6
<1>8. front \in Seq(Window) /\ Len(front) = Len(late)
  BY <1>5, <1>7
<1>9. \A i \in 1 .. Len(front) : front[i].start <= front[i].end
  BY <1>5, <1>6, <1>8
<1>10. ASSUME open
       PROVE  v \in Window /\ v.start <= v.end
  <2>1. Last(events) \in Sample
    BY <1>2, <1>10, EmptySeq DEF Last
  <2>2. Last(events).at \in Nat
    BY <2>1 DEF Sample
  <2>3. trailing = Max({0, duration - Last(events).at - resolution})
    BY <1>10 DEF TrailingLag
  <2> DEFINE gap == duration - Last(events).at - resolution
  <2>4. gap \in Int
    BY <2>2
  <2>5. Max({0, gap}) = IF 0 >= gap THEN 0 ELSE gap
    BY <2>4, MaxOfTwo
  <2>6. trailing = gap /\ gap > 0
    BY <1>10, <2>3, <2>4, <2>5
  <2>7. Last(events).at + resolution \in Nat
    BY <2>2
  <2>8. Max({0, Last(events).at + resolution}) = Last(events).at + resolution
    BY <2>7, MaxOfTwo
  <2>9. Last(events).at + resolution <= duration /\ trailing \in Nat
    BY <2>2, <2>6
  <2> HIDE DEF trailing
  <2> QED
    BY <2>7, <2>8, <2>9 DEF Window
<1> HIDE DEF front, v, open
<1>11. back \in Seq(Window) /\ \A i \in 1 .. Len(back) : back[i].start <= back[i].end
  <2>1. CASE open
    <3>1. back = <<v>> /\ v \in Window /\ v.start <= v.end
      BY <1>10, <2>1
    <3> QED
      BY <3>1
  <2>2. CASE ~open
    BY <2>2, EmptySeq
  <2> QED
    BY <2>1, <2>2
<1> HIDE DEF back
<1>12. /\ front \o back \in Seq(Window) /\ Len(front \o back) = Len(front) + Len(back)
       /\ \A i \in 1 .. Len(front) + Len(back) :
            (front \o back)[i] = IF i <= Len(front) THEN front[i] ELSE back[i - Len(front)]
  BY <1>8, <1>11, ConcatProperties
<1>13. Len(front) \in Nat /\ Len(back) \in Nat
  BY <1>8, <1>11, LenProperties
<1>14. \A i \in 1 .. Len(front \o back) : (front \o back)[i].start <= (front \o back)[i].end
  <2> SUFFICES ASSUME NEW i \in 1 .. Len(front) + Len(back)
               PROVE  (front \o back)[i].start <= (front \o back)[i].end
    BY <1>12
  <2>1. CASE i <= Len(front)
    BY <1>9, <1>12, <1>13, <2>1
  <2>2. CASE ~(i <= Len(front))
    <3>1. i - Len(front) \in 1 .. Len(back)
      BY <1>13, <2>2
    <3> QED
      BY <1>11, <1>12, <2>2, <3>1
  <2> QED
    BY <2>1, <2>2
<1>15. events = <<>> => raw = <<>>
  <2> SUFFICES ASSUME events = <<>> PROVE raw = <<>>
    OBVIOUS
  <2>1. Len(front) = 0 /\ back = <<>>
    BY <1>4, <1>8 DEF back, open
  <2>2. front = <<>>
    BY <1>8, <2>1, EmptySeq
  <2> QED
    BY <1>1, <2>1, <2>2
<1> QED
  BY <1>1, <1>12, <1>14, <1>15 DEF Windows

------------------------------------------------------------------------------
(* The figures of a report: a percentile is one of the lags, and the lags   *)
(* are taken in order.                                                      *)
LEMMA LagFiguresInOrder ==
  ASSUME NEW lags \in Seq(Nat)
  PROVE  /\ lags = <<>> => LagFigures(lags) = Nothing
         /\ lags # <<>> => /\ LagFigures(lags) # Nothing
                           /\ LagFigures(lags).p50 <= LagFigures(lags).p99
                           /\ LagFigures(lags).p99 <= LagFigures(lags).max
<1>1. lags = <<>> => LagFigures(lags) = Nothing
  BY DEF LagFigures
<1> SUFFICES ASSUME lags # <<>>
             PROVE  /\ LagFigures(lags) # Nothing
                    /\ LagFigures(lags).p50 <= LagFigures(lags).p99
                    /\ LagFigures(lags).p99 <= LagFigures(lags).max
  BY <1>1
<1> DEFINE sorted == Arranged(lags, DOMAIN lags, lags)
           n == Len(lags)
           low == (n * 1 + 2 - 1) \div 2
           high == (n * 99 + 100 - 1) \div 100
           r == [max |-> Last(sorted), p50 |-> Percentile(sorted, 1, 2),
                 p99 |-> Percentile(sorted, 99, 100), sum |-> SumOf(sorted, LAMBDA l : l)]
<1>2. LagFigures(lags) = r
  BY DEF LagFigures
<1>3. /\ n \in Nat \ {0} /\ DOMAIN lags = 1 .. n /\ Cardinality(DOMAIN lags) = n
      /\ lags \in [DOMAIN lags -> Int] /\ \A i \in 1 .. n : lags[i] \in Nat
  <2>1. n \in Nat \ {0} /\ DOMAIN lags = 1 .. n /\ lags \in [1 .. n -> Nat]
    BY EmptySeq, LenProperties
  <2>2. Cardinality(1 .. n) = n
    BY <2>1, FS_Interval
  <2> QED
    BY <2>1, <2>2
<1>4. sorted \in Seq(Nat) /\ Len(sorted) = n
  BY <1>3, ArrangedIs
<1>5. \E p : Lists(p, DOMAIN lags, lags) /\ \A k \in 1 .. n : sorted[k] = lags[p[k]]
  <2> DEFINE J == DOMAIN lags
  <2>1. J \in SUBSET DOMAIN lags /\ lags \in [J -> Int]
    BY <1>3
  <2> HIDE DEF J
  <2>2. \E p : Lists(p, J, lags) /\ \A k \in 1 .. Cardinality(J) : Arranged(lags, J, lags)[k] = lags[p[k]]
    BY <2>1, ArrangedIs
  <2> QED
    BY <1>3, <2>2 DEF J
<1> HIDE DEF sorted
<1>6. \A k, l \in 1 .. n : k <= l => sorted[k] <= sorted[l]
  <2>1. PICK p : Lists(p, DOMAIN lags, lags) /\ \A k \in 1 .. n : sorted[k] = lags[p[k]]
    BY <1>5
  <2>2. /\ \A k \in 1 .. n : p[k] \in 1 .. n
        /\ \A k, l \in 1 .. n : k < l => Precedes(lags, p[k], p[l])
    BY <1>3, <2>1 DEF Lists
  <2> SUFFICES ASSUME NEW k \in 1 .. n, NEW l \in 1 .. n, k <= l
               PROVE  sorted[k] <= sorted[l]
    OBVIOUS
  <2>3. sorted[k] = lags[p[k]] /\ sorted[l] = lags[p[l]] /\ lags[p[k]] \in Nat /\ lags[p[l]] \in Nat
    BY <1>3, <2>1, <2>2
  <2>4. CASE k = l
    BY <2>3, <2>4
  <2>5. CASE k < l
    <3>1. Precedes(lags, p[k], p[l])
      BY <2>2, <2>5
    <3> QED
      BY <2>3, <3>1 DEF Precedes
  <2> QED
    BY <2>4, <2>5
<1>7. /\ low \in Int /\ high \in Int /\ low >= 1 /\ low <= high /\ high <= n
  BY <1>3
<1> HIDE DEF low, high
<1>8. Percentile(sorted, 1, 2) = sorted[low] /\ Percentile(sorted, 99, 100) = sorted[high]
  <2>1. sorted # <<>>
    BY <1>3, <1>4
  <2>2. /\ Percentile(sorted, 1, 2) = sorted[Min({n, Max({1, low})})]
        /\ Percentile(sorted, 99, 100) = sorted[Min({n, Max({1, high})})]
    BY <1>4, <2>1 DEF Percentile, low, high
  <2>3. Max({1, low}) = low /\ Max({1, high}) = high
    BY <1>7, MaxOfTwo
  <2>4. Min({n, low}) = low /\ Min({n, high}) = high
    <3>1. n \in Int
      BY <1>3
    <3> QED
      BY <1>7, <3>1, MinOfTwo
  <2> QED
    BY <2>2, <2>3, <2>4
<1>9. sorted[low] <= sorted[high] /\ sorted[high] <= Last(sorted)
  <2>1. n \in 1 .. n /\ low \in 1 .. n /\ high \in 1 .. n /\ high <= n
    BY <1>3, <1>7
  <2> QED
    BY <1>4, <1>6, <1>7, <2>1 DEF Last
<1>10. r.p50 = sorted[low] /\ r.p99 = sorted[high] /\ r.max = Last(sorted)
  BY <1>8
<1>11. r # Nothing
  <2>1. "max" \in DOMAIN r /\ "max" \notin DOMAIN <<>>
    OBVIOUS
  <2> QED
    BY <2>1 DEF Nothing
<1> HIDE DEF r
<1> QED
  BY <1>2, <1>9, <1>10, <1>11

(* The figures of the report are those of the lags. *)
LEMMA ReportKeepsFigures ==
  ASSUME NEW events \in Seq(Sample)
  PROVE  FiguresKept(events, LoopReport(events))
<1> DEFINE lags == [i \in DOMAIN events |-> events[i].lag]
           own == LagFigures(lags)
           report == LoopReport(events)
<1>1. /\ DOMAIN events = 1 .. Len(events) /\ Len(events) \in Nat
      /\ \A i \in DOMAIN events : events[i].lag \in Nat
  <2>1. \A i \in DOMAIN events : events[i] \in Sample
    BY ElementOfSeq, LenProperties
  <2> QED
    BY <2>1, LenProperties DEF Sample
<1>2. lags \in Seq(Nat) /\ (lags = <<>> <=> events = <<>>)
  <2>1. lags = [i \in 1 .. Len(events) |-> events[i].lag]
    BY <1>1
  <2>2. lags \in Seq(Nat) /\ Len(lags) = Len(events)
    BY <1>1, <2>1
  <2> HIDE DEF lags
  <2> QED
    BY <2>2, EmptySeq
<1>3. SummarizeEventLoop(events) = own
  BY DEF SummarizeEventLoop, Mapped
<1> HIDE DEF lags
<1>4. /\ events = <<>> => own = Nothing
      /\ events # <<>> => own # Nothing /\ own.p50 <= own.p99 /\ own.p99 <= own.max
  BY <1>2, LagFiguresInOrder
<1> HIDE DEF own
<1>5. ResolveHistogram(SummarizeEventLoop(events), events, HeartbeatResolution) = own
  BY <1>3 DEF ResolveHistogram
<1>6. report = EventLoopReport(events, TRUE, own, CaptureDuration, HeartbeatResolution, StallThreshold)
  BY <1>5 DEF LoopReport
<1> DEFINE heard == TRUE /\ events # <<>>
           basis == MeasurementBasis(heard, own # Nothing)
           sure == CASE basis = "none" -> "none" [] basis = "histogram" -> "low" [] OTHER -> "high"
           figures == IF own # Nothing THEN own
                      ELSE IF heard THEN HeartbeatFigures(events, CaptureDuration, HeartbeatResolution)
                      ELSE Nothing
           stalls == IF heard THEN StallWindows(events, CaptureDuration, HeartbeatResolution, StallThreshold)
                     ELSE <<>>
<1>7. report = [available |-> basis # "none", basis |-> basis, confidence |-> sure,
                figures |-> figures, stalls |-> stalls]
  BY <1>6 DEF EventLoopReport
<1>8. basis # "none" <=> (heard \/ own # Nothing)
  BY DEF MeasurementBasis
<1> HIDE DEF basis, sure, report
<1>9. /\ report.available = (basis # "none") /\ report.figures = figures /\ report.stalls = stalls
  BY <1>7
<1> HIDE DEF figures, stalls
<1>10. CASE events = <<>>
  <2>1. report.available = FALSE /\ report.stalls = <<>>
    BY <1>4, <1>10, <1>8, <1>9 DEF stalls
  <2>3. RawOf(events) = <<>> /\ RawOf(events) \in Windows
    BY <1>10, TimesAssumption, RawStallsAreWindows DEF RawOf
  <2>4. StallsOf(events) \in Windows /\ StallsKept(<<>>, StallsOf(events))
    <3>1. StallsOf(events) = MergeIntervals(RawOf(events))
      BY DEF StallsOf, StallWindows, RawOf
    <3> QED
      BY <2>3, <3>1, MergeIntervalsIs
  <2>5. DOMAIN StallsOf(events) = {}
    <3>1. DOMAIN <<>> = {}
      OBVIOUS
    <3>2. \A i \in DOMAIN StallsOf(events) : \E k \in DOMAIN <<>> : TRUE
      BY <2>4 DEF StallsKept
    <3> QED
      BY <3>1, <3>2
  <2>6. StallsOf(events) = <<>>
    <3>1. StallsOf(events) \in Seq(Window)
      BY <2>4 DEF Windows
    <3>2. Len(StallsOf(events)) = 0
      BY <2>5, <3>1, LenProperties
    <3> QED
      BY <3>1, <3>2, EmptySeq
  <2> QED
    BY <1>10, <2>1, <2>6 DEF FiguresKept, report
<1>11. CASE events # <<>>
  <2>1. report.available = TRUE /\ report.stalls = StallsOf(events) /\ report.figures = own
    BY <1>4, <1>11, <1>8, <1>9 DEF stalls, figures, StallsOf
  <2> QED
    BY <1>4, <1>11, <2>1 DEF FiguresKept, report
<1> QED
  BY <1>10, <1>11

------------------------------------------------------------------------------
(* All that an input's results have to keep of it. *)
LEMMA EventsHoldForAll ==
  ASSUME NEW in \in Captures
  PROVE  EventsHold(in)
<1> DEFINE D == CaptureDuration
           start == in.start
           events == EventsOf(Merged(in), in)
<1>1. in.primary \in Seq(Sample) /\ in.secondary \in Seq(Sample) /\ start \in Nat /\ D \in Nat
  BY CapturesAssumption, TimesAssumption DEF Sample
<1>2. ASSUME NEW a \in Seq(Sample), NEW b \in Seq(Sample), ToSet(a) \cup ToSet(b) = ToSet(in.primary) \cup ToSet(in.secondary)
      PROVE  LET m == MergeTimedSamples(a, b)
             IN DedupeTimedEvents(m) = m /\ EventsOf(m, in) \in Seq(Sample) /\ EventsKept(in, EventsOf(m, in))
  <2> DEFINE m == MergeTimedSamples(a, b)
             es == NormalizeTimedEvents(m, start, D)
             heard == HeardOn(a, b, start, D)
  <2>1. /\ m \in Seq(Sample) /\ DedupeTimedEvents(m) = m
        /\ es \in Seq(Sample) /\ Len(es) = Cardinality(heard)
        /\ ToSet(es) = AllOnClock(heard, start)
    <3> HIDE DEF start, D
    <3> QED
      BY <1>1, EveryEventKept
  <2>2. heard = Heard(in)
    BY <1>2 DEF Heard, HeardOn
  <2> HIDE DEF m
  <2>3. /\ \A k \in DOMAIN es : es[k].at \in 0 .. (D + EventSlack)
        /\ \A k, l \in DOMAIN es : k <= l => es[k].at <= es[l].at
    <3> HIDE DEF start, D
    <3> QED
      BY <1>1, <2>1, NormalizedIs
  <2>4. EventsOf(m, in) = es
    BY DEF EventsOf
  <2> HIDE DEF es, heard
  <2> QED
    BY <2>1, <2>2, <2>3, <2>4 DEF EventsKept, AllOnClock, OnClock, m
<1>3. /\ DedupeTimedEvents(Merged(in)) = Merged(in) /\ events \in Seq(Sample)
      /\ EventsKept(in, events)
  BY <1>1, <1>2 DEF Merged
<1>4. EventsKept(in, EventsOf(Swapped(in), in))
  BY <1>1, <1>2 DEF Swapped
<1> HIDE DEF events
<1>5. RawOf(events) \in Windows
  BY <1>3, TimesAssumption, RawStallsAreWindows DEF RawOf
<1>6. StallsOf(events) = MergeIntervals(RawOf(events))
  BY DEF StallsOf, StallWindows, RawOf
<1>7. StallsKept(RawOf(events), StallsOf(events))
  BY <1>5, <1>6, MergeIntervalsIs
<1>8. FiguresKept(events, LoopReport(events))
  BY <1>3, ReportKeepsFigures
<1> QED
  BY <1>3, <1>4, <1>7, <1>8 DEF EventsHold, events

(* For any captures: no timed signal is lost or doubled on its way into the *)
(* report, and the stall windows say what the late heartbeats said          *)
(* (timed-signals.ts, event-loop-report.ts).                                *)
THEOREM EventsKeptForAll == EventSpec => []EventsAreKept
<1> DEFINE Inv == topic = "timeline" /\ input \in Captures
<1>1. EventInit => Inv
  BY DEF EventInit, Take
<1>2. Inv /\ [CarryOut]_vars => Inv'
  BY DEF CarryOut, vars
<1>3. Inv => EventsAreKept
  BY EventsHoldForAll DEF EventsAreKept
<1> QED
  BY <1>1, <1>2, <1>3, PTL DEF EventSpec

------------------------------------------------------------------------------
(* The phases of the pipeline, the parts they go through, and a diagnostic.   *)
Stages == {"contributor", "section-analyzer", "finding-analyzer", "finalize"}

PartsOf(stage) ==
  CASE stage \in {"contributor", "finalize"} -> Kind
    [] stage = "section-analyzer" -> Section
    [] stage = "finding-analyzer" -> Analyzer

Noted == [stage : Stages, id : STRING]

(* A state of the pipeline has these fields and no others. *)
Formed(s) ==
  /\ s = [sections |-> s.sections, views |-> s.views, extensions |-> s.extensions, findings |-> s.findings,
          diagnostics |-> s.diagnostics, finalized |-> s.finalized]
  /\ s.diagnostics \in Seq(Noted)

(* What a part does to the state it meets. *)
Writes(stage, part)   == stage = "contributor" /\ part.captured /\ part.fate # "early"
Shows(stage, part)    == stage = "contributor" /\ part.captured /\ part.fate = "never"
Extends(stage, part)  == stage = "section-analyzer" /\ ~part.throws
Meets(part, s)        == part.kinds \subseteq s.sections \cap s.views
Detects(stage, part, s) == stage = "finding-analyzer" /\ ~part.throws /\ Meets(part, s)
Closes(stage, part, s) ==
  stage = "finalize" /\ part.captured /\ part.finalize = "runs" /\ part.id \in s.sections
Throws(stage, part, s) ==
  \/ stage = "contributor" /\ part.captured /\ part.fate # "never"
  \/ stage = "section-analyzer" /\ part.throws
  \/ stage = "finding-analyzer" /\ part.throws /\ Meets(part, s)
  \/ stage = "finalize" /\ part.captured /\ part.finalize = "throws"

StepKept(stage, s, cpu, part, t) ==
  /\ Formed(t)
  /\ t.sections = IF Writes(stage, part) THEN s.sections \cup {part.id} ELSE s.sections
  /\ t.views = IF Shows(stage, part) THEN s.views \cup {part.id} ELSE s.views
  /\ t.extensions = IF Extends(stage, part) THEN s.extensions \cup {part.namespace} ELSE s.extensions
  /\ t.findings = IF Detects(stage, part, s) THEN s.findings \o Pipeline!Detect(part.id, cpu, s.findings)
                  ELSE s.findings
  /\ t.diagnostics = IF Throws(stage, part, s)
                     THEN Append(s.diagnostics, Pipeline!Diagnostic(stage, part.id)) ELSE s.diagnostics
  /\ t.finalized = IF Closes(stage, part, s) THEN s.finalized \cup {part.id} ELSE s.finalized

(* A step writes what its part writes to the state, and nothing else. *)
LEMMA StepIs ==
  ASSUME NEW stage \in Stages, NEW s, Formed(s), NEW cpu, NEW part \in PartsOf(stage)
  PROVE  StepKept(stage, s, cpu, part, Pipeline!Step(stage, s, cpu, part))
<1> DEFINE d == Pipeline!Diagnostic(stage, part.id)
           t == Pipeline!Step(stage, s, cpu, part)
<1>1. part.id \in STRING
  BY DEF PartsOf, Kind, Section, Analyzer, Stages
<1>2. d \in Noted
  <2>1. d = [stage |-> stage, id |-> part.id]
    BY DEF Pipeline!Diagnostic
  <2> QED
    BY <1>1, <2>1 DEF Noted
<1>3. Append(s.diagnostics, d) \in Seq(Noted)
  BY <1>2, AppendProperties DEF Formed
<1>4. /\ s = [sections |-> s.sections, views |-> s.views, extensions |-> s.extensions, findings |-> s.findings,
              diagnostics |-> s.diagnostics, finalized |-> s.finalized]
      /\ s.diagnostics \in Seq(Noted)
  BY DEF Formed
<1>5. CASE stage = "contributor"
  <2>1. part \in Kind
    BY <1>5 DEF PartsOf
  <2>2. t = Pipeline!Contribute(s, part)
    BY <1>5 DEF Pipeline!Step
  <2>3. part.captured \in BOOLEAN /\ part.fate \in {"never", "early", "late"}
    BY <2>1 DEF Kind
  <2>4. CASE ~part.captured
    <3>1. t = s
      BY <2>2, <2>4 DEF Pipeline!Contribute
    <3> QED
      BY <1>5, <2>4, <3>1 DEF StepKept, Writes, Shows, Extends, Detects, Closes, Throws
  <2>5. CASE part.captured /\ part.fate = "early"
    <3>1. t = [s EXCEPT !.diagnostics = Append(@, d)]
      BY <1>5, <2>2, <2>5 DEF Pipeline!Contribute
    <3> QED
      BY <1>3, <1>4, <1>5, <2>5, <3>1 DEF StepKept, Formed, Writes, Shows, Extends, Detects, Closes, Throws
  <2>6. CASE part.captured /\ part.fate = "late"
    <3>1. t = [s EXCEPT !.sections = @ \cup {part.id}, !.diagnostics = Append(@, d)]
      BY <1>5, <2>2, <2>6 DEF Pipeline!Contribute
    <3> QED
      BY <1>3, <1>4, <1>5, <2>6, <3>1 DEF StepKept, Formed, Writes, Shows, Extends, Detects, Closes, Throws
  <2>7. CASE part.captured /\ part.fate = "never"
    <3>1. t = [s EXCEPT !.sections = @ \cup {part.id}, !.views = @ \cup {part.id}]
      BY <1>5, <2>2, <2>7 DEF Pipeline!Contribute
    <3> QED
      BY <1>3, <1>4, <1>5, <2>7, <3>1 DEF StepKept, Formed, Writes, Shows, Extends, Detects, Closes, Throws
  <2> QED
    BY <2>3, <2>4, <2>5, <2>6, <2>7
<1>6. CASE stage = "section-analyzer"
  <2>1. part \in Section /\ part.throws \in BOOLEAN
    BY <1>6 DEF PartsOf, Section
  <2>2. t = Pipeline!Extend(s, part)
    BY <1>6 DEF Pipeline!Step
  <2>3. CASE part.throws
    <3>1. t = [s EXCEPT !.diagnostics = Append(@, d)]
      BY <1>6, <2>2, <2>3 DEF Pipeline!Extend
    <3> QED
      BY <1>3, <1>4, <1>6, <2>3, <3>1 DEF StepKept, Formed, Writes, Shows, Extends, Detects, Closes, Throws
  <2>4. CASE ~part.throws
    <3>1. t = [s EXCEPT !.extensions = @ \cup {part.namespace}]
      BY <2>2, <2>4 DEF Pipeline!Extend
    <3> QED
      BY <1>3, <1>4, <1>6, <2>4, <3>1 DEF StepKept, Formed, Writes, Shows, Extends, Detects, Closes, Throws
  <2> QED
    BY <2>3, <2>4
<1>7. CASE stage = "finding-analyzer"
  <2>1. part \in Analyzer /\ part.throws \in BOOLEAN
    BY <1>7 DEF PartsOf, Analyzer
  <2>2. t = Pipeline!Analyze(s, cpu, part)
    BY <1>7 DEF Pipeline!Step
  <2>3. CASE ~Meets(part, s)
    <3>1. t = s
      BY <2>2, <2>3 DEF Pipeline!Analyze, Meets
    <3> QED
      BY <1>7, <2>3, <3>1 DEF StepKept, Writes, Shows, Extends, Detects, Closes, Throws
  <2>4. CASE Meets(part, s) /\ part.throws
    <3>1. t = [s EXCEPT !.diagnostics = Append(@, d)]
      BY <1>7, <2>2, <2>4 DEF Pipeline!Analyze, Meets
    <3> QED
      BY <1>3, <1>4, <1>7, <2>4, <3>1 DEF StepKept, Formed, Writes, Shows, Extends, Detects, Closes, Throws
  <2>5. CASE Meets(part, s) /\ ~part.throws
    <3>1. t = [s EXCEPT !.findings = @ \o Pipeline!Detect(part.id, cpu, @)]
      BY <2>2, <2>5 DEF Pipeline!Analyze, Meets
    <3> QED
      BY <1>3, <1>4, <1>7, <2>5, <3>1 DEF StepKept, Formed, Writes, Shows, Extends, Detects, Closes, Throws
  <2> QED
    BY <2>3, <2>4, <2>5
<1>8. CASE stage = "finalize"
  <2>1. part \in Kind
    BY <1>8 DEF PartsOf
  <2>2. part.captured \in BOOLEAN /\ part.finalize \in {"none", "runs", "throws"}
    BY <2>1 DEF Kind
  <2>3. t = Pipeline!Finalize(s, part)
    BY <1>8 DEF Pipeline!Step
  <2>4. CASE part.captured /\ part.finalize = "throws"
    <3>1. t = [s EXCEPT !.diagnostics = Append(@, d)]
      BY <1>8, <2>3, <2>4 DEF Pipeline!Finalize
    <3> QED
      BY <1>3, <1>4, <1>8, <2>4, <3>1 DEF StepKept, Formed, Writes, Shows, Extends, Detects, Closes, Throws
  <2>5. CASE Closes(stage, part, s)
    <3>1. t = [s EXCEPT !.finalized = @ \cup {part.id}]
      BY <2>3, <2>5 DEF Pipeline!Finalize, Closes
    <3> QED
      BY <1>3, <1>4, <1>8, <2>5, <3>1 DEF StepKept, Formed, Writes, Shows, Extends, Detects, Closes, Throws
  <2>6. CASE ~(part.captured /\ part.finalize = "throws") /\ ~Closes(stage, part, s)
    <3>1. t = s
      BY <1>8, <2>2, <2>3, <2>6 DEF Pipeline!Finalize, Closes
    <3> QED
      BY <1>8, <2>6, <3>1 DEF StepKept, Writes, Shows, Extends, Detects, Throws
  <2> QED
    BY <2>4, <2>5, <2>6
<1> QED
  BY <1>5, <1>6, <1>7, <1>8 DEF Stages

(* Two states that a reader of the findings cannot tell apart. *)
Agree(a, b) ==
  /\ Formed(a) /\ Formed(b)
  /\ a.views \subseteq a.sections /\ b.views \subseteq b.sections
  /\ a.views = b.views /\ a.extensions = b.extensions /\ a.findings = b.findings

(* A part that leaves nothing which such a reader sees. *)
Spoilt(stage, part) ==
  \/ stage = "contributor" /\ ~(part.captured /\ part.fate = "never")
  \/ stage \in {"section-analyzer", "finding-analyzer"} /\ part.throws
  \/ stage = "finalize"

(* A reader who cannot tell two states apart cannot after a step, and sees
   nothing of a spoilt part. *)
LEMMA StepAgrees ==
  ASSUME NEW stage \in Stages, NEW a, NEW b, Agree(a, b), NEW cpu, NEW part \in PartsOf(stage)
  PROVE  /\ Agree(Pipeline!Step(stage, a, cpu, part), Pipeline!Step(stage, b, cpu, part))
         /\ Spoilt(stage, part) => Agree(Pipeline!Step(stage, a, cpu, part), b)
<1> DEFINE s == Pipeline!Step(stage, a, cpu, part)
           t == Pipeline!Step(stage, b, cpu, part)
<1>1. StepKept(stage, a, cpu, part, s) /\ StepKept(stage, b, cpu, part, t)
  BY StepIs DEF Agree
<1> HIDE DEF s, t
<1>2. Meets(part, a) <=> Meets(part, b)
  BY DEF Meets, Agree
<1>3. Shows(stage, part) => Writes(stage, part)
  BY DEF Shows, Writes
<1>4. Formed(s) /\ Formed(t) /\ s.views = t.views /\ s.views \subseteq s.sections /\ t.views \subseteq t.sections
  BY <1>1, <1>3 DEF StepKept, Agree
<1>5. s.extensions = t.extensions
  BY <1>1 DEF StepKept, Agree
<1>6. s.findings = t.findings
  BY <1>1, <1>2 DEF StepKept, Agree, Detects
<1>7. ASSUME Spoilt(stage, part) PROVE Agree(s, b)
  <2>1. ~Shows(stage, part) /\ ~Extends(stage, part) /\ ~Detects(stage, part, a)
    BY <1>7 DEF Spoilt, Shows, Extends, Detects
  <2> QED
    BY <1>1, <1>4, <2>1 DEF StepKept, Agree
<1> QED
  BY <1>4, <1>5, <1>6, <1>7 DEF Agree, s, t

(* f is the loop of a phase, up to the n-th part. *)
IsPhase(f, stage, begun, cpu, parts, n) ==
  f = [k \in 0 .. n |-> IF k = 0 THEN begun ELSE Pipeline!Step(stage, f[k - 1], cpu, parts[k])]

(* There is such a loop, by induction on the number of its steps. *)
LEMMA PhaseExists ==
  ASSUME NEW stage, NEW begun, NEW cpu, NEW parts, NEW n \in Nat
  PROVE  \E f : IsPhase(f, stage, begun, cpu, parts, n)
<1> DEFINE S(s, k) == Pipeline!Step(stage, s, cpu, parts[k])
           Bad == {m \in Nat : ~ \E f : IsPhase(f, stage, begun, cpu, parts, m)}
<1> SUFFICES ASSUME Bad # {} PROVE FALSE
  OBVIOUS
<1>1. Bad \in SUBSET Nat
  OBVIOUS
<1> HIDE DEF Bad, S
<1>2. PICK m \in Bad : \A k \in Bad : m <= k
  BY <1>1, LeastNatural
<1>3. m \in Nat /\ ~ \E f : IsPhase(f, stage, begun, cpu, parts, m)
  BY DEF Bad
<1>4. m # 0
  <2> DEFINE f == [k \in {0} |-> begun]
  <2>1. 0 .. 0 = {0}
    OBVIOUS
  <2>2. f = [k \in 0 .. 0 |-> IF k = 0 THEN begun ELSE S(f[k - 1], k)]
    BY <2>1
  <2> QED
    BY <1>3, <2>2 DEF IsPhase, S
<1>5. m - 1 \in Nat /\ ~(m <= m - 1)
  BY <1>3, <1>4
<1>6. PICK g : IsPhase(g, stage, begun, cpu, parts, m - 1)
  BY <1>2, <1>5 DEF Bad
<1> DEFINE h == [k \in 0 .. m |-> IF k = m THEN S(g[m - 1], m) ELSE g[k]]
<1>7. \A k \in 0 .. m - 1 : g[k] = IF k = 0 THEN begun ELSE S(g[k - 1], k)
  BY <1>6 DEF IsPhase, S
<1>8. ASSUME NEW k \in 0 .. m
      PROVE  h[k] = IF k = 0 THEN begun ELSE S(h[k - 1], k)
  <2>1. k # 0 => h[k - 1] = g[k - 1]
    BY <1>3, <1>5
  <2>2. CASE k = m
    BY <1>4, <2>1, <2>2
  <2>3. CASE k # m
    <3>1. k \in 0 .. m - 1
      BY <1>3, <2>3
    <3> QED
      BY <1>7, <2>1, <2>3, <3>1
  <2> QED
    BY <2>2, <2>3
<1>9. h = [k \in 0 .. m |-> IF k = 0 THEN begun ELSE S(h[k - 1], k)]
  BY <1>8
<1> QED
  BY <1>3, <1>9 DEF IsPhase, S

(* What the loop of a phase goes through, and ends in. *)
Looped(f, stage, begun, cpu, parts) ==
  /\ f[0] = begun
  /\ \A k \in 1 .. Len(parts) : f[k] = Pipeline!Step(stage, f[k - 1], cpu, parts[k])
  /\ Pipeline!Phase(stage, begun, cpu, parts) = f[Len(parts)]

(* A phase ends where its loop does. *)
LEMMA PhaseIs ==
  ASSUME NEW stage, NEW begun, NEW cpu, NEW S, NEW parts \in Seq(S)
  PROVE  \E f : Looped(f, stage, begun, cpu, parts)
<1>1. Len(parts) \in Nat
  BY LenProperties
<1>2. \E f : IsPhase(f, stage, begun, cpu, parts, Len(parts))
  BY <1>1, PhaseExists
<1> DEFINE g == CHOOSE f : f = [k \in 0 .. Len(parts) |->
                   IF k = 0 THEN begun ELSE Pipeline!Step(stage, f[k - 1], cpu, parts[k])]
<1>3. g = [k \in 0 .. Len(parts) |-> IF k = 0 THEN begun ELSE Pipeline!Step(stage, g[k - 1], cpu, parts[k])]
  BY <1>2 DEF IsPhase
<1>4. Pipeline!Phase(stage, begun, cpu, parts) = g[Len(parts)]
  BY DEF Pipeline!Phase
<1> HIDE DEF g
<1>5. g[0] = begun /\ \A k \in 1 .. Len(parts) : g[k] = Pipeline!Step(stage, g[k - 1], cpu, parts[k])
  BY <1>1, <1>3
<1> QED
  BY <1>4, <1>5 DEF Looped

(* A loop over some parts ends as the loop over all of them does, for a reader *)
(* who cannot tell the two beginnings apart, if the others are spoilt.       *)
LEMMA SpoiltPartsAreNotMissed ==
  ASSUME NEW stage \in Stages, NEW a, NEW b, Agree(a, b), NEW cpu,
         NEW parts \in Seq(PartsOf(stage)), NEW I \in SUBSET DOMAIN parts,
         \A i \in (DOMAIN parts) \ I : Spoilt(stage, parts[i])
  PROVE  Agree(Pipeline!Phase(stage, a, cpu, parts), Pipeline!Phase(stage, b, cpu, Picked(parts, I)))
<1> DEFINE S == PartsOf(stage)
           N == Len(parts)
           m == Cardinality(I)
           left == Picked(parts, I)
<1>1. N \in Nat /\ DOMAIN parts = 1 .. N /\ \A i \in 1 .. N : parts[i] \in S
  BY LenProperties, ElementOfSeq
<1>2. /\ m \in Nat /\ left \in Seq(S) /\ Len(left) = m
      /\ \E p \in [1 .. m -> I] :
           /\ \A i \in I : \E k \in 1 .. m : p[k] = i
           /\ \A k, l \in 1 .. m : k < l => p[k] < p[l]
           /\ \A k \in 1 .. m : left[k] = parts[p[k]]
  <2> HIDE DEF S
  <2>1. parts \in Seq(S)
    BY DEF S
  <2> QED
    BY <2>1, PickedIs
<1>3. PICK p \in [1 .. m -> I] :
           /\ \A i \in I : \E k \in 1 .. m : p[k] = i
           /\ \A k, l \in 1 .. m : k < l => p[k] < p[l]
           /\ \A k \in 1 .. m : left[k] = parts[p[k]]
  BY <1>2
<1>p. parts \in Seq(S)
  OBVIOUS
<1> HIDE DEF S, left
<1>4. PICK f : /\ f[0] = a
               /\ \A k \in 1 .. N : f[k] = Pipeline!Step(stage, f[k - 1], cpu, parts[k])
               /\ Pipeline!Phase(stage, a, cpu, parts) = f[N]
  <2>1. PICK f : Looped(f, stage, a, cpu, parts)
    BY <1>p, PhaseIs
  <2> QED
    BY <2>1 DEF Looped
<1>5. PICK g : /\ g[0] = b
               /\ \A k \in 1 .. m : g[k] = Pipeline!Step(stage, g[k - 1], cpu, left[k])
               /\ Pipeline!Phase(stage, b, cpu, left) = g[m]
  <2>1. left \in Seq(S) /\ Len(left) = m
    BY <1>2
  <2>2. PICK g : Looped(g, stage, b, cpu, left)
    BY <2>1, PhaseIs
  <2> QED
    BY <2>1, <2>2 DEF Looped
<1>6. \A k \in 1 .. m : p[k] \in I /\ p[k] \in 1 .. N
  BY <1>1
<1> HIDE DEF m
(* after the n-th part, k of those that are left have been met *)
<1> DEFINE Met(n, k) == (k # 0 => p[k] <= n) /\ (k # m => p[k + 1] > n)
           Bad == {n \in 0 .. N : \E k \in 0 .. m : Met(n, k) /\ ~ Agree(f[n], g[k])}
<1>7. Bad = {}
  <2> SUFFICES ASSUME Bad # {} PROVE FALSE
    OBVIOUS
  <2>1. Bad \in SUBSET Nat
    BY <1>1
  <2> HIDE DEF Bad
  <2>2. PICK n \in Bad : \A j \in Bad : n <= j
    BY <2>1, LeastNatural
  <2> USE DEF Bad
  <2>3. PICK k \in 0 .. m : Met(n, k) /\ ~ Agree(f[n], g[k])
    OBVIOUS
  <2>4. n \in 0 .. N /\ n \in Nat /\ k \in Nat
    BY <1>1, <1>2
  <2>5. \A j \in 0 .. N : j < n => \A l \in 0 .. m : Met(j, l) => Agree(f[j], g[l])
    BY <2>2, <2>4
  <2> HIDE DEF Bad
  <2>6. n # 0
    <3> SUFFICES ASSUME n = 0 PROVE FALSE
      OBVIOUS
    <3>1. k = 0
      BY <1>2, <1>6, <2>3, <2>4
    <3> QED
      BY <1>4, <1>5, <2>3, <3>1
  <2>7. n \in 1 .. N /\ n - 1 \in 0 .. N /\ n - 1 < n
    BY <1>1, <2>4, <2>6
  <2>8. f[n] = Pipeline!Step(stage, f[n - 1], cpu, parts[n]) /\ parts[n] \in PartsOf(stage)
    BY <1>1, <1>4, <2>7 DEF S
  <2>9. CASE n \in I
    <3>1. PICK j \in 1 .. m : p[j] = n
      BY <1>3, <2>9
    <3>2. j = k
      <4>1. k # 0
        <5> SUFFICES ASSUME k = 0 PROVE FALSE
          OBVIOUS
        <5>1. m # 0 /\ 1 \in 1 .. m /\ p[1] > n
          BY <1>2, <2>3, <3>1
        <5>2. p[1] <= p[j]
          <6>1. 1 = j \/ 1 < j
            BY <1>2, <3>1
          <6>2. p[1] \in 1 .. N /\ (1 < j => p[1] < p[j])
            BY <1>3, <1>6, <3>1, <5>1
          <6> QED
            BY <6>1, <6>2, <2>4, <3>1
        <5> QED
          BY <1>6, <2>4, <3>1, <5>1, <5>2
      <4>2. k \in 1 .. m /\ p[k] <= n
        BY <1>2, <2>3, <2>4, <4>1
      <4>3. ~(k < j)
        <5> SUFFICES ASSUME k < j PROVE FALSE
          OBVIOUS
        <5>1. k + 1 \in 1 .. m /\ k # m /\ p[k + 1] > n
          BY <1>2, <2>3, <2>4, <3>1
        <5>2. p[k + 1] <= p[j]
          <6>1. k + 1 = j \/ k + 1 < j
            BY <1>2, <2>4, <3>1
          <6>2. p[k + 1] \in 1 .. N /\ (k + 1 < j => p[k + 1] < p[j])
            BY <1>3, <1>6, <3>1, <5>1
          <6> QED
            BY <6>1, <6>2, <2>4, <3>1
        <5> QED
          BY <1>6, <2>4, <3>1, <5>1, <5>2
      <4>4. ~(j < k)
        BY <1>3, <1>6, <2>4, <3>1, <4>2
      <4> QED
        BY <2>4, <3>1, <4>3, <4>4
    <3>3. k \in 1 .. m /\ k - 1 \in 0 .. m
      BY <1>2, <3>1, <3>2
    <3>4. Met(n - 1, k - 1)
      <4>1. k - 1 # 0 => p[k - 1] <= n - 1
        <5> SUFFICES ASSUME k - 1 # 0 PROVE p[k - 1] <= n - 1
          OBVIOUS
        <5>1. k - 1 \in 1 .. m /\ k - 1 < k
          BY <2>4, <3>3
        <5>2. p[k - 1] < p[k] /\ p[k] = n /\ p[k - 1] \in 1 .. N
          BY <1>3, <1>6, <3>1, <3>2, <3>3, <5>1
        <5> QED
          BY <2>4, <5>2
      <4>2. p[(k - 1) + 1] > n - 1
        <5>1. (k - 1) + 1 = k /\ p[k] = n
          BY <2>4, <3>1, <3>2
        <5> QED
          BY <2>4, <5>1
      <4> QED
        BY <4>1, <4>2
    <3>5. Agree(f[n - 1], g[k - 1])
      BY <2>5, <2>7, <3>3, <3>4
    <3>6. g[k] = Pipeline!Step(stage, g[k - 1], cpu, parts[n])
      BY <1>3, <1>5, <3>1, <3>2, <3>3
    <3>7. Agree(f[n], g[k])
      <4> HIDE DEF Met
      <4> QED
        BY <2>8, <3>5, <3>6, StepAgrees
    <3> QED
      BY <2>3, <3>7
  <2>10. CASE n \notin I
    <3>1. k # 0 => k \in 1 .. m /\ p[k] # n
      BY <1>2, <1>6, <2>4, <2>10
    <3>2. Met(n - 1, k)
      <4>1. k # 0 => p[k] <= n - 1
        BY <1>6, <2>3, <2>4, <3>1
      <4>2. k # m => p[k + 1] > n - 1
        <5> SUFFICES ASSUME k # m PROVE p[k + 1] > n - 1
          OBVIOUS
        <5>1. k + 1 \in 1 .. m /\ p[k + 1] > n
          BY <1>2, <2>3, <2>4
        <5>2. p[k + 1] \in 1 .. N
          BY <1>6, <5>1
        <5> QED
          BY <2>4, <5>1, <5>2
      <4> QED
        BY <4>1, <4>2
    <3>3. Agree(f[n - 1], g[k])
      BY <2>5, <2>7, <3>2
    <3>4. Spoilt(stage, parts[n])
      BY <1>1, <2>7, <2>10
    <3>5. Agree(f[n], g[k])
      <4> HIDE DEF Met
      <4> QED
        BY <2>8, <3>3, <3>4, StepAgrees
    <3> QED
      BY <2>3, <3>5
  <2> QED
    BY <2>9, <2>10
<1>8. Met(N, m)
  BY <1>1, <1>2, <1>6
<1>9. Agree(f[N], g[m])
  BY <1>1, <1>2, <1>7, <1>8
<1> QED
  BY <1>4, <1>5, <1>9 DEF left

(* What the first n parts of a phase, which met s, did to it, in figures.    *)
Done(stage, parts, s, n) ==
  [threw  |-> {i \in 1 .. n : Throws(stage, parts[i], s)},
   wrote  |-> {i \in 1 .. n : Writes(stage, parts[i])},
   showed |-> {i \in 1 .. n : Shows(stage, parts[i])},
   closed |-> {i \in 1 .. n : Closes(stage, parts[i], s)}]

Ids(parts, I) == {parts[i].id : i \in I}
Notes(stage, parts, I) == {Pipeline!Diagnostic(stage, parts[i].id) : i \in I}

PhaseKept(stage, parts, s, n, t) ==
  LET d == Done(stage, parts, s, n)
  IN /\ Formed(t)
     /\ Len(t.diagnostics) = Len(s.diagnostics) + Cardinality(d.threw)
     /\ ToSet(t.diagnostics) = ToSet(s.diagnostics) \cup Notes(stage, parts, d.threw)
     /\ t.sections = s.sections \cup Ids(parts, d.wrote)
     /\ t.views = s.views \cup Ids(parts, d.showed)
     /\ t.finalized = s.finalized \cup Ids(parts, d.closed)

(* One more member, or not. *)
LEMMA OneMore ==
  ASSUME NEW n \in Nat, NEW D \in SUBSET (1 .. n + 1), NEW E \in SUBSET (1 .. n),
         E = D \ {n + 1}
  PROVE  Cardinality(D) = Cardinality(E) + (IF n + 1 \in D THEN 1 ELSE 0) /\ Cardinality(E) \in Nat
<1>1. IsFiniteSet(E) /\ Cardinality(E) \in Nat
  <2>1. IsFiniteSet(1 .. n)
    BY FS_Interval
  <2>2. IsFiniteSet(E)
    BY <2>1, FS_Subset
  <2> QED
    BY <2>2, FS_CardinalityType
<1>2. CASE n + 1 \in D
  <2>1. n + 1 \notin E /\ D = E \cup {n + 1}
    BY <1>2
  <2> QED
    BY <1>1, <1>2, <2>1, FS_AddElement
<1>3. CASE n + 1 \notin D
  <2>1. D = E
    BY <1>3
  <2>2. Cardinality(D) = Cardinality(E)
    BY <2>1
  <2> QED
    BY <1>1, <1>3, <2>2
<1> QED
  BY <1>2, <1>3, <1>1

(* One more diagnostic. *)
LEMMA NotesGrow ==
  ASSUME NEW s \in Seq(Noted), NEW d \in Noted
  PROVE  /\ Append(s, d) \in Seq(Noted) /\ Len(Append(s, d)) = Len(s) + 1
         /\ ToSet(Append(s, d)) = ToSet(s) \cup {d}
<1> DEFINE t == Append(s, d)
<1>1. /\ t \in Seq(Noted) /\ Len(t) = Len(s) + 1 /\ Len(s) \in Nat
      /\ \A i \in 1 .. Len(s) : t[i] = s[i]
      /\ t[Len(s) + 1] = d
  BY AppendProperties, LenProperties
<1>2. DOMAIN s = 1 .. Len(s) /\ DOMAIN t = 1 .. Len(s) + 1
  BY <1>1, LenProperties
<1> HIDE DEF t
<1>3. ToSet(t) = {t[i] : i \in 1 .. Len(s) + 1} /\ ToSet(s) = {s[i] : i \in 1 .. Len(s)}
  BY <1>2 DEF ToSet
<1>4. \A x : x \in ToSet(t) <=> x \in ToSet(s) \cup {d}
  <2>1. 1 .. Len(s) + 1 = (1 .. Len(s)) \cup {Len(s) + 1}
    BY <1>1
  <2> QED
    BY <1>1, <1>3, <2>1
<1> QED
  BY <1>1, <1>4 DEF t

(* The loop of a phase does what its parts do. *)
LEMMA PhaseDoes ==
  ASSUME NEW stage \in Stages, NEW s, Formed(s), NEW cpu, NEW parts \in Seq(PartsOf(stage))
  PROVE  PhaseKept(stage, parts, s, Len(parts), Pipeline!Phase(stage, s, cpu, parts))
<1> DEFINE S == PartsOf(stage)
           N == Len(parts)
<1>1. N \in Nat /\ DOMAIN parts = 1 .. N /\ (\A i \in 1 .. N : parts[i] \in S) /\ parts \in Seq(S)
  BY LenProperties, ElementOfSeq
<1> HIDE DEF S
<1>2. PICK f : /\ f[0] = s
               /\ \A k \in 1 .. N : f[k] = Pipeline!Step(stage, f[k - 1], cpu, parts[k])
               /\ Pipeline!Phase(stage, s, cpu, parts) = f[N]
  <2>1. PICK f : Looped(f, stage, s, cpu, parts)
    BY <1>1, PhaseIs
  <2> QED
    BY <2>1 DEF Looped
<1> DEFINE Bad == {n \in 0 .. N : ~ PhaseKept(stage, parts, s, n, f[n])}
<1>3. Bad = {}
  <2> SUFFICES ASSUME Bad # {} PROVE FALSE
    OBVIOUS
  <2>1. Bad \in SUBSET Nat
    BY <1>1
  <2> HIDE DEF Bad
  <2>2. PICK n \in Bad : \A j \in Bad : n <= j
    BY <2>1, LeastNatural
  <2>3. n \in 0 .. N /\ n \in Nat /\ ~ PhaseKept(stage, parts, s, n, f[n])
    BY <1>1 DEF Bad
  <2>4. n # 0
    <3> SUFFICES ASSUME n = 0 PROVE FALSE
      OBVIOUS
    <3>1. 1 .. n = {}
      BY <2>3
    <3>2. /\ Done(stage, parts, s, n).threw = {} /\ Done(stage, parts, s, n).wrote = {}
          /\ Done(stage, parts, s, n).showed = {} /\ Done(stage, parts, s, n).closed = {}
      BY <3>1 DEF Done
    <3>3. Ids(parts, {}) = {} /\ Notes(stage, parts, {}) = {} /\ Cardinality({}) = 0
      BY FS_EmptySet DEF Ids, Notes
    <3>4. Len(s.diagnostics) \in Nat
      BY LenProperties DEF Formed
    <3> DEFINE d == Done(stage, parts, s, n)
    <3>5. /\ Len(s.diagnostics) = Len(s.diagnostics) + Cardinality(d.threw)
          /\ ToSet(s.diagnostics) = ToSet(s.diagnostics) \cup Notes(stage, parts, d.threw)
          /\ s.sections = s.sections \cup Ids(parts, d.wrote)
          /\ s.views = s.views \cup Ids(parts, d.showed)
          /\ s.finalized = s.finalized \cup Ids(parts, d.closed)
      <4>1. Cardinality(d.threw) = 0 /\ Notes(stage, parts, d.threw) = {} /\ Ids(parts, d.wrote) = {}
            /\ Ids(parts, d.showed) = {} /\ Ids(parts, d.closed) = {}
        BY <3>2, <3>3
      <4> HIDE DEF d
      <4> QED
        BY <3>4, <4>1
    <3>6. f[n] = s
      BY <1>2
    <3>7. PhaseKept(stage, parts, s, n, f[n])
      BY <3>5, <3>6 DEF PhaseKept
    <3> QED
      BY <2>3, <3>7
  <2> DEFINE k == n - 1
             part == parts[n]
             t == f[k]
             u == f[n]
             d == Done(stage, parts, s, k)
             e == Done(stage, parts, s, n)
  <2>5. k \in Nat /\ k \in 0 .. N /\ n = k + 1 /\ n \in 1 .. N /\ ~(n <= k) /\ 1 .. n = (1 .. k) \cup {n}
    BY <1>1, <2>3, <2>4
  <2>6. PhaseKept(stage, parts, s, k, t)
    <3>1. k \notin Bad
      BY <2>2, <2>5
    <3> QED
      BY <2>5, <3>1 DEF Bad
  <2>7. Formed(t) /\ part \in PartsOf(stage)
    BY <1>1, <2>5, <2>6 DEF PhaseKept, S
  <2>8. StepKept(stage, t, cpu, part, u)
    <3>1. u = Pipeline!Step(stage, t, cpu, part)
      BY <1>2, <2>5
    <3> QED
      BY <2>7, <3>1, StepIs
  <2> HIDE DEF k, t, u
  <2>9. /\ d.threw = {i \in 1 .. k : Throws(stage, parts[i], s)} /\ d.wrote = {i \in 1 .. k : Writes(stage, parts[i])}
        /\ d.showed = {i \in 1 .. k : Shows(stage, parts[i])} /\ d.closed = {i \in 1 .. k : Closes(stage, parts[i], s)}
        /\ e.threw = {i \in 1 .. n : Throws(stage, parts[i], s)} /\ e.wrote = {i \in 1 .. n : Writes(stage, parts[i])}
        /\ e.showed = {i \in 1 .. n : Shows(stage, parts[i])} /\ e.closed = {i \in 1 .. n : Closes(stage, parts[i], s)}
    BY DEF Done
  <2>10. stage # "contributor" => t.sections = s.sections /\ t.views = s.views
    <3> SUFFICES ASSUME stage # "contributor" PROVE t.sections = s.sections /\ t.views = s.views
      OBVIOUS
    <3>1. d.wrote = {} /\ d.showed = {}
      BY <2>9 DEF Writes, Shows
    <3> QED
      BY <2>6, <3>1 DEF PhaseKept, Ids
  <2>11. (Throws(stage, part, t) <=> Throws(stage, part, s)) /\ (Closes(stage, part, t) <=> Closes(stage, part, s))
    BY <2>10 DEF Throws, Closes, Meets
  <2> HIDE DEF d, e
  <2>12. u.sections = s.sections \cup Ids(parts, e.wrote)
    <3>1. Ids(parts, e.wrote) = Ids(parts, d.wrote) \cup (IF Writes(stage, part) THEN {part.id} ELSE {})
      BY <2>5, <2>9 DEF Ids
    <3> QED
      BY <2>6, <2>8, <3>1 DEF PhaseKept, StepKept, d
  <2>13. u.views = s.views \cup Ids(parts, e.showed)
    <3>1. Ids(parts, e.showed) = Ids(parts, d.showed) \cup (IF Shows(stage, part) THEN {part.id} ELSE {})
      BY <2>5, <2>9 DEF Ids
    <3> QED
      BY <2>6, <2>8, <3>1 DEF PhaseKept, StepKept, d
  <2>14. u.finalized = s.finalized \cup Ids(parts, e.closed)
    <3>1. Ids(parts, e.closed) = Ids(parts, d.closed) \cup (IF Closes(stage, part, s) THEN {part.id} ELSE {})
      BY <2>5, <2>9 DEF Ids
    <3> QED
      BY <2>6, <2>8, <2>11, <3>1 DEF PhaseKept, StepKept, d
  <2>15. /\ Len(u.diagnostics) = Len(s.diagnostics) + Cardinality(e.threw)
         /\ ToSet(u.diagnostics) = ToSet(s.diagnostics) \cup Notes(stage, parts, e.threw)
    <3> DEFINE note == Pipeline!Diagnostic(stage, part.id)
    <3>1. note \in Noted
      <4>1. part.id \in STRING
        BY <2>7 DEF PartsOf, Kind, Section, Analyzer, Stages
      <4> QED
        BY <4>1 DEF Noted, Pipeline!Diagnostic
    <3>2. Notes(stage, parts, e.threw) = Notes(stage, parts, d.threw) \cup (IF Throws(stage, part, s) THEN {note} ELSE {})
      BY <2>5, <2>9 DEF Notes
    <3>3. Cardinality(e.threw) = Cardinality(d.threw) + (IF Throws(stage, part, s) THEN 1 ELSE 0) /\ Cardinality(d.threw) \in Nat
      <4>1. e.threw \in SUBSET (1 .. k + 1) /\ d.threw \in SUBSET (1 .. k) /\ d.threw = e.threw \ {k + 1}
        BY <2>5, <2>9
      <4>2. k + 1 \in e.threw <=> Throws(stage, part, s)
        BY <2>5, <2>9
      <4> QED
        BY <2>5, <4>1, <4>2, OneMore
    <3> HIDE DEF note
    <3>4. t.diagnostics \in Seq(Noted) /\ Len(t.diagnostics) \in Nat /\ Len(s.diagnostics) \in Nat
      BY <2>7, LenProperties DEF Formed
    <3>5. /\ Len(t.diagnostics) = Len(s.diagnostics) + Cardinality(d.threw)
          /\ ToSet(t.diagnostics) = ToSet(s.diagnostics) \cup Notes(stage, parts, d.threw)
      BY <2>6 DEF PhaseKept, d
    <3>6. u.diagnostics = IF Throws(stage, part, s) THEN Append(t.diagnostics, note) ELSE t.diagnostics
      BY <2>8, <2>11 DEF StepKept, note
    <3>7. CASE Throws(stage, part, s)
      <4>1. Len(u.diagnostics) = Len(t.diagnostics) + 1 /\ ToSet(u.diagnostics) = ToSet(t.diagnostics) \cup {note}
        BY <3>1, <3>4, <3>6, <3>7, NotesGrow
      <4> QED
        BY <3>2, <3>3, <3>4, <3>5, <3>7, <4>1
    <3>8. CASE ~Throws(stage, part, s)
      BY <3>2, <3>3, <3>4, <3>5, <3>6, <3>8
    <3> QED
      BY <3>7, <3>8
  <2>16. Formed(u)
    BY <2>8 DEF StepKept
  <2>17. PhaseKept(stage, parts, s, n, u)
    BY <2>12, <2>13, <2>14, <2>15, <2>16 DEF PhaseKept, e
  <2> QED
    BY <2>3, <2>17 DEF u
<1> QED
  BY <1>1, <1>2, <1>3

(* How many the first n numbers are. *)
LEMMA UpTo ==
  ASSUME NEW n \in Nat
  PROVE  IsFiniteSet(1 .. n) /\ Cardinality(1 .. n) = n
<1>1. IsFiniteSet(1 .. n) /\ Cardinality(1 .. n) = IF 1 > n THEN 0 ELSE n - 1 + 1
  BY FS_Interval
<1> QED
  BY <1>1

(* What SortAnalyzers does: the same elements, listed by their order. *)
LEMMA SortIs ==
  ASSUME NEW S, NEW s \in Seq(S), \A i \in DOMAIN s : s[i].order \in Int
  PROVE  /\ Pipeline!SortAnalyzers(s) \in Seq(S) /\ Len(Pipeline!SortAnalyzers(s)) = Len(s)
         /\ \E p : /\ Lists(p, DOMAIN s, [i \in DOMAIN s |-> s[i].order])
                   /\ \A k \in 1 .. Len(s) : Pipeline!SortAnalyzers(s)[k] = s[p[k]]
<1> DEFINE J == DOMAIN s
           key == [i \in J |-> s[i].order]
<1>1. Len(s) \in Nat /\ J = 1 .. Len(s)
  BY LenProperties
<1>2. Cardinality(J) = Len(s)
  <2>1. Cardinality(1 .. Len(s)) = Len(s)
    BY <1>1, UpTo
  <2> QED
    BY <1>1, <2>1
<1>3. J \in SUBSET DOMAIN s /\ key \in [J -> Int]
  OBVIOUS
<1>4. Pipeline!SortAnalyzers(s) = Arranged(s, J, key)
  <2>1. Pipeline!SortAnalyzers(s) = Pipeline!Arranged(s, J, key)
    BY DEF Pipeline!SortAnalyzers
  <2> HIDE DEF J, key
  <2>2. Pipeline!Arranged(s, J, key) = Arranged(s, J, key)
    BY DEF Pipeline!Arranged, Arranged, Pipeline!Cardinality, Cardinality
  <2> QED
    BY <2>1, <2>2
<1>5. key = [i \in DOMAIN s |-> s[i].order] /\ J = DOMAIN s
  OBVIOUS
<1> HIDE DEF J, key
<1>6. /\ Arranged(s, J, key) \in Seq(S) /\ Len(Arranged(s, J, key)) = Cardinality(J)
      /\ \E p : Lists(p, J, key) /\ \A k \in 1 .. Cardinality(J) : Arranged(s, J, key)[k] = s[p[k]]
  BY <1>3, ArrangedIs
<1> QED
  BY <1>2, <1>4, <1>5, <1>6

(* There is one list of the places by a key. *)
LEMMA OneList ==
  ASSUME NEW I, I \subseteq Int, NEW n \in Nat, n = Cardinality(I), NEW key \in [I -> Int],
         NEW p, Lists(p, I, key), NEW q, Lists(q, I, key)
  PROVE  p = q
<1>1. /\ p \in [1 .. n -> I] /\ q \in [1 .. n -> I]
      /\ \A i \in I : \E k \in 1 .. n : p[k] = i
      /\ \A i \in I : \E k \in 1 .. n : q[k] = i
      /\ \A k, l \in 1 .. n : k < l => Precedes(key, p[k], p[l]) /\ p[k] # p[l]
      /\ \A k, l \in 1 .. n : k < l => Precedes(key, q[k], q[l]) /\ q[k] # q[l]
  BY DEF Lists
<1> DEFINE Bad == {k \in 1 .. n : p[k] # q[k]}
<1>2. Bad = {}
  <2> SUFFICES ASSUME Bad # {} PROVE FALSE
    OBVIOUS
  <2>1. Bad \in SUBSET Nat
    OBVIOUS
  <2> HIDE DEF Bad
  <2>2. PICK k \in Bad : \A j \in Bad : k <= j
    BY <2>1, LeastNatural
  <2>3. k \in 1 .. n /\ p[k] # q[k] /\ \A j \in 1 .. n : j < k => p[j] = q[j]
    BY <2>2 DEF Bad
  <2>4. p[k] \in I /\ q[k] \in I
    BY <1>1, <2>3
  <2>5. PICK l \in 1 .. n : q[l] = p[k]
    BY <1>1, <2>4
  <2>6. PICK m \in 1 .. n : p[m] = q[k]
    BY <1>1, <2>4
  <2>7. k < l
    <3>1. l # k
      BY <2>3, <2>5
    <3>2. l < k => p[l] = p[k] /\ p[l] # p[k]
      BY <1>1, <2>3, <2>5
    <3> QED
      BY <2>3, <2>5, <3>1, <3>2
  <2>8. k < m
    <3>1. m # k
      BY <2>3, <2>6
    <3>2. m < k => q[m] = q[k] /\ q[m] # q[k]
      BY <1>1, <2>3, <2>6
    <3> QED
      BY <2>3, <2>6, <3>1, <3>2
  <2>9. Precedes(key, q[k], p[k]) /\ Precedes(key, p[k], q[k])
    BY <1>1, <2>3, <2>5, <2>6, <2>7, <2>8
  <2>10. key[p[k]] \in Int /\ key[q[k]] \in Int /\ p[k] \in Int /\ q[k] \in Int
    BY <2>4
  <2> QED
    BY <2>3, <2>9, <2>10 DEF Precedes
<1>3. \A k \in 1 .. n : p[k] = q[k]
  BY <1>2
<1> QED
  BY <1>1, <1>3

(* Sorting what is sound is taking the sound parts of what is sorted. *)
LEMMA SortSound ==
  ASSUME NEW S, NEW s \in Seq(S), \A i \in DOMAIN s : s[i].order \in Int
  PROVE  /\ Picked(s, Sound(s)) \in Seq(S)
         /\ Pipeline!SortAnalyzers(Picked(s, Sound(s)))
              = Picked(Pipeline!SortAnalyzers(s), Sound(Pipeline!SortAnalyzers(s)))
<1> DEFINE I == Sound(s)
           n == Cardinality(I)
           left == Picked(s, I)
           key == [i \in DOMAIN s |-> s[i].order]
           keyI == [i \in I |-> s[i].order]
           keyL == [j \in DOMAIN left |-> left[j].order]
           sorted == Pipeline!SortAnalyzers(s)
           J == Sound(sorted)
           one == Pipeline!SortAnalyzers(left)
           other == Picked(sorted, J)
<1>1. Len(s) \in Nat /\ DOMAIN s = 1 .. Len(s) /\ I \in SUBSET DOMAIN s /\ I \subseteq Int
  BY LenProperties DEF Sound
<1>2. /\ IsFiniteSet(I) /\ n \in Nat /\ left \in Seq(S) /\ Len(left) = n
      /\ \E a \in [1 .. n -> I] :
           /\ \A i \in I : \E k \in 1 .. n : a[k] = i
           /\ \A k, l \in 1 .. n : k < l => a[k] < a[l]
           /\ \A k \in 1 .. n : left[k] = s[a[k]]
  <2> HIDE DEF I
  <2> QED
    BY <1>1, PickedIs
<1> HIDE DEF I, n, left
<1>3. PICK a \in [1 .. n -> I] :
           /\ \A i \in I : \E k \in 1 .. n : a[k] = i
           /\ \A k, l \in 1 .. n : k < l => a[k] < a[l]
           /\ \A k \in 1 .. n : left[k] = s[a[k]]
  BY <1>2
<1>4. DOMAIN left = 1 .. n /\ \A k \in 1 .. n : a[k] \in I /\ a[k] \in DOMAIN s
  BY <1>1, <1>2, LenProperties
<1>5. /\ sorted \in Seq(S) /\ Len(sorted) = Len(s)
      /\ \E p : Lists(p, DOMAIN s, key) /\ \A k \in 1 .. Len(s) : sorted[k] = s[p[k]]
  BY SortIs
<1>6. PICK p : Lists(p, DOMAIN s, key) /\ \A k \in 1 .. Len(s) : sorted[k] = s[p[k]]
  BY <1>5
<1>7. \A i \in DOMAIN left : left[i].order \in Int
  <2> SUFFICES ASSUME NEW i \in DOMAIN left PROVE left[i].order \in Int
    OBVIOUS
  <2>1. i \in 1 .. n
    BY <1>4
  <2>2. left[i] = s[a[i]]
    BY ONLY <1>3, <2>1
  <2>3. a[i] \in DOMAIN s
    BY <1>4, <2>1
  <2> QED
    BY <2>2, <2>3
<1>8. /\ one \in Seq(S) /\ Len(one) = Len(left)
      /\ \E b : Lists(b, DOMAIN left, keyL) /\ \A k \in 1 .. Len(left) : one[k] = left[b[k]]
  <2>1. left \in Seq(S)
    BY <1>2
  <2> QED
    BY ONLY <1>7, <2>1, SortIs
<1>9. PICK b : Lists(b, DOMAIN left, keyL) /\ \A k \in 1 .. Len(left) : one[k] = left[b[k]]
  BY <1>8
<1> HIDE DEF sorted, one
<1>10. Cardinality(DOMAIN left) = n /\ Cardinality(DOMAIN s) = Len(s)
  <2>1. Cardinality(1 .. n) = n /\ Cardinality(1 .. Len(s)) = Len(s)
    BY <1>1, <1>2, UpTo
  <2> QED
    BY <1>1, <1>4, <2>1
<1>11. /\ b \in [1 .. n -> 1 .. n]
       /\ \A i \in 1 .. n : \E k \in 1 .. n : b[k] = i
       /\ \A k, l \in 1 .. n : k < l => Precedes(keyL, b[k], b[l]) /\ b[k] # b[l]
  BY <1>4, <1>9, <1>10 DEF Lists
<1> DEFINE ab == [k \in 1 .. n |-> a[b[k]]]
<1>12. Lists(ab, I, keyI)
  <2>1. \A k \in 1 .. n : b[k] \in 1 .. n /\ ab[k] = a[b[k]] /\ ab[k] \in I
    BY <1>4, <1>11
  <2>2. ab \in [1 .. n -> I]
    BY <2>1
  <2>3. \A i \in I : \E k \in 1 .. n : ab[k] = i
    <3> SUFFICES ASSUME NEW i \in I PROVE \E k \in 1 .. n : ab[k] = i
      OBVIOUS
    <3>1. PICK j \in 1 .. n : a[j] = i
      BY <1>3
    <3>2. PICK k \in 1 .. n : b[k] = j
      BY <1>11
    <3> QED
      BY <2>1, <3>1, <3>2
  <2>4. ASSUME NEW k \in 1 .. n, NEW l \in 1 .. n, k < l
        PROVE  Precedes(keyI, ab[k], ab[l]) /\ ab[k] # ab[l]
    <3> DEFINE x == b[k]
               y == b[l]
    <3>1. x \in 1 .. n /\ y \in 1 .. n /\ x # y /\ Precedes(keyL, x, y) /\ ab[k] = a[x] /\ ab[l] = a[y]
      BY <1>11, <2>1, <2>4
    <3> HIDE DEF x, y
    <3>2. a[x] \in I /\ a[y] \in I /\ a[x] \in Int /\ a[y] \in Int
      BY <1>1, <1>4, <3>1
    <3>3. keyL[x] = keyI[a[x]] /\ keyL[y] = keyI[a[y]]
      BY <1>3, <1>4, <3>1, <3>2
    <3>4. x < y => a[x] < a[y]
      BY <1>3, <3>1
    <3>5. y < x => a[y] < a[x]
      BY <1>3, <3>1
    <3>6. x \in Int /\ y \in Int
      BY <1>2, <3>1
    <3>7. a[x] # a[y]
      BY <3>1, <3>2, <3>4, <3>5, <3>6
    <3> HIDE DEF keyL, keyI
    <3>8. Precedes(keyI, a[x], a[y])
      BY <3>1, <3>2, <3>3, <3>4, <3>6 DEF Precedes
    <3> QED
      BY <3>1, <3>7, <3>8
  <2> HIDE DEF keyI, ab
  <2> QED
    BY <2>2, <2>3, <2>4 DEF Lists, n
<1>13. /\ p \in [1 .. Len(s) -> DOMAIN s]
       /\ \A i \in DOMAIN s : \E k \in 1 .. Len(s) : p[k] = i
       /\ \A k, l \in 1 .. Len(s) : k < l => Precedes(key, p[k], p[l]) /\ p[k] # p[l]
  BY <1>6, <1>10 DEF Lists
<1>14. DOMAIN sorted = 1 .. Len(s)
  BY <1>5, LenProperties
<1>15. J \in SUBSET DOMAIN sorted /\ \A k \in 1 .. Len(s) : k \in J <=> p[k] \in I
  BY <1>6, <1>13, <1>14 DEF Sound, I
<1> HIDE DEF J
<1> DEFINE m == Cardinality(J)
<1>16. /\ IsFiniteSet(J) /\ m \in Nat /\ other \in Seq(S) /\ Len(other) = m
       /\ \E c \in [1 .. m -> J] :
           /\ \A i \in J : \E k \in 1 .. m : c[k] = i
           /\ \A k, l \in 1 .. m : k < l => c[k] < c[l]
           /\ \A k \in 1 .. m : other[k] = sorted[c[k]]
  <2>1. sorted \in Seq(S) /\ J \in SUBSET DOMAIN sorted
    BY <1>5, <1>15
  <2> QED
    BY ONLY <2>1, PickedIs
<1> HIDE DEF m, other
<1>17. PICK c \in [1 .. m -> J] :
           /\ \A i \in J : \E k \in 1 .. m : c[k] = i
           /\ \A k, l \in 1 .. m : k < l => c[k] < c[l]
           /\ \A k \in 1 .. m : other[k] = sorted[c[k]]
  BY <1>16
<1>18. m = n
  <2> DEFINE h == [k \in J |-> p[k]]
  <2>1. h \in Bijection(J, I)
    <3>1. \A k \in J : h[k] \in I /\ h[k] = p[k] /\ k \in 1 .. Len(s)
      BY <1>14, <1>15
    <3>2. \A k, l \in J : h[k] = h[l] => k = l
      <4> SUFFICES ASSUME NEW k \in J, NEW l \in J, k # l PROVE h[k] # h[l]
        OBVIOUS
      <4>1. k < l \/ l < k
        BY <1>1, <3>1
      <4> QED
        BY <1>13, <3>1, <4>1
    <3>3. \A i \in I : \E k \in J : h[k] = i
      BY <1>1, <1>13, <1>15
    <3> QED
      BY <3>1, <3>2, <3>3 DEF Bijection, Injection, IsInjective, Surjection
  <2> HIDE DEF h
  <2>2. \E f : f \in Bijection(J, I)
    BY <2>1
  <2>3. ExistsBijection(J, I)
    BY <2>2 DEF ExistsBijection
  <2> QED
    BY <1>2, <1>16, <2>3, FS_Bijection DEF m, n
<1> DEFINE pc == [k \in 1 .. n |-> p[c[k]]]
<1>19. Lists(pc, I, keyI)
  <2>1. \A k \in 1 .. n : c[k] \in J /\ c[k] \in 1 .. Len(s) /\ pc[k] = p[c[k]] /\ pc[k] \in I
    BY <1>14, <1>15, <1>18
  <2>2. pc \in [1 .. n -> I]
    BY <2>1
  <2>3. \A i \in I : \E k \in 1 .. n : pc[k] = i
    <3> SUFFICES ASSUME NEW i \in I PROVE \E k \in 1 .. n : pc[k] = i
      OBVIOUS
    <3>1. PICK j \in 1 .. Len(s) : p[j] = i
      BY <1>1, <1>13
    <3>2. PICK k \in 1 .. n : c[k] = j
      BY <1>15, <1>17, <1>18, <3>1
    <3> QED
      BY <2>1, <3>1, <3>2
  <2>4. ASSUME NEW k \in 1 .. n, NEW l \in 1 .. n, k < l
        PROVE  Precedes(keyI, pc[k], pc[l]) /\ pc[k] # pc[l]
    <3>1. c[k] < c[l] /\ c[k] \in 1 .. Len(s) /\ c[l] \in 1 .. Len(s)
      BY <1>17, <1>18, <2>1, <2>4
    <3>2. Precedes(key, p[c[k]], p[c[l]]) /\ p[c[k]] # p[c[l]]
      BY <1>13, <3>1
    <3>3. p[c[k]] \in I /\ p[c[l]] \in I
      BY <2>1
    <3>4. key[p[c[k]]] = keyI[p[c[k]]] /\ key[p[c[l]]] = keyI[p[c[l]]]
      BY <1>1, <3>3
    <3> HIDE DEF key, keyI
    <3> QED
      BY <2>1, <3>2, <3>4 DEF Precedes
  <2> HIDE DEF keyI, pc
  <2> QED
    BY <2>2, <2>3, <2>4 DEF Lists, n
<1>20. ab = pc
  <2>1. keyI \in [I -> Int]
    BY <1>1
  <2> HIDE DEF keyI, ab, pc
  <2> QED
    BY <1>1, <1>2, <1>12, <1>19, <2>1, OneList DEF n
<1>21. one = other
  <2>1. Len(one) = n /\ Len(other) = n
    BY <1>2, <1>8, <1>16, <1>18
  <2>2. ASSUME NEW k \in 1 .. n PROVE one[k] = other[k]
    <3>1. one[k] = left[b[k]] /\ left[b[k]] = s[a[b[k]]]
      <4>1. b[k] \in 1 .. n
        BY <1>11
      <4>2. one[k] = left[b[k]]
        BY <1>2, <1>9
      <4> QED
        <5>1. left[b[k]] = s[a[b[k]]]
          BY ONLY <1>3, <4>1
        <5> QED
          BY ONLY <4>2, <5>1
    <3>2. other[k] = sorted[c[k]] /\ sorted[c[k]] = s[p[c[k]]]
      <4>1. k \in 1 .. m /\ c[k] \in J
        BY <1>18
      <4>2. c[k] \in 1 .. Len(s)
        BY <1>14, <1>15, <4>1
      <4> QED
        <5>1. other[k] = sorted[c[k]]
          BY ONLY <1>17, <4>1
        <5>2. sorted[c[k]] = s[p[c[k]]]
          BY ONLY <1>6, <4>2
        <5> QED
          BY ONLY <5>1, <5>2
    <3>3. a[b[k]] = p[c[k]]
      BY <1>20
    <3> QED
      BY <3>1, <3>2, <3>3
  <2> QED
    BY <1>8, <1>16, <2>1, <2>2, SeqEqual
<1> QED
  BY <1>2, <1>21 DEF I, n, left, one, other, J, sorted

(* The places of the parts that throw, when they meet s. *)
Fallen(stage, parts, s) == {i \in 1 .. Len(parts) : Throws(stage, parts[i], s)}

(* Sorting changes neither how many parts throw nor which. *)
LEMMA SortThrows ==
  ASSUME NEW stage \in Stages, NEW s, NEW parts \in Seq(PartsOf(stage)),
         \A i \in DOMAIN parts : parts[i].order \in Int,
         NEW sorted, sorted = Pipeline!SortAnalyzers(parts)
  PROVE  /\ Cardinality(Fallen(stage, sorted, s)) = Cardinality(Fallen(stage, parts, s))
         /\ Notes(stage, sorted, Fallen(stage, sorted, s)) = Notes(stage, parts, Fallen(stage, parts, s))
<1> DEFINE D == Fallen(stage, parts, s)
           E == Fallen(stage, sorted, s)
           S == PartsOf(stage)
           N == Len(parts)
           key == [i \in DOMAIN parts |-> parts[i].order]
<1>1. N \in Nat /\ DOMAIN parts = 1 .. N /\ parts \in Seq(S) /\ Cardinality(1 .. N) = N
  <2>1. N \in Nat /\ DOMAIN parts = 1 .. N
    BY LenProperties
  <2> HIDE DEF N
  <2> QED
    BY <2>1, UpTo
<1>d. /\ D = {i \in 1 .. N : Throws(stage, parts[i], s)}
      /\ E = {i \in 1 .. Len(sorted) : Throws(stage, sorted[i], s)}
  BY DEF Fallen
<1> HIDE DEF S, D, E
<1>2. /\ Pipeline!SortAnalyzers(parts) \in Seq(S) /\ Len(Pipeline!SortAnalyzers(parts)) = Len(parts)
      /\ \E p : /\ Lists(p, DOMAIN parts, [i \in DOMAIN parts |-> parts[i].order])
                /\ \A k \in 1 .. Len(parts) : Pipeline!SortAnalyzers(parts)[k] = parts[p[k]]
  BY <1>1, SortIs
<1>3. PICK p : Lists(p, DOMAIN parts, key) /\ \A k \in 1 .. N : sorted[k] = parts[p[k]]
  BY <1>2
<1> HIDE DEF key
<1>4. /\ p \in [1 .. N -> 1 .. N]
      /\ \A i \in 1 .. N : \E k \in 1 .. N : p[k] = i
      /\ \A k, l \in 1 .. N : k < l => p[k] # p[l]
  BY <1>1, <1>3 DEF Lists
<1>5. Len(sorted) = N
  BY <1>2
<1> HIDE DEF N
<1>6. \A k \in 1 .. N : k \in E <=> p[k] \in D
  BY <1>d, <1>3, <1>4, <1>5
<1>7. E \in SUBSET (1 .. N) /\ D \in SUBSET (1 .. N)
  BY <1>d, <1>5
<1>8. Cardinality(E) = Cardinality(D)
  <2> DEFINE h == [k \in E |-> p[k]]
  <2>1. \A k \in E : h[k] \in D /\ h[k] = p[k] /\ k \in 1 .. N
    BY <1>6, <1>7
  <2>2. \A k, l \in E : h[k] = h[l] => k = l
    <3> SUFFICES ASSUME NEW k \in E, NEW l \in E, k # l PROVE h[k] # h[l]
      OBVIOUS
    <3>1. k < l \/ l < k
      BY <1>1, <2>1
    <3> QED
      BY <1>4, <2>1, <3>1
  <2>3. \A i \in D : \E k \in E : h[k] = i
    BY <1>4, <1>6, <1>7
  <2>4. h \in Bijection(E, D)
    BY <2>1, <2>2, <2>3 DEF Bijection, Injection, IsInjective, Surjection
  <2> HIDE DEF h
  <2>5. ExistsBijection(E, D)
    BY <2>4 DEF ExistsBijection
  <2>6. IsFiniteSet(1 .. N)
    BY <1>1, UpTo
  <2>7. IsFiniteSet(E)
    BY <1>7, <2>6, FS_Subset
  <2> QED
    BY <2>5, <2>7, FS_Bijection
<1>9. Notes(stage, sorted, E) = Notes(stage, parts, D)
  <2>1. \A k \in E : p[k] \in D /\ sorted[k] = parts[p[k]]
    BY <1>3, <1>6, <1>7 DEF N
  <2>2. \A i \in D : \E k \in E : p[k] = i
    BY <1>4, <1>6, <1>7
  <2>3. \A i \in D : \E k \in E : sorted[k] = parts[i]
    BY <2>1, <2>2
  <2> QED
    BY <2>1, <2>3 DEF Notes
<1> QED
  BY <1>8, <1>9 DEF D, E

------------------------------------------------------------------------------
(* The parts of a pipeline, and how it begins. *)
LEMMA PartsAre ==
  ASSUME NEW in \in Faults
  PROVE  /\ in.kinds \in Seq(PartsOf("contributor")) /\ in.kinds \in Seq(PartsOf("finalize"))
         /\ in.sections \in Seq(PartsOf("section-analyzer"))
         /\ in.analyzers \in Seq(PartsOf("finding-analyzer"))
         /\ in.kinds \in Seq(Kind) /\ in.sections \in Seq(Section) /\ in.analyzers \in Seq(Analyzer)
         /\ \A i \in DOMAIN in.sections : in.sections[i].order \in Int
         /\ \A i \in DOMAIN in.analyzers : in.analyzers[i].order \in Int
<1>1. in.kinds \in Seq(Kind) /\ in.sections \in Seq(Section) /\ in.analyzers \in Seq(Analyzer)
  BY FaultsAssumption DEF FaultsAssumption
<1>2. PartsOf("contributor") = Kind /\ PartsOf("finalize") = Kind
  BY DEF PartsOf
<1>3. PartsOf("section-analyzer") = Section /\ PartsOf("finding-analyzer") = Analyzer
  BY DEF PartsOf
<1>4. \A i \in DOMAIN in.sections : in.sections[i] \in Section
  BY <1>1, ElementOfSeq, LenProperties
<1>5. \A i \in DOMAIN in.analyzers : in.analyzers[i] \in Analyzer
  BY <1>1, ElementOfSeq, LenProperties
<1> QED
  BY <1>1, <1>2, <1>3, <1>4, <1>5 DEF Section, Analyzer

(* An analysis begins with nothing. *)
LEMMA BegunFormed ==
  /\ Formed(Pipeline!Begun) /\ Agree(Pipeline!Begun, Pipeline!Begun)
  /\ Pipeline!Begun.sections = {} /\ Pipeline!Begun.views = {} /\ Pipeline!Begun.finalized = {}
  /\ Len(Pipeline!Begun.diagnostics) = 0 /\ ToSet(Pipeline!Begun.diagnostics) = {}
<1> DEFINE s == Pipeline!Begun
<1>1. s = [sections |-> {}, views |-> {}, extensions |-> {}, findings |-> <<>>, diagnostics |-> <<>>, finalized |-> {}]
  BY DEF Pipeline!Begun
<1> HIDE DEF s
<1>2. s.sections = {} /\ s.views = {} /\ s.extensions = {} /\ s.findings = <<>> /\ s.diagnostics = <<>> /\ s.finalized = {}
  BY <1>1
<1>3. <<>> \in Seq(Noted) /\ Len(<<>>) = 0 /\ ToSet(<<>>) = {}
  BY EmptySeq DEF ToSet
<1>4. Formed(s)
  BY <1>1, <1>2, <1>3 DEF Formed
<1> QED
  BY <1>2, <1>3, <1>4 DEF Agree, s

(* Sorting the findings leaves the rest of a state alone. *)
FindingsSorted(s) == [s EXCEPT !.findings = Pipeline!SortFindings(@)]

(* Such a state is told from the one before only by its findings. *)
LEMMA SortedFindings ==
  ASSUME NEW s, Formed(s)
  PROVE  LET t == FindingsSorted(s)
         IN /\ Formed(t) /\ t.findings = Pipeline!SortFindings(s.findings)
            /\ t.sections = s.sections /\ t.views = s.views /\ t.extensions = s.extensions
            /\ t.diagnostics = s.diagnostics /\ t.finalized = s.finalized
BY DEF Formed, FindingsSorted

(* Up to the finalize hooks, the run of the parts that are left.             *)
LEMMA FoundAgrees ==
  ASSUME NEW in \in Faults, NEW cpu
  PROVE  Agree(Pipeline!Found(in.kinds, in.sections, in.analyzers, cpu),
               Pipeline!Found(Picked(in.kinds, Contributed(in.kinds)), Picked(in.sections, Sound(in.sections)),
                              Picked(in.analyzers, Sound(in.analyzers)), cpu))
<1> DEFINE K == in.kinds
           I == Contributed(K)
           S == in.sections
           A == in.analyzers
           SS == Pipeline!SortAnalyzers(S)
           AA == Pipeline!SortAnalyzers(A)
           read == Pipeline!Phase("contributor", Pipeline!Begun, cpu, K)
           readI == Pipeline!Phase("contributor", Pipeline!Begun, cpu, Picked(K, I))
           wide == Pipeline!Phase("section-analyzer", read, cpu, SS)
           wideI == Pipeline!Phase("section-analyzer", readI, cpu, Picked(SS, Sound(SS)))
           found == Pipeline!Phase("finding-analyzer", wide, cpu, AA)
           foundI == Pipeline!Phase("finding-analyzer", wideI, cpu, Picked(AA, Sound(AA)))
<1>1. /\ K \in Seq(PartsOf("contributor"))
      /\ S \in Seq(PartsOf("section-analyzer")) /\ A \in Seq(PartsOf("finding-analyzer"))
      /\ \A i \in DOMAIN S : S[i].order \in Int
      /\ \A i \in DOMAIN A : A[i].order \in Int
  BY PartsAre
<1>2. Pipeline!Found(K, S, A, cpu) = found
  BY DEF Pipeline!Found
<1>3. /\ Pipeline!SortAnalyzers(Picked(S, Sound(S))) = Picked(SS, Sound(SS))
      /\ Pipeline!SortAnalyzers(Picked(A, Sound(A))) = Picked(AA, Sound(AA))
  <2> HIDE DEF S, A
  <2> QED
    BY <1>1, SortSound
<1>4. Pipeline!Found(Picked(K, I), Picked(S, Sound(S)), Picked(A, Sound(A)), cpu) = foundI
  <2> HIDE DEF K, I, SS, AA
  <2> QED
    BY <1>3 DEF Pipeline!Found
<1>5. SS \in Seq(PartsOf("section-analyzer")) /\ AA \in Seq(PartsOf("finding-analyzer"))
  <2> HIDE DEF S, A
  <2> QED
    BY <1>1, SortIs
<1>6. Agree(read, readI)
  <2>1. I \in SUBSET DOMAIN K
    BY DEF Contributed, Captured
  <2>2. \A i \in (DOMAIN K) \ I : Spoilt("contributor", K[i])
    BY DEF Contributed, Captured, Spoilt
  <2> HIDE DEF K, I
  <2> QED
    BY <1>1, <2>1, <2>2, BegunFormed, SpoiltPartsAreNotMissed DEF Stages
<1> HIDE DEF read, readI
<1>7. Agree(wide, wideI)
  <2>1. Sound(SS) \in SUBSET DOMAIN SS
    BY DEF Sound
  <2>2. \A i \in (DOMAIN SS) \ Sound(SS) : Spoilt("section-analyzer", SS[i])
    BY DEF Sound, Spoilt
  <2> HIDE DEF SS
  <2> QED
    BY <1>5, <1>6, <2>1, <2>2, SpoiltPartsAreNotMissed DEF Stages
<1> HIDE DEF wide, wideI
<1>8. Agree(found, foundI)
  <2>1. Sound(AA) \in SUBSET DOMAIN AA
    BY DEF Sound
  <2>2. \A i \in (DOMAIN AA) \ Sound(AA) : Spoilt("finding-analyzer", AA[i])
    BY DEF Sound, Spoilt
  <2> HIDE DEF AA
  <2> QED
    BY <1>5, <1>7, <2>1, <2>2, SpoiltPartsAreNotMissed DEF Stages
<1> QED
  BY <1>2, <1>4, <1>8

(* What is left of a pipeline contributes to the meta as the whole does.     *)
LEMMA MetaIsSpared ==
  ASSUME NEW in \in Faults, ~Pipeline!MetaThrows(in.kinds)
  PROVE  ~Pipeline!MetaThrows(Picked(in.kinds, Contributed(in.kinds)))
<1> DEFINE K == in.kinds
           I == Contributed(K)
           left == Picked(K, I)
<1>1. K \in Seq(Kind) /\ I \in SUBSET DOMAIN K
  BY PartsAre DEF Contributed, Captured
<1> HIDE DEF K, I
<1>2. Len(left) = Cardinality(I) /\ Cardinality(I) \in Nat /\ left \in Seq(Kind)
  BY <1>1, PickedIs
<1>3. PICK p \in [1 .. Cardinality(I) -> I] : \A k \in 1 .. Cardinality(I) : left[k] = K[p[k]]
  BY <1>1, PickedIs
<1>4. \A k \in DOMAIN left : \E i \in DOMAIN K : left[k] = K[i]
  BY <1>1, <1>2, <1>3, LenProperties
<1> QED
  BY <1>4 DEF Pipeline!MetaThrows, K, I

(* The findings, views and extensions are those of the run of what is left.  *)
LEMMA ResultsAreSpared ==
  ASSUME NEW in \in Faults, ~Pipeline!MetaThrows(in.kinds)
  PROVE  LET result == Run(in)
             spared == Run(Spared(in))
         IN /\ result.findings = spared.findings
            /\ result.views = spared.views /\ result.extensions = spared.extensions
<1> DEFINE K == in.kinds
           I == Contributed(K)
           left == Picked(K, I)
           found == Pipeline!Found(K, in.sections, in.analyzers, CpuView)
           foundI == Pipeline!Found(left, Picked(in.sections, Sound(in.sections)),
                                    Picked(in.analyzers, Sound(in.analyzers)), CpuView)
           sorted == FindingsSorted(found)
           sortedI == FindingsSorted(foundI)
<1>1. Run(in) = Pipeline!Phase("finalize", sorted, CpuView, K)
  BY DEF Run, Pipeline!RunAnalysis, FindingsSorted
<1>2. ~Pipeline!MetaThrows(left)
  BY MetaIsSpared
<1>3. Run(Spared(in)) = Pipeline!Phase("finalize", sortedI, CpuView, left)
  BY <1>2 DEF Spared, Run, Pipeline!RunAnalysis, FindingsSorted
<1>4. Agree(found, foundI)
  BY FoundAgrees
<1>5. K \in Seq(PartsOf("finalize")) /\ I \in SUBSET DOMAIN K
  BY PartsAre DEF Contributed, Captured
<1>6. \A i \in (DOMAIN K) \ I : Spoilt("finalize", K[i])
  BY DEF Spoilt
<1> HIDE DEF found, foundI, K, I
<1>7. Agree(sorted, sortedI)
  BY <1>4, SortedFindings DEF Agree
<1> HIDE DEF sorted, sortedI
<1>8. Agree(Pipeline!Phase("finalize", sorted, CpuView, K), Pipeline!Phase("finalize", sortedI, CpuView, left))
  BY <1>5, <1>6, <1>7, SpoiltPartsAreNotMissed DEF Stages
<1> QED
  BY <1>1, <1>3, <1>8 DEF Agree, K

(* What a phase that begins in s leaves in t: the sections and views as they *)
(* were, and a diagnostic more for each place of D.                          *)
Adds(stage, parts, D, s, t) ==
  /\ Formed(t) /\ t.sections = s.sections /\ t.views = s.views
  /\ Len(t.diagnostics) = Len(s.diagnostics) + Cardinality(D)
  /\ ToSet(t.diagnostics) = ToSet(s.diagnostics) \cup Notes(stage, parts, D)

(* A phase of analyzers in their order only adds diagnostics to these.       *)
LEMMA AnalyzersAdd ==
  ASSUME NEW stage \in {"section-analyzer", "finding-analyzer"}, NEW s, Formed(s), NEW cpu,
         NEW parts \in Seq(PartsOf(stage)), \A i \in DOMAIN parts : parts[i].order \in Int
  PROVE  LET t == Pipeline!Phase(stage, s, cpu, Pipeline!SortAnalyzers(parts))
         IN Adds(stage, parts, Fallen(stage, parts, s), s, t) /\ t.finalized = s.finalized
<1> DEFINE sorted == Pipeline!SortAnalyzers(parts)
           t == Pipeline!Phase(stage, s, cpu, sorted)
           D == Fallen(stage, parts, s)
           E == Fallen(stage, sorted, s)
           S == PartsOf(stage)
<1>1. stage \in Stages /\ parts \in Seq(S)
  BY DEF Stages
<1>2. sorted \in Seq(S)
  <2> HIDE DEF S
  <2> QED
    BY <1>1, SortIs
<1>3. Cardinality(E) = Cardinality(D) /\ Notes(stage, sorted, E) = Notes(stage, parts, D)
  <2>1. sorted = Pipeline!SortAnalyzers(parts)
    OBVIOUS
  <2> HIDE DEF sorted
  <2> QED
    BY <1>1, <2>1, SortThrows
<1>4. PhaseKept(stage, sorted, s, Len(sorted), t)
  <2> HIDE DEF sorted
  <2> QED
    BY <1>1, <1>2, PhaseDoes
<1> HIDE DEF sorted, t
<1> DEFINE d == Done(stage, sorted, s, Len(sorted))
<1>5. d.threw = E /\ d.wrote = {} /\ d.showed = {} /\ d.closed = {}
  BY DEF Done, Writes, Shows, Closes, Fallen
<1>6. Ids(sorted, {}) = {}
  BY DEF Ids
<1> HIDE DEF d, D, E
<1>7. /\ Formed(t)
      /\ Len(t.diagnostics) = Len(s.diagnostics) + Cardinality(d.threw)
      /\ ToSet(t.diagnostics) = ToSet(s.diagnostics) \cup Notes(stage, sorted, d.threw)
      /\ t.sections = s.sections \cup Ids(sorted, d.wrote)
      /\ t.views = s.views \cup Ids(sorted, d.showed)
      /\ t.finalized = s.finalized \cup Ids(sorted, d.closed)
  BY <1>4 DEF PhaseKept, d
<1>8. Adds(stage, parts, D, s, t) /\ t.finalized = s.finalized
  BY <1>3, <1>5, <1>6, <1>7 DEF Adds
<1> QED
  BY <1>8 DEF t, sorted, D

(* The kinds have distinct ids. *)
LEMMA IdsTellKindsApart ==
  ASSUME NEW in \in Faults, NEW I \in SUBSET DOMAIN in.kinds, NEW i \in DOMAIN in.kinds
  PROVE  in.kinds[i].id \in Ids(in.kinds, I) <=> i \in I
BY FaultsAssumption DEF FaultsAssumption, Pipeline!RegistrationClash, Ids

(* What the run leaves apart from its findings.                              *)
LEMMA FailuresAreTold ==
  ASSUME NEW in \in Faults, ~Pipeline!MetaThrows(in.kinds)
  PROVE  LET result == Run(in)
         IN /\ result.sections = {in.kinds[i].id : i \in {k \in Captured(in.kinds) : in.kinds[k].fate # "early"}}
            /\ result.finalized = {in.kinds[i].id : i \in {k \in Captured(in.kinds) :
                                     in.kinds[k].fate # "early" /\ in.kinds[k].finalize = "runs"}}
            /\ Len(result.diagnostics) =
                 Cardinality(Failed("contributor", in)) + Cardinality(Failed("section-analyzer", in))
                   + Cardinality(Failed("finding-analyzer", in)) + Cardinality(Failed("finalize", in))
            /\ ToSet(result.diagnostics) =
                 Reported("contributor", in) \cup Reported("section-analyzer", in)
                   \cup Reported("finding-analyzer", in) \cup Reported("finalize", in)
<1> DEFINE K == in.kinds
           N == Len(K)
           S == in.sections
           A == in.analyzers
           begun == Pipeline!Begun
           read == Pipeline!Phase("contributor", begun, CpuView, K)
           wide == Pipeline!Phase("section-analyzer", read, CpuView, Pipeline!SortAnalyzers(S))
           found == Pipeline!Phase("finding-analyzer", wide, CpuView, Pipeline!SortAnalyzers(A))
           sorted == FindingsSorted(found)
           result == Pipeline!Phase("finalize", sorted, CpuView, K)
           W == {i \in Captured(K) : K[i].fate # "early"}
           I == Contributed(K)
<1>1. Run(in) = result
  BY DEF Run, Pipeline!RunAnalysis, Pipeline!Found, FindingsSorted
<1>2. /\ K \in Seq(PartsOf("contributor")) /\ K \in Seq(PartsOf("finalize")) /\ K \in Seq(Kind)
      /\ S \in Seq(PartsOf("section-analyzer")) /\ A \in Seq(PartsOf("finding-analyzer"))
      /\ \A i \in DOMAIN S : S[i].order \in Int
      /\ \A i \in DOMAIN A : A[i].order \in Int
  BY PartsAre
<1>3. /\ DOMAIN K = 1 .. N /\ DOMAIN S = 1 .. Len(S) /\ DOMAIN A = 1 .. Len(A)
      /\ \A i \in 1 .. N : K[i] \in Kind
  BY <1>2, LenProperties, ElementOfSeq
<1>4. /\ Formed(read) /\ read.sections = Ids(K, W) /\ read.views = Ids(K, I) /\ read.finalized = {}
      /\ Len(read.diagnostics) = Cardinality(Failed("contributor", in))
      /\ ToSet(read.diagnostics) = Notes("contributor", K, Failed("contributor", in))
  <2>1. PhaseKept("contributor", K, begun, N, read)
    <3> HIDE DEF K, begun
    <3> QED
      BY <1>2, BegunFormed, PhaseDoes DEF Stages, begun
  <2> DEFINE d == Done("contributor", K, begun, N)
  <2>2. d.threw = Failed("contributor", in)
    BY <1>3 DEF Done, Throws, Failed, Captured, Contributed
  <2>3. d.wrote = W /\ d.showed = I /\ d.closed = {}
    BY <1>3 DEF Done, Writes, Shows, Closes, Captured, Contributed
  <2> HIDE DEF d, W, I, read, begun, K
  <2>4. /\ Formed(read)
        /\ Len(read.diagnostics) = Len(begun.diagnostics) + Cardinality(d.threw)
        /\ ToSet(read.diagnostics) = ToSet(begun.diagnostics) \cup Notes("contributor", K, d.threw)
        /\ read.sections = begun.sections \cup Ids(K, d.wrote)
        /\ read.views = begun.views \cup Ids(K, d.showed)
        /\ read.finalized = begun.finalized \cup Ids(K, d.closed)
    BY <2>1 DEF PhaseKept, d
  <2>5. /\ begun.sections = {} /\ begun.views = {} /\ begun.finalized = {}
        /\ Len(begun.diagnostics) = 0 /\ ToSet(begun.diagnostics) = {}
    BY BegunFormed DEF begun
  <2>6. Ids(K, {}) = {}
    BY DEF Ids
  <2>7. Cardinality(d.threw) \in Nat
    <3>1. Failed("contributor", in) \in SUBSET (1 .. N)
      BY <1>3 DEF Failed, Captured, K
    <3>2. N \in Nat
      BY <1>2, LenProperties
    <3> HIDE DEF N
    <3>3. IsFiniteSet(1 .. N)
      BY <3>2, UpTo
    <3> QED
      BY <2>2, <3>1, <3>3, FS_Subset, FS_CardinalityType
  <2> QED
    BY <2>2, <2>3, <2>4, <2>5, <2>6, <2>7
<1> HIDE DEF read, begun
<1>5. Adds("section-analyzer", S, Failed("section-analyzer", in), read, wide) /\ wide.finalized = {}
  <2>1. Failed("section-analyzer", in) = Fallen("section-analyzer", S, read)
    BY <1>3 DEF Fallen, Failed, Throws, Sound
  <2> HIDE DEF S
  <2> QED
    BY <1>2, <1>4, <2>1, AnalyzersAdd
<1> HIDE DEF wide
<1>6. Adds("finding-analyzer", A, Failed("finding-analyzer", in), wide, found) /\ found.finalized = {}
  <2>1. wide.sections \cap wide.views = Ids(K, I)
    <3>1. I \subseteq W
      BY DEF Contributed
    <3> HIDE DEF I, W
    <3>2. Ids(K, I) \subseteq Ids(K, W)
      BY <3>1 DEF Ids
    <3> QED
      BY <1>4, <1>5, <3>2 DEF Adds
  <2>2. Ids(K, I) = {K[k].id : k \in Contributed(K)}
    BY DEF Ids
  <2>3. Failed("finding-analyzer", in) = Fallen("finding-analyzer", A, wide)
    BY <1>3, <2>1, <2>2 DEF Fallen, Failed, Throws, Sound, Meets
  <2>4. Formed(wide)
    BY <1>5 DEF Adds
  <2> HIDE DEF A
  <2>5. /\ Adds("finding-analyzer", A, Failed("finding-analyzer", in), wide, found)
        /\ found.finalized = wide.finalized
    BY <1>2, <2>3, <2>4, AnalyzersAdd
  <2> QED
    BY <1>5, <2>5
<1> HIDE DEF found
<1>7. /\ Formed(sorted) /\ sorted.sections = Ids(K, W) /\ sorted.diagnostics = found.diagnostics
      /\ sorted.finalized = {}
  BY <1>4, <1>5, <1>6, SortedFindings DEF Adds
<1> HIDE DEF sorted
<1> DEFINE C == {i \in Captured(K) : K[i].fate # "early" /\ K[i].finalize = "runs"}
<1>8. /\ result.sections = Ids(K, W) /\ result.finalized = Ids(K, C)
      /\ Len(result.diagnostics) = Len(sorted.diagnostics) + Cardinality(Failed("finalize", in))
      /\ ToSet(result.diagnostics) = ToSet(sorted.diagnostics) \cup Notes("finalize", K, Failed("finalize", in))
  <2>1. PhaseKept("finalize", K, sorted, N, result)
    <3> HIDE DEF K
    <3> QED
      BY <1>2, <1>7, PhaseDoes DEF Stages
  <2> DEFINE d == Done("finalize", K, sorted, N)
  <2>2. d.threw = Failed("finalize", in)
    BY <1>3 DEF Done, Throws, Failed, Captured
  <2>3. d.wrote = {} /\ d.showed = {}
    BY DEF Done, Writes, Shows
  <2>4. d.closed = C
    <3>1. \A i \in 1 .. N : K[i].id \in Ids(K, W) <=> i \in W
      <4>1. W \in SUBSET DOMAIN K
        BY DEF Captured
      <4> HIDE DEF W
      <4> QED
        BY <1>3, <4>1, IdsTellKindsApart
    <3>2. \A i \in 1 .. N : i \in W <=> K[i].captured /\ K[i].fate # "early"
      BY <1>3 DEF Captured
    <3>3. \A i : i \in C <=> i \in 1 .. N /\ K[i].captured /\ K[i].fate # "early" /\ K[i].finalize = "runs"
      BY <1>3 DEF Captured
    <3>4. d.closed = {i \in 1 .. N : K[i].captured /\ K[i].finalize = "runs" /\ K[i].id \in Ids(K, W)}
      BY <1>7 DEF Done, Closes
    <3> HIDE DEF C, W, d
    <3> QED
      BY <3>1, <3>2, <3>3, <3>4
  <2> HIDE DEF d, W, C, K, result
  <2>5. /\ Len(result.diagnostics) = Len(sorted.diagnostics) + Cardinality(d.threw)
        /\ ToSet(result.diagnostics) = ToSet(sorted.diagnostics) \cup Notes("finalize", K, d.threw)
        /\ result.sections = sorted.sections \cup Ids(K, d.wrote)
        /\ result.finalized = sorted.finalized \cup Ids(K, d.closed)
    BY <2>1 DEF PhaseKept, d
  <2>6. Ids(K, {}) = {}
    BY DEF Ids
  <2> QED
    BY <1>7, <2>2, <2>3, <2>4, <2>5, <2>6
<1> HIDE DEF result
<1>9. /\ Notes("contributor", K, Failed("contributor", in)) = Reported("contributor", in)
      /\ Notes("section-analyzer", S, Failed("section-analyzer", in)) = Reported("section-analyzer", in)
      /\ Notes("finding-analyzer", A, Failed("finding-analyzer", in)) = Reported("finding-analyzer", in)
      /\ Notes("finalize", K, Failed("finalize", in)) = Reported("finalize", in)
  BY DEF Notes, Reported, Parts
<1>10. Len(result.diagnostics) =
         Cardinality(Failed("contributor", in)) + Cardinality(Failed("section-analyzer", in))
           + Cardinality(Failed("finding-analyzer", in)) + Cardinality(Failed("finalize", in))
  BY <1>4, <1>5, <1>6, <1>7, <1>8 DEF Adds
<1>11. ToSet(result.diagnostics) =
         Reported("contributor", in) \cup Reported("section-analyzer", in)
           \cup Reported("finding-analyzer", in) \cup Reported("finalize", in)
  BY <1>4, <1>5, <1>6, <1>7, <1>8, <1>9 DEF Adds
<1> QED
  BY <1>1, <1>8, <1>10, <1>11 DEF Ids

(* A contribution to the meta that throws leaves one diagnostic and nothing else. *)
LEMMA NothingIsKept ==
  ASSUME NEW in, Pipeline!MetaThrows(in.kinds)
  PROVE  NothingKept(Run(in))
<1> DEFINE result == Run(in)
           d == Pipeline!Diagnostic("thrown", "")
<1>1. result = [Pipeline!Begun EXCEPT !.diagnostics = <<d>>]
  BY DEF Run, Pipeline!RunAnalysis
<1> HIDE DEF d, result
<1>2. result.findings = <<>> /\ result.sections = {} /\ result.diagnostics = <<d>>
  BY <1>1 DEF Pipeline!Begun
<1>3. Len(<<d>>) = 1
  OBVIOUS
<1> QED
  BY <1>2, <1>3 DEF NothingKept, result

(* One pipeline, whether a contribution to its meta throws or not. *)
LEMMA FaultsHoldForAll ==
  ASSUME NEW in \in Faults
  PROVE  FaultsHold(in)
<1> DEFINE ran == [pipeline \in {in, Spared(in)} |-> Run(pipeline)]
<1>1. ran[in] = Run(in) /\ ran[Spared(in)] = Run(Spared(in))
  OBVIOUS
<1>2. CASE Pipeline!MetaThrows(in.kinds)
  BY <1>1, <1>2, NothingIsKept DEF FaultsHold
<1>3. CASE ~Pipeline!MetaThrows(in.kinds)
  <2>1. FaultsKept(in, Run(in), Run(Spared(in)))
    BY <1>3, ResultsAreSpared, FailuresAreTold DEF FaultsKept
  <2>2. FaultsKept(in, ran[in], ran[Spared(in)])
    BY <1>1, <2>1
  <2> HIDE DEF ran
  <2>3. ran \in {[pipeline \in {in, Spared(in)} |-> Run(pipeline)]}
    BY DEF ran
  <2> QED
    BY <1>3, <2>2, <2>3 DEF FaultsHold
<1> QED
  BY <1>2, <1>3

(* For any pipeline, whichever of its kinds, extensions and detectors throw,  *)
(* and whatever their order: the findings, views and extensions are those of *)
(* the run without them, in the same order, a failed contributor leaves only  *)
(* the section it had written, each failure leaves one diagnostic, and a      *)
(* contribution to the meta that throws leaves one diagnostic and nothing     *)
(* else (AnalysisPipeline.run in pipeline.ts).                                *)
THEOREM FailuresStayLocalForAll == FaultSpec => []FailuresStayLocal
<1> DEFINE IInv == topic = "faults" => input \in Faults
<1>1. FaultInit => IInv
  BY DEF FaultInit, Take
<1>2. IInv /\ [CarryOut]_vars => IInv'
  BY DEF CarryOut, vars
<1>3. IInv => FailuresStayLocal
  BY FaultsHoldForAll DEF FailuresStayLocal, After
<1> HIDE DEF IInv
<1> QED
  BY <1>1, <1>2, <1>3, PTL DEF FaultSpec

------------------------------------------------------------------------------
(* The life of an operation. A window of one, and windows by their starts.   *)
Interval == [start : Nat, end : Nat]
ByStart(ws) == \A i, j \in 1 .. Len(ws) : i <= j => ws[i].start <= ws[j].start

(* ms is what the first n windows of ws, which are by start, have been       *)
(* joined into: it begins and ends where some of them do.                    *)
Among(ms, ws, n) ==
  /\ \A i \in 1 .. Len(ms) : \E k \in 1 .. n : ms[i].start = ws[k].start
  /\ \A i \in 1 .. Len(ms) : \E k \in 1 .. n : ms[i].end = ws[k].end
SameTime(ms, ws, n) ==
  \A t \in Int : Covers(ms, t) <=> \E k \in 1 .. n : ws[k].start <= t /\ t < ws[k].end
Lasting(ws, n) == \A k \in 1 .. n : ws[k].start < ws[k].end

JoinInv(ms, ws, n) ==
  /\ ms \in Seq(Interval) /\ InOrder(ms) /\ Among(ms, ws, n) /\ SameTime(ms, ws, n)
  /\ Lasting(ws, n) => Lasting(ms, Len(ms))

(* The windows of a list and their bounds. *)
LEMMA IntervalsAre ==
  ASSUME NEW ws \in Seq(Interval)
  PROVE  /\ Len(ws) \in Nat /\ DOMAIN ws = 1 .. Len(ws)
         /\ \A i \in 1 .. Len(ws) : ws[i] \in Interval /\ ws[i].start \in Nat /\ ws[i].end \in Nat
<1>1. Len(ws) \in Nat /\ DOMAIN ws = 1 .. Len(ws) /\ \A i \in 1 .. Len(ws) : ws[i] \in Interval
  BY LenProperties, ElementOfSeq
<1> QED
  BY <1>1 DEF Interval

(* A window that begins after the last one has ended is put behind it. *)
LEMMA JoinApart ==
  ASSUME NEW ws \in Seq(Interval), ByStart(ws), NEW n \in Nat, n + 1 <= Len(ws), NEW ms, JoinInv(ms, ws, n),
         ms = <<>> \/ ws[n + 1].start > Last(ms).end
  PROVE  JoinInv(Joined(ms, ws[n + 1]), ws, n + 1)
<1> DEFINE w == ws[n + 1]
           L == Len(ms)
           r == Append(ms, w)
<1>1. /\ Len(ws) \in Nat /\ n + 1 \in 1 .. Len(ws) /\ n + 1 \in 1 .. n + 1
      /\ w \in Interval /\ w.start \in Nat /\ w.end \in Nat
      /\ \A k \in 1 .. n : k \in 1 .. Len(ws) /\ k \in 1 .. n + 1 /\ ws[k].start \in Nat /\ ws[k].start <= w.start
  <2>1. Len(ws) \in Nat /\ n + 1 \in 1 .. Len(ws) /\ \A k \in 1 .. n : k \in 1 .. Len(ws) /\ k <= n + 1 /\ k \in 1 .. n + 1
    BY IntervalsAre
  <2> QED
    BY <2>1, IntervalsAre DEF ByStart
<1>2. Joined(ms, w) = r
  BY DEF Joined
<1>3. /\ ms \in Seq(Interval) /\ L \in Nat /\ DOMAIN ms = 1 .. L
      /\ \A i \in 1 .. L : ms[i] \in Interval /\ ms[i].start \in Nat /\ ms[i].end \in Nat
  BY IntervalsAre DEF JoinInv
<1>4. /\ r \in Seq(Interval) /\ Len(r) = L + 1 /\ DOMAIN r = 1 .. L + 1
      /\ \A i \in 1 .. L : r[i] = ms[i]
      /\ r[L + 1] = w
  <2>1. /\ r \in Seq(Interval) /\ Len(r) = L + 1
        /\ \A i \in 1 .. L : r[i] = ms[i]
        /\ r[L + 1] = w
    BY <1>1, <1>3, AppendProperties
  <2> QED
    BY <2>1, LenProperties
<1> HIDE DEF w, r
<1>5. \A i \in 1 .. L : ms[i].start <= w.start
  BY <1>1, <1>3 DEF JoinInv, Among
<1>6. InOrder(r)
  <2> SUFFICES ASSUME NEW i \in 1 .. L + 1, NEW j \in 1 .. L + 1, i < j
               PROVE  r[i].end < r[j].start
    BY <1>4 DEF InOrder
  <2>1. CASE j # L + 1
    <3>1. i \in 1 .. L /\ j \in 1 .. L
      <4>1. L \in Nat
        BY <1>3
      <4> HIDE DEF L
      <4> QED
        BY <2>1, <4>1
    <3> QED
      BY <1>3, <1>4, <3>1 DEF JoinInv, InOrder
  <2>2. CASE j = L + 1 /\ i = L
    <3>1. ms # <<>> /\ Last(ms) = ms[L] /\ L \in 1 .. L
      BY <1>3, <2>2, EmptySeq DEF Last
    <3> QED
      BY <1>4, <2>2, <3>1 DEF w
  <2>3. CASE j = L + 1 /\ i # L
    <3>1. i \in 1 .. L /\ L \in 1 .. L /\ i < L
      <4>1. L \in Nat
        BY <1>3
      <4> HIDE DEF L
      <4> QED
        BY <2>3, <4>1
    <3>2. ms[i].end < ms[L].start /\ ms[L].start <= w.start
      BY <1>3, <1>5, <3>1 DEF JoinInv, InOrder
    <3>3. ms[i].end \in Nat /\ ms[L].start \in Nat
      BY <1>3, <3>1
    <3> QED
      BY <1>1, <1>4, <2>3, <3>1, <3>2, <3>3
  <2> QED
    BY <2>1, <2>2, <2>3
<1>7. Among(r, ws, n + 1)
  <2>1. \A i \in 1 .. L + 1 : i \in 1 .. L \/ i = L + 1
    BY <1>3
  <2> QED
    BY <1>1, <1>4, <2>1 DEF JoinInv, Among, w
<1>8. SameTime(r, ws, n + 1)
  <2> SUFFICES ASSUME NEW t \in Int
               PROVE  Covers(r, t) <=> \E k \in 1 .. n + 1 : ws[k].start <= t /\ t < ws[k].end
    BY DEF SameTime
  <2>1. Covers(r, t) <=> Covers(ms, t) \/ (w.start <= t /\ t < w.end)
    <3>1. \A i : i \in 1 .. L + 1 <=> i \in 1 .. L \/ i = L + 1
      BY <1>3
    <3> QED
      BY <1>3, <1>4, <3>1 DEF Covers
  <2>2. Covers(ms, t) <=> \E k \in 1 .. n : ws[k].start <= t /\ t < ws[k].end
    BY DEF JoinInv, SameTime
  <2>3. \A k : k \in 1 .. n + 1 <=> k \in 1 .. n \/ k = n + 1
    OBVIOUS
  <2> QED
    BY <2>1, <2>2, <2>3 DEF w
<1>9. Lasting(ws, n + 1) => Lasting(r, Len(r))
  <2> SUFFICES ASSUME Lasting(ws, n + 1), NEW i \in 1 .. L + 1
               PROVE  r[i].start < r[i].end
    BY <1>4 DEF Lasting
  <2>1. Lasting(ws, n) /\ w.start < w.end
    BY <1>1 DEF Lasting, w
  <2>2. i \in 1 .. L \/ i = L + 1
    BY <1>3
  <2> QED
    BY <1>4, <2>1, <2>2 DEF JoinInv, Lasting
<1> QED
  BY <1>2, <1>4, <1>6, <1>7, <1>8, <1>9 DEF JoinInv, w

(* A window that begins no later than the last one ends becomes a part of it. *)
LEMMA JoinInto ==
  ASSUME NEW ws \in Seq(Interval), ByStart(ws), NEW n \in Nat, n + 1 <= Len(ws), NEW ms, JoinInv(ms, ws, n),
         ms # <<>>, ~(ws[n + 1].start > Last(ms).end)
  PROVE  JoinInv(Joined(ms, ws[n + 1]), ws, n + 1)
<1> DEFINE w == ws[n + 1]
           L == Len(ms)
           v == ms[L]
           top == IF v.end >= w.end THEN v.end ELSE w.end
           joined == [start |-> v.start, end |-> Max({v.end, w.end})]
           r == Append(Front(ms), joined)
<1>1. /\ Len(ws) \in Nat /\ n + 1 \in 1 .. Len(ws) /\ n + 1 \in 1 .. n + 1
      /\ w \in Interval /\ w.start \in Nat /\ w.end \in Nat
      /\ \A k \in 1 .. n : k \in 1 .. Len(ws) /\ k \in 1 .. n + 1 /\ ws[k].start \in Nat /\ ws[k].start <= w.start
  <2>1. Len(ws) \in Nat /\ n + 1 \in 1 .. Len(ws) /\ \A k \in 1 .. n : k \in 1 .. Len(ws) /\ k <= n + 1 /\ k \in 1 .. n + 1
    BY IntervalsAre
  <2> QED
    BY <2>1, IntervalsAre DEF ByStart
<1>2. Joined(ms, w) = r
  BY DEF Joined, Last
<1>3. /\ ms \in Seq(Interval) /\ L \in Nat \ {0} /\ L \in 1 .. L /\ DOMAIN ms = 1 .. L
      /\ \A i \in 1 .. L : ms[i] \in Interval /\ ms[i].start \in Nat /\ ms[i].end \in Nat
  <2>1. ms \in Seq(Interval)
    BY DEF JoinInv
  <2>2. L \in Nat \ {0}
    BY <2>1, EmptySeq, IntervalsAre
  <2> QED
    BY <2>1, <2>2, IntervalsAre
<1>4. /\ v.start \in Nat /\ v.end \in Nat
      /\ v.start <= w.start /\ w.start <= v.end
  <2>1. v.start \in Nat /\ v.end \in Nat
    BY <1>3
  <2>2. PICK k \in 1 .. n : v.start = ws[k].start
    BY <1>3 DEF JoinInv, Among
  <2>3. w.start <= v.end
    BY <1>1, <2>1 DEF Last
  <2> QED
    BY <1>1, <2>1, <2>2, <2>3
<1>5. joined = [start |-> v.start, end |-> top] /\ joined \in Interval /\ top \in Nat
  <2>1. Max({v.end, w.end}) = top
    <3>1. v.end \in Int /\ w.end \in Int
      BY <1>1, <1>4
    <3> HIDE DEF v, w
    <3> QED
      BY <3>1, MaxOfTwo
  <2>2. top \in Nat
    BY <1>1, <1>4
  <2> QED
    BY <1>4, <2>1, <2>2 DEF Interval
<1>6. joined.start = v.start /\ joined.end = top
  BY <1>5
<1> HIDE DEF joined
<1>7. /\ r \in Seq(Interval) /\ Len(r) = L /\ DOMAIN r = 1 .. L
      /\ \A i \in 1 .. L - 1 : r[i] = ms[i]
      /\ r[L] = joined
  <2>1. /\ Front(ms) \in Seq(Interval) /\ Len(Front(ms)) = L - 1
        /\ \A i \in 1 .. L - 1 : Front(ms)[i] = ms[i]
    <3>1. Front(ms) = SubSeq(ms, 1, L - 1)
      BY DEF Front
    <3>2. 1 \in 1 .. L + 1 /\ L - 1 \in 0 .. L /\ L - 1 \in Int
      BY <1>3
    <3> QED
      BY <1>3, <3>1, <3>2, SubSeqProperties
  <2>2. (L - 1) + 1 = L
    BY <1>3
  <2>3. /\ r \in Seq(Interval) /\ Len(r) = (L - 1) + 1
        /\ \A i \in 1 .. L - 1 : r[i] = ms[i]
        /\ r[(L - 1) + 1] = joined
    BY <1>5, <2>1, AppendProperties
  <2> QED
    BY <2>2, <2>3, LenProperties
<1> HIDE DEF r
<1>8. \A i : i \in 1 .. L <=> i \in 1 .. L - 1 \/ i = L
  BY <1>3
<1>9. InOrder(r)
  <2> SUFFICES ASSUME NEW i \in 1 .. L, NEW j \in 1 .. L, i < j
               PROVE  r[i].end < r[j].start
    BY <1>7 DEF InOrder
  <2>1. i \in 1 .. L - 1
    <3>1. L \in Nat
      BY <1>3
    <3> HIDE DEF L
    <3> QED
      BY <3>1
  <2>2. r[i] = ms[i] /\ r[j].start = ms[j].start
    BY <1>6, <1>7, <1>8, <2>1
  <2>3. ms[i].end < ms[j].start
    BY <1>3 DEF JoinInv, InOrder
  <2> QED
    BY <2>2, <2>3
<1>10. Among(r, ws, n + 1)
  <2>1. \A i \in 1 .. L : \E k \in 1 .. n + 1 : r[i].start = ws[k].start
    <3> SUFFICES ASSUME NEW i \in 1 .. L PROVE \E k \in 1 .. n + 1 : r[i].start = ws[k].start
      OBVIOUS
    <3>1. r[i].start = ms[i].start
      BY <1>6, <1>7, <1>8
    <3> QED
      BY <1>1, <3>1 DEF JoinInv, Among
  <2>2. \A i \in 1 .. L : \E k \in 1 .. n + 1 : r[i].end = ws[k].end
    <3> SUFFICES ASSUME NEW i \in 1 .. L PROVE \E k \in 1 .. n + 1 : r[i].end = ws[k].end
      OBVIOUS
    <3>1. r[i].end = ms[i].end \/ r[i].end = w.end
      BY <1>6, <1>7, <1>8
    <3> QED
      BY <1>1, <3>1 DEF JoinInv, Among
  <2> QED
    BY <1>7, <2>1, <2>2 DEF Among
<1>11. SameTime(r, ws, n + 1)
  <2> SUFFICES ASSUME NEW t \in Int
               PROVE  Covers(r, t) <=> \E k \in 1 .. n + 1 : ws[k].start <= t /\ t < ws[k].end
    BY DEF SameTime
  <2>1. v.start <= t /\ t < top <=> (v.start <= t /\ t < v.end) \/ (w.start <= t /\ t < w.end)
    BY <1>1, <1>4
  <2>2. Covers(r, t) <=> Covers(ms, t) \/ (w.start <= t /\ t < w.end)
    <3>1. Covers(r, t) <=> \/ \E i \in 1 .. L - 1 : ms[i].start <= t /\ t < ms[i].end
                           \/ v.start <= t /\ t < top
      BY <1>6, <1>7, <1>8 DEF Covers
    <3>2. Covers(ms, t) <=> \/ \E i \in 1 .. L - 1 : ms[i].start <= t /\ t < ms[i].end
                            \/ v.start <= t /\ t < v.end
      BY <1>3, <1>8 DEF Covers
    <3> QED
      BY <2>1, <3>1, <3>2
  <2>3. Covers(ms, t) <=> \E k \in 1 .. n : ws[k].start <= t /\ t < ws[k].end
    BY DEF JoinInv, SameTime
  <2>4. \A k : k \in 1 .. n + 1 <=> k \in 1 .. n \/ k = n + 1
    OBVIOUS
  <2> QED
    BY <2>2, <2>3, <2>4
<1>12. Lasting(ws, n + 1) => Lasting(r, Len(r))
  <2> SUFFICES ASSUME Lasting(ws, n + 1), NEW i \in 1 .. L
               PROVE  r[i].start < r[i].end
    BY <1>7 DEF Lasting
  <2>1. Lasting(ms, L)
    BY <1>1 DEF JoinInv, Lasting
  <2>2. v.start < top
    BY <1>1, <1>3, <1>4, <2>1 DEF Lasting
  <2> QED
    BY <1>6, <1>7, <1>8, <2>1, <2>2 DEF Lasting
<1> QED
  BY <1>2, <1>7, <1>9, <1>10, <1>11, <1>12 DEF JoinInv

(* The windows after n steps are defined for every n. *)
IsJoin(f, ws, n) == f = [m \in 0 .. n |-> IF m = 0 THEN <<>> ELSE Joined(f[m - 1], ws[m])]

(* There is such a fold, by induction on its length. *)
LEMMA JoinExists ==
  ASSUME NEW ws, NEW n \in Nat
  PROVE  \E f : IsJoin(f, ws, n)
<1> DEFINE Bad == {m \in Nat : ~ \E f : IsJoin(f, ws, m)}
<1> SUFFICES ASSUME Bad # {} PROVE FALSE
  OBVIOUS
<1>1. Bad \in SUBSET Nat
  OBVIOUS
<1> HIDE DEF Bad
<1>2. PICK m \in Bad : \A k \in Bad : m <= k
  BY <1>1, LeastNatural
<1>3. m \in Nat /\ ~ \E f : IsJoin(f, ws, m)
  BY DEF Bad
<1>4. m # 0
  <2> DEFINE f == [k \in {0} |-> <<>>]
  <2>1. 0 .. 0 = {0}
    OBVIOUS
  <2>2. f = [k \in 0 .. 0 |-> IF k = 0 THEN <<>> ELSE Joined(f[k - 1], ws[k])]
    BY <2>1
  <2> QED
    BY <1>3, <2>2 DEF IsJoin
<1>5. m - 1 \in Nat /\ ~(m <= m - 1)
  BY <1>3, <1>4
<1>6. PICK g : IsJoin(g, ws, m - 1)
  BY <1>2, <1>5 DEF Bad
<1> DEFINE h == [k \in 0 .. m |-> IF k = m THEN Joined(g[m - 1], ws[m]) ELSE g[k]]
<1>7. \A k \in 0 .. m - 1 : g[k] = IF k = 0 THEN <<>> ELSE Joined(g[k - 1], ws[k])
  BY <1>6 DEF IsJoin
<1>8. ASSUME NEW k \in 0 .. m
      PROVE  h[k] = IF k = 0 THEN <<>> ELSE Joined(h[k - 1], ws[k])
  <2>1. k # 0 => h[k - 1] = g[k - 1]
    BY <1>3, <1>5
  <2>2. CASE k = m
    BY <1>4, <2>1, <2>2
  <2>3. CASE k # m
    <3>1. k \in 0 .. m - 1
      BY <1>3, <2>3
    <3> QED
      BY <1>7, <2>1, <2>3, <3>1
  <2> QED
    BY <2>2, <2>3
<1>9. h = [k \in 0 .. m |-> IF k = 0 THEN <<>> ELSE Joined(h[k - 1], ws[k])]
  BY <1>8
<1> QED
  BY <1>3, <1>9 DEF IsJoin

(* Every step keeps what has been joined so far. *)
LEMMA JoinKeeps ==
  ASSUME NEW ws \in Seq(Interval), ByStart(ws), NEW f, IsJoin(f, ws, Len(ws))
  PROVE  JoinInv(f[Len(ws)], ws, Len(ws))
<1> DEFINE N == Len(ws)
           Bad == {n \in 0 .. N : ~ JoinInv(f[n], ws, n)}
<1>1. N \in Nat /\ N \in 0 .. N
  BY LenProperties
<1>2. \A n \in 0 .. N : f[n] = IF n = 0 THEN <<>> ELSE Joined(f[n - 1], ws[n])
  BY DEF IsJoin
<1> SUFFICES ASSUME Bad # {} PROVE FALSE
  BY <1>1
<1>3. Bad \in SUBSET Nat
  BY <1>1
<1> HIDE DEF Bad
<1>4. PICK n \in Bad : \A k \in Bad : n <= k
  BY <1>3, LeastNatural
<1>5. n \in 0 .. N /\ n \in Nat /\ ~ JoinInv(f[n], ws, n)
  BY <1>1, <1>3 DEF Bad
<1>6. n # 0
  <2>1. <<>> \in Seq(Interval) /\ Len(<<>>) = 0
    BY EmptySeq
  <2>2. JoinInv(<<>>, ws, 0)
    BY <2>1 DEF JoinInv, InOrder, Among, SameTime, Lasting, Covers
  <2> QED
    BY <1>1, <1>2, <1>5, <2>2
<1>7. n - 1 \in Nat /\ n - 1 \in 0 .. N /\ (n - 1) + 1 = n /\ n <= N /\ ~(n <= n - 1)
  BY <1>1, <1>5, <1>6
<1> DEFINE m == n - 1
           ms == f[m]
<1>8. JoinInv(ms, ws, m)
  BY <1>4, <1>7 DEF Bad
<1>9. f[n] = Joined(ms, ws[n])
  BY <1>2, <1>5, <1>6
<1>10. m \in Nat /\ m + 1 = n /\ m + 1 <= Len(ws)
  BY <1>7
<1> HIDE DEF m, ms
<1>11. JoinInv(Joined(ms, ws[m + 1]), ws, m + 1)
  <2>1. CASE ms = <<>> \/ ws[m + 1].start > Last(ms).end
    BY <1>8, <1>10, <2>1, JoinApart
  <2>2. CASE ms # <<>> /\ ~(ws[m + 1].start > Last(ms).end)
    BY <1>8, <1>10, <2>2, JoinInto
  <2> QED
    BY <2>1, <2>2
<1> QED
  BY <1>5, <1>9, <1>10, <1>11

(* Merged windows are in order and apart, begin and end where some of the   *)
(* windows did, and hold the same milliseconds.                             *)
LEMMA MergeWindowsIs ==
  ASSUME NEW raw \in Seq(Interval)
  PROVE  JoinInv(MergeWindows(raw), raw, Len(raw))
<1> DEFINE key == [i \in DOMAIN raw |-> raw[i].start]
           ws == Arranged(raw, DOMAIN raw, key)
           N == Len(raw)
           f == CHOOSE f : IsJoin(f, ws, Len(ws))
           ms == f[Len(ws)]
<1>1. /\ N \in Nat /\ DOMAIN raw = 1 .. N
      /\ \A i \in 1 .. N : raw[i] \in Interval /\ raw[i].start \in Nat
  BY IntervalsAre
<1>2. /\ key \in [DOMAIN raw -> Int] /\ \A i \in 1 .. N : key[i] = raw[i].start
      /\ Cardinality(DOMAIN raw) = N
  BY <1>1, UpTo
<1> HIDE DEF key
<1>3. ws \in Seq(Interval) /\ Len(ws) = N
  BY <1>1, <1>2, ArrangedIs
<1>4. PICK p : /\ Lists(p, DOMAIN raw, key)
               /\ \A k \in 1 .. Cardinality(DOMAIN raw) : ws[k] = raw[p[k]]
  <2> DEFINE J == DOMAIN raw
  <2>1. J \in SUBSET DOMAIN raw /\ key \in [J -> Int]
    BY <1>2
  <2> HIDE DEF J
  <2>2. \E p : Lists(p, J, key) /\ \A k \in 1 .. Cardinality(J) : Arranged(raw, J, key)[k] = raw[p[k]]
    BY <1>1, <2>1, ArrangedIs
  <2> QED
    BY <2>2 DEF J
<1>5. MergeWindows(raw) = ms
  BY DEF MergeWindows, IsJoin, key
<1> HIDE DEF ws
<1>6. /\ \A k \in 1 .. N : p[k] \in 1 .. N /\ ws[k] = raw[p[k]]
      /\ \A i \in 1 .. N : \E k \in 1 .. N : p[k] = i
      /\ \A k, l \in 1 .. N : k < l => Precedes(key, p[k], p[l])
  BY <1>1, <1>2, <1>4 DEF Lists
<1>7. ByStart(ws)
  <2> SUFFICES ASSUME NEW k \in 1 .. N, NEW l \in 1 .. N, k <= l
               PROVE  ws[k].start <= ws[l].start
    BY <1>3 DEF ByStart
  <2>1. /\ ws[k].start = key[p[k]] /\ ws[l].start = key[p[l]]
        /\ key[p[k]] \in Int /\ key[p[l]] \in Int
    BY <1>1, <1>2, <1>6
  <2>2. CASE k = l
    BY <2>1, <2>2
  <2>3. CASE k < l
    <3>1. Precedes(key, p[k], p[l])
      BY <1>6, <2>3
    <3> QED
      BY <2>1, <3>1 DEF Precedes
  <2> QED
    BY <2>2, <2>3
<1>8. IsJoin(f, ws, Len(ws))
  BY <1>1, <1>3, JoinExists
<1> HIDE DEF f
<1>9. JoinInv(ms, ws, N)
  BY <1>3, <1>7, <1>8, JoinKeeps
<1> HIDE DEF ms
<1>10. Among(ms, raw, N)
  <2>1. Among(ms, ws, N)
    BY <1>9 DEF JoinInv
  <2>2. \A i \in 1 .. Len(ms) : \E k \in 1 .. N : ms[i].start = raw[k].start
    <3> SUFFICES ASSUME NEW i \in 1 .. Len(ms) PROVE \E k \in 1 .. N : ms[i].start = raw[k].start
      OBVIOUS
    <3>1. PICK k \in 1 .. N : ms[i].start = ws[k].start
      BY <2>1 DEF Among
    <3>2. p[k] \in 1 .. N /\ ws[k] = raw[p[k]]
      BY <1>6
    <3>3. ms[i].start = raw[p[k]].start
      BY <3>1, <3>2
    <3> QED
      BY <3>2, <3>3
  <2>3. \A i \in 1 .. Len(ms) : \E k \in 1 .. N : ms[i].end = raw[k].end
    <3> SUFFICES ASSUME NEW i \in 1 .. Len(ms) PROVE \E k \in 1 .. N : ms[i].end = raw[k].end
      OBVIOUS
    <3>1. PICK k \in 1 .. N : ms[i].end = ws[k].end
      BY <2>1 DEF Among
    <3>2. p[k] \in 1 .. N /\ ws[k] = raw[p[k]]
      BY <1>6
    <3>3. ms[i].end = raw[p[k]].end
      BY <3>1, <3>2
    <3> QED
      BY <3>2, <3>3
  <2> QED
    BY <2>2, <2>3 DEF Among
<1>11. SameTime(ms, raw, N)
  <2> SUFFICES ASSUME NEW t \in Int
               PROVE  Covers(ms, t) <=> \E k \in 1 .. N : raw[k].start <= t /\ t < raw[k].end
    BY DEF SameTime
  <2>1. Covers(ms, t) <=> \E k \in 1 .. N : ws[k].start <= t /\ t < ws[k].end
    BY <1>9 DEF JoinInv, SameTime
  <2>2. ASSUME NEW i \in 1 .. N PROVE \E k \in 1 .. N : ws[k] = raw[i]
    BY <1>6
  <2> QED
    BY <1>6, <2>1, <2>2
<1>12. Lasting(raw, N) => Lasting(ws, N)
  BY <1>6 DEF Lasting
<1> QED
  BY <1>5, <1>9, <1>10, <1>11, <1>12 DEF JoinInv

(* What merging promises, from what its steps keep. *)
LEMMA MergeIsKept ==
  ASSUME NEW raw \in Seq(Interval)
  PROVE  MergeKept(raw, MergeWindows(raw))
<1> DEFINE ms == MergeWindows(raw)
<1>1. JoinInv(ms, raw, Len(raw))
  BY MergeWindowsIs
<1> HIDE DEF ms
<1>2. ms \in Seq(Interval) /\ InOrder(ms) /\ SameTime(ms, raw, Len(raw))
  BY <1>1 DEF JoinInv
<1>3. \A t \in Span(raw) \cup Span(ms) : t \in Int
  BY <1>2, IntervalsAre DEF Span
<1>4. \A t \in Int : Covers(ms, t) <=> Covers(raw, t)
  BY <1>2, IntervalsAre DEF SameTime, Covers
<1> QED
  BY <1>2, <1>3, <1>4 DEF MergeKept, ms

(* A time moved into the life. *)
LEMMA ClampIs ==
  ASSUME NEW v \in Nat, NEW lo \in Nat, NEW hi \in Nat, lo <= hi
  PROVE  Clamp(v, lo, hi) = IF v <= lo THEN lo ELSE IF v >= hi THEN hi ELSE v
<1> DEFINE m == IF hi <= v THEN hi ELSE v
<1>1. Min({hi, v}) = m /\ m \in Int
  BY MinOfTwo
<1>2. Max({lo, m}) = IF lo >= m THEN lo ELSE m
  BY <1>1, MaxOfTwo
<1> QED
  BY <1>1, <1>2 DEF Clamp

(* Windows that last, within two times. *)
Within(ms, lo, hi) == \A k \in 1 .. Len(ms) : lo <= ms[k].start /\ ms[k].end <= hi

(* Clipping leaves the milliseconds between the two times, and no others. *)
LEMMA ClippedIs ==
  ASSUME NEW ws \in Seq(Interval), NEW lo \in Nat, NEW hi \in Nat, lo <= hi
  PROVE  /\ Clipped(ws, lo, hi) \in Seq(Interval)
         /\ Lasting(Clipped(ws, lo, hi), Len(Clipped(ws, lo, hi)))
         /\ Within(Clipped(ws, lo, hi), lo, hi)
         /\ \A t \in lo .. hi - 1 : Covers(Clipped(ws, lo, hi), t) <=> Covers(ws, t)
<1> DEFINE N == Len(ws)
           a(i) == Clamp(ws[i].start, lo, hi)
           b(i) == Clamp(ws[i].end, lo, hi)
           cut == [i \in DOMAIN ws |-> [start |-> a(i), end |-> b(i)]]
           I == {i \in DOMAIN cut : cut[i].end > cut[i].start}
           c == Picked(cut, I)
<1>1. /\ N \in Nat /\ DOMAIN ws = 1 .. N
      /\ \A i \in 1 .. N : ws[i].start \in Nat /\ ws[i].end \in Nat
  BY IntervalsAre
<1>2. \A i \in 1 .. N :
         /\ a(i) = IF ws[i].start <= lo THEN lo ELSE IF ws[i].start >= hi THEN hi ELSE ws[i].start
         /\ b(i) = IF ws[i].end <= lo THEN lo ELSE IF ws[i].end >= hi THEN hi ELSE ws[i].end
  BY <1>1, ClampIs
<1>3. Clipped(ws, lo, hi) = c
  BY DEF Clipped
<1> HIDE DEF a, b
<1>4. \A i \in 1 .. N : /\ a(i) \in Nat /\ b(i) \in Nat /\ lo <= a(i) /\ b(i) <= hi
                        /\ \A t \in lo .. hi - 1 : /\ a(i) <= t <=> ws[i].start <= t
                                                   /\ t < b(i) <=> t < ws[i].end
  <2> SUFFICES ASSUME NEW i \in 1 .. N
               PROVE  /\ a(i) \in Nat /\ b(i) \in Nat /\ lo <= a(i) /\ b(i) <= hi
                      /\ \A t \in lo .. hi - 1 : /\ a(i) <= t <=> ws[i].start <= t
                                                 /\ t < b(i) <=> t < ws[i].end
    OBVIOUS
  <2>1. /\ ws[i].start \in Nat /\ ws[i].end \in Nat
        /\ a(i) = IF ws[i].start <= lo THEN lo ELSE IF ws[i].start >= hi THEN hi ELSE ws[i].start
        /\ b(i) = IF ws[i].end <= lo THEN lo ELSE IF ws[i].end >= hi THEN hi ELSE ws[i].end
    BY <1>1, <1>2
  <2> QED
    BY <2>1
<1>5. /\ DOMAIN cut = 1 .. N
      /\ \A i \in 1 .. N : cut[i] \in Interval /\ cut[i].start = a(i) /\ cut[i].end = b(i)
  BY <1>1, <1>4 DEF Interval
<1> HIDE DEF cut
<1>6. cut \in Seq(Interval) /\ I \in SUBSET DOMAIN cut
  <2>1. cut = [i \in 1 .. N |-> [start |-> a(i), end |-> b(i)]]
    BY <1>1 DEF cut
  <2>2. \A i \in 1 .. N : [start |-> a(i), end |-> b(i)] \in Interval
    BY <1>4 DEF Interval
  <2>3. cut \in [1 .. N -> Interval]
    BY <2>1, <2>2
  <2> QED
    BY <1>1, <2>3
<1>7. \A i : i \in I <=> i \in 1 .. N /\ a(i) < b(i)
  BY <1>4, <1>5
<1> HIDE DEF I
<1>8. c \in Seq(Interval) /\ Len(c) = Cardinality(I)
  BY <1>6, PickedIs
<1>9. PICK p \in [1 .. Cardinality(I) -> I] :
        /\ \A i \in I : \E k \in 1 .. Cardinality(I) : p[k] = i
        /\ \A k \in 1 .. Cardinality(I) : c[k] = cut[p[k]]
  BY <1>6, PickedIs
<1> HIDE DEF c
<1>10. DOMAIN c = 1 .. Len(c)
  BY <1>8, LenProperties
<1>11. \A k \in 1 .. Len(c) : /\ p[k] \in 1 .. N /\ c[k].start = a(p[k]) /\ c[k].end = b(p[k])
                              /\ a(p[k]) < b(p[k])
  BY <1>5, <1>7, <1>8, <1>9
<1>12. Lasting(c, Len(c)) /\ Within(c, lo, hi)
  BY <1>4, <1>11 DEF Lasting, Within
<1>13. ASSUME NEW t \in lo .. hi - 1
       PROVE  Covers(c, t) <=> Covers(ws, t)
  <2>1. ASSUME Covers(c, t) PROVE Covers(ws, t)
    <3>1. PICK k \in 1 .. Len(c) : c[k].start <= t /\ t < c[k].end
      BY <1>10, <2>1 DEF Covers
    <3>2. p[k] \in 1 .. N /\ ws[p[k]].start <= t /\ t < ws[p[k]].end
      BY <1>4, <1>11, <3>1
    <3> QED
      BY <1>1, <3>2 DEF Covers
  <2>2. ASSUME Covers(ws, t) PROVE Covers(c, t)
    <3>1. PICK i \in 1 .. N : ws[i].start <= t /\ t < ws[i].end
      BY <1>1, <2>2 DEF Covers
    <3>2. a(i) <= t /\ t < b(i) /\ a(i) \in Nat /\ b(i) \in Nat
      BY <1>4, <3>1
    <3>3. i \in I
      BY <1>7, <3>2
    <3>4. PICK k \in 1 .. Len(c) : p[k] = i
      BY <1>8, <1>9, <3>3
    <3>5. c[k].start <= t /\ t < c[k].end
      BY <1>11, <3>2, <3>4
    <3> QED
      BY <1>10, <3>5 DEF Covers
  <2> QED
    BY <2>1, <2>2
<1> QED
  BY <1>3, <1>8, <1>12, <1>13

(* What lies between windows that are in order: the milliseconds that none  *)
(* of them has.                                                             *)
LEMMA GapsIs ==
  ASSUME NEW ms \in Seq(Interval), NEW lo \in Nat, NEW hi \in Nat, lo <= hi,
         InOrder(ms), Lasting(ms, Len(ms)), Within(ms, lo, hi)
  PROVE  /\ \A k \in DOMAIN Gaps(ms, lo, hi) :
              /\ lo <= Gaps(ms, lo, hi)[k].start /\ Gaps(ms, lo, hi)[k].end <= hi
              /\ Gaps(ms, lo, hi)[k].start < Gaps(ms, lo, hi)[k].end
         /\ InOrder(Gaps(ms, lo, hi))
         /\ \A t \in lo .. hi - 1 : Covers(Gaps(ms, lo, hi), t) <=> ~Covers(ms, t)
<1> DEFINE n == Len(ms)
           from(i) == IF i = 1 THEN lo ELSE ms[i - 1].end
           to(i) == IF i = n + 1 THEN hi ELSE ms[i].start
           all == [i \in 1 .. (n + 1) |-> [start |-> from(i), end |-> to(i)]]
           I == {i \in 1 .. (n + 1) : all[i].start < all[i].end}
           g == Picked(all, I)
<1>1. /\ n \in Nat /\ DOMAIN ms = 1 .. n
      /\ \A i \in 1 .. n : ms[i].start \in Nat /\ ms[i].end \in Nat
  BY IntervalsAre
<1>2. Gaps(ms, lo, hi) = g
  BY DEF Gaps
<1>3. /\ \A i \in 1 .. n : lo <= ms[i].start /\ ms[i].start < ms[i].end /\ ms[i].end <= hi
      /\ \A i, j \in 1 .. n : i < j => ms[i].end < ms[j].start
  BY <1>1 DEF Within, Lasting, InOrder
<1> HIDE DEF n
<1>4. \A i \in 1 .. n + 1 : /\ i # 1 => i - 1 \in 1 .. n
                            /\ i # n + 1 => i \in 1 .. n
  BY <1>1
<1>5. \A i \in 1 .. n + 1 : from(i) \in Nat /\ to(i) \in Nat /\ lo <= from(i) /\ to(i) <= hi
  <2> SUFFICES ASSUME NEW i \in 1 .. n + 1
               PROVE  from(i) \in Nat /\ to(i) \in Nat /\ lo <= from(i) /\ to(i) <= hi
    OBVIOUS
  <2>1. from(i) \in Nat /\ lo <= from(i)
    <3>1. CASE i = 1
      BY <3>1
    <3>2. CASE i # 1
      <4>1. i - 1 \in 1 .. n
        BY <1>4, <3>2
      <4>2. /\ ms[i - 1].start \in Nat /\ ms[i - 1].end \in Nat
            /\ lo <= ms[i - 1].start /\ ms[i - 1].start < ms[i - 1].end
        BY <1>1, <1>3, <4>1
      <4> QED
        BY <3>2, <4>2
    <3> QED
      BY <3>1, <3>2
  <2>2. to(i) \in Nat /\ to(i) <= hi
    <3>1. CASE i = n + 1
      BY <3>1
    <3>2. CASE i # n + 1
      <4>1. i \in 1 .. n
        BY <1>4, <3>2
      <4>2. /\ ms[i].start \in Nat /\ ms[i].end \in Nat
            /\ ms[i].start < ms[i].end /\ ms[i].end <= hi
        BY <1>1, <1>3, <4>1
      <4> QED
        BY <3>2, <4>2
    <3> QED
      BY <3>1, <3>2
  <2> QED
    BY <2>1, <2>2
<1>6. \A i, j \in 1 .. n + 1 : i < j => to(i) < from(j)
  <2> SUFFICES ASSUME NEW i \in 1 .. n + 1, NEW j \in 1 .. n + 1, i < j
               PROVE  to(i) < from(j)
    OBVIOUS
  <2>1. i \in 1 .. n /\ j - 1 \in 1 .. n /\ i <= j - 1 /\ i # n + 1 /\ j # 1
    BY <1>1
  <2>2. to(i) = ms[i].start /\ from(j) = ms[j - 1].end
    BY <2>1
  <2>3. /\ ms[i].start \in Nat /\ ms[i].end \in Nat /\ ms[i].start < ms[i].end
        /\ ms[j - 1].start \in Nat /\ ms[j - 1].end \in Nat /\ ms[j - 1].start < ms[j - 1].end
    BY <1>1, <1>3, <2>1
  <2>4. i < j - 1 => ms[i].end < ms[j - 1].start
    BY <1>3, <2>1
  <2>5. i = j - 1 \/ i < j - 1
    BY <2>1
  <2>6. i = j - 1 => ms[i].start < ms[j - 1].end
    BY <2>3
  <2>7. i < j - 1 => ms[i].start < ms[j - 1].end
    BY ONLY <2>3, <2>4
  <2> QED
    BY <2>2, <2>5, <2>6, <2>7
<1>7. \A i, j \in 1 .. n : i < j + 1 => ms[i].start <= ms[j].start
  <2> SUFFICES ASSUME NEW i \in 1 .. n, NEW j \in 1 .. n, i < j + 1
               PROVE  ms[i].start <= ms[j].start
    OBVIOUS
  <2>1. i = j \/ i < j
    BY <1>1
  <2>2. ms[i].start \in Nat /\ ms[i].end \in Nat /\ ms[i].start < ms[i].end /\ ms[j].start \in Nat
    BY <1>1, <1>3
  <2>3. i < j => ms[i].end < ms[j].start
    BY <1>3
  <2>4. i < j => ms[i].start <= ms[j].start
    BY <2>2, <2>3
  <2>5. i = j => ms[i].start <= ms[j].start
    BY <2>2
  <2> QED
    BY <2>1, <2>4, <2>5
<1>8. ASSUME NEW i \in 1 .. n + 1, NEW t \in lo .. hi - 1, from(i) <= t, t < to(i)
      PROVE  ~Covers(ms, t)
  <2> SUFFICES ASSUME NEW j \in 1 .. n, ms[j].start <= t, t < ms[j].end
               PROVE  FALSE
    BY <1>1 DEF Covers
  <2>1. ms[j].start \in Nat /\ ms[j].end \in Nat /\ t \in Int
    BY <1>1
  <2>2. CASE i < j + 1
    <3>1. i \in 1 .. n /\ i # n + 1
      BY <1>1, <2>2
    <3>2. to(i) = ms[i].start /\ ms[i].start \in Nat /\ ms[i].start <= ms[j].start
      BY <1>1, <1>7, <2>2, <3>1
    <3> HIDE DEF to
    <3> QED
      BY <1>8, <2>1, <3>2
  <2>3. CASE ~(i < j + 1)
    <3>1. i # 1 /\ i - 1 \in 1 .. n /\ j <= i - 1
      BY <1>1, <2>3
    <3>2. ms[i - 1].start \in Nat /\ ms[i - 1].end \in Nat /\ ms[i - 1].start < ms[i - 1].end
      BY <1>1, <1>3, <3>1
    <3>3. j = i - 1 \/ j < i - 1
      BY <3>1
    <3>4. j < i - 1 => ms[j].end < ms[i - 1].start
      BY <1>3, <3>1
    <3>5. from(i) = ms[i - 1].end
      BY <3>1
    <3> HIDE DEF from
    <3>6. ms[i - 1].end <= t
      BY <1>8, <3>5
    <3>7. j < i - 1 => FALSE
      BY <2>1, <3>2, <3>4, <3>6
    <3>8. j = i - 1 => FALSE
      BY <2>1, <3>6
    <3> QED
      BY <3>3, <3>7, <3>8
  <2> QED
    BY <2>2, <2>3
<1>9. ASSUME NEW t \in lo .. hi - 1, ~Covers(ms, t)
      PROVE  \E i \in 1 .. n + 1 : from(i) <= t /\ t < to(i)
  <2> DEFINE Later == {i \in 1 .. n : t < ms[i].start}
  <2>1. \A i \in 1 .. n : ms[i].start <= t => ms[i].end <= t
    <3> SUFFICES ASSUME NEW i \in 1 .. n, ms[i].start <= t PROVE ms[i].end <= t
      OBVIOUS
    <3>1. ~(t < ms[i].end)
      BY <1>1, <1>9 DEF Covers
    <3> QED
      BY <1>1, <3>1
  <2>2. t \in Int /\ lo <= t /\ t < hi
    OBVIOUS
  <2>3. CASE Later = {}
    <3>1. n + 1 \in 1 .. n + 1 /\ to(n + 1) = hi
      BY <1>1
    <3>2. from(n + 1) <= t
      <4>1. CASE n = 0
        BY <2>2, <4>1
      <4>2. CASE n # 0
        <5>1. n \in 1 .. n /\ (n + 1) - 1 = n /\ n + 1 # 1
          BY <1>1, <4>2
        <5>2. ms[n].start <= t
          BY <1>1, <2>3, <5>1
        <5>3. ms[n].end <= t
          BY <2>1, <5>1, <5>2
        <5> QED
          BY <5>1, <5>3
      <4> QED
        BY <4>1, <4>2
    <3> HIDE DEF from, to
    <3> QED
      BY <2>2, <3>1, <3>2
  <2>4. CASE Later # {}
    <3>1. Later \in SUBSET Nat
      BY <1>1
    <3>2. PICK i \in Later : \A k \in Later : i <= k
      BY <2>4, <3>1, LeastNatural
    <3>3. i \in 1 .. n /\ i \in 1 .. n + 1 /\ i # n + 1 /\ t < ms[i].start
      BY <1>1
    <3>4. t < to(i)
      BY <3>3
    <3>5. from(i) <= t
      <4>1. CASE i = 1
        BY <2>2, <4>1
      <4>2. CASE i # 1
        <5>1. i - 1 \in 1 .. n /\ ~(i <= i - 1)
          BY <1>1, <3>3, <4>2
        <5>2. ~(t < ms[i - 1].start)
          BY <3>2, <5>1
        <5>3. ms[i - 1].start <= t
          BY <1>1, <2>2, <5>1, <5>2
        <5>4. ms[i - 1].end <= t
          BY <2>1, <5>1, <5>3
        <5> QED
          BY <4>2, <5>4
      <4> QED
        BY <4>1, <4>2
    <3> HIDE DEF from, to
    <3> QED
      BY <3>3, <3>4, <3>5
  <2> QED
    BY <2>3, <2>4
<1>10. /\ DOMAIN all = 1 .. n + 1
       /\ \A i \in 1 .. n + 1 : all[i].start = from(i) /\ all[i].end = to(i)
  OBVIOUS
<1>11. all \in Seq(Interval)
  <2>1. \A i \in 1 .. n + 1 : [start |-> from(i), end |-> to(i)] \in Interval
    <3> SUFFICES ASSUME NEW i \in 1 .. n + 1 PROVE [start |-> from(i), end |-> to(i)] \in Interval
      OBVIOUS
    <3>1. from(i) \in Nat /\ to(i) \in Nat
      BY <1>5
    <3> HIDE DEF from, to
    <3> QED
      BY <3>1 DEF Interval
  <2> HIDE DEF from, to
  <2>2. all \in [1 .. n + 1 -> Interval]
    BY <2>1
  <2>3. n + 1 \in Nat
    BY <1>1
  <2> HIDE DEF all
  <2> QED
    BY <2>2, <2>3
<1> HIDE DEF all, from, to
<1>12. \A i : i \in I <=> i \in 1 .. n + 1 /\ from(i) < to(i)
  BY <1>10
<1>13. I \in SUBSET DOMAIN all /\ I \subseteq Int
  BY <1>1, <1>10, <1>12
<1> HIDE DEF I
<1>14. g \in Seq(Interval) /\ Len(g) = Cardinality(I) /\ Cardinality(I) \in Nat
  BY <1>11, <1>13, PickedIs
<1>15. PICK p \in [1 .. Cardinality(I) -> I] :
         /\ \A i \in I : \E k \in 1 .. Cardinality(I) : p[k] = i
         /\ \A k, l \in 1 .. Cardinality(I) : k < l => p[k] < p[l]
         /\ \A k \in 1 .. Cardinality(I) : g[k] = all[p[k]]
  BY <1>11, <1>13, PickedIs
<1> HIDE DEF g
<1>16. DOMAIN g = 1 .. Len(g) /\ Len(g) \in Nat
  BY <1>14, LenProperties
<1>17. \A k \in 1 .. Len(g) : /\ p[k] \in 1 .. n + 1 /\ from(p[k]) < to(p[k])
                              /\ g[k].start = from(p[k]) /\ g[k].end = to(p[k])
  BY <1>10, <1>12, <1>14, <1>15
<1>18. \A k \in DOMAIN g : lo <= g[k].start /\ g[k].end <= hi /\ g[k].start < g[k].end
  BY <1>5, <1>16, <1>17
<1>19. InOrder(g)
  <2> SUFFICES ASSUME NEW k \in 1 .. Len(g), NEW l \in 1 .. Len(g), k < l
               PROVE  g[k].end < g[l].start
    BY <1>16 DEF InOrder
  <2>1. p[k] < p[l]
    BY <1>14, <1>15
  <2>2. p[k] \in 1 .. n + 1 /\ p[l] \in 1 .. n + 1
    BY <1>17
  <2>3. to(p[k]) < from(p[l])
    BY <1>6, <2>1, <2>2
  <2> QED
    BY <1>17, <2>3
<1>20. ASSUME NEW t \in lo .. hi - 1
       PROVE  Covers(g, t) <=> ~Covers(ms, t)
  <2>1. ASSUME Covers(g, t) PROVE ~Covers(ms, t)
    <3>1. PICK k \in 1 .. Len(g) : g[k].start <= t /\ t < g[k].end
      BY <1>16, <2>1 DEF Covers
    <3>2. p[k] \in 1 .. n + 1 /\ from(p[k]) <= t /\ t < to(p[k])
      BY <1>17, <3>1
    <3> QED
      BY <1>8, <3>2
  <2>2. ASSUME ~Covers(ms, t) PROVE Covers(g, t)
    <3>1. PICK i \in 1 .. n + 1 : from(i) <= t /\ t < to(i)
      BY <1>9, <2>2
    <3>2. from(i) \in Nat /\ to(i) \in Nat
      BY <1>5
    <3>3. i \in I
      BY <1>12, <3>1, <3>2
    <3>4. PICK k \in 1 .. Len(g) : p[k] = i
      BY <1>14, <1>15, <3>3
    <3>5. g[k].start <= t /\ t < g[k].end
      BY <1>17, <3>1, <3>4
    <3> QED
      BY <1>16, <3>5 DEF Covers
  <2> QED
    BY <2>1, <2>2
<1> QED
  BY <1>2, <1>18, <1>19, <1>20

(* When the life of a record ends: not before it began. *)
LEMMA EndIs ==
  ASSUME NEW in \in Lives
  PROVE  /\ in.record.init \in Nat /\ EndOf(in) \in Nat /\ in.record.init <= EndOf(in)
         /\ Max({in.record.init, EndOf(in)}) = EndOf(in)
         /\ in.record.windows \in Seq(Interval)
<1>1. /\ in.record.init \in Nat /\ in.record.dur \in Nat \cup {Unset} /\ in.capture \in Nat
      /\ in.record.windows \in Seq(Interval)
  <2>1. in \in [record : [init : Nat, dur : Nat \cup {Unset}, windows : Seq([start : Nat, end : Nat])],
                capture : Nat]
    BY LivesAssumption
  <2> QED
    BY <2>1 DEF Interval
<1>2. EndOf(in) = IF in.record.dur # Unset THEN in.record.init + in.record.dur
                  ELSE Max({in.record.init, in.capture})
  BY DEF EndOf, EffectiveEnd
<1>3. Max({in.record.init, in.capture}) = IF in.record.init >= in.capture THEN in.record.init ELSE in.capture
  BY <1>1, MaxOfTwo
<1>4. EndOf(in) \in Nat /\ in.record.init <= EndOf(in)
  BY <1>1, <1>2, <1>3
<1>5. Max({in.record.init, EndOf(in)}) = IF in.record.init >= EndOf(in) THEN in.record.init ELSE EndOf(in)
  BY <1>1, <1>4, MaxOfTwo
<1> QED
  BY <1>1, <1>4, <1>5

(* One operation: what it is divided into. *)
LEMMA LifeDividedForAll ==
  ASSUME NEW in \in Lives
  PROVE  LifeDivided(in, WaitsOf(in))
<1> DEFINE lo == in.record.init
           hi == EndOf(in)
           ws == in.record.windows
           c == Clipped(ws, lo, hi)
           ms == MergeWindows(c)
           waits == Gaps(ms, lo, hi)
<1>1. lo \in Nat /\ hi \in Nat /\ lo <= hi /\ ws \in Seq(Interval)
  BY EndIs
<1>2. WaitsOf(in) = waits
  BY EndIs DEF WaitsOf, WaitWindows
<1> HIDE DEF lo, hi, ws
<1>3. /\ c \in Seq(Interval) /\ Lasting(c, Len(c)) /\ Within(c, lo, hi)
      /\ \A t \in lo .. hi - 1 : Covers(c, t) <=> Covers(ws, t)
  BY <1>1, ClippedIs
<1> HIDE DEF c
<1>4. JoinInv(ms, c, Len(c))
  BY <1>3, MergeWindowsIs
<1> HIDE DEF ms
<1>5. ms \in Seq(Interval) /\ InOrder(ms) /\ Lasting(ms, Len(ms)) /\ Among(ms, c, Len(c)) /\ SameTime(ms, c, Len(c))
  BY <1>3, <1>4 DEF JoinInv
<1>6. Within(ms, lo, hi)
  <2> SUFFICES ASSUME NEW k \in 1 .. Len(ms)
               PROVE  lo <= ms[k].start /\ ms[k].end <= hi
    BY DEF Within
  <2>1. PICK i \in 1 .. Len(c) : ms[k].start = c[i].start
    BY <1>5 DEF Among
  <2>2. PICK j \in 1 .. Len(c) : ms[k].end = c[j].end
    BY <1>5 DEF Among
  <2> QED
    BY <1>3, <2>1, <2>2 DEF Within
<1>7. \A t \in Int : Covers(ms, t) <=> Covers(c, t)
  BY <1>3, <1>5, IntervalsAre DEF SameTime, Covers
<1>8. /\ \A k \in DOMAIN waits : lo <= waits[k].start /\ waits[k].end <= hi /\ waits[k].start < waits[k].end
      /\ InOrder(waits)
      /\ \A t \in lo .. hi - 1 : Covers(waits, t) <=> ~Covers(ms, t)
  BY <1>1, <1>5, <1>6, GapsIs
<1> HIDE DEF waits
<1>9. \A t \in lo .. hi - 1 : t \in Int
  BY <1>1
<1>10. \A t \in lo .. hi - 1 : Covers(waits, t) <=> ~Covers(ws, t)
  BY <1>3, <1>7, <1>8, <1>9
<1>11. LifeDivided(in, waits)
  BY <1>8, <1>10 DEF LifeDivided, lo, hi, ws
<1> QED
  BY <1>2, <1>11

(* For any record the collector may deliver, with run windows that overlap,  *)
(* repeat, lie outside the life or end before they start, ended or still     *)
(* pending: the wait windows lie in the life, last, are in order and apart,  *)
(* and a millisecond of the life is in one of them exactly when no run       *)
(* window has it; and merging windows keeps each of their milliseconds in    *)
(* one window (buildWaitWindows and mergeWindows of latency.ts).             *)
THEOREM LifeIsDividedForAll == LifeSpec => []LifeIsDivided
<1> DEFINE IInv == topic = "life" => input \in Lives
<1>1. LifeInit => IInv
  BY DEF LifeInit, Take
<1>2. IInv /\ [CarryOut]_vars => IInv'
  BY DEF CarryOut, vars
<1>3. IInv => LifeIsDivided
  <2> SUFFICES ASSUME IInv, After("life") PROVE /\ LifeDivided(input, WaitsOf(input))
                                               /\ MergeKept(input.record.windows, MergeWindows(input.record.windows))
    BY DEF LifeIsDivided
  <2>1. input \in Lives
    BY DEF After
  <2>2. input.record.windows \in Seq(Interval)
    BY <2>1, EndIs
  <2> QED
    BY <2>1, <2>2, LifeDividedForAll, MergeIsKept
<1> HIDE DEF IInv
<1> QED
  BY <1>1, <1>2, <1>3, PTL DEF LifeSpec

------------------------------------------------------------------------------
(* The owners of CPU samples. Records whose triggers precede them. *)
Traced(recs) ==
  /\ recs \in Seq([trig : Nat, windows : Seq(Interval)])
  /\ \A i \in DOMAIN recs : recs[i].trig < i

(* A trace is such records, and times in order. *)
LEMMA TracesAre ==
  ASSUME NEW in \in Traces
  PROVE  /\ Traced(in.records) /\ in.times \in Seq(Nat)
         /\ \A i, j \in DOMAIN in.times : i < j => in.times[i] <= in.times[j]
  BY TracesAssumption DEF IsTrace, Traced, Interval

(* The records of a trace and what each has. *)
LEMMA RecordsAre ==
  ASSUME NEW recs, Traced(recs)
  PROVE  /\ Len(recs) \in Nat /\ DOMAIN recs = 1 .. Len(recs)
         /\ \A i \in DOMAIN recs : /\ i \in Nat /\ recs[i].trig \in Nat /\ recs[i].trig < i
                                   /\ recs[i].windows \in Seq(Interval)
<1>1. recs \in Seq([trig : Nat, windows : Seq(Interval)])
  BY DEF Traced
<1>2. Len(recs) \in Nat /\ DOMAIN recs = 1 .. Len(recs)
      /\ \A i \in 1 .. Len(recs) : recs[i] \in [trig : Nat, windows : Seq(Interval)]
  BY <1>1, LenProperties, ElementOfSeq
<1> QED
  BY <1>2 DEF Traced

(* The way up from an operation, as far as n triggers. *)
IsClimb(f, recs, id, n) ==
  f = [k \in 0 .. n |-> IF k = 0 THEN id
                        ELSE IF f[k - 1] \in DOMAIN recs THEN recs[f[k - 1]].trig ELSE Nobody]

(* There is such a way, by induction on its length. *)
LEMMA ClimbExists ==
  ASSUME NEW recs, NEW id, NEW n \in Nat
  PROVE  \E f : IsClimb(f, recs, id, n)
<1> DEFINE Bad == {m \in Nat : ~ \E f : IsClimb(f, recs, id, m)}
<1> SUFFICES ASSUME Bad # {} PROVE FALSE
  OBVIOUS
<1>1. Bad \in SUBSET Nat
  OBVIOUS
<1> HIDE DEF Bad
<1>2. PICK m \in Bad : \A k \in Bad : m <= k
  BY <1>1, LeastNatural
<1>3. m \in Nat /\ ~ \E f : IsClimb(f, recs, id, m)
  BY DEF Bad
<1> DEFINE Next(g, k) == IF k = 0 THEN id
                         ELSE IF g[k - 1] \in DOMAIN recs THEN recs[g[k - 1]].trig ELSE Nobody
<1>4. m # 0
  <2> DEFINE f == [k \in {0} |-> id]
  <2>1. 0 .. 0 = {0}
    OBVIOUS
  <2>2. f = [k \in 0 .. 0 |-> IF k = 0 THEN id
                              ELSE IF f[k - 1] \in DOMAIN recs THEN recs[f[k - 1]].trig ELSE Nobody]
    BY <2>1
  <2> QED
    BY <1>3, <2>2 DEF IsClimb
<1>5. m - 1 \in Nat /\ ~(m <= m - 1)
  BY <1>3, <1>4
<1>6. PICK g : IsClimb(g, recs, id, m - 1)
  BY <1>2, <1>5 DEF Bad
<1> DEFINE h == [k \in 0 .. m |-> IF k = m THEN Next(g, m) ELSE g[k]]
<1>7. \A k \in 0 .. m - 1 : g[k] = Next(g, k)
  BY <1>6 DEF IsClimb
<1>8. ASSUME NEW k \in 0 .. m
      PROVE  h[k] = Next(h, k)
  <2>1. k # 0 => h[k - 1] = g[k - 1]
    BY <1>3, <1>5
  <2>2. CASE k = m
    BY <1>4, <2>1, <2>2
  <2>3. CASE k # m
    <3>1. k \in 0 .. m - 1
      BY <1>3, <2>3
    <3> QED
      BY <1>7, <2>1, <2>3, <3>1
  <2> QED
    BY <2>2, <2>3
<1>9. h = [k \in 0 .. m |-> Next(h, k)]
  <2> HIDE DEF Next
  <2> QED
    BY <1>8
<1> QED
  BY <1>3, <1>9 DEF IsClimb

(* Each step up leads to the trigger of the one before. *)
LEMMA TriggersAre ==
  ASSUME NEW recs, Len(recs) \in Nat, NEW id
  PROVE  \A n \in 0 .. Len(recs) :
           Triggers(recs, id)[n] =
             IF n = 0 THEN id
             ELSE IF Triggers(recs, id)[n - 1] \in DOMAIN recs THEN recs[Triggers(recs, id)[n - 1]].trig ELSE Nobody
<1> DEFINE f == CHOOSE f : IsClimb(f, recs, id, Len(recs))
<1>1. Triggers(recs, id) = f
  BY DEF Triggers, IsClimb
<1>2. IsClimb(f, recs, id, Len(recs))
  BY ClimbExists
<1> HIDE DEF f
<1>3. \A n \in 0 .. Len(recs) :
        f[n] = IF n = 0 THEN id ELSE IF f[n - 1] \in DOMAIN recs THEN recs[f[n - 1]].trig ELSE Nobody
  BY <1>2 DEF IsClimb
<1> QED
  BY <1>1, <1>3

(* The depths of the first n operations. *)
DepthsTo(f, recs, n) ==
  f = [i \in 1 .. n |-> IF recs[i].trig \in DOMAIN recs THEN f[recs[i].trig] + 1 ELSE 1]

(* There are such depths, because a trigger precedes what it triggers. *)
LEMMA DepthsExist ==
  ASSUME NEW recs, Traced(recs), NEW n \in 0 .. Len(recs)
  PROVE  \E f : DepthsTo(f, recs, n)
<1> DEFINE L == Len(recs)
           Bad == {m \in 0 .. L : ~ \E f : DepthsTo(f, recs, m)}
<1>1. /\ L \in Nat /\ DOMAIN recs = 1 .. L
      /\ \A i \in DOMAIN recs : recs[i].trig \in Nat /\ recs[i].trig < i
  BY RecordsAre
<1> SUFFICES ASSUME Bad # {} PROVE FALSE
  OBVIOUS
<1>2. Bad \in SUBSET Nat
  BY <1>1
<1> HIDE DEF Bad
<1>3. PICK m \in Bad : \A k \in Bad : m <= k
  BY <1>2, LeastNatural
<1>4. m \in 0 .. L /\ m \in Nat /\ ~ \E f : DepthsTo(f, recs, m)
  BY <1>2 DEF Bad
<1> HIDE DEF L
<1>5. m # 0
  <2>1. DepthsTo([i \in 1 .. 0 |-> 1], recs, 0)
    BY DEF DepthsTo
  <2> QED
    BY <1>4, <2>1
<1>6. m - 1 \in Nat /\ m - 1 \in 0 .. L /\ ~(m <= m - 1)
  BY <1>1, <1>4, <1>5
<1>7. PICK g : DepthsTo(g, recs, m - 1)
  BY <1>3, <1>6 DEF Bad
<1> DEFINE Value(q, i) == IF recs[i].trig \in DOMAIN recs THEN q[recs[i].trig] + 1 ELSE 1
           h == [i \in 1 .. m |-> IF i = m THEN Value(g, m) ELSE g[i]]
<1>8. \A i \in 1 .. m - 1 : g[i] = Value(g, i)
  BY <1>7 DEF DepthsTo
<1>9. ASSUME NEW i \in 1 .. m
      PROVE  h[i] = Value(h, i)
  <2>1. i \in DOMAIN recs /\ recs[i].trig \in Nat /\ recs[i].trig < i
    BY <1>1, <1>4
  <2>2. ASSUME recs[i].trig \in DOMAIN recs
        PROVE  h[recs[i].trig] = g[recs[i].trig]
    <3>1. recs[i].trig \in 1 .. m /\ recs[i].trig # m
      BY <1>1, <1>4, <2>1, <2>2
    <3> QED
      BY <3>1
  <2>3. Value(h, i) = Value(g, i)
    BY <2>2
  <2>4. CASE i = m
    <3> HIDE DEF Value
    <3> QED
      BY <2>3, <2>4
  <2>5. CASE i # m
    <3>1. i \in 1 .. m - 1
      BY <1>4, <2>5
    <3>2. h[i] = g[i]
      BY <2>5
    <3> HIDE DEF Value, h
    <3> QED
      BY <1>8, <2>3, <3>1, <3>2
  <2> QED
    BY <2>4, <2>5
<1>10. h = [i \in 1 .. m |-> Value(h, i)]
  <2> HIDE DEF Value
  <2> QED
    BY <1>9
<1> QED
  BY <1>4, <1>10 DEF DepthsTo

(* An operation is one deeper than its trigger. *)
LEMMA DepthIs ==
  ASSUME NEW recs, Traced(recs)
  PROVE  \A i \in DOMAIN recs :
           /\ Depth(recs, i) = IF recs[i].trig \in DOMAIN recs THEN Depth(recs, recs[i].trig) + 1 ELSE 1
           /\ Depth(recs, i) \in 1 .. i
<1> DEFINE L == Len(recs)
           f == CHOOSE f : f = [i \in DOMAIN recs |-> IF recs[i].trig \in DOMAIN recs THEN f[recs[i].trig] + 1 ELSE 1]
<1>1. /\ L \in Nat /\ DOMAIN recs = 1 .. L
      /\ \A i \in DOMAIN recs : i \in Nat /\ recs[i].trig \in Nat /\ recs[i].trig < i
  BY RecordsAre
<1>2. \E g : DepthsTo(g, recs, L)
  BY <1>1, DepthsExist
<1>3. f = [i \in DOMAIN recs |-> IF recs[i].trig \in DOMAIN recs THEN f[recs[i].trig] + 1 ELSE 1]
  <2>1. \E g : g = [i \in DOMAIN recs |-> IF recs[i].trig \in DOMAIN recs THEN g[recs[i].trig] + 1 ELSE 1]
    BY <1>1, <1>2 DEF DepthsTo
  <2> QED
    BY <2>1
<1>4. \A i : Depth(recs, i) = f[i]
  BY DEF Depth
<1> HIDE DEF f
<1>5. \A i \in DOMAIN recs : f[i] = IF recs[i].trig \in DOMAIN recs THEN f[recs[i].trig] + 1 ELSE 1
  BY <1>3
<1> DEFINE Bad == {i \in DOMAIN recs : f[i] \notin 1 .. i}
<1>6. Bad = {}
  <2> SUFFICES ASSUME Bad # {} PROVE FALSE
    OBVIOUS
  <2>1. Bad \in SUBSET Nat
    BY <1>1
  <2>2. PICK i \in Bad : \A k \in Bad : i <= k
    BY <2>1, LeastNatural
  <2>3. i \in DOMAIN recs /\ f[i] \notin 1 .. i /\ i \in Nat /\ i > 0
    BY <1>1
  <2>4. CASE recs[i].trig \in DOMAIN recs
    <3> DEFINE u == recs[i].trig
    <3>1. u \in Nat /\ u < i /\ f[i] = f[u] + 1
      BY <1>1, <1>5, <2>3, <2>4
    <3>2. f[u] \in 1 .. u
      <4>1. ~(i <= u)
        BY <2>3, <3>1
      <4> QED
        BY <2>2, <2>4, <4>1
    <3> HIDE DEF u
    <3> QED
      BY <2>3, <3>1, <3>2
  <2>5. CASE recs[i].trig \notin DOMAIN recs
    BY <1>5, <2>3, <2>5
  <2> QED
    BY <2>4, <2>5
<1> QED
  BY <1>4, <1>5, <1>6

(* A trigger ancestor that is not the operation itself is less deep. *)
LEMMA AncestorsAreHigher ==
  ASSUME NEW recs, Traced(recs), NEW a \in DOMAIN recs, NEW d \in DOMAIN recs, IsAsyncAncestor(recs, a, d)
  PROVE  a = d \/ Depth(recs, a) < Depth(recs, d)
<1> DEFINE L == Len(recs)
           up == Triggers(recs, d)
           Bad == {n \in 1 .. L : up[n] \in DOMAIN recs /\ ~(Depth(recs, up[n]) < Depth(recs, d))}
<1>1. L \in Nat /\ DOMAIN recs = 1 .. L
  BY RecordsAre
<1>2. \A n \in 0 .. L : up[n] = IF n = 0 THEN d
                                ELSE IF up[n - 1] \in DOMAIN recs THEN recs[up[n - 1]].trig ELSE Nobody
  BY <1>1, TriggersAre
<1>3. \A i \in DOMAIN recs :
        /\ Depth(recs, i) = IF recs[i].trig \in DOMAIN recs THEN Depth(recs, recs[i].trig) + 1 ELSE 1
        /\ Depth(recs, i) \in Nat
  <2>1. \A i \in DOMAIN recs : Depth(recs, i) \in 1 .. i /\ i \in Nat
    BY DepthIs, RecordsAre
  <2> QED
    BY <2>1, DepthIs
<1>4. Nobody \notin DOMAIN recs
  BY <1>1 DEF Nobody
<1> HIDE DEF up
<1>5. Bad = {}
  <2> SUFFICES ASSUME Bad # {} PROVE FALSE
    OBVIOUS
  <2>1. Bad \in SUBSET Nat
    BY <1>1
  <2>2. PICK n \in Bad : \A k \in Bad : n <= k
    BY <2>1, LeastNatural
  <2>3. /\ n \in 1 .. L /\ n \in 0 .. L /\ n # 0 /\ n - 1 \in 0 .. L /\ ~(n <= n - 1)
        /\ up[n] \in DOMAIN recs /\ ~(Depth(recs, up[n]) < Depth(recs, d))
    BY <1>1
  <2>4. up[n - 1] \in DOMAIN recs /\ up[n] = recs[up[n - 1]].trig
    BY <1>2, <1>4, <2>3
  <2>5. Depth(recs, up[n - 1]) = Depth(recs, up[n]) + 1 /\ Depth(recs, up[n]) \in Nat /\ Depth(recs, d) \in Nat
    BY <1>3, <2>3, <2>4
  <2>6. CASE n = 1
    <3>1. up[n - 1] = d
      BY <1>1, <1>2, <2>6
    <3> QED
      BY <2>3, <2>5, <3>1
  <2>7. CASE n # 1
    <3>1. n - 1 \in 1 .. L
      BY <1>1, <2>3, <2>7
    <3>2. Depth(recs, up[n - 1]) < Depth(recs, d)
      BY <2>2, <2>3, <2>4, <3>1
    <3> QED
      BY <2>3, <2>5, <3>2
  <2> QED
    BY <2>6, <2>7
<1>6. CASE a # d
  <2>1. Min({MaxHops, L}) = IF MaxHops <= L THEN MaxHops ELSE L
    <3>1. MaxHops \in Int /\ L \in Int
      BY <1>1 DEF MaxHops
    <3> QED
      BY <3>1, MinOfTwo
  <2>2. PICK n \in 1 .. Min({MaxHops, L}) : up[n] = a
    BY <1>6 DEF IsAsyncAncestor, up
  <2>3. n \in 1 .. L
    BY <1>1, <2>1 DEF MaxHops
  <2> QED
    BY <1>5, <2>2, <2>3
<1> QED
  BY <1>6

(* Numbers that are not greater than b have a greatest. *)
LEMMA GreatestBelow ==
  ASSUME NEW b \in Nat, NEW S \in SUBSET (0 .. b), S # {}
  PROVE  \E m \in S : \A n \in S : n <= m
<1> DEFINE T == {k \in Nat : b - k \in S}
<1>1. T \in SUBSET Nat
  OBVIOUS
<1>2. T # {}
  <2>1. PICK s \in S : TRUE
    OBVIOUS
  <2>2. b - s \in Nat /\ b - (b - s) = s
    BY <2>1
  <2> QED
    BY <2>1, <2>2
<1> HIDE DEF T
<1>3. PICK k \in T : \A l \in T : k <= l
  BY <1>1, <1>2, LeastNatural
<1>4. k \in Nat /\ b - k \in S
  BY <1>1 DEF T
<1>5. ASSUME NEW n \in S PROVE n <= b - k
  <2>1. n \in Nat /\ n <= b /\ b - n \in Nat /\ b - (b - n) = n
    OBVIOUS
  <2>2. b - n \in T
    BY <2>1 DEF T
  <2>3. k <= b - n
    BY <1>3, <2>2
  <2> QED
    BY <1>4, <2>1, <2>3
<1> QED
  BY <1>4, <1>5

(* There is a deepest operation, the last of equally deep ones. *)
LEMMA DeepestIs ==
  ASSUME NEW recs, Traced(recs), NEW open \in SUBSET DOMAIN recs, open # {}
  PROVE  /\ Deepest(recs, open) \in open
         /\ \A o \in open : Depth(recs, o) <= Depth(recs, Deepest(recs, open))
<1> DEFINE L == Len(recs)
           D == {Depth(recs, o) : o \in open}
<1>1. L \in Nat /\ DOMAIN recs = 1 .. L /\ \A i \in DOMAIN recs : Depth(recs, i) \in 0 .. L
  <2>1. L \in Nat /\ DOMAIN recs = 1 .. L
    BY RecordsAre
  <2>2. \A i \in DOMAIN recs : Depth(recs, i) \in 1 .. i
    BY DepthIs
  <2> QED
    BY <2>1, <2>2
<1>2. PICK top \in D : \A o \in open : Depth(recs, o) <= top
  <2>1. D \in SUBSET (0 .. L) /\ D # {}
    BY <1>1
  <2>2. PICK top \in D : \A n \in D : n <= top
    BY <1>1, <2>1, GreatestBelow
  <2> QED
    BY <2>2
<1> DEFINE E == {o \in open : Depth(recs, o) = top}
<1>3. PICK d \in E : \A o \in E : o <= d
  <2>1. E \in SUBSET (0 .. L) /\ E # {}
    BY <1>1, <1>2
  <2> HIDE DEF E
  <2> QED
    BY <1>1, <2>1, GreatestBelow
<1>4. d \in open /\ \A o \in open : \/ Depth(recs, o) < Depth(recs, d)
                                    \/ Depth(recs, o) = Depth(recs, d) /\ o <= d
  <2> SUFFICES ASSUME NEW o \in open
               PROVE  \/ Depth(recs, o) < Depth(recs, d)
                      \/ Depth(recs, o) = Depth(recs, d) /\ o <= d
    OBVIOUS
  <2>1. Depth(recs, d) = top /\ Depth(recs, o) <= top /\ Depth(recs, o) \in Int /\ top \in Int
    BY <1>1, <1>2
  <2>2. Depth(recs, o) = top => o <= d
    BY <1>3
  <2> QED
    BY <2>1, <2>2
<1>5. /\ Deepest(recs, open) \in open
      /\ \A o \in open : \/ Depth(recs, o) < Depth(recs, Deepest(recs, open))
                         \/ Depth(recs, o) = Depth(recs, Deepest(recs, open)) /\ o <= Deepest(recs, open)
  BY <1>4 DEF Deepest
<1>6. \A o \in open : Depth(recs, o) \in Int
  BY <1>1
<1> QED
  BY <1>5, <1>6

(* The sample goes to the innermost of the operations that are open, if one is. *)
LEMMA ResolveIs ==
  ASSUME NEW recs, Traced(recs), NEW open \in SUBSET DOMAIN recs, NEW x \in DOMAIN recs
  PROVE  ResolveWindow(recs, open) = x <=> x \in open /\ \A o \in open : IsAsyncAncestor(recs, o, x)
<1> DEFINE d == Deepest(recs, open)
<1>1. Nobody # x
  BY RecordsAre DEF Nobody
<1>2. ASSUME ResolveWindow(recs, open) = x
      PROVE  x \in open /\ \A o \in open : IsAsyncAncestor(recs, o, x)
  <2>1. open # {} /\ d = x /\ \A o \in open : IsAsyncAncestor(recs, o, d)
    BY <1>1, <1>2 DEF ResolveWindow
  <2> QED
    BY <2>1, DeepestIs
<1>3. ASSUME x \in open, \A o \in open : IsAsyncAncestor(recs, o, x)
      PROVE  ResolveWindow(recs, open) = x
  <2>1. d \in open /\ Depth(recs, x) <= Depth(recs, d)
    BY <1>3, DeepestIs
  <2> HIDE DEF d
  <2>2. d \in DOMAIN recs /\ IsAsyncAncestor(recs, d, x)
    BY <1>3, <2>1
  <2>3. d = x \/ Depth(recs, d) < Depth(recs, x)
    BY <2>2, AncestorsAreHigher
  <2>4. Depth(recs, d) \in Int /\ Depth(recs, x) \in Int
    <3>1. Depth(recs, d) \in 1 .. d /\ Depth(recs, x) \in 1 .. x
      BY <2>2, DepthIs
    <3> QED
      BY <3>1
  <2>5. d = x
    BY <2>1, <2>3, <2>4
  <2> QED
    BY <1>3, <2>5 DEF ResolveWindow, d
<1> QED
  BY <1>2, <1>3

(* The sweep over the first n samples. *)
IsSweep(f, recs, times, n) ==
  f = [i \in 0 .. n |-> IF i = 0 THEN [taken |-> {}, active |-> {}]
                        ELSE Passed(RunWindows(recs), f[i - 1], times[i])]

(* There is such a sweep, by induction on its length. *)
LEMMA SweepExists ==
  ASSUME NEW recs, NEW times, NEW n \in Nat
  PROVE  \E f : IsSweep(f, recs, times, n)
<1> DEFINE Bad == {m \in Nat : ~ \E f : IsSweep(f, recs, times, m)}
           none == [taken |-> {}, active |-> {}]
           Step(q, t) == Passed(RunWindows(recs), q, t)
<1> SUFFICES ASSUME Bad # {} PROVE FALSE
  OBVIOUS
<1>1. Bad \in SUBSET Nat
  OBVIOUS
<1> HIDE DEF Bad
<1>2. PICK m \in Bad : \A k \in Bad : m <= k
  BY <1>1, LeastNatural
<1>3. m \in Nat /\ ~ \E f : IsSweep(f, recs, times, m)
  BY DEF Bad
<1> HIDE DEF none, Step
<1>4. m # 0
  <2> DEFINE f == [k \in {0} |-> none]
  <2>1. 0 .. 0 = {0}
    OBVIOUS
  <2>2. f = [k \in 0 .. 0 |-> IF k = 0 THEN none ELSE Step(f[k - 1], times[k])]
    BY <2>1
  <2> QED
    BY <1>3, <2>2 DEF IsSweep, none, Step
<1>5. m - 1 \in Nat /\ ~(m <= m - 1)
  BY <1>3, <1>4
<1>6. PICK g : IsSweep(g, recs, times, m - 1)
  BY <1>2, <1>5 DEF Bad
<1> DEFINE h == [k \in 0 .. m |-> IF k = m THEN Step(g[m - 1], times[m]) ELSE g[k]]
<1>7. \A k \in 0 .. m - 1 : g[k] = IF k = 0 THEN none ELSE Step(g[k - 1], times[k])
  BY <1>6 DEF IsSweep, none, Step
<1>8. ASSUME NEW k \in 0 .. m
      PROVE  h[k] = IF k = 0 THEN none ELSE Step(h[k - 1], times[k])
  <2>1. k # 0 => h[k - 1] = g[k - 1]
    BY <1>3, <1>5
  <2>2. CASE k = m
    BY <1>4, <2>1, <2>2
  <2>3. CASE k # m
    <3>1. k \in 0 .. m - 1
      BY <1>3, <2>3
    <3> QED
      BY <1>7, <2>1, <2>3, <3>1
  <2> QED
    BY <2>2, <2>3
<1>9. h = [k \in 0 .. m |-> IF k = 0 THEN none ELSE Step(h[k - 1], times[k])]
  BY <1>8
<1> HIDE DEF h
<1>10. IsSweep(h, recs, times, m)
  BY <1>9 DEF IsSweep, none, Step
<1> QED
  BY <1>3, <1>10

(* What is known of the sweep after a sample: it has taken every window that  *)
(* starts up to then, and of those it still has the ones that are not over.   *)
SweptTo(q, windows, t) ==
  /\ q.taken = {w \in windows : w.start <= t}
  /\ q.active = {w \in windows : w.start <= t /\ t <= w.end}

(* One sample later. *)
LEMMA PassedIs ==
  ASSUME NEW windows, \A w \in windows : w.start \in Nat /\ w.end \in Nat, NEW q, NEW t \in Nat,
         \/ q = [taken |-> {}, active |-> {}]
         \/ \E s \in Nat : s <= t /\ SweptTo(q, windows, s)
  PROVE  SweptTo(Passed(windows, q, t), windows, t)
<1> DEFINE opened == {w \in windows \ q.taken : w.start <= t}
           p == Passed(windows, q, t)
<1>1. p.taken = q.taken \cup opened /\ p.active = {w \in q.active \cup opened : w.end >= t}
  BY DEF Passed
<1>2. CASE q = [taken |-> {}, active |-> {}]
  <2>1. q.taken = {} /\ q.active = {}
    BY <1>2
  <2>2. opened = {w \in windows : w.start <= t}
    BY <2>1
  <2>3. \A w \in windows : w.end >= t <=> t <= w.end
    OBVIOUS
  <2> QED
    BY <1>1, <2>1, <2>2, <2>3 DEF SweptTo
<1>3. CASE \E s \in Nat : s <= t /\ SweptTo(q, windows, s)
  <2>1. PICK s \in Nat : s <= t /\ SweptTo(q, windows, s)
    BY <1>3
  <2>2. /\ q.taken = {w \in windows : w.start <= s}
        /\ q.active = {w \in windows : w.start <= s /\ s <= w.end}
    BY <2>1 DEF SweptTo
  <2>3. \A w \in windows : /\ w.start <= s => w.start <= t
                           /\ t <= w.end => s <= w.end
                           /\ w.end >= t <=> t <= w.end
    BY <2>1
  <2>4. p.taken = {w \in windows : w.start <= t}
    BY <1>1, <2>2, <2>3
  <2>5. p.active = {w \in windows : w.start <= t /\ t <= w.end}
    BY <1>1, <2>2, <2>3
  <2> QED
    BY <2>4, <2>5 DEF SweptTo
<1> QED
  BY <1>2, <1>3

(* The windows of the sweep are those of the records. *)
LEMMA WindowsAre ==
  ASSUME NEW recs, Traced(recs)
  PROVE  /\ \A w \in RunWindows(recs) : w.start \in Nat /\ w.end \in Nat /\ w.id \in DOMAIN recs
         /\ \A w \in RunWindows(recs) : \E k \in DOMAIN recs[w.id].windows :
              w.start = recs[w.id].windows[k].start /\ w.end = recs[w.id].windows[k].end
         /\ \A id \in DOMAIN recs : \A k \in DOMAIN recs[id].windows :
              [id |-> id, start |-> recs[id].windows[k].start, end |-> recs[id].windows[k].end] \in RunWindows(recs)
<1> DEFINE Of(id) == {[id |-> id, start |-> w.start, end |-> w.end] : w \in ToSet(recs[id].windows)}
<1>1. RunWindows(recs) = UNION {Of(id) : id \in DOMAIN recs}
  BY DEF RunWindows
<1>2. ASSUME NEW id \in DOMAIN recs, NEW k \in DOMAIN recs[id].windows
      PROVE  /\ recs[id].windows[k].start \in Nat /\ recs[id].windows[k].end \in Nat
             /\ recs[id].windows[k] \in ToSet(recs[id].windows)
  <2>1. recs[id].windows \in Seq(Interval)
    BY RecordsAre
  <2>2. recs[id].windows[k] \in Interval
    BY <2>1, LenProperties, ElementOfSeq
  <2> QED
    BY <2>2 DEF Interval, ToSet
<1>3. ASSUME NEW w \in RunWindows(recs)
      PROVE  \E id \in DOMAIN recs : \E k \in DOMAIN recs[id].windows :
               w = [id |-> id, start |-> recs[id].windows[k].start, end |-> recs[id].windows[k].end]
  <2>1. PICK id \in DOMAIN recs : w \in Of(id)
    BY <1>1
  <2>2. PICK v \in ToSet(recs[id].windows) : w = [id |-> id, start |-> v.start, end |-> v.end]
    BY <2>1
  <2>3. PICK k \in DOMAIN recs[id].windows : v = recs[id].windows[k]
    BY <2>2 DEF ToSet
  <2> QED
    BY <2>2, <2>3
<1>4. ASSUME NEW w \in RunWindows(recs)
      PROVE  /\ w.start \in Nat /\ w.end \in Nat /\ w.id \in DOMAIN recs
             /\ \E k \in DOMAIN recs[w.id].windows :
                  w.start = recs[w.id].windows[k].start /\ w.end = recs[w.id].windows[k].end
  <2>1. PICK id \in DOMAIN recs :
          \E k \in DOMAIN recs[id].windows :
            w = [id |-> id, start |-> recs[id].windows[k].start, end |-> recs[id].windows[k].end]
    BY <1>3
  <2>2. PICK k \in DOMAIN recs[id].windows :
          w = [id |-> id, start |-> recs[id].windows[k].start, end |-> recs[id].windows[k].end]
    BY <2>1
  <2>3. w.id = id /\ w.start = recs[id].windows[k].start /\ w.end = recs[id].windows[k].end
    BY <2>2
  <2> QED
    BY <1>2, <2>3
<1>5. ASSUME NEW id \in DOMAIN recs, NEW k \in DOMAIN recs[id].windows
      PROVE  [id |-> id, start |-> recs[id].windows[k].start, end |-> recs[id].windows[k].end] \in RunWindows(recs)
  <2>1. [id |-> id, start |-> recs[id].windows[k].start, end |-> recs[id].windows[k].end] \in Of(id)
    BY <1>2
  <2> QED
    BY <1>1, <2>1
<1> QED
  BY <1>4, <1>5

(* After each sample the sweep has what SweptTo says, by induction. *)
LEMMA SweepKeeps ==
  ASSUME NEW recs, Traced(recs), NEW times \in Seq(Nat),
         \A i, j \in DOMAIN times : i < j => times[i] <= times[j],
         NEW f, IsSweep(f, recs, times, Len(times))
  PROVE  \A i \in DOMAIN times : SweptTo(f[i], RunWindows(recs), times[i])
<1> DEFINE L == Len(times)
           W == RunWindows(recs)
           Bad == {i \in DOMAIN times : ~ SweptTo(f[i], W, times[i])}
<1>1. L \in Nat /\ DOMAIN times = 1 .. L /\ \A i \in DOMAIN times : times[i] \in Nat
  BY LenProperties, ElementOfSeq
<1>2. \A w \in W : w.start \in Nat /\ w.end \in Nat
  BY WindowsAre
<1> HIDE DEF W
<1>3. \A i \in 0 .. L : f[i] = IF i = 0 THEN [taken |-> {}, active |-> {}] ELSE Passed(W, f[i - 1], times[i])
  BY DEF IsSweep, W
<1> SUFFICES ASSUME Bad # {} PROVE FALSE
  BY DEF W
<1>4. Bad \in SUBSET Nat
  BY <1>1
<1>5. PICK i \in Bad : \A k \in Bad : i <= k
  BY <1>4, LeastNatural
<1>6. i \in DOMAIN times /\ ~ SweptTo(f[i], W, times[i])
  OBVIOUS
<1> HIDE DEF L
<1>7. i \in 0 .. L /\ i # 0 /\ i - 1 \in 0 .. L /\ times[i] \in Nat /\ ~(i <= i - 1) /\ i - 1 < i
  BY <1>1, <1>6
<1>8. f[i] = Passed(W, f[i - 1], times[i])
  BY <1>3, <1>7
<1>9. \/ f[i - 1] = [taken |-> {}, active |-> {}]
      \/ \E s \in Nat : s <= times[i] /\ SweptTo(f[i - 1], W, s)
  <2>1. CASE i = 1
    BY <1>3, <1>7, <2>1
  <2>2. CASE i # 1
    <3>1. i - 1 \in DOMAIN times
      BY <1>1, <1>6, <2>2
    <3>2. SweptTo(f[i - 1], W, times[i - 1])
      BY <1>5, <1>7, <3>1
    <3>3. times[i - 1] \in Nat /\ times[i - 1] <= times[i]
      BY <1>1, <1>6, <1>7, <3>1
    <3> QED
      BY <3>2, <3>3
  <2> QED
    BY <2>1, <2>2
<1>10. SweptTo(Passed(W, f[i - 1], times[i]), W, times[i])
  BY <1>2, <1>7, <1>9, PassedIs
<1> QED
  BY <1>6, <1>8, <1>10

(* The operations that the sweep finds running are those that run. *)
LEMMA RunningIs ==
  ASSUME NEW recs, Traced(recs), NEW times \in Seq(Nat),
         \A i, j \in DOMAIN times : i < j => times[i] <= times[j]
  PROVE  /\ DOMAIN Running(recs, times) = DOMAIN times
         /\ \A i \in DOMAIN times : Running(recs, times)[i] = OpenAt(recs, times[i])
<1> DEFINE f == CHOOSE f : IsSweep(f, recs, times, Len(times))
<1>1. Running(recs, times) = [i \in DOMAIN times |-> {w.id : w \in f[i].active}]
  BY DEF Running, IsSweep
<1>2. IsSweep(f, recs, times, Len(times))
  <2>1. Len(times) \in Nat
    BY LenProperties
  <2> QED
    BY <2>1, SweepExists
<1> HIDE DEF f
<1>3. ASSUME NEW i \in DOMAIN times
      PROVE  {w.id : w \in f[i].active} = OpenAt(recs, times[i])
  <2>1. f[i].active = {w \in RunWindows(recs) : w.start <= times[i] /\ times[i] <= w.end}
    BY <1>2, SweepKeeps DEF SweptTo
  <2>2. ASSUME NEW w \in f[i].active
        PROVE  w.id \in OpenAt(recs, times[i])
    <3>1. w \in RunWindows(recs) /\ w.start <= times[i] /\ times[i] <= w.end
      BY <2>1
    <3>2. w.id \in DOMAIN recs /\ RunsAt(recs, w.id, times[i])
      BY <3>1, WindowsAre DEF RunsAt
    <3> QED
      BY <3>2 DEF OpenAt
  <2>3. ASSUME NEW id \in OpenAt(recs, times[i])
        PROVE  \E w \in f[i].active : w.id = id
    <3>1. id \in DOMAIN recs /\ RunsAt(recs, id, times[i])
      BY DEF OpenAt
    <3>2. PICK k \in DOMAIN recs[id].windows :
            recs[id].windows[k].start <= times[i] /\ times[i] <= recs[id].windows[k].end
      BY <3>1 DEF RunsAt
    <3> DEFINE w == [id |-> id, start |-> recs[id].windows[k].start, end |-> recs[id].windows[k].end]
    <3>3. w \in RunWindows(recs)
      BY <3>1, WindowsAre
    <3>4. w.id = id /\ w.start <= times[i] /\ times[i] <= w.end
      BY <3>2
    <3> HIDE DEF w
    <3> QED
      BY <2>1, <3>3, <3>4
  <2> QED
    BY <2>2, <2>3
<1> QED
  BY <1>1, <1>3

(* Each sample goes to the innermost of the operations that run. *)
LEMMA OwnersHoldForAll ==
  ASSUME NEW in \in Traces
  PROVE  OwnersHold(in.records, in.times, Owners(in.records, in.times))
<1> DEFINE recs == in.records
           times == in.times
<1>1. /\ Traced(recs) /\ times \in Seq(Nat)
      /\ \A i, j \in DOMAIN times : i < j => times[i] <= times[j]
  BY TracesAre
<1> HIDE DEF recs, times
<1>2. ASSUME NEW i \in DOMAIN times, NEW x \in DOMAIN recs
      PROVE  Owners(recs, times)[i] = x <=> x \in Innermost(recs, times[i])
  <2>1. Running(recs, times)[i] = OpenAt(recs, times[i])
    BY <1>1, RunningIs
  <2>2. Owners(recs, times)[i] = ResolveWindow(recs, OpenAt(recs, times[i]))
    BY <2>1 DEF Owners
  <2>3. OpenAt(recs, times[i]) \in SUBSET DOMAIN recs
    BY DEF OpenAt
  <2> QED
    BY <1>1, <2>2, <2>3, ResolveIs DEF Innermost
<1>3. OwnersHold(recs, times, Owners(recs, times))
  BY <1>2 DEF OwnersHold
<1> QED
  BY <1>3 DEF recs, times

(* For any records that name a trigger before them or none, with run windows *)
(* that nest, overlap, repeat or end before they start, and any samples in   *)
(* order: a sample belongs to an operation exactly when that operation runs  *)
(* when the sample is taken and every other that runs then is one of its     *)
(* trigger ancestors (the sweep and resolveOverlappingWindow of              *)
(* cpu-attribution.ts).                                                      *)
THEOREM SamplesFindTheirOwnerForAll == OwnerSpec => []SamplesFindTheirOwner
<1> DEFINE IInv == topic = "owners" => input \in Traces
<1>1. OwnerInit => IInv
  BY DEF OwnerInit, Take
<1>2. IInv /\ [CarryOut]_vars => IInv'
  BY DEF CarryOut, vars
<1>3. IInv => SamplesFindTheirOwner
  <2> SUFFICES ASSUME IInv, After("owners")
               PROVE  OwnersHold(input.records, input.times, Owners(input.records, input.times))
    BY DEF SamplesFindTheirOwner
  <2>1. input \in Traces
    BY DEF After
  <2> QED
    BY <2>1, OwnersHoldForAll
<1> HIDE DEF IInv
<1> QED
  BY <1>1, <1>2, <1>3, PTL DEF OwnerSpec

(* For any records and any samples as above: the life of an operation is     *)
(* divided and each sample has its owner, together what the run checks of    *)
(* the time of async operations.                                             *)
THEOREM AsyncTimeIsKeptForAll == AsyncSpec => []AsyncTimeIsKept
<1> DEFINE IInv == /\ topic = "life" => input \in Lives
                   /\ topic = "owners" => input \in Traces
<1>1. AsyncInit => IInv
  BY DEF AsyncInit, LifeInit, OwnerInit, Take
<1>2. IInv /\ [CarryOut]_vars => IInv'
  BY DEF CarryOut, vars
<1>3. IInv => AsyncTimeIsKept
  <2> SUFFICES ASSUME IInv PROVE LifeIsDivided /\ SamplesFindTheirOwner
    BY DEF AsyncTimeIsKept
  <2>1. ASSUME After("life") PROVE /\ LifeDivided(input, WaitsOf(input))
                                   /\ MergeKept(input.record.windows, MergeWindows(input.record.windows))
    <3>1. input \in Lives
      BY <2>1 DEF After
    <3>2. input.record.windows \in Seq(Interval)
      BY <3>1, EndIs
    <3> QED
      BY <3>1, <3>2, LifeDividedForAll, MergeIsKept
  <2>2. ASSUME After("owners") PROVE OwnersHold(input.records, input.times, Owners(input.records, input.times))
    <3>1. input \in Traces
      BY <2>2 DEF After
    <3> QED
      BY <3>1, OwnersHoldForAll
  <2> QED
    BY <2>1, <2>2 DEF LifeIsDivided, SamplesFindTheirOwner
<1> HIDE DEF IInv
<1> QED
  BY <1>1, <1>2, <1>3, PTL DEF AsyncSpec

------------------------------------------------------------------------------
(* Two reports compared. What is at the places that were picked. *)
LEMMA PickedSet ==
  ASSUME NEW S, NEW s \in Seq(S), NEW I \in SUBSET DOMAIN s
  PROVE  /\ DOMAIN Picked(s, I) = 1 .. Cardinality(I)
         /\ \A k \in DOMAIN Picked(s, I) : \E i \in I : Picked(s, I)[k] = s[i]
         /\ \A i \in I : \E k \in DOMAIN Picked(s, I) : Picked(s, I)[k] = s[i]
<1> DEFINE r == Picked(s, I)
           n == Cardinality(I)
<1>1. r \in Seq(S) /\ Len(r) = n /\ n \in Nat
  BY PickedIs
<1>2. PICK p \in [1 .. n -> I] :
        /\ \A i \in I : \E k \in 1 .. n : p[k] = i
        /\ \A k, l \in 1 .. n : k < l => p[k] < p[l]
        /\ \A k \in 1 .. n : r[k] = s[p[k]]
  BY PickedIs
<1>3. DOMAIN r = 1 .. n
  BY <1>1, LenProperties
<1> HIDE DEF r, n
<1>4. \A k \in 1 .. n : p[k] \in I
  BY <1>2
<1>5. \A i \in I : \E k \in 1 .. n : r[k] = s[i]
  BY <1>2
<1> QED
  BY <1>2, <1>3, <1>4, <1>5 DEF r, n

(* The findings of cur that base lacks, has otherwise, or has the same. *)
AddedAt(base, cur)   == {i \in DOMAIN cur : ~HasId(base, cur[i].id)}
ChangedAt(base, cur) == {i \in DOMAIN cur : HasId(base, cur[i].id) /\ FindingChanged(ById(base, cur[i].id), cur[i])}
SameAt(base, cur)    == {i \in DOMAIN cur : HasId(base, cur[i].id) /\ ~FindingChanged(ById(base, cur[i].id), cur[i])}

(* What the diff of the findings is made of. *)
LEMMA FindingsDiffer ==
  ASSUME NEW base \in Seq(Finding), NEW cur \in Seq(Finding)
  PROVE  LET d == DiffFindings(base, cur)
         IN /\ d.added = Picked(cur, AddedAt(base, cur)) /\ d.removed = Picked(base, AddedAt(cur, base))
            /\ d.unchanged = Cardinality(SameAt(base, cur))
            /\ DOMAIN d.changed = 1 .. Cardinality(ChangedAt(base, cur)) /\ Len(d.changed) = Cardinality(ChangedAt(base, cur))
            /\ ToSet(d.changed) = {Change(ById(base, cur[i].id), cur[i]) : i \in ChangedAt(base, cur)}
<1> DEFINE C == ChangedAt(base, cur)
           r == Picked(cur, C)
           d == DiffFindings(base, cur)
           ch == [k \in DOMAIN r |-> Change(ById(base, r[k].id), r[k])]
<1>1. {i \in DOMAIN cur : HasId(base, cur[i].id) /\ FindingChanged(ById(base, cur[i].id), cur[i])} = C
  BY DEF ChangedAt
<1>2. d.added = Picked(cur, AddedAt(base, cur)) /\ d.removed = Picked(base, AddedAt(cur, base))
  BY DEF DiffFindings, Filtered, AddedAt
<1>3. d.unchanged = Cardinality(SameAt(base, cur))
  <2>1. d.unchanged = Cardinality({i \in DOMAIN cur : /\ HasId(base, cur[i].id)
                                     /\ ~(HasId(base, cur[i].id) /\ FindingChanged(ById(base, cur[i].id), cur[i]))})
    BY DEF DiffFindings, CountOf
  <2>2. {i \in DOMAIN cur : /\ HasId(base, cur[i].id)
                            /\ ~(HasId(base, cur[i].id) /\ FindingChanged(ById(base, cur[i].id), cur[i]))} = SameAt(base, cur)
    BY DEF SameAt
  <2> QED
    BY <2>1, <2>2
<1>4. d.changed = ch
  BY <1>1 DEF DiffFindings, Filtered, Mapped
<1>5. C \in SUBSET DOMAIN cur
  BY DEF ChangedAt
<1>6. Cardinality(C) \in Nat /\ DOMAIN r = 1 .. Cardinality(C)
  BY <1>5, PickedIs, PickedSet
<1> HIDE DEF C
<1>7. /\ \A k \in DOMAIN r : \E i \in C : r[k] = cur[i]
      /\ \A i \in C : \E k \in DOMAIN r : r[k] = cur[i]
  BY <1>5, PickedSet
<1> HIDE DEF r
<1>8. ToSet(ch) = {Change(ById(base, cur[i].id), cur[i]) : i \in C}
  <2>1. DOMAIN ch = DOMAIN r /\ \A k \in DOMAIN r : ch[k] = Change(ById(base, r[k].id), r[k])
    OBVIOUS
  <2>2. ToSet(ch) = {Change(ById(base, r[k].id), r[k]) : k \in DOMAIN r}
    BY <2>1 DEF ToSet
  <2>3. \A k \in DOMAIN r : \E i \in C : Change(ById(base, r[k].id), r[k]) = Change(ById(base, cur[i].id), cur[i])
    <3> SUFFICES ASSUME NEW k \in DOMAIN r
                 PROVE  \E i \in C : Change(ById(base, r[k].id), r[k]) = Change(ById(base, cur[i].id), cur[i])
      OBVIOUS
    <3>1. PICK i \in C : r[k] = cur[i]
      BY <1>7
    <3> QED
      BY <3>1
  <2>4. \A i \in C : \E k \in DOMAIN r : Change(ById(base, r[k].id), r[k]) = Change(ById(base, cur[i].id), cur[i])
    <3> SUFFICES ASSUME NEW i \in C
                 PROVE  \E k \in DOMAIN r : Change(ById(base, r[k].id), r[k]) = Change(ById(base, cur[i].id), cur[i])
      OBVIOUS
    <3>1. PICK k \in DOMAIN r : r[k] = cur[i]
      BY <1>7
    <3> QED
      BY <3>1
  <2>5. {Change(ById(base, r[k].id), r[k]) : k \in DOMAIN r} \subseteq {Change(ById(base, cur[i].id), cur[i]) : i \in C}
    BY <2>3
  <2>6. {Change(ById(base, cur[i].id), cur[i]) : i \in C} \subseteq {Change(ById(base, r[k].id), r[k]) : k \in DOMAIN r}
    BY <2>4
  <2> HIDE DEF ch
  <2> QED
    BY <2>2, <2>5, <2>6
<1>9. Len(ch) = Cardinality(C)
  <2>1. DOMAIN ch = 1 .. Cardinality(C)
    BY <1>6
  <2> QED
    BY <1>6, <2>1
<1> HIDE DEF d, ch
<1>10. DOMAIN d.changed = 1 .. Cardinality(C) /\ Len(d.changed) = Cardinality(C)
       /\ ToSet(d.changed) = {Change(ById(base, cur[i].id), cur[i]) : i \in C}
  BY <1>4, <1>6, <1>8, <1>9 DEF ch
<1> QED
  BY <1>2, <1>3, <1>10 DEF C, d

(* Every finding of the current report is counted once. *)
LEMMA EachIsCounted ==
  ASSUME NEW base \in Seq(Finding), NEW cur \in Seq(Finding)
  PROVE  LET d == DiffFindings(base, cur) IN Len(d.added) + Len(d.changed) + d.unchanged = Len(cur)
<1> DEFINE A == AddedAt(base, cur)
           C == ChangedAt(base, cur)
           U == SameAt(base, cur)
           d == DiffFindings(base, cur)
<1>1. A \in SUBSET DOMAIN cur /\ C \in SUBSET DOMAIN cur /\ U \in SUBSET DOMAIN cur
  BY DEF AddedAt, ChangedAt, SameAt
<1>2. A \cup (C \cup U) = DOMAIN cur /\ A \cap (C \cup U) = {} /\ C \cap U = {}
  BY DEF AddedAt, ChangedAt, SameAt
<1>3. d.added = Picked(cur, A) /\ Len(d.changed) = Cardinality(C) /\ d.unchanged = Cardinality(U)
  BY FindingsDiffer
<1> HIDE DEF A, C, U, d
<1>4. /\ IsFiniteSet(A) /\ Cardinality(A) \in Nat /\ Len(Picked(cur, A)) = Cardinality(A)
      /\ IsFiniteSet(C) /\ Cardinality(C) \in Nat
      /\ IsFiniteSet(U) /\ Cardinality(U) \in Nat
  BY <1>1, PickedIs
<1>5. Cardinality({}) = 0
  BY FS_EmptySet
<1>6. IsFiniteSet(C \cup U) /\ Cardinality(C \cup U) = Cardinality(C) + Cardinality(U)
  <2>1. IsFiniteSet(C \cup U) /\ Cardinality(C \cup U) = Cardinality(C) + Cardinality(U) - Cardinality(C \cap U)
    BY <1>4, FS_Union
  <2>2. Cardinality(C \cap U) = 0
    BY <1>2, <1>5
  <2> QED
    BY <1>4, <2>1, <2>2
<1>7. Cardinality(DOMAIN cur) = Cardinality(A) + Cardinality(C \cup U)
  <2> DEFINE B == C \cup U
  <2>1. IsFiniteSet(B) /\ A \cup B = DOMAIN cur /\ A \cap B = {}
    BY <1>2, <1>6
  <2>2. Cardinality(B) \in Nat
    BY <2>1, FS_CardinalityType
  <2> HIDE DEF B
  <2>3. Cardinality(A \cup B) = Cardinality(A) + Cardinality(B) - Cardinality(A \cap B)
    BY <1>4, <2>1, FS_Union
  <2>4. Cardinality(A \cap B) = 0
    BY <1>5, <2>1
  <2>5. Cardinality(DOMAIN cur) = Cardinality(A) + Cardinality(B)
    BY <1>4, <2>1, <2>2, <2>3, <2>4
  <2> QED
    BY <2>5 DEF B
<1>8. Cardinality(DOMAIN cur) = Len(cur)
  <2>1. DOMAIN cur = 1 .. Len(cur) /\ Len(cur) \in Nat
    BY LenProperties
  <2> QED
    BY <2>1, UpTo
<1> QED
  BY <1>3, <1>4, <1>6, <1>7, <1>8 DEF d

(* Of distinct ids, a finding is the one of its id. *)
LEMMA OneOfAnId ==
  ASSUME NEW fs \in Seq(Finding), Distinct(fs), NEW j \in DOMAIN fs
  PROVE  HasId(fs, fs[j].id) /\ ById(fs, fs[j].id) = fs[j]
<1>1. WithId(fs, fs[j].id) = {j}
  BY DEF WithId, Distinct
<1>2. j \in Int
  BY LenProperties
<1>3. Max({j}) = j
  BY <1>2 DEF Max
<1> QED
  BY <1>1, <1>3 DEF HasId, ById

(* A change is one both ways, and turns the other way round. *)
LEMMA ChangesTurn ==
  ASSUME NEW a \in Finding, NEW b \in Finding
  PROVE  /\ FindingChanged(a, b) <=> FindingChanged(b, a)
         /\ ~FindingChanged(a, a)
         /\ SeverityDirection(a.severity, a.severity) = "same"
         /\ SeverityDirection(a.severity, b.severity) = Opposite[SeverityDirection(b.severity, a.severity)]
         /\ SeverityDirection(a.severity, b.severity) = "worse" <=> SeverityRank[b.severity] > SeverityRank[a.severity]
         /\ SeverityDirection(a.severity, b.severity) = "worse" => FindingChanged(a, b)
<1>1. a.severity \in {"info", "warning", "critical"} /\ b.severity \in {"info", "warning", "critical"}
  BY DEF Finding
<1>2. SeverityRank["info"] = 0 /\ SeverityRank["warning"] = 1 /\ SeverityRank["critical"] = 2
  BY DEF SeverityRank
<1>3. Opposite["worse"] = "better" /\ Opposite["better"] = "worse" /\ Opposite["same"] = "same"
  BY DEF Opposite
<1>4. SeverityRank[a.severity] \in Int /\ SeverityRank[b.severity] \in Int
  BY <1>1, <1>2
<1>5. FindingChanged(a, b) <=> FindingChanged(b, a)
  BY DEF FindingChanged
<1>6. ~FindingChanged(a, a)
  BY DEF FindingChanged
<1>7. SeverityDirection(a.severity, a.severity) = "same"
  BY <1>4 DEF SeverityDirection
<1>8. SeverityDirection(a.severity, b.severity) = Opposite[SeverityDirection(b.severity, a.severity)]
  BY <1>3, <1>4 DEF SeverityDirection
<1>9. SeverityDirection(a.severity, b.severity) = "worse" <=> SeverityRank[b.severity] > SeverityRank[a.severity]
  BY <1>4 DEF SeverityDirection
<1>10. SeverityDirection(a.severity, b.severity) = "worse" => FindingChanged(a, b)
  BY <1>4, <1>9 DEF FindingChanged
<1> QED
  BY <1>5, <1>6, <1>7, <1>8, <1>9, <1>10

(* With distinct ids, a finding of one report meets the one of its id. *)
LEMMA MetByOne ==
  ASSUME NEW base \in Seq(Finding), NEW cur \in Seq(Finding), Distinct(base), NEW i \in DOMAIN cur
  PROVE  /\ HasId(base, cur[i].id) <=> \E j \in DOMAIN base : base[j].id = cur[i].id
         /\ \A j \in DOMAIN base : base[j].id = cur[i].id => ById(base, cur[i].id) = base[j]
         /\ i \in ChangedAt(base, cur) <=> \E j \in DOMAIN base : base[j].id = cur[i].id /\ FindingChanged(base[j], cur[i])
         /\ i \in SameAt(base, cur) <=> \E j \in DOMAIN base : base[j].id = cur[i].id /\ ~FindingChanged(base[j], cur[i])
<1>1. HasId(base, cur[i].id) <=> \E j \in DOMAIN base : base[j].id = cur[i].id
  BY DEF HasId, WithId
<1>2. \A j \in DOMAIN base : base[j].id = cur[i].id => ById(base, cur[i].id) = base[j]
  <2> SUFFICES ASSUME NEW j \in DOMAIN base, base[j].id = cur[i].id PROVE ById(base, cur[i].id) = base[j]
    OBVIOUS
  <2>1. ById(base, base[j].id) = base[j]
    BY OneOfAnId
  <2> QED
    BY <2>1
<1>3. i \in ChangedAt(base, cur) <=> HasId(base, cur[i].id) /\ FindingChanged(ById(base, cur[i].id), cur[i])
  BY DEF ChangedAt
<1>4. i \in SameAt(base, cur) <=> HasId(base, cur[i].id) /\ ~FindingChanged(ById(base, cur[i].id), cur[i])
  BY DEF SameAt
<1> QED
  BY <1>1, <1>2, <1>3, <1>4

(* What has not changed has not changed from either side. *)
LEMMA SameFromBoth ==
  ASSUME NEW base \in Seq(Finding), NEW cur \in Seq(Finding), Distinct(base), Distinct(cur)
  PROVE  Cardinality(SameAt(cur, base)) = Cardinality(SameAt(base, cur))
<1> DEFINE U == SameAt(base, cur)
           V == SameAt(cur, base)
           twin == [i \in U |-> CHOOSE j \in DOMAIN base : base[j].id = cur[i].id]
<1>1. U \in SUBSET DOMAIN cur /\ V \in SUBSET DOMAIN base
  BY DEF SameAt
<1>2. \A i \in DOMAIN cur : cur[i] \in Finding
  BY ElementOfSeq, LenProperties
<1>3. \A j \in DOMAIN base : base[j] \in Finding
  BY ElementOfSeq, LenProperties
<1>4. \A i \in DOMAIN cur : i \in U <=> \E j \in DOMAIN base : base[j].id = cur[i].id /\ ~FindingChanged(base[j], cur[i])
  BY MetByOne
<1>5. \A j \in DOMAIN base : j \in V <=> \E i \in DOMAIN cur : cur[i].id = base[j].id /\ ~FindingChanged(cur[i], base[j])
  BY MetByOne
<1>6. \A i \in DOMAIN cur, j \in DOMAIN base : FindingChanged(base[j], cur[i]) <=> FindingChanged(cur[i], base[j])
  BY <1>2, <1>3, ChangesTurn
<1>7. IsFiniteSet(U)
  BY <1>1, PickedIs
<1> HIDE DEF U, V
<1>8. ASSUME NEW i \in U PROVE twin[i] \in V /\ base[twin[i]].id = cur[i].id
  <2>1. PICK j \in DOMAIN base : base[j].id = cur[i].id /\ ~FindingChanged(base[j], cur[i])
    BY <1>1, <1>4
  <2>2. twin[i] \in DOMAIN base /\ base[twin[i]].id = cur[i].id
    BY <2>1
  <2>3. twin[i] = j
    BY <2>1, <2>2 DEF Distinct
  <2> QED
    BY <1>1, <1>5, <1>6, <2>1, <2>3
<1>9. ASSUME NEW j \in V PROVE \E i \in U : twin[i] = j
  <2>1. PICK i \in DOMAIN cur : cur[i].id = base[j].id /\ ~FindingChanged(cur[i], base[j])
    BY <1>1, <1>5
  <2>2. i \in U
    BY <1>1, <1>4, <1>6, <2>1
  <2>3. twin[i] \in DOMAIN base /\ base[twin[i]].id = base[j].id
    BY <1>1, <1>8, <2>1, <2>2
  <2> QED
    BY <1>1, <2>2, <2>3 DEF Distinct
<1>10. \A a, b \in U : twin[a] = twin[b] => a = b
  <2> SUFFICES ASSUME NEW a \in U, NEW b \in U, twin[a] = twin[b] PROVE a = b
    OBVIOUS
  <2>1. cur[a].id = cur[b].id
    BY <1>8
  <2> QED
    BY <1>1, <2>1 DEF Distinct
<1> HIDE DEF twin
<1>11. twin \in [U -> V]
  <2>1. twin = [i \in U |-> twin[i]]
    BY DEF twin
  <2> QED
    BY <1>8, <2>1
<1>12. twin \in Bijection(U, V)
  BY <1>9, <1>10, <1>11 DEF Bijection, Injection, Surjection, IsInjective
<1>13. ExistsBijection(U, V)
  BY <1>12 DEF ExistsBijection
<1> QED
  BY <1>7, <1>13, FS_Bijection DEF U, V

(* What changed for the worse changed for the better from the other side. *)
LEMMA TurnsAre ==
  ASSUME NEW base \in Seq(Finding), NEW cur \in Seq(Finding), Distinct(base), NEW t
  PROVE  t \in Turns(DiffFindings(base, cur)) <=>
           \E i \in DOMAIN cur : \E j \in DOMAIN base :
              /\ base[j].id = cur[i].id /\ FindingChanged(base[j], cur[i])
              /\ t = <<cur[i].id, SeverityDirection(base[j].severity, cur[i].severity)>>
<1> DEFINE C == ChangedAt(base, cur)
           ch == DiffFindings(base, cur).changed
           T(i) == <<cur[i].id, SeverityDirection(ById(base, cur[i].id).severity, cur[i].severity)>>
<1>1. ToSet(ch) = {Change(ById(base, cur[i].id), cur[i]) : i \in C}
  BY FindingsDiffer
<1>2. \A i \in C : /\ Change(ById(base, cur[i].id), cur[i]).id = cur[i].id
                   /\ Change(ById(base, cur[i].id), cur[i]).direction
                        = SeverityDirection(ById(base, cur[i].id).severity, cur[i].severity)
  BY DEF Change
<1>3. C \in SUBSET DOMAIN cur
  BY DEF ChangedAt
<1>4. \A i \in DOMAIN cur :
        /\ \A j \in DOMAIN base : base[j].id = cur[i].id => ById(base, cur[i].id) = base[j]
        /\ i \in C <=> \E j \in DOMAIN base : base[j].id = cur[i].id /\ FindingChanged(base[j], cur[i])
  BY MetByOne
<1>5. t \in Turns(DiffFindings(base, cur)) <=> \E c \in ToSet(ch) : t = <<c.id, c.direction>>
  BY DEF Turns
<1> HIDE DEF C, ch
<1>6. (\E c \in ToSet(ch) : t = <<c.id, c.direction>>) <=> \E i \in C : t = T(i)
  <2>1. ASSUME NEW c \in ToSet(ch), t = <<c.id, c.direction>> PROVE \E i \in C : t = T(i)
    <3>1. PICK i \in C : c = Change(ById(base, cur[i].id), cur[i])
      BY <1>1
    <3>2. t = T(i)
      BY <1>2, <2>1, <3>1
    <3> QED
      BY <3>2
  <2>2. ASSUME NEW i \in C, t = T(i) PROVE \E c \in ToSet(ch) : t = <<c.id, c.direction>>
    <3> DEFINE c == Change(ById(base, cur[i].id), cur[i])
    <3>1. c \in ToSet(ch)
      BY <1>1
    <3>2. t = <<c.id, c.direction>>
      BY <1>2, <2>2
    <3> HIDE DEF c
    <3> QED
      BY <3>1, <3>2
  <2> QED
    BY <2>1, <2>2
<1>7. ASSUME NEW i \in C, t = T(i)
      PROVE  \E j \in DOMAIN base : /\ base[j].id = cur[i].id /\ FindingChanged(base[j], cur[i])
                                    /\ t = <<cur[i].id, SeverityDirection(base[j].severity, cur[i].severity)>>
  <2>1. PICK j \in DOMAIN base : base[j].id = cur[i].id /\ FindingChanged(base[j], cur[i])
    BY <1>3, <1>4
  <2>2. ById(base, cur[i].id) = base[j]
    BY <1>3, <1>4, <2>1
  <2> QED
    BY <1>7, <2>1, <2>2
<1>8. ASSUME NEW i \in DOMAIN cur, NEW j \in DOMAIN base, base[j].id = cur[i].id, FindingChanged(base[j], cur[i]),
             t = <<cur[i].id, SeverityDirection(base[j].severity, cur[i].severity)>>
      PROVE  i \in C /\ t = T(i)
  <2>1. ById(base, cur[i].id) = base[j] /\ i \in C
    BY <1>4, <1>8
  <2> QED
    BY <1>8, <2>1
<1> HIDE DEF T
<1> QED
  BY <1>3, <1>5, <1>6, <1>7, <1>8

LEMMA TurnsTurn ==
  ASSUME NEW base \in Seq(Finding), NEW cur \in Seq(Finding), Distinct(base), Distinct(cur)
  PROVE  Turns(DiffFindings(cur, base)) = {<<t[1], Opposite[t[2]]>> : t \in Turns(DiffFindings(base, cur))}
<1> DEFINE There == Turns(DiffFindings(base, cur))
           Back == Turns(DiffFindings(cur, base))
           Dir(a, b) == SeverityDirection(a.severity, b.severity)
<1>1. \A t : t \in There <=> \E i \in DOMAIN cur : \E j \in DOMAIN base :
              /\ base[j].id = cur[i].id /\ FindingChanged(base[j], cur[i])
              /\ t = <<cur[i].id, Dir(base[j], cur[i])>>
  BY TurnsAre
<1>2. \A t : t \in Back <=> \E j \in DOMAIN base : \E i \in DOMAIN cur :
              /\ cur[i].id = base[j].id /\ FindingChanged(cur[i], base[j])
              /\ t = <<base[j].id, Dir(cur[i], base[j])>>
  BY TurnsAre
<1>3. \A i \in DOMAIN cur, j \in DOMAIN base :
        /\ FindingChanged(base[j], cur[i]) <=> FindingChanged(cur[i], base[j])
        /\ Dir(cur[i], base[j]) = Opposite[Dir(base[j], cur[i])]
  <2>1. \A i \in DOMAIN cur : cur[i] \in Finding
    BY ElementOfSeq, LenProperties
  <2>2. \A j \in DOMAIN base : base[j] \in Finding
    BY ElementOfSeq, LenProperties
  <2> QED
    BY <2>1, <2>2, ChangesTurn
<1> HIDE DEF There, Back, Dir
<1>4. ASSUME NEW t \in Back PROVE t \in {<<u[1], Opposite[u[2]]>> : u \in There}
  <2>1. PICK j \in DOMAIN base : \E i \in DOMAIN cur :
              /\ cur[i].id = base[j].id /\ FindingChanged(cur[i], base[j])
              /\ t = <<base[j].id, Dir(cur[i], base[j])>>
    BY <1>2
  <2>2. PICK i \in DOMAIN cur :
              /\ cur[i].id = base[j].id /\ FindingChanged(cur[i], base[j])
              /\ t = <<base[j].id, Dir(cur[i], base[j])>>
    BY <2>1
  <2> DEFINE u == <<cur[i].id, Dir(base[j], cur[i])>>
  <2>3. u \in There
    BY <1>1, <1>3, <2>2
  <2>4. t = <<u[1], Opposite[u[2]]>>
    BY <1>3, <2>2
  <2> HIDE DEF u
  <2> QED
    BY <2>3, <2>4
<1>5. ASSUME NEW u \in There PROVE <<u[1], Opposite[u[2]]>> \in Back
  <2>1. PICK i \in DOMAIN cur : \E j \in DOMAIN base :
              /\ base[j].id = cur[i].id /\ FindingChanged(base[j], cur[i])
              /\ u = <<cur[i].id, Dir(base[j], cur[i])>>
    BY <1>1
  <2>2. PICK j \in DOMAIN base :
              /\ base[j].id = cur[i].id /\ FindingChanged(base[j], cur[i])
              /\ u = <<cur[i].id, Dir(base[j], cur[i])>>
    BY <2>1
  <2>3. <<u[1], Opposite[u[2]]>> = <<base[j].id, Dir(cur[i], base[j])>>
    BY <1>3, <2>2
  <2> QED
    BY <1>2, <1>3, <2>2, <2>3
<1> QED
  BY <1>4, <1>5 DEF There, Back

(* A report has regressed if a finding is new and no mere information, or *)
(* more severe than it was.                                                *)
LEMMA RegressedIs ==
  ASSUME NEW base \in Seq(Finding), NEW cur \in Seq(Finding), Distinct(base)
  PROVE  LET d == DiffFindings(base, cur)
         IN (AnyOf(d.added, LAMBDA f : f.severity # "info") \/ AnyOf(d.changed, LAMBDA c : c.direction = "worse"))
              <=> \E f \in ToSet(cur) : Worse(f, base) /\ ~(New(f, base) /\ f.severity = "info")
<1> DEFINE A == AddedAt(base, cur)
           C == ChangedAt(base, cur)
           d == DiffFindings(base, cur)
           Dir(a, b) == SeverityDirection(a.severity, b.severity)
<1>1. d.added = Picked(cur, A) /\ ToSet(d.changed) = {Change(ById(base, cur[i].id), cur[i]) : i \in C}
  BY FindingsDiffer
<1>2. A \in SUBSET DOMAIN cur /\ C \in SUBSET DOMAIN cur
  BY DEF AddedAt, ChangedAt
<1>3. \A i \in DOMAIN cur :
        /\ i \in A <=> ~\E j \in DOMAIN base : base[j].id = cur[i].id
        /\ i \in C <=> \E j \in DOMAIN base : base[j].id = cur[i].id /\ FindingChanged(base[j], cur[i])
        /\ \A j \in DOMAIN base : base[j].id = cur[i].id => ById(base, cur[i].id) = base[j]
  BY MetByOne DEF AddedAt
<1>4. (\A i \in DOMAIN cur : cur[i] \in Finding) /\ (\A j \in DOMAIN base : base[j] \in Finding)
  BY ElementOfSeq, LenProperties
<1>5. \A i \in DOMAIN cur, j \in DOMAIN base :
        /\ Dir(base[j], cur[i]) = "worse" <=> SeverityRank[cur[i].severity] > SeverityRank[base[j].severity]
        /\ Dir(base[j], cur[i]) = "worse" => FindingChanged(base[j], cur[i])
  BY <1>4, ChangesTurn
<1>6. \A j, k \in DOMAIN base : base[j].id = base[k].id => j = k
  BY DEF Distinct
<1>7. \A f : /\ Worse(f, base) <=> \A j \in DOMAIN base : base[j].id = f.id => SeverityRank[f.severity] > SeverityRank[base[j].severity]
             /\ New(f, base) <=> \A j \in DOMAIN base : base[j].id # f.id
  BY DEF Worse, New, ToSet
<1>8. AnyOf(d.added, LAMBDA f : f.severity # "info") <=> \E i \in A : cur[i].severity # "info"
  <2> DEFINE r == Picked(cur, A)
  <2> HIDE DEF A
  <2>1. (\A k \in DOMAIN r : \E i \in A : r[k] = cur[i]) /\ (\A i \in A : \E k \in DOMAIN r : r[k] = cur[i])
    BY <1>2, PickedSet
  <2>2. AnyOf(d.added, LAMBDA f : f.severity # "info") <=> \E k \in DOMAIN r : r[k].severity # "info"
    BY <1>1 DEF AnyOf
  <2> HIDE DEF r, d
  <2> QED
    BY <2>1, <2>2
<1>9. AnyOf(d.changed, LAMBDA c : c.direction = "worse")
        <=> \E i \in C : Dir(ById(base, cur[i].id), cur[i]) = "worse"
  <2>1. AnyOf(d.changed, LAMBDA c : c.direction = "worse") <=> \E c \in ToSet(d.changed) : c.direction = "worse"
    BY DEF AnyOf, ToSet
  <2>2. \A i \in C : Change(ById(base, cur[i].id), cur[i]).direction = Dir(ById(base, cur[i].id), cur[i])
    BY DEF Change
  <2> HIDE DEF d, C, Dir
  <2> QED
    BY <1>1, <2>1, <2>2
<1> HIDE DEF A, C, d, Dir
<1>10. ASSUME NEW i \in A, cur[i].severity # "info"
       PROVE  Worse(cur[i], base) /\ ~(New(cur[i], base) /\ cur[i].severity = "info")
  BY <1>2, <1>3, <1>7, <1>10
<1>11. ASSUME NEW i \in C, Dir(ById(base, cur[i].id), cur[i]) = "worse"
       PROVE  Worse(cur[i], base) /\ ~(New(cur[i], base) /\ cur[i].severity = "info")
  <2>1. PICK j \in DOMAIN base : base[j].id = cur[i].id
    BY <1>2, <1>3
  <2>2. SeverityRank[cur[i].severity] > SeverityRank[base[j].severity]
    BY <1>2, <1>3, <1>5, <1>11, <2>1
  <2>3. \A k \in DOMAIN base : base[k].id = cur[i].id => k = j
    BY <1>6, <2>1
  <2> QED
    BY <1>7, <2>1, <2>2, <2>3
<1>12. ASSUME NEW i \in DOMAIN cur, Worse(cur[i], base), ~(New(cur[i], base) /\ cur[i].severity = "info")
       PROVE  \/ i \in A /\ cur[i].severity # "info"
              \/ i \in C /\ Dir(ById(base, cur[i].id), cur[i]) = "worse"
  <2>1. CASE New(cur[i], base)
    BY <1>3, <1>7, <1>12, <2>1
  <2>2. CASE ~New(cur[i], base)
    <3>1. PICK j \in DOMAIN base : base[j].id = cur[i].id
      BY <1>7, <2>2
    <3>2. SeverityRank[cur[i].severity] > SeverityRank[base[j].severity]
      BY <1>7, <1>12, <3>1
    <3>3. Dir(base[j], cur[i]) = "worse" /\ FindingChanged(base[j], cur[i])
      BY <1>5, <3>2
    <3> QED
      BY <1>3, <3>1, <3>3
  <2> QED
    BY <2>1, <2>2
<1>13. (\E f \in ToSet(cur) : Worse(f, base) /\ ~(New(f, base) /\ f.severity = "info"))
         <=> \E i \in DOMAIN cur : Worse(cur[i], base) /\ ~(New(cur[i], base) /\ cur[i].severity = "info")
  BY DEF ToSet
<1>14. (\E i \in DOMAIN cur : Worse(cur[i], base) /\ ~(New(cur[i], base) /\ cur[i].severity = "info"))
         <=> \/ \E i \in A : cur[i].severity # "info"
             \/ \E i \in C : Dir(ById(base, cur[i].id), cur[i]) = "worse"
  BY <1>2, <1>10, <1>11, <1>12
<1> QED
  BY <1>8, <1>9, <1>13, <1>14 DEF d

(* A report differs in nothing from itself. *)
LEMMA NothingToItself ==
  ASSUME NEW cur \in Seq(Finding), Distinct(cur)
  PROVE  /\ AddedAt(cur, cur) = {} /\ ChangedAt(cur, cur) = {} /\ Cardinality(SameAt(cur, cur)) = Len(cur)
         /\ ~\E f \in ToSet(cur) : Worse(f, cur) /\ ~(New(f, cur) /\ f.severity = "info")
<1>1. \A i \in DOMAIN cur : HasId(cur, cur[i].id) /\ ById(cur, cur[i].id) = cur[i]
  BY OneOfAnId
<1>2. \A i \in DOMAIN cur : cur[i] \in Finding
  BY ElementOfSeq, LenProperties
<1>3. \A i \in DOMAIN cur : ~FindingChanged(cur[i], cur[i])
  BY <1>2, ChangesTurn
<1>4. AddedAt(cur, cur) = {} /\ ChangedAt(cur, cur) = {} /\ SameAt(cur, cur) = DOMAIN cur
  BY <1>1, <1>3 DEF AddedAt, ChangedAt, SameAt
<1>5. Cardinality(DOMAIN cur) = Len(cur)
  <2>1. DOMAIN cur = 1 .. Len(cur) /\ Len(cur) \in Nat
    BY LenProperties
  <2> QED
    BY <2>1, UpTo
<1>6. ASSUME NEW f \in ToSet(cur), Worse(f, cur) PROVE FALSE
  <2>1. PICK i \in DOMAIN cur : f = cur[i]
    BY DEF ToSet
  <2>2. SeverityRank[f.severity] > SeverityRank[f.severity]
    BY <1>6 DEF Worse
  <2>3. f.severity \in {"info", "warning", "critical"}
    BY <1>2, <2>1 DEF Finding
  <2>4. SeverityRank[f.severity] \in Int
    BY <2>3 DEF SeverityRank
  <2> QED
    BY <2>2, <2>4
<1> QED
  BY <1>4, <1>5, <1>6

------------------------------------------------------------------------------
(* The figures of two reports. A list of figures whose rise is good or bad. *)
IsFigureList(F, figures) == figures \in Seq(F) /\ \A f \in F : f.worseWhenHigher \in BOOLEAN

(* The figures of a kind that both reports have and of which one knows the value. *)
KnownAt(kind, figures, a, b) ==
  {i \in DOMAIN figures : a[kind][figures[i].name] # Unknown \/ b[kind][figures[i].name] # Unknown}

IsDelta(kind, figures, a, b, x) ==
  /\ kind \in DOMAIN a \cap DOMAIN b
  /\ \E i \in KnownAt(kind, figures, a, b) :
       x = ScalarDelta(figures[i], a[kind][figures[i].name], b[kind][figures[i].name])

LEMMA DeltasAre ==
  ASSUME NEW kind, NEW F, NEW figures, IsFigureList(F, figures), NEW a, NEW b
  PROVE  LET d == KindDeltas(kind, figures, a, b)
         IN d \in Seq(ToSet(d)) /\ \A x : x \in ToSet(d) <=> IsDelta(kind, figures, a, b, x)
<1> DEFINE d == KindDeltas(kind, figures, a, b)
<1>1. CASE kind \notin DOMAIN a \cap DOMAIN b
  <2>1. d = <<>>
    BY <1>1 DEF KindDeltas
  <2>2. DOMAIN d = {} /\ d \in Seq(ToSet(d))
    BY <2>1
  <2>3. ToSet(d) = {}
    BY <2>2 DEF ToSet
  <2>4. \A x : ~IsDelta(kind, figures, a, b, x)
    BY <1>1 DEF IsDelta
  <2> HIDE DEF d
  <2>5. d \in Seq(ToSet(d)) /\ \A x : x \in ToSet(d) <=> IsDelta(kind, figures, a, b, x)
    BY <2>2, <2>3, <2>4
  <2> QED
    BY <2>5 DEF d
<1>2. CASE kind \in DOMAIN a \cap DOMAIN b
  <2> DEFINE K == KnownAt(kind, figures, a, b)
             r == Picked(figures, K)
             D(f) == ScalarDelta(f, a[kind][f.name], b[kind][f.name])
  <2>1. d = [k \in DOMAIN r |-> D(r[k])]
    BY <1>2 DEF KindDeltas, Mapped, Filtered, KnownAt
  <2>2. K \in SUBSET DOMAIN figures /\ figures \in Seq(F)
    BY DEF KnownAt, IsFigureList
  <2> HIDE DEF K, D
  <2>3. /\ DOMAIN r = 1 .. Cardinality(K) /\ Cardinality(K) \in Nat
        /\ \A k \in DOMAIN r : \E i \in K : r[k] = figures[i]
        /\ \A i \in K : \E k \in DOMAIN r : r[k] = figures[i]
    BY <2>2, PickedIs, PickedSet
  <2> HIDE DEF r, d
  <2>4. DOMAIN d = 1 .. Cardinality(K) /\ \A k \in DOMAIN r : d[k] = D(r[k])
    BY <2>1, <2>3
  <2>5. d \in [1 .. Cardinality(K) -> ToSet(d)]
    BY <2>1, <2>4 DEF ToSet
  <2>6. d \in Seq(ToSet(d))
    BY <2>3, <2>5
  <2>7. \A x : x \in ToSet(d) <=> \E k \in DOMAIN r : x = D(r[k])
    BY <2>3, <2>4 DEF ToSet
  <2>8. \A x : x \in ToSet(d) <=> \E i \in K : x = D(figures[i])
    BY <2>3, <2>7
  <2>9. \A x : IsDelta(kind, figures, a, b, x) <=> \E i \in K : x = D(figures[i])
    BY <1>2 DEF IsDelta, K, D
  <2> QED
    BY <2>6, <2>8, <2>9 DEF d
<1> QED
  BY <1>1, <1>2

(* A figure moves the other way round between the reports the other way round. *)
LEMMA DeltaTurns ==
  ASSUME NEW f, f.worseWhenHigher \in BOOLEAN, NEW from \in Int, NEW to \in Int
  PROVE  /\ ScalarDelta(f, from, to).name = f.name
         /\ ScalarDelta(f, to, from).direction = Opposite[ScalarDelta(f, from, to).direction]
         /\ from = to => ScalarDelta(f, from, to).direction = "same"
<1>1. Opposite["worse"] = "better" /\ Opposite["better"] = "worse" /\ Opposite["same"] = "same"
  BY DEF Opposite
<1>2. ScalarDelta(f, from, to).direction =
        IF from = Unknown \/ to = Unknown \/ from = to THEN "same"
        ELSE IF (to > from) = f.worseWhenHigher THEN "worse" ELSE "better"
  BY DEF ScalarDelta
<1>3. ScalarDelta(f, to, from).direction =
        IF to = Unknown \/ from = Unknown \/ to = from THEN "same"
        ELSE IF (from > to) = f.worseWhenHigher THEN "worse" ELSE "better"
  BY DEF ScalarDelta
<1>4. ScalarDelta(f, from, to).name = f.name
  BY DEF ScalarDelta
<1>5. CASE f.worseWhenHigher = TRUE
  BY <1>1, <1>2, <1>3, <1>4, <1>5
<1>6. CASE f.worseWhenHigher = FALSE
  BY <1>1, <1>2, <1>3, <1>4, <1>6
<1> QED
  BY <1>5, <1>6

(* The figures that are compared, and that their values are numbers. *)
LEMMA FiguresAre ==
  /\ IsFigureList({CpuFigures[1], CpuFigures[2], CpuFigures[3]}, CpuFigures)
  /\ IsFigureList({MemoryFigures[1], MemoryFigures[2]}, MemoryFigures)
  /\ \A a \in Figures : "cpu" \in DOMAIN a => \A i \in DOMAIN CpuFigures : a["cpu"][CpuFigures[i].name] \in Int
  /\ \A a \in Figures : "memory" \in DOMAIN a => \A i \in DOMAIN MemoryFigures : a["memory"][MemoryFigures[i].name] \in Int
<1>1. IsFigureList({CpuFigures[1], CpuFigures[2], CpuFigures[3]}, CpuFigures)
  BY DEF IsFigureList, CpuFigures
<1>2. IsFigureList({MemoryFigures[1], MemoryFigures[2]}, MemoryFigures)
  BY DEF IsFigureList, MemoryFigures
<1>3. DOMAIN CpuFigures = 1 .. 3 /\ CpuFigures[1].name = "idle" /\ CpuFigures[2].name = "gc" /\ CpuFigures[3].name = "culprit"
  BY DEF CpuFigures
<1>4. DOMAIN MemoryFigures = 1 .. 2 /\ MemoryFigures[1].name = "rss" /\ MemoryFigures[2].name = "heapUsed"
  BY DEF MemoryFigures
<1>5. ASSUME NEW a \in Figures, "cpu" \in DOMAIN a
      PROVE  a["cpu"]["idle"] \in Int /\ a["cpu"]["gc"] \in Int /\ a["cpu"]["culprit"] \in Int
  BY <1>5 DEF Figures
<1>6. ASSUME NEW a \in Figures, "memory" \in DOMAIN a
      PROVE  a["memory"]["rss"] \in Int /\ a["memory"]["heapUsed"] \in Int
  BY <1>6 DEF Figures
<1>7. ASSUME NEW a \in Figures, "cpu" \in DOMAIN a, NEW i \in DOMAIN CpuFigures
      PROVE  a["cpu"][CpuFigures[i].name] \in Int
  <2>1. i = 1 \/ i = 2 \/ i = 3
    BY <1>3
  <2> QED
    BY <1>3, <1>5, <1>7, <2>1
<1>8. ASSUME NEW a \in Figures, "memory" \in DOMAIN a, NEW i \in DOMAIN MemoryFigures
      PROVE  a["memory"][MemoryFigures[i].name] \in Int
  <2>1. i = 1 \/ i = 2
    BY <1>4
  <2> QED
    BY <1>4, <1>6, <1>8, <2>1
<1> QED
  BY <1>1, <1>2, <1>7, <1>8

(* The same for the figures of one kind. *)
LEMMA KindTurns ==
  ASSUME NEW kind, NEW F, NEW figures, IsFigureList(F, figures), NEW a, NEW b,
         kind \in DOMAIN a => \A i \in DOMAIN figures : a[kind][figures[i].name] \in Int,
         kind \in DOMAIN b => \A i \in DOMAIN figures : b[kind][figures[i].name] \in Int,
         NEW x, IsDelta(kind, figures, a, b, x)
  PROVE  /\ \E y : IsDelta(kind, figures, b, a, y) /\ y.name = x.name /\ y.direction = Opposite[x.direction]
                                                   /\ x.direction = Opposite[y.direction]
         /\ a = b => x.direction = "same"
<1>1. PICK i \in KnownAt(kind, figures, a, b) :
         x = ScalarDelta(figures[i], a[kind][figures[i].name], b[kind][figures[i].name])
  BY DEF IsDelta
<1>2. i \in DOMAIN figures /\ kind \in DOMAIN a /\ kind \in DOMAIN b
  BY DEF KnownAt, IsDelta
<1> DEFINE f == figures[i]
           from == a[kind][f.name]
           to == b[kind][f.name]
           y == ScalarDelta(f, to, from)
<1>3. from \in Int /\ to \in Int /\ f.worseWhenHigher \in BOOLEAN
  <2>1. figures \in Seq(F) /\ \A g \in F : g.worseWhenHigher \in BOOLEAN
    BY DEF IsFigureList
  <2>2. f \in F
    BY <1>2, <2>1, ElementOfSeq, LenProperties
  <2> QED
    BY <1>2, <2>1, <2>2
<1>4. i \in KnownAt(kind, figures, b, a)
  BY <1>2 DEF KnownAt
<1>5. IsDelta(kind, figures, b, a, y)
  BY <1>2, <1>4 DEF IsDelta
<1> HIDE DEF f, from, to
<1>6. /\ ScalarDelta(f, from, to).name = f.name /\ ScalarDelta(f, to, from).name = f.name
      /\ ScalarDelta(f, to, from).direction = Opposite[ScalarDelta(f, from, to).direction]
      /\ ScalarDelta(f, from, to).direction = Opposite[ScalarDelta(f, to, from).direction]
      /\ from = to => ScalarDelta(f, from, to).direction = "same"
  BY <1>3, DeltaTurns
<1>7. x = ScalarDelta(f, from, to)
  BY <1>1 DEF f, from, to
<1>8. a = b => from = to
  BY DEF from, to
<1>9. y.name = x.name /\ y.direction = Opposite[x.direction] /\ x.direction = Opposite[y.direction]
  BY <1>6, <1>7
<1> HIDE DEF y
<1> QED
  BY <1>5, <1>6, <1>7, <1>8, <1>9

(* Every compared figure, of either kind. *)
Compared(a, b, x) == IsDelta("cpu", CpuFigures, a, b, x) \/ IsDelta("memory", MemoryFigures, a, b, x)

LEMMA ComparedAre ==
  ASSUME NEW a \in Figures, NEW b \in Figures, NEW x
  PROVE  x \in ToSet(DiffScalars(a, b)) <=> Compared(a, b, x)
<1> DEFINE d == KindDeltas("cpu", CpuFigures, a, b)
           e == KindDeltas("memory", MemoryFigures, a, b)
           S == ToSet(d) \cup ToSet(e)
<1>1. d \in Seq(ToSet(d)) /\ (x \in ToSet(d) <=> IsDelta("cpu", CpuFigures, a, b, x))
  BY FiguresAre, DeltasAre
<1>2. e \in Seq(ToSet(e)) /\ (x \in ToSet(e) <=> IsDelta("memory", MemoryFigures, a, b, x))
  BY FiguresAre, DeltasAre
<1>3. DiffScalars(a, b) = d \o e
  BY DEF DiffScalars
<1> HIDE DEF d, e
<1>4. d \in Seq(S) /\ e \in Seq(S)
  <2>1. \A T : ToSet(d) \subseteq T => d \in Seq(T)
    BY <1>1
  <2>2. \A T : ToSet(e) \subseteq T => e \in Seq(T)
    BY <1>2
  <2> QED
    BY <2>1, <2>2
<1> HIDE DEF S
<1>5. ToSet(d \o e) = ToSet(d) \cup ToSet(e)
  BY <1>4, SetOfConcat
<1> QED
  BY <1>1, <1>2, <1>3, <1>5 DEF Compared

LEMMA ComparedTurn ==
  ASSUME NEW a \in Figures, NEW b \in Figures, NEW x, Compared(a, b, x)
  PROVE  /\ \E y : Compared(b, a, y) /\ y.name = x.name /\ y.direction = Opposite[x.direction]
                                     /\ x.direction = Opposite[y.direction]
         /\ a = b => x.direction = "same"
<1>1. CASE IsDelta("cpu", CpuFigures, a, b, x)
  <2>1. /\ "cpu" \in DOMAIN a => \A i \in DOMAIN CpuFigures : a["cpu"][CpuFigures[i].name] \in Int
        /\ "cpu" \in DOMAIN b => \A i \in DOMAIN CpuFigures : b["cpu"][CpuFigures[i].name] \in Int
    BY FiguresAre
  <2>2. /\ \E y : IsDelta("cpu", CpuFigures, b, a, y) /\ y.name = x.name /\ y.direction = Opposite[x.direction]
                                                      /\ x.direction = Opposite[y.direction]
        /\ a = b => x.direction = "same"
    BY <1>1, <2>1, FiguresAre, KindTurns
  <2> QED
    BY <2>2 DEF Compared
<1>2. CASE IsDelta("memory", MemoryFigures, a, b, x)
  <2>1. /\ "memory" \in DOMAIN a => \A i \in DOMAIN MemoryFigures : a["memory"][MemoryFigures[i].name] \in Int
        /\ "memory" \in DOMAIN b => \A i \in DOMAIN MemoryFigures : b["memory"][MemoryFigures[i].name] \in Int
    BY FiguresAre
  <2>2. /\ \E y : IsDelta("memory", MemoryFigures, b, a, y) /\ y.name = x.name /\ y.direction = Opposite[x.direction]
                                                            /\ x.direction = Opposite[y.direction]
        /\ a = b => x.direction = "same"
    BY <1>2, <2>1, FiguresAre, KindTurns
  <2> QED
    BY <2>2 DEF Compared
<1> QED
  BY <1>1, <1>2 DEF Compared

(* The figures between the reports the other way round move the other way. *)
LEMMA MovesTurn ==
  ASSUME NEW a \in Figures, NEW b \in Figures, NEW there, NEW back,
         there.scalars = DiffScalars(a, b), back.scalars = DiffScalars(b, a)
  PROVE  Moves(back) = {<<x[1], Opposite[x[2]]>> : x \in Moves(there)}
<1>1. \A m : m \in Moves(there) <=> \E x : Compared(a, b, x) /\ m = <<x.name, x.direction>>
  <2>1. \A x : x \in ToSet(there.scalars) <=> Compared(a, b, x)
    BY ComparedAre
  <2> QED
    BY <2>1 DEF Moves
<1>2. \A m : m \in Moves(back) <=> \E y : Compared(b, a, y) /\ m = <<y.name, y.direction>>
  <2>1. \A x : x \in ToSet(back.scalars) <=> Compared(b, a, x)
    BY ComparedAre
  <2> QED
    BY <2>1 DEF Moves
<1>3. ASSUME NEW m \in Moves(back) PROVE m \in {<<x[1], Opposite[x[2]]>> : x \in Moves(there)}
  <2>1. PICK y : Compared(b, a, y) /\ m = <<y.name, y.direction>>
    BY <1>2
  <2>2. PICK x : Compared(a, b, x) /\ x.name = y.name /\ y.direction = Opposite[x.direction]
    BY <2>1, ComparedTurn
  <2> DEFINE u == <<x.name, x.direction>>
  <2>3. u \in Moves(there) /\ m = <<u[1], Opposite[u[2]]>>
    BY <1>1, <2>1, <2>2
  <2> HIDE DEF u
  <2> QED
    BY <2>3
<1>4. ASSUME NEW m \in Moves(there) PROVE <<m[1], Opposite[m[2]]>> \in Moves(back)
  <2>1. PICK x : Compared(a, b, x) /\ m = <<x.name, x.direction>>
    BY <1>1
  <2>2. PICK y : Compared(b, a, y) /\ y.name = x.name /\ y.direction = Opposite[x.direction]
    BY <2>1, ComparedTurn
  <2>3. <<m[1], Opposite[m[2]]>> = <<y.name, y.direction>>
    BY <2>1, <2>2
  <2> QED
    BY <1>2, <2>2, <2>3
<1> QED
  BY <1>3, <1>4

(* What the diff of two reports keeps. *)
LEMMA DiffHoldsForAll ==
  ASSUME NEW in \in Comparisons
  PROVE  DiffHolds(in)
<1> DEFINE base == in.baseline
           cur == in.current
           old == [findings |-> base, figures |-> in.before]
           new == [findings |-> cur, figures |-> in.after]
           diff == DiffReports(old, new)
           back == DiffReports(new, old)
           same == DiffReports(new, new)
<1>1. base \in Seq(Finding) /\ cur \in Seq(Finding) /\ in.before \in Figures /\ in.after \in Figures
  BY ComparisonsAssumption DEF IsComparison
<1>2. /\ diff.findings = DiffFindings(base, cur) /\ back.findings = DiffFindings(cur, base)
      /\ same.findings = DiffFindings(cur, cur)
      /\ diff.scalars = DiffScalars(in.before, in.after) /\ back.scalars = DiffScalars(in.after, in.before)
      /\ same.scalars = DiffScalars(in.after, in.after)
  BY DEF DiffReports
<1>3. /\ diff.regressed = \/ AnyOf(DiffFindings(base, cur).added, LAMBDA f : f.severity # "info")
                          \/ AnyOf(DiffFindings(base, cur).changed, LAMBDA c : c.direction = "worse")
      /\ same.regressed = \/ AnyOf(DiffFindings(cur, cur).added, LAMBDA f : f.severity # "info")
                          \/ AnyOf(DiffFindings(cur, cur).changed, LAMBDA c : c.direction = "worse")
  BY DEF DiffReports
<1> HIDE DEF base, cur, diff, back, same
<1>4. Len(diff.findings.added) + Len(diff.findings.changed) + diff.findings.unchanged = Len(cur)
  BY <1>1, <1>2, EachIsCounted
<1>5. Moves(back) = {<<x[1], Opposite[x[2]]>> : x \in Moves(diff)}
  BY <1>1, <1>2, MovesTurn
<1>6. \A x \in ToSet(same.scalars) : x.direction = "same"
  BY <1>1, <1>2, ComparedAre, ComparedTurn
<1>7. ASSUME Distinct(base), Distinct(cur)
      PROVE  /\ back.findings.added = diff.findings.removed /\ back.findings.unchanged = diff.findings.unchanged
             /\ Turns(back.findings) = {<<t[1], Opposite[t[2]]>> : t \in Turns(diff.findings)}
             /\ diff.regressed = (\E f \in ToSet(cur) : Worse(f, base) /\ ~(New(f, base) /\ f.severity = "info"))
             /\ same.findings.unchanged = Len(cur) /\ ~same.regressed
  <2>1. back.findings.added = diff.findings.removed
    BY <1>1, <1>2, FindingsDiffer
  <2>2. back.findings.unchanged = diff.findings.unchanged
    BY <1>1, <1>2, <1>7, FindingsDiffer, SameFromBoth
  <2>3. Turns(back.findings) = {<<t[1], Opposite[t[2]]>> : t \in Turns(diff.findings)}
    BY <1>1, <1>2, <1>7, TurnsTurn
  <2>4. diff.regressed = (\E f \in ToSet(cur) : Worse(f, base) /\ ~(New(f, base) /\ f.severity = "info"))
    BY <1>1, <1>3, <1>7, RegressedIs
  <2>5. same.findings.unchanged = Len(cur)
    BY <1>1, <1>2, <1>7, FindingsDiffer, NothingToItself
  <2>6. ~same.regressed
    BY <1>1, <1>3, <1>7, RegressedIs, NothingToItself
  <2> QED
    BY <2>1, <2>2, <2>3, <2>4, <2>5, <2>6
<1>8. DiffHolds(in) <=> DiffKept(in, diff, back, same)
  BY DEF DiffHolds, base, cur, diff, back, same
<1>9. base = in.baseline /\ cur = in.current
  BY DEF base, cur
<1> QED
  BY <1>4, <1>5, <1>6, <1>7, <1>8, <1>9 DEF DiffKept

(* For any two reports, with any findings, repeated ids included, and any   *)
(* figures: every finding of the current report is counted once as added,   *)
(* changed or unchanged, figures move the opposite way between the reports  *)
(* the other way round and nothing moves from a report to itself; and when  *)
(* the ids of each report are distinct, what one diff adds the opposite one *)
(* removes, each change turns round, and the current report has regressed   *)
(* exactly when some finding above info is new or some finding is more      *)
(* severe (diffReports of diff-report.ts).                                  *)
THEOREM DiffsAgreeForAll == DiffSpec => []DiffsAgree
<1> DEFINE IInv == topic = "diff" => input \in Comparisons
<1>1. DiffInit => IInv
  BY DEF DiffInit, Take
<1>2. IInv /\ [CarryOut]_vars => IInv'
  BY DEF CarryOut, vars
<1>3. IInv => DiffsAgree
  BY DiffHoldsForAll DEF DiffsAgree, After
<1> HIDE DEF IInv
<1> QED
  BY <1>1, <1>2, <1>3, PTL DEF DiffSpec

------------------------------------------------------------------------------
(* The numbers of a list, greatest first: what Array.prototype.sort leaves by *)
(* one of them. r is s in that order, equals as they were.                    *)
Descended(r, s, number) ==
  /\ Len(r) = Len(s)
  /\ \E p \in [1 .. Len(s) -> 1 .. Len(s)] :
       /\ \A i \in 1 .. Len(s) : \E k \in 1 .. Len(s) : p[k] = i
       /\ \A k, l \in 1 .. Len(s) : k # l => p[k] # p[l]
       /\ \A k, l \in 1 .. Len(s) : k < l => \/ number[p[k]] > number[p[l]]
                                             \/ number[p[k]] = number[p[l]] /\ p[k] < p[l]
       /\ \A k \in 1 .. Len(s) : r[k] = s[p[k]]

(* Sorting by the negated number does that.                                  *)
LEMMA DescendingIs ==
  ASSUME NEW S, NEW s \in Seq(S), NEW number \in [DOMAIN s -> Int]
  PROVE  LET r == Pipeline!Arranged(s, DOMAIN s, [i \in DOMAIN s |-> -number[i]])
         IN r \in Seq(S) /\ Descended(r, s, number)
<1> DEFINE J == DOMAIN s
           key == [i \in J |-> -number[i]]
           r == Arranged(s, J, key)
<1>1. Len(s) \in Nat /\ J = 1 .. Len(s)
  BY LenProperties
<1>2. Cardinality(J) = Len(s)
  <2>1. Cardinality(1 .. Len(s)) = Len(s)
    BY <1>1, UpTo
  <2> QED
    BY <1>1, <2>1
<1>3. J \in SUBSET DOMAIN s /\ key \in [J -> Int]
  <2>1. \A i \in J : number[i] \in Int
    OBVIOUS
  <2>2. \A i \in J : -number[i] \in Int
    BY <2>1
  <2> QED
    BY <2>2
<1>4. \A i \in J : key[i] = -number[i] /\ number[i] \in Int
  OBVIOUS
<1>5. Pipeline!Arranged(s, DOMAIN s, [i \in DOMAIN s |-> -number[i]]) = r
  <2>1. Pipeline!Arranged(s, J, key) = Arranged(s, J, key)
    <3> HIDE DEF J, key
    <3> QED
      BY DEF Pipeline!Arranged, Arranged, Pipeline!Cardinality, Cardinality
  <2> QED
    BY <2>1
<1> HIDE DEF J, key
<1>6. /\ r \in Seq(S) /\ Len(r) = Cardinality(J)
      /\ \E p : Lists(p, J, key) /\ \A k \in 1 .. Cardinality(J) : r[k] = s[p[k]]
  BY <1>3, ArrangedIs
<1> HIDE DEF r
<1>7. PICK p : Lists(p, J, key) /\ \A k \in 1 .. Cardinality(J) : r[k] = s[p[k]]
  BY <1>6
<1>8. /\ p \in [1 .. Len(s) -> 1 .. Len(s)]
      /\ \A i \in 1 .. Len(s) : \E k \in 1 .. Len(s) : p[k] = i
      /\ \A k, l \in 1 .. Len(s) : k < l => Precedes(key, p[k], p[l]) /\ p[k] # p[l]
  BY <1>1, <1>2, <1>7 DEF Lists
<1>9. ASSUME NEW k \in 1 .. Len(s), NEW l \in 1 .. Len(s), k < l
      PROVE  \/ number[p[k]] > number[p[l]]
             \/ number[p[k]] = number[p[l]] /\ p[k] < p[l]
  <2>1. p[k] \in J /\ p[l] \in J /\ p[k] \in Int /\ p[l] \in Int
    <3>1. p[k] \in 1 .. Len(s) /\ p[l] \in 1 .. Len(s)
      BY <1>8
    <3> QED
      BY <1>1, <3>1
  <2>2. Precedes(key, p[k], p[l]) /\ p[k] # p[l]
    BY <1>8, <1>9
  <2>3. key[p[k]] = -number[p[k]] /\ key[p[l]] = -number[p[l]] /\ number[p[k]] \in Int /\ number[p[l]] \in Int
    BY <1>4, <2>1
  <2> QED
    BY <2>1, <2>2, <2>3 DEF Precedes
<1>10. \A k, l \in 1 .. Len(s) : k # l => p[k] # p[l]
  BY <1>1, <1>8
<1>11. Descended(r, s, number)
  BY <1>1, <1>2, <1>6, <1>7, <1>8, <1>9, <1>10 DEF Descended
<1> QED
  BY <1>5, <1>6, <1>11

(* It moves the elements and does nothing else to them.                      *)
LEMMA DescendedKeeps ==
  ASSUME NEW S, NEW r \in Seq(S), NEW s \in Seq(S), NEW number, Descended(r, s, number)
  PROVE  ToSet(r) = ToSet(s) /\ \A f : Times(f, r) = Times(f, s)
<1>1. Len(s) \in Nat /\ DOMAIN s = 1 .. Len(s) /\ DOMAIN r = 1 .. Len(s)
  BY LenProperties DEF Descended
<1>2. PICK p \in [1 .. Len(s) -> 1 .. Len(s)] :
        /\ \A i \in 1 .. Len(s) : \E k \in 1 .. Len(s) : p[k] = i
        /\ \A k, l \in 1 .. Len(s) : k # l => p[k] # p[l]
        /\ \A k \in 1 .. Len(s) : r[k] = s[p[k]]
  BY DEF Descended
<1>3. ToSet(r) = ToSet(s)
  <2>1. \A k \in DOMAIN r : \E i \in DOMAIN s : r[k] = s[i]
    BY <1>1, <1>2
  <2>2. \A i \in DOMAIN s : \E k \in DOMAIN r : r[k] = s[i]
    BY <1>1, <1>2
  <2> QED
    BY <2>1, <2>2 DEF ToSet
<1>4. ASSUME NEW f PROVE Times(f, r) = Times(f, s)
  <2> DEFINE A == {k \in DOMAIN r : r[k] = f}
             B == {i \in DOMAIN s : s[i] = f}
             g == [k \in A |-> p[k]]
  <2>1. IsFiniteSet(A)
    <3>1. IsFiniteSet(1 .. Len(s))
      BY <1>1, UpTo
    <3>2. A \subseteq 1 .. Len(s)
      BY <1>1
    <3> QED
      BY <3>1, <3>2, FS_Subset
  <2>2. g \in Bijection(A, B)
    <3>1. \A k \in A : g[k] \in B
      BY <1>1, <1>2
    <3>2. \A k, l \in A : k # l => g[k] # g[l]
      BY <1>1, <1>2
    <3>3. \A i \in B : \E k \in A : g[k] = i
      BY <1>1, <1>2
    <3>4. g \in [A -> B]
      BY <3>1
    <3> HIDE DEF A, B, g
    <3> QED
      BY <3>2, <3>3, <3>4 DEF Bijection, Injection, Surjection, IsInjective
  <2>3. Cardinality(A) = Cardinality(B)
    <3> HIDE DEF A, B, g
    <3>1. ExistsBijection(A, B)
      BY <2>2 DEF ExistsBijection
    <3> QED
      BY <2>1, <3>1, FS_Bijection
  <2> QED
    BY <2>3 DEF Times
<1> QED
  BY <1>3, <1>4

------------------------------------------------------------------------------
(* The idioms as the pipeline has them are those proved about above.         *)
LEMMA PickedThere ==
  ASSUME NEW s, NEW I
  PROVE  Pipeline!Picked(s, I) = Picked(s, I)
<1>1. Pipeline!Arranged(s, I, [i \in I |-> i]) = Arranged(s, I, [i \in I |-> i])
  BY DEF Pipeline!Arranged, Arranged, Pipeline!Cardinality, Cardinality
<1> QED
  BY <1>1 DEF Pipeline!Picked, Picked

(* What is picked from a list is a list of the same.                         *)
LEMMA PickedFrom ==
  ASSUME NEW S, NEW s \in Seq(S), NEW I \in SUBSET DOMAIN s
  PROVE  Pipeline!Picked(s, I) \in Seq(S)
BY PickedThere, PickedIs

(* And so is its beginning.                                                  *)
LEMMA FirstFrom ==
  ASSUME NEW S, NEW s \in Seq(S), NEW n \in Nat
  PROVE  /\ Pipeline!FirstOf(s, n) \in Seq(S)
         /\ Len(Pipeline!FirstOf(s, n)) = IF n <= Len(s) THEN n ELSE Len(s)
         /\ \A i \in DOMAIN Pipeline!FirstOf(s, n) : i \in DOMAIN s /\ Pipeline!FirstOf(s, n)[i] = s[i]
<1> DEFINE m == IF n <= Len(s) THEN n ELSE Len(s)
<1>1. Len(s) \in Nat /\ DOMAIN s = 1 .. Len(s)
  BY LenProperties
<1>2. Pipeline!Min({n, Len(s)}) = m
  <2>1. Pipeline!Min({n, Len(s)}) = Min({n, Len(s)})
    BY DEF Pipeline!Min, Min
  <2> QED
    BY <1>1, <2>1, MinOfTwo
<1>3. m \in Nat /\ m <= Len(s)
  BY <1>1
<1> HIDE DEF m
<1>4. Pipeline!FirstOf(s, n) = SubSeq(s, 1, m)
  BY <1>2 DEF Pipeline!FirstOf
<1>5. SubSeq(s, 1, m) \in Seq(S) /\ Len(SubSeq(s, 1, m)) = m /\ \A i \in 1 .. m : SubSeq(s, 1, m)[i] = s[i]
  BY <1>1, <1>3, SubSeqProperties
<1>6. DOMAIN SubSeq(s, 1, m) = 1 .. m
  BY <1>5, LenProperties
<1> QED
  BY <1>1, <1>3, <1>4, <1>5, <1>6 DEF m

(* Each element of a list, put into a form.                                  *)
LEMMA EachOf ==
  ASSUME NEW S, NEW s \in Seq(S), NEW T, NEW told \in [S -> T]
  PROVE  LET r == [i \in DOMAIN s |-> told[s[i]]]
         IN r \in Seq(T) /\ Len(r) = Len(s) /\ DOMAIN r = DOMAIN s
<1>1. Len(s) \in Nat /\ DOMAIN s = 1 .. Len(s)
  BY LenProperties
<1>2. \A i \in DOMAIN s : s[i] \in S
  BY <1>1, ElementOfSeq
<1> DEFINE r == [i \in DOMAIN s |-> told[s[i]]]
<1>3. r \in [1 .. Len(s) -> T]
  BY <1>1, <1>2
<1>4. r \in Seq(T) /\ Len(r) = Len(s)
  <2>1. r \in Seq(T)
    BY <1>1, <1>3, SeqDef
  <2>2. DOMAIN r = 1 .. Len(s)
    BY <1>1
  <2> HIDE DEF r
  <2> QED
    BY <1>1, <2>1, <2>2, LenProperties
<1> QED
  BY <1>4

(* Whatever is found in a list is one of its elements.                       *)
LEMMA FoundIn ==
  ASSUME NEW S, NEW s \in Seq(S), NEW found \in SUBSET DOMAIN s, NEW otherwise
  PROVE  (IF found = {} THEN otherwise ELSE s[Pipeline!Min(found)]) \in S \cup {otherwise}
<1>1. Len(s) \in Nat /\ DOMAIN s = 1 .. Len(s)
  BY LenProperties
<1>2. ASSUME found # {} PROVE s[Pipeline!Min(found)] \in S
  <2>1. found \in SUBSET Nat
    BY <1>1
  <2>2. PICK m \in found : \A n \in found : m <= n
    BY <1>2, <2>1, LeastNatural
  <2>3. \A x \in found : (\A y \in found : x <= y) => x = m
    BY <2>1, <2>2
  <2>4. Pipeline!Min(found) = m
    BY <2>2, <2>3 DEF Pipeline!Min
  <2> QED
    BY <1>1, <2>2, <2>4, ElementOfSeq
<1> QED
  BY <1>2

(* The sums of the first numbers of a list.                                  *)
IsSum(f, numbers, n) == f = [k \in 0 .. n |-> IF k = 0 THEN 0 ELSE f[k - 1] + numbers[k]]

(* There are such sums.                                                      *)
LEMMA SumExists ==
  ASSUME NEW numbers, NEW n \in Nat
  PROVE  \E f : IsSum(f, numbers, n)
<1> DEFINE Bad == {m \in Nat : ~ \E f : IsSum(f, numbers, m)}
<1> SUFFICES ASSUME Bad # {} PROVE FALSE
  OBVIOUS
<1>1. Bad \in SUBSET Nat
  OBVIOUS
<1> HIDE DEF Bad
<1>2. PICK m \in Bad : \A k \in Bad : m <= k
  BY <1>1, LeastNatural
<1>3. m \in Nat /\ ~ \E f : IsSum(f, numbers, m)
  BY DEF Bad
<1>4. m # 0
  <2> DEFINE f == [k \in {0} |-> 0]
  <2>1. 0 .. 0 = {0}
    OBVIOUS
  <2>2. f = [k \in 0 .. 0 |-> IF k = 0 THEN 0 ELSE f[k - 1] + numbers[k]]
    BY <2>1
  <2> QED
    BY <1>3, <2>2 DEF IsSum
<1>5. m - 1 \in Nat /\ ~(m <= m - 1)
  BY <1>3, <1>4
<1>6. PICK g : IsSum(g, numbers, m - 1)
  BY <1>2, <1>5 DEF Bad
<1> DEFINE h == [k \in 0 .. m |-> IF k = m THEN g[m - 1] + numbers[m] ELSE g[k]]
<1>7. \A k \in 0 .. m - 1 : g[k] = IF k = 0 THEN 0 ELSE g[k - 1] + numbers[k]
  BY <1>6 DEF IsSum
<1>8. ASSUME NEW k \in 0 .. m
      PROVE  h[k] = IF k = 0 THEN 0 ELSE h[k - 1] + numbers[k]
  <2>1. k # 0 => h[k - 1] = g[k - 1]
    BY <1>3, <1>5
  <2>2. CASE k = m
    BY <1>4, <2>1, <2>2
  <2>3. CASE k # m
    <3>1. k \in 0 .. m - 1
      BY <1>3, <2>3
    <3> QED
      BY <1>7, <2>1, <2>3, <3>1
  <2> QED
    BY <2>2, <2>3
<1>9. h = [k \in 0 .. m |-> IF k = 0 THEN 0 ELSE h[k - 1] + numbers[k]]
  BY <1>8
<1> QED
  BY <1>3, <1>9 DEF IsSum

(* Whole numbers add up to one.                                              *)
LEMMA TotalIs ==
  ASSUME NEW numbers \in Seq(Int)
  PROVE  Pipeline!Total(numbers) \in Int
<1>1. Len(numbers) \in Nat /\ DOMAIN numbers = 1 .. Len(numbers)
  BY LenProperties
<1>2. \E f : IsSum(f, numbers, Len(numbers))
  BY <1>1, SumExists
<1> DEFINE g == CHOOSE f : f = [k \in 0 .. Len(numbers) |-> IF k = 0 THEN 0 ELSE f[k - 1] + numbers[k]]
           Bad == {k \in 0 .. Len(numbers) : g[k] \notin Int}
<1>3. g = [k \in 0 .. Len(numbers) |-> IF k = 0 THEN 0 ELSE g[k - 1] + numbers[k]]
  BY <1>2 DEF IsSum
<1>4. Pipeline!Total(numbers) = g[Len(numbers)]
  BY DEF Pipeline!Total
<1> HIDE DEF g
<1>5. \A k \in 0 .. Len(numbers) : g[k] = IF k = 0 THEN 0 ELSE g[k - 1] + numbers[k]
  BY <1>3
<1>6. Bad = {}
  <2> SUFFICES ASSUME Bad # {} PROVE FALSE
    OBVIOUS
  <2>1. Bad \in SUBSET Nat
    BY <1>1
  <2>2. PICK m \in Bad : \A k \in Bad : m <= k
    BY <2>1, LeastNatural
  <2>3. m \in 0 .. Len(numbers) /\ g[m] \notin Int
    OBVIOUS
  <2>4. m # 0
    BY <1>5, <2>3
  <2>5. m - 1 \in 0 .. Len(numbers) /\ m \in 1 .. Len(numbers) /\ ~(m <= m - 1)
    BY <1>1, <2>3, <2>4
  <2>6. g[m - 1] \in Int
    BY <2>2, <2>5
  <2>7. numbers[m] \in Int
    BY <1>1, <2>5, ElementOfSeq
  <2> QED
    BY <1>5, <2>3, <2>4, <2>6, <2>7
<1>7. Len(numbers) \in 0 .. Len(numbers)
  BY <1>1
<1> QED
  BY <1>4, <1>6, <1>7

------------------------------------------------------------------------------
(* The pairs of a measured number and its threshold.                         *)
Ratios(pairs) == \E p, q, last \in Int \X Int : pairs = {p, q, last}

(* Fewer of them.                                                            *)
LEMMA FewerRatios ==
  ASSUME NEW a \in Int, NEW b \in Int, NEW c \in Int, NEW d \in Int
  PROVE  Ratios({<<a, b>>}) /\ Ratios({<<a, b>>, <<c, d>>})
<1> DEFINE p == <<a, b>>
           q == <<c, d>>
<1>1. p \in Int \X Int /\ q \in Int \X Int
  OBVIOUS
<1> HIDE DEF p, q
<1>2. {p} = {p, p, p} /\ {p, q} = {p, q, q}
  OBVIOUS
<1>3. Ratios({p}) /\ Ratios({p, q})
  BY <1>1, <1>2 DEF Ratios
<1> QED
  BY <1>3 DEF p, q

(* What a finding says of itself that decides its place in the report.       *)
Weighed(f) ==
  /\ {"self", "severity", "category", "pairs", "correlation", "hotspot"} \subseteq DOMAIN f
  /\ f.self \in Int /\ f.severity \in {"info", "warning", "critical"}
  /\ Ratios(f.pairs)
  /\ f.correlation = Pipeline!Nothing \/ f.correlation.overlap \in Int

WeighedAs(category, f) == Weighed(f) /\ f.category = category

(* Its priority is a whole number.                                           *)
LEMMA ScoreOfThree ==
  ASSUME NEW f, NEW p \in Int \X Int, NEW q \in Int \X Int, NEW last \in Int \X Int, f.pairs = {p, q, last},
         f.correlation = Pipeline!Nothing \/ f.correlation.overlap \in Int
  PROVE  Pipeline!Score(f) \in Int
<1>2. Pipeline!CertaintyPct(f) \in Int
  BY DEF Pipeline!CertaintyPct
<1>3. Pipeline!CorrelationPermille(f) \in Int
  BY DEF Pipeline!CorrelationPermille, Pipeline!Larger
<1> DEFINE weight == Pipeline!CertaintyPct(f) * Pipeline!CorrelationPermille(f)
           rounded(n, d) == (2 * n + d) \div (2 * d)
           over == {pair \in f.pairs : pair[1] > 0 /\ pair[2] > 0}
           R(pair) == rounded(pair[1] * weight, pair[2] * 1000)
<1>4. weight \in Int
  <2>1. \A a, b \in Int : a * b \in Int
    OBVIOUS
  <2> QED
    BY <1>2, <1>3, <2>1
<1> HIDE DEF weight
<1>5. \A n, d \in Int : d > 0 => rounded(n, d) \in Int
  OBVIOUS
<1>6. ASSUME NEW pair \in over PROVE R(pair) \in Int
  <2>1. pair \in Int \X Int /\ pair[2] > 0
    OBVIOUS
  <2>2. pair[1] \in Int /\ pair[2] \in Int
    BY <2>1
  <2>3. pair[1] * weight \in Int
    BY <1>4, <2>2
  <2>4. pair[2] * 1000 \in Int /\ pair[2] * 1000 > 0
    BY <2>1, <2>2
  <2> QED
    BY <1>5, <2>3, <2>4
<1>7. over \subseteq {p, q, last}
  OBVIOUS
<1> HIDE DEF rounded
<1>10. Pipeline!Score(f) = IF over = {} THEN rounded(weight, 1000) ELSE Pipeline!Max({R(pair) : pair \in over})
  BY DEF Pipeline!Score, weight, rounded
<1>11. rounded(weight, 1000) \in Int
  BY <1>4, <1>5
<1> HIDE DEF over, R
<1>12. ASSUME over # {} PROVE Pipeline!Max({R(pair) : pair \in over}) \in Int
  <2>2. PICK a \in over : \E b \in over : \E c \in over : over = {a, b, c}
    BY <1>7, <1>12
  <2>7. PICK b \in over : \E c \in over : over = {a, b, c}
    BY <2>2
  <2>8. PICK c \in over : over = {a, b, c}
    BY <2>7
  <2>3. {R(pair) : pair \in over} = {R(a), R(b), R(c)}
    BY <2>8
  <2>4. R(a) \in Int /\ R(b) \in Int /\ R(c) \in Int
    BY <1>6
  <2>5. \E x \in {R(a), R(b), R(c)} : \A y \in {R(a), R(b), R(c)} : x >= y
    BY <2>4
  <2>6. Pipeline!Max({R(a), R(b), R(c)}) \in {R(a), R(b), R(c)}
    BY <2>5 DEF Pipeline!Max
  <2> QED
    BY <2>3, <2>4, <2>6
<1> QED
  BY <1>10, <1>11, <1>12

(* So is that of a finding that can be weighed, and its severity has one.    *)
LEMMA ScoreIs ==
  ASSUME NEW f, Weighed(f)
  PROVE  Pipeline!Score(f) \in Int /\ Pipeline!SeverityWeight(f.severity) \in Int
<1>1. Pipeline!SeverityWeight(f.severity) \in Int
  BY DEF Weighed, Pipeline!SeverityWeight
<1>2. Pipeline!Score(f) \in Int
  BY ScoreOfThree DEF Weighed, Ratios
<1> QED
  BY <1>1, <1>2

------------------------------------------------------------------------------
(* What the detectors that run before the generic one give: a list of        *)
(* findings that can be weighed, none of which is generic.                   *)
Specifics(r) ==
  /\ r \in Seq(ToSet(r))
  /\ \A i \in DOMAIN r : Weighed(r[i]) /\ r[i].category # "cpu-hotspot"

(* No finding, one finding, and a finding of each element of a list.         *)
LEMMA NoFinding == Specifics(<<>>)
BY EmptySeq DEF Specifics

(* One finding.                                                              *)
LEMMA OneFinding ==
  ASSUME NEW f, Weighed(f), f.category # "cpu-hotspot"
  PROVE  Specifics(<<f>>)
<1>1. <<f>> \in Seq({f}) /\ DOMAIN <<f>> = {1} /\ <<f>>[1] = f
  OBVIOUS
<1>2. ToSet(<<f>>) = {f}
  BY <1>1 DEF ToSet
<1> QED
  BY <1>1, <1>2 DEF Specifics

(* A finding of each element of a list.                                      *)
LEMMA FindingsOf ==
  ASSUME NEW S, NEW s \in Seq(S), NEW r, r = [i \in DOMAIN s |-> r[i]],
         \A i \in DOMAIN s : Weighed(r[i]) /\ r[i].category # "cpu-hotspot"
  PROVE  Specifics(r)
<1>1. Len(s) \in Nat /\ DOMAIN s = 1 .. Len(s) /\ DOMAIN r = DOMAIN s
  BY LenProperties
<1>2. \A i \in DOMAIN s : r[i] \in ToSet(r)
  BY <1>1 DEF ToSet
<1>3. r \in [1 .. Len(s) -> ToSet(r)]
  BY <1>1, <1>2
<1>4. r \in Seq(ToSet(r))
  BY <1>1, <1>3, SeqDef
<1> QED
  BY <1>1, <1>4 DEF Specifics

(* What a view gives the detectors.                                          *)
LEMMA ViewIs ==
  ASSUME NEW cpu, IsView(cpu)
  PROVE  /\ cpu.hotspots \in Seq(Hotspot) /\ Pipeline!Reported(cpu) \in Seq(Hotspot)
         /\ cpu.stalls \in Seq(Overlap) /\ cpu.deopts \in Seq(Bailout)
<1>1. cpu.hotspots \in Seq(Hotspot) /\ cpu.shown \in Nat /\ cpu.stalls \in Seq(Overlap) /\ cpu.deopts \in Seq(Bailout)
  BY DEF IsView
<1>2. Pipeline!FirstOf(cpu.hotspots, cpu.shown) \in Seq(Hotspot)
  BY <1>1, FirstFrom
<1> QED
  BY <1>1, <1>2 DEF Pipeline!Reported

(* What a family of calls weighs together.                                   *)
LEMMA FamilyIs ==
  ASSUME NEW hotspots \in Seq(Hotspot), NEW I \in SUBSET DOMAIN hotspots
  PROVE  LET some == Pipeline!Picked(hotspots, I)
         IN Pipeline!Total([i \in DOMAIN some |-> some[i].total]) \in Int
<1> DEFINE some == Pipeline!Picked(hotspots, I)
           total == [h \in Hotspot |-> h.total]
<1>1. some \in Seq(Hotspot)
  BY PickedFrom
<1>2. total \in [Hotspot -> Int]
  BY DEF Hotspot
<1> HIDE DEF some
<1>3. \A i \in DOMAIN some : some[i] \in Hotspot
  BY <1>1, LenProperties, ElementOfSeq
<1>4. [i \in DOMAIN some |-> some[i].total] = [i \in DOMAIN some |-> total[some[i]]]
  BY <1>3
<1> HIDE DEF total
<1>5. [i \in DOMAIN some |-> total[some[i]]] \in Seq(Int)
  BY <1>1, <1>2, EachOf
<1>6. Pipeline!Total([i \in DOMAIN some |-> some[i].total]) \in Int
  BY <1>4, <1>5, TotalIs
<1> QED
  BY <1>6 DEF some

(* The families of the detectors.                                            *)
LEMMA FamilyTotalIs ==
  ASSUME NEW hotspots \in Seq(Hotspot), NEW apis
  PROVE  Pipeline!FamilyTotal(hotspots, apis) \in Int
<1> DEFINE I == {i \in DOMAIN hotspots : Pipeline!IsBuiltinRuntime(hotspots[i]) /\ hotspots[i].fn \in apis}
           some == Pipeline!Picked(hotspots, I)
<1>1. Pipeline!FamilyTotal(hotspots, apis) = Pipeline!Total([i \in DOMAIN some |-> some[i].total])
  BY DEF Pipeline!FamilyTotal, Pipeline!SumOf, Pipeline!Filtered
<1>2. I \in SUBSET DOMAIN hotspots
  OBVIOUS
<1> HIDE DEF I
<1> QED
  BY <1>1, <1>2, FamilyIs

(* A caller's stall, if it has one.                                          *)
LEMMA StallIs ==
  ASSUME NEW stalls \in Seq(Overlap), NEW caller
  PROVE  LET stall == Pipeline!FindStallCorrelation(caller, stalls)
         IN stall = Pipeline!Nothing \/ stall.overlap \in Int
<1> DEFINE found == {i \in DOMAIN stalls : Pipeline!SameFrame(stalls[i], caller)}
           stall == IF found = {} THEN Pipeline!Nothing ELSE stalls[Pipeline!Min(found)]
<1>1. Pipeline!FindStallCorrelation(caller, stalls) = IF caller = Pipeline!Nothing THEN Pipeline!Nothing ELSE stall
  BY DEF Pipeline!FindStallCorrelation, Pipeline!FirstThat
<1>2. found \in SUBSET DOMAIN stalls
  OBVIOUS
<1> HIDE DEF found
<1>3. stall \in Overlap \cup {Pipeline!Nothing}
  BY <1>2, FoundIn
<1>4. \A s \in Overlap : s.overlap \in Int
  BY DEF Overlap
<1> QED
  BY <1>1, <1>3, <1>4

(* An attributed finding weighs what it is told to.                          *)
LEMMA AttributedIs ==
  ASSUME NEW h \in Hotspot, NEW cpu, IsView(cpu), NEW told, NEW bySource, NEW attribution, NEW fallback,
         told.severity \in {"info", "warning", "critical"}, Ratios(told.pairs)
  PROVE  WeighedAs(told.category, Pipeline!AttributedFinding(h, cpu, told, bySource, attribution, fallback))
<1> DEFINE f == Pipeline!AttributedFinding(h, cpu, told, bySource, attribution, fallback)
<1>1. f.category = told.category /\ f.severity = told.severity /\ f.self = h.total /\ f.pairs = told.pairs
  BY DEF Pipeline!AttributedFinding
<1>6. {"self", "severity", "category", "pairs", "correlation", "hotspot"} \subseteq DOMAIN f
  BY DEF Pipeline!AttributedFinding
<1>2. \E caller : f.correlation = Pipeline!FindStallCorrelation(caller, cpu.stalls)
  BY DEF Pipeline!AttributedFinding
<1> HIDE DEF f
<1>3. f.correlation = Pipeline!Nothing \/ f.correlation.overlap \in Int
  BY <1>2, ViewIs, StallIs
<1>4. h.total \in Int
  BY DEF Hotspot
<1>5. Weighed(f)
  BY <1>1, <1>3, <1>4, <1>6 DEF Weighed
<1> QED
  BY <1>1, <1>5 DEF f, WeighedAs

(* The findings that are assembled of the candidates for a caller.           *)
Attributed(h, cpu, id, category, severity, pairs, api) ==
  Pipeline!AssembleAttributedFinding(h, cpu, Pipeline!Told(id, category, severity, pairs), api, FALSE)
AttributedOrOwn(h, cpu, id, category, severity, pairs, api) ==
  Pipeline!AssembleAttributedFinding(h, cpu, Pipeline!Told(id, category, severity, pairs), api, TRUE)

(* What is assembled weighs as it was told to.                               *)
LEMMA AssembledIs ==
  ASSUME NEW h \in Hotspot, NEW cpu, IsView(cpu), NEW id, NEW category, NEW severity, NEW pairs, NEW api,
         severity \in {"info", "warning", "critical"}, Ratios(pairs)
  PROVE  /\ WeighedAs(category, Attributed(h, cpu, id, category, severity, pairs, api))
         /\ WeighedAs(category, AttributedOrOwn(h, cpu, id, category, severity, pairs, api))
<1> DEFINE told == Pipeline!Told(id, category, severity, pairs)
<1>1. told.category = category /\ told.severity = severity /\ told.pairs = pairs
  BY DEF Pipeline!Told
<1> HIDE DEF told
<1>2. \A bySource, attribution, fallback :
        WeighedAs(told.category, Pipeline!AttributedFinding(h, cpu, told, bySource, attribution, fallback))
  BY <1>1, AttributedIs
<1>3. \E bySource, attribution, fallback :
        Pipeline!AssembleAttributedFinding(h, cpu, told, api, FALSE)
          = Pipeline!AttributedFinding(h, cpu, told, bySource, attribution, fallback)
  BY DEF Pipeline!AssembleAttributedFinding
<1>4. \E bySource, attribution, fallback :
        Pipeline!AssembleAttributedFinding(h, cpu, told, api, TRUE)
          = Pipeline!AttributedFinding(h, cpu, told, bySource, attribution, fallback)
  BY DEF Pipeline!AssembleAttributedFinding
<1> QED
  BY <1>1, <1>2, <1>3, <1>4 DEF told, Attributed, AttributedOrOwn

------------------------------------------------------------------------------
(* The detectors, each for any view. Blocking calls of the file system, of   *)
(* child processes and of zlib.                                              *)
LEMMA BlockingIoTells ==
  ASSUME NEW cpu, IsView(cpu)
  PROVE  Specifics(Pipeline!BlockingIo(cpu))
<1> DEFINE S == cpu.hotspots
           limit == Pipeline!DetectorThresholds.blockingIo
           apis == Pipeline!FileApis \cup Pipeline!ZlibApis
           chunks == Pipeline!Picked(S, {i \in DOMAIN S : Pipeline!ZlibChunk(S[i])})
           family == Pipeline!FamilyTotal(S, apis) + Pipeline!Total([i \in DOMAIN chunks |-> chunks[i].total])
           Hit(h) == /\ Pipeline!IsBuiltinRuntime(h) /\ (h.fn \in apis \/ Pipeline!ZlibChunk(h))
                     /\ h.self >= limit.minSelf \/ h.total >= limit.minTotal \/ family >= limit.category
           some == Pipeline!Picked(S, {i \in DOMAIN S : Hit(S[i])})
           Api(h) == IF Pipeline!ZlibChunk(h) THEN Pipeline!InferZlibSyncApi(h, cpu) ELSE h.fn
           Severity(h) == Pipeline!SeverityForPct(Pipeline!Larger(h.self, h.total), limit.critical)
           Pairs(h) == {<<family, limit.category>>, <<h.total, limit.minTotal>>, <<h.self, limit.minSelf>>}
           Tell(h) == Attributed(h, cpu, <<"blocking-io", Api(h)>>, "blocking-io", Severity(h), Pairs(h), Api(h))
           r == [i \in DOMAIN some |-> Tell(some[i])]
<1>1. Pipeline!BlockingIo(cpu) = r
  BY DEF Pipeline!BlockingIo, Pipeline!Mapped, Pipeline!Filtered, Pipeline!SumOf, Attributed
<1>2. limit.category \in Int /\ limit.minTotal \in Int /\ limit.minSelf \in Int
  BY DEF Pipeline!DetectorThresholds
<1>3. S \in Seq(Hotspot)
  BY ViewIs
<1> HIDE DEF limit, S, apis
<1>4. family \in Int
  <2>1. Pipeline!FamilyTotal(S, apis) \in Int
    BY <1>3, FamilyTotalIs
  <2>2. Pipeline!Total([i \in DOMAIN chunks |-> chunks[i].total]) \in Int
    BY <1>3, FamilyIs
  <2> HIDE DEF chunks
  <2> QED
    BY <2>1, <2>2
<1> HIDE DEF family
<1>5. some \in Seq(Hotspot)
  BY <1>3, PickedFrom
<1> HIDE DEF some
<1>6. ASSUME NEW h \in Hotspot PROVE WeighedAs("blocking-io", Tell(h))
  <2>1. h.total \in Int /\ h.self \in Int
    BY DEF Hotspot
  <2>2. Ratios(Pairs(h))
    BY <1>2, <1>4, <2>1 DEF Ratios
  <2>3. Severity(h) \in {"info", "warning", "critical"}
    BY DEF Pipeline!SeverityForPct
  <2> HIDE DEF Pairs, Severity, Api
  <2> QED
    BY <2>2, <2>3, AssembledIs
<1> HIDE DEF Tell
<1>7. \A i \in DOMAIN some : Weighed(r[i]) /\ r[i].category # "cpu-hotspot"
  BY <1>5, <1>6, LenProperties, ElementOfSeq DEF WeighedAs
<1>8. r = [i \in DOMAIN some |-> r[i]]
  OBVIOUS
<1> HIDE DEF r
<1> QED
  BY <1>1, <1>5, <1>7, <1>8, FindingsOf

(* Synchronous calls of crypto.                                              *)
LEMMA SyncCryptoTells ==
  ASSUME NEW cpu, IsView(cpu)
  PROVE  Specifics(Pipeline!SyncCrypto(cpu))
<1> DEFINE S == cpu.hotspots
           limit == Pipeline!DetectorThresholds.syncCrypto
           family == Pipeline!FamilyTotal(S, Pipeline!CryptoApis)
           Hit(h) == /\ Pipeline!IsBuiltinRuntime(h) /\ h.fn \in Pipeline!CryptoApis
                     /\ h.total >= limit.minTotal \/ family >= limit.category
           some == Pipeline!Picked(S, {i \in DOMAIN S : Hit(S[i])})
           Severity(h) == Pipeline!SeverityForPct(h.total, limit.critical)
           Pairs(h) == {<<family, limit.category>>, <<h.total, limit.minTotal>>}
           Tell(h) == Attributed(h, cpu, <<"sync-crypto-on-hot-path">>, "sync-crypto", Severity(h), Pairs(h), h.fn)
           r == [i \in DOMAIN some |-> Tell(some[i])]
<1>1. Pipeline!SyncCrypto(cpu) = r
  BY DEF Pipeline!SyncCrypto, Pipeline!Mapped, Pipeline!Filtered, Attributed
<1>2. limit.category \in Int /\ limit.minTotal \in Int
  BY DEF Pipeline!DetectorThresholds
<1>3. S \in Seq(Hotspot)
  BY ViewIs
<1> HIDE DEF limit, S
<1>4. family \in Int
  BY <1>3, FamilyTotalIs
<1> HIDE DEF family
<1>5. some \in Seq(Hotspot)
  BY <1>3, PickedFrom
<1> HIDE DEF some
<1>6. ASSUME NEW h \in Hotspot PROVE WeighedAs("sync-crypto", Tell(h))
  <2>1. h.total \in Int
    BY DEF Hotspot
  <2>2. Ratios(Pairs(h))
    BY <1>2, <1>4, <2>1, FewerRatios
  <2>3. Severity(h) \in {"info", "warning", "critical"}
    BY DEF Pipeline!SeverityForPct
  <2> HIDE DEF Pairs, Severity
  <2> QED
    BY <2>2, <2>3, AssembledIs
<1> HIDE DEF Tell
<1>7. \A i \in DOMAIN some : Weighed(r[i]) /\ r[i].category # "cpu-hotspot"
  BY <1>5, <1>6, LenProperties, ElementOfSeq DEF WeighedAs
<1>8. r = [i \in DOMAIN some |-> r[i]]
  OBVIOUS
<1> HIDE DEF r
<1> QED
  BY <1>1, <1>5, <1>7, <1>8, FindingsOf

(* Some of such findings are such findings.                                  *)
LEMMA SomeOfThem ==
  ASSUME NEW r, Specifics(r), NEW I \in SUBSET DOMAIN r
  PROVE  Specifics(Pipeline!Picked(r, I))
<1> DEFINE q == Picked(r, I)
<1>1. r \in Seq(ToSet(r)) /\ \A i \in DOMAIN r : Weighed(r[i]) /\ r[i].category # "cpu-hotspot"
  BY DEF Specifics
<1>2. DOMAIN q = 1 .. Cardinality(I) /\ \A k \in DOMAIN q : \E i \in I : q[k] = r[i]
  BY <1>1, PickedSet
<1>3. q \in Seq(ToSet(r))
  BY <1>1, PickedIs
<1>4. Pipeline!Picked(r, I) = q
  BY PickedThere
<1> HIDE DEF q
<1>5. q = [k \in DOMAIN q |-> q[k]]
  <2>1. q \in [1 .. Len(q) -> ToSet(r)] /\ DOMAIN q = 1 .. Len(q)
    BY <1>3, LenProperties
  <2> QED
    BY <2>1
<1>6. \A k \in DOMAIN q : Weighed(q[k]) /\ q[k].category # "cpu-hotspot"
  BY <1>1, <1>2
<1> QED
  BY <1>3, <1>4, <1>5, <1>6, FindingsOf

(* JSON, called or inlined into a user frame: of each API the first finding. *)
LEMMA JsonOnHotPathTells ==
  ASSUME NEW cpu, IsView(cpu)
  PROVE  Specifics(Pipeline!JsonOnHotPath(cpu))
<1> DEFINE S == cpu.hotspots
           limit == Pipeline!DetectorThresholds.json
           family == Pipeline!FamilyTotal(S, Pipeline!JsonApis)
           Heavy(h) == h.total >= limit.minTotal \/ family >= limit.category
           Called(h) == h.fn \in Pipeline!JsonApis /\ Pipeline!IsBuiltinRuntime(h) /\ Heavy(h)
           Inlined(h) == /\ h.cat = "user" /\ Heavy(h)
                         /\ h.self >= limit.minTotal /\ 2 * h.self >= h.total
                         /\ Pipeline!InlinedJsonApi(h, cpu) # ""
           some == Pipeline!Picked(S, {i \in DOMAIN S : Called(S[i])}) \o Pipeline!Picked(S, {i \in DOMAIN S : Inlined(S[i])})
           Api(h) == IF h.cat = "user" THEN Pipeline!InlinedJsonApi(h, cpu) ELSE h.fn
           Severity(h) == IF h.total >= limit.critical THEN "critical" ELSE "warning"
           Pairs(h) == {<<family, limit.category>>, <<h.total, limit.minTotal>>}
           Tell(h) == AttributedOrOwn(h, cpu, <<"json-on-hot-path", Api(h)>>, "json-on-hot-path", Severity(h), Pairs(h), Api(h))
           r == [i \in DOMAIN some |-> Tell(some[i])]
<1>1. Pipeline!JsonOnHotPath(cpu) = Pipeline!Picked(r, {i \in DOMAIN r : \A j \in 1 .. (i - 1) : r[j].id # r[i].id})
  BY DEF Pipeline!JsonOnHotPath, Pipeline!Mapped, Pipeline!Filtered, Pipeline!OnePerKey, AttributedOrOwn
<1>2. limit.category \in Int /\ limit.minTotal \in Int
  BY DEF Pipeline!DetectorThresholds
<1>3. S \in Seq(Hotspot)
  BY ViewIs
<1> HIDE DEF limit, S
<1>4. family \in Int
  BY <1>3, FamilyTotalIs
<1> HIDE DEF family
<1>5. some \in Seq(Hotspot)
  <2>1. /\ Pipeline!Picked(S, {i \in DOMAIN S : Called(S[i])}) \in Seq(Hotspot)
        /\ Pipeline!Picked(S, {i \in DOMAIN S : Inlined(S[i])}) \in Seq(Hotspot)
    BY <1>3, PickedFrom
  <2> QED
    BY <2>1, ConcatProperties
<1> HIDE DEF some
<1>6. ASSUME NEW h \in Hotspot PROVE WeighedAs("json-on-hot-path", Tell(h))
  <2>1. h.total \in Int
    BY DEF Hotspot
  <2>2. Ratios(Pairs(h))
    BY <1>2, <1>4, <2>1, FewerRatios
  <2>3. Severity(h) \in {"info", "warning", "critical"}
    OBVIOUS
  <2> HIDE DEF Pairs, Severity, Api
  <2> QED
    BY <2>2, <2>3, AssembledIs
<1> HIDE DEF Tell
<1>7. \A i \in DOMAIN some : Weighed(r[i]) /\ r[i].category # "cpu-hotspot"
  BY <1>5, <1>6, LenProperties, ElementOfSeq DEF WeighedAs
<1>8. r = [i \in DOMAIN some |-> r[i]]
  OBVIOUS
<1> HIDE DEF r
<1>9. Specifics(r)
  BY <1>5, <1>7, <1>8, FindingsOf
<1> QED
  BY <1>1, <1>9, SomeOfThem

(* Modules loaded on a hot path.                                             *)
LEMMA RequireInHotPathTells ==
  ASSUME NEW cpu, IsView(cpu)
  PROVE  Specifics(Pipeline!RequireInHotPath(cpu))
<1> DEFINE S == cpu.hotspots
           limit == Pipeline!DetectorThresholds.require
           Hit(h) == /\ h.fn = "require" /\ h.cat \in {"node:builtin", "node_modules"}
                     /\ h.self >= limit.minSelf \/ h.total >= limit.minTotal
           some == Pipeline!Picked(S, {i \in DOMAIN S : Hit(S[i])})
           Severity(h) == IF h.self > limit.warningSelf THEN "warning" ELSE "info"
           Pairs(h) == {<<h.total, limit.minTotal>>, <<h.self, limit.minSelf>>}
           Whole(h) == Attributed(h, cpu, <<"require-in-hot-path">>, "require-in-hot-path", Severity(h), Pairs(h), "require")
           Tell(h) == [Whole(h) EXCEPT !.self = h.self]
           r == [i \in DOMAIN some |-> Tell(some[i])]
<1>1. Pipeline!RequireInHotPath(cpu) = r
  BY DEF Pipeline!RequireInHotPath, Pipeline!Mapped, Pipeline!Filtered, Attributed
<1>2. limit.minTotal \in Int /\ limit.minSelf \in Int
  BY DEF Pipeline!DetectorThresholds
<1>3. S \in Seq(Hotspot)
  BY ViewIs
<1> HIDE DEF limit, S
<1>5. some \in Seq(Hotspot)
  BY <1>3, PickedFrom
<1> HIDE DEF some
<1>6. ASSUME NEW h \in Hotspot PROVE WeighedAs("require-in-hot-path", Tell(h))
  <2>1. h.total \in Int /\ h.self \in Int
    BY DEF Hotspot
  <2>2. Ratios(Pairs(h))
    BY <1>2, <2>1, FewerRatios
  <2>3. Severity(h) \in {"info", "warning", "critical"}
    OBVIOUS
  <2> HIDE DEF Pairs, Severity
  <2>4. WeighedAs("require-in-hot-path", Whole(h))
    BY <2>2, <2>3, AssembledIs
  <2> HIDE DEF Whole
  <2> QED
    BY <2>1, <2>4 DEF WeighedAs, Weighed
<1> HIDE DEF Tell
<1>7. \A i \in DOMAIN some : Weighed(r[i]) /\ r[i].category # "cpu-hotspot"
  BY <1>5, <1>6, LenProperties, ElementOfSeq DEF WeighedAs
<1>8. r = [i \in DOMAIN some |-> r[i]]
  OBVIOUS
<1> HIDE DEF r
<1> QED
  BY <1>1, <1>5, <1>7, <1>8, FindingsOf

(* The same, by a number of each element.                                    *)
LEMMA DescendedBy ==
  ASSUME NEW S, NEW s \in Seq(S), NEW key \in [S -> Int]
  PROVE  LET r == Pipeline!Arranged(s, DOMAIN s, [i \in DOMAIN s |-> -key[s[i]]])
         IN r \in Seq(S) /\ Descended(r, s, [i \in DOMAIN s |-> key[s[i]]])
<1> DEFINE number == [i \in DOMAIN s |-> key[s[i]]]
<1>1. \A i \in DOMAIN s : s[i] \in S
  BY LenProperties, ElementOfSeq
<1>2. number \in [DOMAIN s -> Int] /\ \A i \in DOMAIN s : number[i] = key[s[i]]
  BY <1>1
<1>3. [i \in DOMAIN s |-> -key[s[i]]] = [i \in DOMAIN s |-> -number[i]]
  OBVIOUS
<1> HIDE DEF number
<1> QED
  BY <1>2, <1>3, DescendingIs DEF number

------------------------------------------------------------------------------
(* No two hotspots of a list are of one frame; each weighs no more by itself *)
(* than the one before.                                                      *)
Unlike(s)  == \A i, j \in DOMAIN s : s[i].id = s[j].id => i = j
Falling(s) == \A i, j \in DOMAIN s : i < j => s[i].self >= s[j].self

(* The two orders of hotspots.                                               *)
LEMMA ByTotalIs ==
  ASSUME NEW s \in Seq(Hotspot)
  PROVE  Pipeline!ByTotal(s) \in Seq(Hotspot)
<1> DEFINE total == [h \in Hotspot |-> h.total]
           self == [h \in Hotspot |-> h.self]
           q == Pipeline!Arranged(s, DOMAIN s, [i \in DOMAIN s |-> -self[s[i]]])
           r == Pipeline!Arranged(q, DOMAIN q, [i \in DOMAIN q |-> -total[q[i]]])
           qq == Pipeline!Arranged(s, DOMAIN s, [i \in DOMAIN s |-> -s[i].self])
<1>1. total \in [Hotspot -> Int] /\ self \in [Hotspot -> Int]
  BY DEF Hotspot
<1>2. \A i \in DOMAIN s : self[s[i]] = s[i].self
  <2>1. \A i \in DOMAIN s : s[i] \in Hotspot
    BY LenProperties, ElementOfSeq
  <2> QED
    BY <2>1
<1>3. q = qq
  <2>1. [i \in DOMAIN s |-> -self[s[i]]] = [i \in DOMAIN s |-> -s[i].self]
    BY <1>2
  <2> QED
    BY <2>1
<1> HIDE DEF self, total
<1>4. q \in Seq(Hotspot)
  BY <1>1, DescendedBy
<1>5. Pipeline!ByTotal(s) = Pipeline!Arranged(qq, DOMAIN qq, [i \in DOMAIN qq |-> -qq[i].total])
  BY DEF Pipeline!ByTotal, Pipeline!Descending
<1> HIDE DEF q, qq
<1>6. r \in Seq(Hotspot)
  BY <1>1, <1>4, DescendedBy
<1>7. \A i \in DOMAIN q : total[q[i]] = q[i].total
  <2>1. \A i \in DOMAIN q : q[i] \in Hotspot
    BY <1>4, LenProperties, ElementOfSeq
  <2> QED
    BY <2>1 DEF total
<1>8. [i \in DOMAIN q |-> -total[q[i]]] = [i \in DOMAIN q |-> -q[i].total]
  BY <1>7
<1> QED
  BY <1>3, <1>5, <1>6, <1>8

(* A sorted list has the same hotspots.                                      *)
LEMMA DescendedUnlike ==
  ASSUME NEW S, NEW r \in Seq(S), NEW s \in Seq(S), NEW number, Descended(r, s, number), Unlike(s)
  PROVE  Unlike(r)
<1>1. Len(s) \in Nat /\ DOMAIN s = 1 .. Len(s) /\ DOMAIN r = 1 .. Len(s)
  BY LenProperties DEF Descended
<1>2. PICK p \in [1 .. Len(s) -> 1 .. Len(s)] :
        /\ \A k, l \in 1 .. Len(s) : k # l => p[k] # p[l]
        /\ \A k \in 1 .. Len(s) : r[k] = s[p[k]]
  BY DEF Descended
<1>3. \A k \in 1 .. Len(s) : p[k] \in DOMAIN s
  BY <1>1
<1> QED
  BY <1>1, <1>2, <1>3 DEF Unlike

(* By self, each weighs no more than the one before.                         *)
LEMMA BySelfIs ==
  ASSUME NEW s \in Seq(Hotspot), Unlike(s)
  PROVE  LET r == Pipeline!BySelf(s)
         IN r \in Seq(Hotspot) /\ ToSet(r) = ToSet(s) /\ Unlike(r) /\ Falling(r)
<1> DEFINE total == [h \in Hotspot |-> h.total]
           self == [h \in Hotspot |-> h.self]
           q == Pipeline!Arranged(s, DOMAIN s, [i \in DOMAIN s |-> -total[s[i]]])
           qq == Pipeline!Arranged(s, DOMAIN s, [i \in DOMAIN s |-> -s[i].total])
           r == Pipeline!Arranged(q, DOMAIN q, [i \in DOMAIN q |-> -self[q[i]]])
<1>1. total \in [Hotspot -> Int] /\ self \in [Hotspot -> Int]
  BY DEF Hotspot
<1>2. \A i \in DOMAIN s : total[s[i]] = s[i].total
  <2>1. \A i \in DOMAIN s : s[i] \in Hotspot
    BY LenProperties, ElementOfSeq
  <2> QED
    BY <2>1
<1>3. q = qq
  <2>1. [i \in DOMAIN s |-> -total[s[i]]] = [i \in DOMAIN s |-> -s[i].total]
    BY <1>2
  <2> QED
    BY <2>1
<1> HIDE DEF self, total
<1>4. q \in Seq(Hotspot) /\ Descended(q, s, [i \in DOMAIN s |-> total[s[i]]])
  BY <1>1, DescendedBy
<1>5. Pipeline!BySelf(s) = Pipeline!Arranged(qq, DOMAIN qq, [i \in DOMAIN qq |-> -qq[i].self])
  BY DEF Pipeline!BySelf, Pipeline!Descending
<1> HIDE DEF q, qq
<1> DEFINE number == [i \in DOMAIN q |-> self[q[i]]]
<1>6. r \in Seq(Hotspot) /\ Descended(r, q, number)
  BY <1>1, <1>4, DescendedBy
<1>7. \A i \in DOMAIN q : q[i] \in Hotspot /\ self[q[i]] = q[i].self
  <2>1. \A i \in DOMAIN q : q[i] \in Hotspot
    BY <1>4, LenProperties, ElementOfSeq
  <2> QED
    BY <2>1 DEF self
<1>8. [i \in DOMAIN q |-> -self[q[i]]] = [i \in DOMAIN q |-> -q[i].self]
  BY <1>7
<1>9. Pipeline!BySelf(s) = r
  BY <1>3, <1>5, <1>8
<1> HIDE DEF r
<1>10. ToSet(r) = ToSet(s)
  <2>1. ToSet(q) = ToSet(s)
    BY <1>4, DescendedKeeps
  <2>2. ToSet(r) = ToSet(q)
    BY <1>4, <1>6, DescendedKeeps
  <2> QED
    BY <2>1, <2>2
<1>11. Unlike(r)
  <2>1. Unlike(q)
    BY <1>4, DescendedUnlike
  <2> QED
    BY <1>4, <1>6, <2>1, DescendedUnlike
<1>12. Falling(r)
  <2>1. Len(q) \in Nat /\ DOMAIN q = 1 .. Len(q) /\ DOMAIN r = 1 .. Len(q)
    BY <1>4, <1>6, LenProperties DEF Descended
  <2>2. PICK p \in [1 .. Len(q) -> 1 .. Len(q)] :
          /\ \A k, l \in 1 .. Len(q) : k < l => \/ number[p[k]] > number[p[l]]
                                                \/ number[p[k]] = number[p[l]] /\ p[k] < p[l]
          /\ \A k \in 1 .. Len(q) : r[k] = q[p[k]]
    BY <1>6 DEF Descended
  <2>3. \A i \in DOMAIN q : number[i] = q[i].self /\ number[i] \in Int
    BY <1>1, <1>7
  <2> HIDE DEF number
  <2> SUFFICES ASSUME NEW k \in DOMAIN r, NEW l \in DOMAIN r, k < l PROVE r[k].self >= r[l].self
    BY DEF Falling
  <2>4. p[k] \in DOMAIN q /\ p[l] \in DOMAIN q
    BY <2>1
  <2>5. number[p[k]] >= number[p[l]]
    BY <2>1, <2>2, <2>3, <2>4
  <2> QED
    BY <2>1, <2>2, <2>3, <2>4, <2>5
<1> QED
  BY <1>6, <1>9, <1>10, <1>11, <1>12

(* The heaviest frame of a dependency.                                       *)
LEMMA NodeModulesHotspotTells ==
  ASSUME NEW cpu, IsView(cpu)
  PROVE  Specifics(Pipeline!NodeModulesHotspot(cpu))
<1> DEFINE S == cpu.hotspots
           limit == Pipeline!DetectorThresholds.dependency
           Hit(h) == /\ h.cat = "node_modules" /\ h.package # ""
                     /\ h.self >= limit.minSelf \/ h.total >= limit.minTotal
           some == Pipeline!Picked(S, {i \in DOMAIN S : Hit(S[i])})
           first == Pipeline!FirstOf(Pipeline!ByTotal(some), 1)
           Severity(h) == IF h.total >= limit.critical THEN "critical" ELSE "warning"
           Pairs(h) == {<<h.total, limit.minTotal>>, <<h.self, limit.minSelf>>}
           Tell(h) == Attributed(h, cpu, <<"node-modules-hotspot", h.package>>, "node-modules-hotspot",
                                 Severity(h), Pairs(h), h.fn)
           r == [i \in DOMAIN first |-> Tell(first[i])]
<1>1. Pipeline!NodeModulesHotspot(cpu) = r
  BY DEF Pipeline!NodeModulesHotspot, Pipeline!Mapped, Pipeline!Filtered, Attributed
<1>2. limit.minTotal \in Int /\ limit.minSelf \in Int
  BY DEF Pipeline!DetectorThresholds
<1>3. S \in Seq(Hotspot)
  BY ViewIs
<1> HIDE DEF limit, S
<1>4. some \in Seq(Hotspot)
  BY <1>3, PickedFrom
<1> HIDE DEF some
<1>5. first \in Seq(Hotspot)
  <2>1. Pipeline!ByTotal(some) \in Seq(Hotspot)
    BY <1>4, ByTotalIs
  <2> QED
    BY <2>1, FirstFrom
<1> HIDE DEF first
<1>6. ASSUME NEW h \in Hotspot PROVE WeighedAs("node-modules-hotspot", Tell(h))
  <2>1. h.total \in Int /\ h.self \in Int
    BY DEF Hotspot
  <2>2. Ratios(Pairs(h))
    BY <1>2, <2>1, FewerRatios
  <2>3. Severity(h) \in {"info", "warning", "critical"}
    OBVIOUS
  <2> HIDE DEF Pairs, Severity
  <2> QED
    BY <2>2, <2>3, AssembledIs
<1> HIDE DEF Tell
<1>7. \A i \in DOMAIN first : Weighed(r[i]) /\ r[i].category # "cpu-hotspot"
  BY <1>5, <1>6, LenProperties, ElementOfSeq DEF WeighedAs
<1>8. r = [i \in DOMAIN first |-> r[i]]
  OBVIOUS
<1> HIDE DEF r
<1> QED
  BY <1>1, <1>5, <1>7, <1>8, FindingsOf

(* A finding that is told as it is.                                          *)
LEMMA PlainIs ==
  ASSUME NEW id, NEW category, NEW severity \in {"info", "warning", "critical"}, NEW at, NEW self \in Int,
         NEW attribution, NEW pairs, Ratios(pairs)
  PROVE  LET f == Pipeline!Plain(id, category, severity, at, self, attribution, pairs)
         IN Weighed(f) /\ f.category = category
BY DEF Pipeline!Plain, Weighed

(* Garbage collection, told of at the frame it comes with.                   *)
LEMMA ExcessiveGcTells ==
  ASSUME NEW cpu, IsView(cpu)
  PROVE  Specifics(Pipeline!ExcessiveGc(cpu))
<1> DEFINE limit == Pipeline!DetectorThresholds.gc
           gc == cpu.gc
           S == Pipeline!Reported(cpu)
           found == {i \in DOMAIN S : S[i].cat = "user" /\ S[i].total > 10}
           lead == IF found = {} THEN Pipeline!Process ELSE S[Pipeline!Min(found)]
           frame == IF gc.correlated # <<>> THEN Head(gc.correlated) ELSE lead
           share == IF gc.correlated # <<>> THEN Head(gc.correlated).sample ELSE lead.total
           severity == IF gc.ratio > limit.ratioCritical \/ gc.longest > limit.pauseCritical
                       THEN "critical" ELSE "warning"
           pairs == {<<gc.longest, limit.pause>>, <<gc.ratio, limit.ratio>>}
           f == Pipeline!Plain(<<"excessive-gc">>, "excessive-gc", severity, frame, share, "medium", pairs)
<1>1. Pipeline!ExcessiveGc(cpu) \in {<<>>, <<f>>}
  BY DEF Pipeline!ExcessiveGc, Pipeline!FirstThat
<1>2. gc \in Pauses /\ limit.pause \in Int /\ limit.ratio \in Int
  BY DEF IsView, Pipeline!DetectorThresholds
<1>3. gc.longest \in Int /\ gc.ratio \in Int /\ gc.correlated \in Seq(Overlap)
  BY <1>2 DEF Pauses
<1>4. Ratios(pairs)
  BY <1>2, <1>3, FewerRatios
<1>5. S \in Seq(Hotspot) /\ found \in SUBSET DOMAIN S
  BY ViewIs
<1>6. lead.total \in Int
  <2> HIDE DEF S, found
  <2>1. lead \in Hotspot \cup {Pipeline!Process}
    BY <1>5, FoundIn
  <2>2. Pipeline!Process.total \in Int
    BY DEF Pipeline!Process
  <2> HIDE DEF lead
  <2> QED
    BY <2>1, <2>2 DEF Hotspot
<1> HIDE DEF lead
<1>7. share \in Int
  <2>1. CASE gc.correlated # <<>>
    <3>1. Head(gc.correlated) \in Overlap
      BY <1>3, <2>1, HeadTailProperties
    <3> QED
      BY <2>1, <3>1 DEF Overlap
  <2>2. CASE gc.correlated = <<>>
    BY <1>6, <2>2
  <2> QED
    BY <2>1, <2>2
<1>8. severity \in {"info", "warning", "critical"}
  OBVIOUS
<1> HIDE DEF share, pairs, frame, severity, limit, gc
<1>9. Weighed(f) /\ f.category # "cpu-hotspot"
  BY <1>4, <1>7, <1>8, PlainIs
<1> HIDE DEF f
<1>10. Specifics(<<>>) /\ Specifics(<<f>>)
  BY <1>9, NoFinding, OneFinding
<1> QED
  BY <1>1, <1>10

(* What is picked from unlike hotspots are unlike hotspots, and fall if they  *)
(* fell.                                                                     *)
LEMMA PickedUnlike ==
  ASSUME NEW S, NEW s \in Seq(S), NEW I \in SUBSET DOMAIN s
  PROVE  LET r == Pipeline!Picked(s, I)
         IN /\ r \in Seq(S) /\ (Unlike(s) => Unlike(r)) /\ (Falling(s) => Falling(r))
            /\ ToSet(r) = {s[i] : i \in I}
<1> DEFINE r == Picked(s, I)
           n == Cardinality(I)
<1>1. r \in Seq(S) /\ Len(r) = n /\ n \in Nat
  BY PickedIs
<1>2. PICK p \in [1 .. n -> I] :
        /\ \A i \in I : \E k \in 1 .. n : p[k] = i
        /\ \A k, l \in 1 .. n : k < l => p[k] < p[l]
        /\ \A k \in 1 .. n : r[k] = s[p[k]]
  BY PickedIs
<1>3. DOMAIN r = 1 .. n
  BY <1>1, LenProperties
<1>4. Pipeline!Picked(s, I) = r
  BY PickedThere
<1> HIDE DEF r, n
<1>5. \A k \in 1 .. n : p[k] \in I /\ p[k] \in DOMAIN s
  BY <1>2
<1>6. ASSUME Unlike(s) PROVE Unlike(r)
  <2> SUFFICES ASSUME NEW k \in 1 .. n, NEW l \in 1 .. n, r[k].id = r[l].id PROVE k = l
    BY <1>3 DEF Unlike
  <2>1. p[k] = p[l]
    BY <1>2, <1>5, <1>6 DEF Unlike
  <2>2. ~(k < l) /\ ~(l < k)
    <3>1. \A i \in DOMAIN s : i \in Int
      BY LenProperties
    <3>2. p[k] \in Int
      BY <1>5, <3>1
    <3> QED
      BY <1>2, <2>1, <3>2
  <2> QED
    BY <1>1, <2>2
<1>7. Falling(s) => Falling(r)
  BY <1>2, <1>3, <1>5 DEF Falling
<1>8. ToSet(r) = {s[i] : i \in I}
  BY <1>2, <1>3, <1>5 DEF ToSet
<1> QED
  BY <1>1, <1>4, <1>6, <1>7, <1>8

(* The hotspots of the report are unlike.                                    *)
LEMMA ReportedUnlike ==
  ASSUME NEW cpu, IsView(cpu)
  PROVE  Unlike(Pipeline!Reported(cpu))
<1>1. cpu.hotspots \in Seq(Hotspot) /\ cpu.shown \in Nat /\ Unlike(cpu.hotspots)
  BY DEF IsView, Unlike
<1>2. \A i \in DOMAIN Pipeline!Reported(cpu) :
        i \in DOMAIN cpu.hotspots /\ Pipeline!Reported(cpu)[i] = cpu.hotspots[i]
  BY <1>1, FirstFrom DEF Pipeline!Reported
<1> QED
  BY <1>1, <1>2 DEF Unlike

(* A stalled event loop, told of at the frame of the stall.                  *)
LEMMA EventLoopStallTells ==
  ASSUME NEW cpu, IsView(cpu)
  PROVE  Specifics(Pipeline!EventLoopStall(cpu))
<1> DEFINE limit == Pipeline!DetectorThresholds.stall
           loop == cpu.loop
           S == Pipeline!Reported(cpu)
           p99 == IF loop.confidence = "low" THEN limit.p99Low ELSE limit.p99
           max == IF loop.confidence = "low" THEN limit.maxLow ELSE limit.max
           strong == /\ loop.basis \in {"heartbeats", "both"} /\ loop.confidence = "high"
                     /\ cpu.stalls # <<>> /\ Head(cpu.stalls).overlap >= limit.overlap
           I == {i \in DOMAIN S : S[i].cat = "user" /\ (S[i].self >= 100 \/ S[i].total >= 250)}
           some == Pipeline!Picked(S, I)
           lead == Pipeline!FirstOf(Pipeline!BySelf(some), 3)
           frame == CASE strong -> Head(cpu.stalls)
                      [] ~strong /\ lead # <<>> -> Pipeline!SourcePlace(Head(lead))
                      [] OTHER -> Pipeline!Process
           share == IF strong THEN frame.sample ELSE frame.self
           severity == IF loop.max > limit.critical THEN "critical" ELSE "warning"
           pairs == {<<loop.p99, p99>>, <<loop.max, max>>}
           f == Pipeline!Plain(<<"event-loop-stall">>, "event-loop-stall", severity, frame, share, loop.confidence, pairs)
<1>1. Pipeline!EventLoopStall(cpu) \in {<<>>, <<f>>}
  BY DEF Pipeline!EventLoopStall, Pipeline!FallbackUserHotspots, Pipeline!Filtered
<1>2. loop \in Delays /\ p99 \in Int /\ max \in Int
  BY DEF IsView, Pipeline!DetectorThresholds
<1>3. Ratios(pairs)
  <2>1. loop.p99 \in Int /\ loop.max \in Int
    BY <1>2 DEF Delays
  <2> HIDE DEF loop, p99, max
  <2> QED
    BY <1>2, <2>1, FewerRatios
<1>4. lead \in Seq(Hotspot)
  <2>1. S \in Seq(Hotspot) /\ Unlike(S) /\ I \in SUBSET DOMAIN S
    BY ViewIs, ReportedUnlike
  <2> HIDE DEF S, I
  <2>2. some \in Seq(Hotspot) /\ Unlike(some)
    BY <2>1, PickedUnlike
  <2> HIDE DEF some
  <2>3. Pipeline!BySelf(some) \in Seq(Hotspot)
    BY <2>2, BySelfIs
  <2> QED
    BY <2>3, FirstFrom
<1> HIDE DEF lead, S, I, some
<1>5. share \in Int
  <2>1. CASE strong
    <3>1. cpu.stalls # <<>> /\ cpu.stalls \in Seq(Overlap)
      BY <2>1, ViewIs
    <3>2. Head(cpu.stalls) \in Overlap
      BY <3>1, HeadTailProperties
    <3>3. share = Head(cpu.stalls).sample
      BY <2>1
    <3> QED
      BY <3>2, <3>3 DEF Overlap
  <2>2. CASE ~strong
    <3>1. CASE lead # <<>>
      <4>1. Head(lead) \in Hotspot
        BY <1>4, <3>1, HeadTailProperties
      <4>2. \A h \in Hotspot : Pipeline!SourcePlace(h).self = h.self /\ h.self \in Int
        BY DEF Hotspot, Pipeline!SourcePlace
      <4>3. share = Pipeline!SourcePlace(Head(lead)).self
        <5> HIDE DEF strong
        <5> QED
          BY <2>2, <3>1
      <4> QED
        BY <4>1, <4>2, <4>3
    <3>2. CASE lead = <<>>
      <4>1. share = Pipeline!Process.self
        <5> HIDE DEF strong
        <5> QED
          BY <2>2, <3>2
      <4> QED
        BY <4>1 DEF Pipeline!Process
    <3> QED
      BY <3>1, <3>2
  <2> QED
    BY <2>1, <2>2
<1>6. severity \in {"info", "warning", "critical"}
  OBVIOUS
<1> HIDE DEF share, pairs, frame, severity, limit, loop, strong, p99, max
<1>9. Weighed(f) /\ f.category # "cpu-hotspot"
  BY <1>3, <1>5, <1>6, PlainIs
<1> HIDE DEF f
<1>10. Specifics(<<>>) /\ Specifics(<<f>>)
  BY <1>9, NoFinding, OneFinding
<1> QED
  BY <1>1, <1>10

(* A deoptimisation keeps its count wherever it is placed.                   *)
Counted(d) == "count" \in DOMAIN d /\ d.count \in Int

(* So it is counted after it was placed.                                     *)
LEMMA EnrichedIs ==
  ASSUME NEW d \in Bailout, NEW deopts, NEW hotspots
  PROVE  Counted(Pipeline!EnrichDeopt(d, deopts, hotspots))
<1>1. Counted(d)
  BY DEF Bailout, Counted
<1>2. \A h : Counted(Pipeline!AtHotspot(d, h))
  BY DEF Bailout, Counted, Pipeline!AtHotspot
<1>3. Pipeline!EnrichDeopt(d, deopts, hotspots) = d \/ \E h : Pipeline!EnrichDeopt(d, deopts, hotspots) = Pipeline!AtHotspot(d, h)
  BY DEF Pipeline!EnrichDeopt
<1> QED
  BY <1>1, <1>2, <1>3

(* So they can be counted together and sorted by that.                       *)
LEMMA AggregatedIs ==
  ASSUME NEW deopts \in Seq(Bailout), NEW hotspots
  PROVE  LET r == Pipeline!AggregateDeopts(deopts, hotspots)
         IN r \in Seq(ToSet(r)) /\ \A i \in DOMAIN r : Counted(r[i])
<1> DEFINE placed == [i \in DOMAIN deopts |-> Pipeline!EnrichDeopt(deopts[i], deopts, hotspots)]
           P == ToSet(placed)
           Alike(key) == Pipeline!Picked(placed, {i \in DOMAIN placed : Pipeline!DeoptKey(placed[i]) = key})
           Count(key) == Pipeline!Total([i \in DOMAIN Alike(key) |-> Alike(key)[i].count])
           K == {i \in DOMAIN placed : \A j \in 1 .. (i - 1) : Pipeline!DeoptKey(placed[j]) # Pipeline!DeoptKey(placed[i])}
           once == Pipeline!Picked(placed, K)
           summed == [i \in DOMAIN once |-> [once[i] EXCEPT !.count = Count(Pipeline!DeoptKey(once[i]))]]
           Q == ToSet(summed)
           r == Pipeline!Arranged(summed, DOMAIN summed, [i \in DOMAIN summed |-> -summed[i].count])
<1>1. Pipeline!AggregateDeopts(deopts, hotspots) = r
  BY DEF Pipeline!AggregateDeopts, Pipeline!Mapped, Pipeline!SumOf, Pipeline!Filtered, Pipeline!OnePerKey, Pipeline!Descending
<1>2. Len(deopts) \in Nat /\ DOMAIN deopts = 1 .. Len(deopts)
  BY LenProperties
<1>3. placed \in Seq(P)
  <2>1. placed \in [1 .. Len(deopts) -> P]
    BY <1>2 DEF ToSet
  <2> HIDE DEF placed, P
  <2> QED
    BY <1>2, <2>1, SeqDef
<1>4. \A d \in P : Counted(d)
  <2>1. \A i \in DOMAIN deopts : deopts[i] \in Bailout
    BY <1>2, ElementOfSeq
  <2>2. \A i \in DOMAIN placed : Counted(placed[i])
    BY <2>1, EnrichedIs
  <2> HIDE DEF placed
  <2> QED
    BY <2>2 DEF ToSet
<1> HIDE DEF placed, P
<1>5. ASSUME NEW key PROVE Count(key) \in Int
  <2> DEFINE some == Alike(key)
             number == [d \in P |-> d.count]
  <2>1. some \in Seq(P)
    BY <1>3, PickedFrom
  <2>2. number \in [P -> Int]
    BY <1>4 DEF Counted
  <2> HIDE DEF Alike, some
  <2>3. \A i \in DOMAIN some : some[i] \in P
    BY <2>1, LenProperties, ElementOfSeq
  <2>4. [i \in DOMAIN some |-> some[i].count] = [i \in DOMAIN some |-> number[some[i]]]
    BY <2>3
  <2> HIDE DEF number
  <2>5. [i \in DOMAIN some |-> number[some[i]]] \in Seq(Int)
    BY <2>1, <2>2, EachOf
  <2> QED
    BY <2>4, <2>5, TotalIs DEF some
<1>6. once \in Seq(P)
  BY <1>3, PickedFrom
<1> HIDE DEF Count, Alike, K, once
<1>7. Len(once) \in Nat /\ DOMAIN once = 1 .. Len(once) /\ \A i \in DOMAIN once : once[i] \in P
  BY <1>6, LenProperties, ElementOfSeq
<1>8. \A i \in DOMAIN summed : Counted(summed[i])
  BY <1>4, <1>5, <1>7 DEF Counted
<1>9. summed \in Seq(Q)
  <2>1. summed \in [1 .. Len(once) -> Q]
    BY <1>7 DEF ToSet
  <2> HIDE DEF summed, Q
  <2> QED
    BY <1>7, <2>1, SeqDef
<1>10. \A d \in Q : Counted(d)
  <2> HIDE DEF summed
  <2> QED
    BY <1>8 DEF ToSet
<1> HIDE DEF summed, Q
<1> DEFINE count == [d \in Q |-> d.count]
           rr == Pipeline!Arranged(summed, DOMAIN summed, [i \in DOMAIN summed |-> -count[summed[i]]])
<1>11. count \in [Q -> Int]
  BY <1>10 DEF Counted
<1>12. r = rr
  <2>1. \A i \in DOMAIN summed : summed[i] \in Q
    BY <1>9, LenProperties, ElementOfSeq
  <2>2. [i \in DOMAIN summed |-> -summed[i].count] = [i \in DOMAIN summed |-> -count[summed[i]]]
    BY <2>1
  <2> QED
    BY <2>2
<1> HIDE DEF count
<1>13. rr \in Seq(Q) /\ Descended(rr, summed, [i \in DOMAIN summed |-> count[summed[i]]])
  BY <1>9, <1>11, DescendedBy
<1> HIDE DEF r, rr
<1>14. ToSet(r) = Q
  <2>1. ToSet(rr) = ToSet(summed)
    BY <1>9, <1>13, DescendedKeeps
  <2> QED
    BY <1>12, <2>1 DEF Q
<1>15. \A i \in DOMAIN r : Counted(r[i])
  <2>1. \A i \in DOMAIN r : r[i] \in Q
    BY <1>12, <1>13, LenProperties, ElementOfSeq
  <2> QED
    BY <1>10, <2>1
<1> QED
  BY <1>1, <1>12, <1>13, <1>14, <1>15

(* Functions that are deoptimised again and again.                           *)
LEMMA DeoptLoopTells ==
  ASSUME NEW cpu, IsView(cpu)
  PROVE  Specifics(Pipeline!DeoptLoop(cpu))
<1> DEFINE limit == Pipeline!DetectorThresholds.deopt
           s == Pipeline!AggregateDeopts(cpu.deopts, cpu.hotspots)
           hot(d) == Pipeline!FindHotDeoptHotspot(d, cpu.hotspots)
           I == {i \in DOMAIN s : s[i].count >= limit.minCount /\ hot(s[i]) # Pipeline!Nothing}
           some == Pipeline!Picked(s, I)
           at(d) == [file |-> IF d.file # "" THEN d.file ELSE hot(d).file,
                     line |-> IF d.line # 0 THEN d.line ELSE hot(d).line,
                     fn |-> d.fn, source |-> hot(d).source]
           severity(d) == IF d.count >= limit.critical THEN "critical" ELSE "warning"
           pairs(d) == {<<d.count, limit.minCount>>}
           Tell(d) == Pipeline!Plain(<<"deopt-loop", d.fn>>, "deopt-loop", severity(d), at(d), 0, "medium", pairs(d))
           r == [i \in DOMAIN some |-> Tell(some[i])]
<1>1. Pipeline!DeoptLoop(cpu) \in {<<>>, r}
  BY DEF Pipeline!DeoptLoop, Pipeline!Mapped, Pipeline!Filtered
<1>2. limit.minCount \in Int
  BY DEF Pipeline!DetectorThresholds
<1>3. s \in Seq(ToSet(s)) /\ \A i \in DOMAIN s : Counted(s[i])
  BY ViewIs, AggregatedIs
<1> HIDE DEF limit, s, hot
<1>4. some \in Seq(ToSet(s)) /\ ToSet(some) = {s[i] : i \in I}
  BY <1>3, PickedUnlike
<1>5. \A d \in ToSet(some) : Counted(d)
  BY <1>3, <1>4
<1> HIDE DEF some, I
<1>6. ASSUME NEW d, Counted(d) PROVE Weighed(Tell(d)) /\ Tell(d).category # "cpu-hotspot"
  <2>1. Ratios(pairs(d))
    BY <1>2, <1>6, FewerRatios DEF Counted
  <2>2. severity(d) \in {"info", "warning", "critical"}
    OBVIOUS
  <2> HIDE DEF pairs, severity, at
  <2> QED
    BY <2>1, <2>2, PlainIs
<1> HIDE DEF Tell
<1>7. \A i \in DOMAIN some : Weighed(r[i]) /\ r[i].category # "cpu-hotspot"
  <2>1. \A i \in DOMAIN some : some[i] \in ToSet(some)
    BY DEF ToSet
  <2> QED
    BY <1>5, <1>6, <2>1
<1>8. r = [i \in DOMAIN some |-> r[i]]
  OBVIOUS
<1> HIDE DEF r
<1>9. Specifics(r)
  BY <1>4, <1>7, <1>8, FindingsOf
<1> QED
  BY <1>1, <1>9, NoFinding

------------------------------------------------------------------------------
(* The hottest three of falling hotspots leave out only what is no hotter.   *)
LEMMA FirstThree ==
  ASSUME NEW s \in Seq(Hotspot), Unlike(s), Falling(s), NEW k \in DOMAIN s
  PROVE  LET r == Pipeline!FirstOf(s, 3)
         IN \/ s[k] \in ToSet(r)
            \/ Len(r) = 3 /\ \A g \in ToSet(r) : g.self >= s[k].self
<1> DEFINE r == Pipeline!FirstOf(s, 3)
<1>1. /\ r \in Seq(Hotspot) /\ Len(r) = IF 3 <= Len(s) THEN 3 ELSE Len(s)
      /\ \A i \in DOMAIN r : i \in DOMAIN s /\ r[i] = s[i]
  BY FirstFrom
<1>2. Len(s) \in Nat /\ DOMAIN s = 1 .. Len(s) /\ DOMAIN r = 1 .. Len(r)
  BY <1>1, LenProperties
<1> HIDE DEF r
<1>3. CASE k <= 3
  <2>1. k \in DOMAIN r
    BY <1>1, <1>2, <1>3
  <2> QED
    BY <1>1, <2>1 DEF ToSet, r
<1>4. CASE ~(k <= 3)
  <2>1. Len(r) = 3 /\ \A i \in DOMAIN r : i < k
    BY <1>1, <1>2, <1>4
  <2>2. \A i \in DOMAIN r : r[i].self >= s[k].self
    BY <1>1, <2>1 DEF Falling
  <2> QED
    BY <2>1, <2>2 DEF ToSet, r
<1> QED
  BY <1>3, <1>4

(* Which hotspots are told of, and why the others are not.                   *)
ToldOrBehind(h, r) ==
  \/ h \in ToSet(r)
  \/ h.self < 100 /\ \E g \in ToSet(r) : g.self >= 100
  \/ Len(r) = 3 /\ \A g \in ToSet(r) : g.self >= h.self

(* Of the hotspots that nothing explains.                                    *)
LEMMA HottestTells ==
  ASSUME NEW open \in Seq(Hotspot), Unlike(open), Falling(open)
  PROVE  LET r == Pipeline!Hottest(open)
         IN /\ r \in Seq(Hotspot) /\ Unlike(r) /\ ToSet(r) \subseteq ToSet(open)
            /\ \A h \in ToSet(open) : ToldOrBehind(h, r)
<1> DEFINE I == {i \in DOMAIN open : open[i].self >= 100}
           selfs == Pipeline!Picked(open, I)
           s == IF selfs # <<>> THEN selfs ELSE open
           r == Pipeline!FirstOf(s, 3)
<1>1. Pipeline!Hottest(open) = r
  BY DEF Pipeline!Hottest, Pipeline!Filtered, Pipeline!DetectorThresholds
<1>2. I \in SUBSET DOMAIN open
  OBVIOUS
<1>3. selfs \in Seq(Hotspot) /\ Unlike(selfs) /\ Falling(selfs) /\ ToSet(selfs) = {open[i] : i \in I}
  <2> HIDE DEF I
  <2> QED
    BY <1>2, PickedUnlike
<1>4. \A h \in ToSet(selfs) : h.self >= 100 /\ h \in ToSet(open)
  <2> HIDE DEF selfs
  <2> QED
    BY <1>3 DEF ToSet
<1>5. \A h \in ToSet(open) : h.self >= 100 => h \in ToSet(selfs)
  <2> HIDE DEF selfs
  <2> QED
    BY <1>3 DEF ToSet
<1> HIDE DEF I, selfs
<1>6. s \in Seq(Hotspot) /\ Unlike(s) /\ Falling(s) /\ ToSet(s) \subseteq ToSet(open)
  BY <1>3, <1>4
<1>7. \A h \in ToSet(open) : h \in Hotspot
  BY LenProperties, ElementOfSeq DEF ToSet
<1> HIDE DEF s
<1>8. /\ r \in Seq(Hotspot) /\ Len(r) = IF 3 <= Len(s) THEN 3 ELSE Len(s)
      /\ \A i \in DOMAIN r : i \in DOMAIN s /\ r[i] = s[i]
  BY <1>6, FirstFrom
<1>9. \A k \in DOMAIN s : s[k] \in ToSet(r) \/ (Len(r) = 3 /\ \A g \in ToSet(r) : g.self >= s[k].self)
  BY <1>6, FirstThree
<1> HIDE DEF r
<1>10. Unlike(r) /\ ToSet(r) \subseteq ToSet(s)
  BY <1>6, <1>8 DEF Unlike, ToSet
<1>11. \A h \in ToSet(s) : h \in ToSet(r) \/ (Len(r) = 3 /\ \A g \in ToSet(r) : g.self >= h.self)
  BY <1>9 DEF ToSet
<1>12. ASSUME NEW h \in ToSet(open) PROVE ToldOrBehind(h, r)
  <2>1. CASE selfs = <<>>
    BY <1>11, <2>1 DEF ToldOrBehind, s
  <2>2. CASE selfs # <<>> /\ h.self >= 100
    BY <1>5, <1>11, <2>2 DEF ToldOrBehind, s
  <2>3. CASE selfs # <<>> /\ ~(h.self >= 100)
    <3>1. s = selfs
      BY <2>3 DEF s
    <3>2. Len(s) \in Nat /\ Len(s) # 0 /\ DOMAIN r = 1 .. Len(r)
      BY <1>3, <1>8, <2>3, <3>1, EmptySeq, LenProperties
    <3>3. 1 \in DOMAIN r
      BY <1>8, <3>2
    <3>4. r[1] \in ToSet(r) /\ r[1] \in ToSet(selfs)
      BY <1>8, <3>1, <3>3 DEF ToSet
    <3>5. r[1].self >= 100
      BY <1>4, <3>4
    <3>6. h.self < 100
      BY <1>7, <2>3 DEF Hotspot
    <3> QED
      BY <3>4, <3>5, <3>6 DEF ToldOrBehind
  <2> QED
    BY <2>1, <2>2, <2>3
<1> QED
  BY <1>1, <1>6, <1>8, <1>10, <1>12

(* The generic finding of a hotspot.                                         *)
IsGenericOf(f, h) ==
  Weighed(f) /\ f.category = "cpu-hotspot" /\ f.hotspot = h.id /\ f.self = h.self

(* The generic detector: each of its findings is of one of the hottest that  *)
(* no finding explains.                                                      *)
LEMMA GenericIs ==
  ASSUME NEW cpu, IsView(cpu), NEW findings
  PROVE  LET s == Pipeline!Hottest(Pipeline!BySelf(Pipeline!Picked(Pipeline!Reported(cpu), Pipeline!Unexplained(cpu, findings))))
             r == Pipeline!CpuHotspot(cpu, findings)
         IN s \in Seq(Hotspot) => /\ DOMAIN r = DOMAIN s /\ r = [i \in DOMAIN s |-> r[i]]
                                  /\ \A i \in DOMAIN s : IsGenericOf(r[i], s[i])
<1> DEFINE s == Pipeline!Hottest(Pipeline!BySelf(Pipeline!Picked(Pipeline!Reported(cpu), Pipeline!Unexplained(cpu, findings))))
           limit == Pipeline!DetectorThresholds.cpuHotspot
           found(h) == {i \in DOMAIN cpu.stalls : Pipeline!SameFrame(cpu.stalls[i], h)}
           stall(h) == IF found(h) = {} THEN Pipeline!Nothing ELSE cpu.stalls[Pipeline!Min(found(h))]
           severity(h) == IF Pipeline!Larger(h.self, h.total) >= limit.critical THEN "critical" ELSE "warning"
           pairs(h) == {<<h.total, limit.minTotal>>, <<h.self, limit.minSelf>>}
           plain(h) == Pipeline!Plain(<<"cpu-hotspot", h.id>>, "cpu-hotspot", severity(h),
                                      Pipeline!SourcePlace(h), h.self, "medium", pairs(h))
           Tell(h) == [plain(h) EXCEPT !.hotspot = h.id, !.correlation = stall(h)]
           r == [i \in DOMAIN s |-> Tell(s[i])]
<1>1. Pipeline!CpuHotspot(cpu, findings) = r
  BY DEF Pipeline!CpuHotspot, Pipeline!Mapped, Pipeline!FirstThat
<1>2. limit.minTotal \in Int /\ limit.minSelf \in Int
  BY DEF Pipeline!DetectorThresholds
<1> HIDE DEF limit, s
<1>3. ASSUME NEW h \in Hotspot PROVE IsGenericOf(Tell(h), h)
  <2>1. h.total \in Int /\ h.self \in Int
    BY DEF Hotspot
  <2>2. Ratios(pairs(h))
    BY <1>2, <2>1, FewerRatios
  <2>3. severity(h) \in {"info", "warning", "critical"}
    OBVIOUS
  <2>4. found(h) \in SUBSET DOMAIN cpu.stalls /\ cpu.stalls \in Seq(Overlap)
    BY ViewIs
  <2> HIDE DEF pairs, severity, found
  <2>5. stall(h) \in Overlap \cup {Pipeline!Nothing}
    BY <2>4, FoundIn
  <2>6. stall(h) = Pipeline!Nothing \/ stall(h).overlap \in Int
    BY <2>5 DEF Overlap
  <2> HIDE DEF stall
  <2> QED
    BY <2>1, <2>2, <2>3, <2>6 DEF Pipeline!Plain, Weighed, IsGenericOf
<1> HIDE DEF Tell
<1>4. ASSUME s \in Seq(Hotspot) PROVE \A i \in DOMAIN s : IsGenericOf(r[i], s[i])
  <2>1. \A i \in DOMAIN s : s[i] \in Hotspot
    BY <1>4, LenProperties, ElementOfSeq
  <2> QED
    BY <1>3, <2>1
<1>5. DOMAIN r = DOMAIN s /\ r = [i \in DOMAIN s |-> r[i]]
  OBVIOUS
<1> HIDE DEF r
<1> QED
  BY <1>1, <1>4, <1>5 DEF s

(* A list without repetition has as many elements as places.                 *)
LEMMA DistinctMany ==
  ASSUME NEW S, NEW r \in Seq(S), \A i, j \in DOMAIN r : r[i] = r[j] => i = j
  PROVE  Cardinality(ToSet(r)) = Len(r)
<1>1. Len(r) \in Nat /\ DOMAIN r = 1 .. Len(r)
  BY LenProperties
<1> DEFINE T == ToSet(r)
           D == 1 .. Len(r)
           g == [i \in D |-> r[i]]
<1>2. g \in Bijection(D, T)
  <2>1. \A i \in D : g[i] \in T
    BY <1>1 DEF ToSet
  <2>2. \A i, j \in D : i # j => g[i] # g[j]
    BY <1>1
  <2>3. \A x \in T : \E i \in D : g[i] = x
    BY <1>1 DEF ToSet
  <2>4. g \in [D -> T]
    BY <2>1
  <2> HIDE DEF D, T, g
  <2> QED
    BY <2>2, <2>3, <2>4 DEF Bijection, Injection, Surjection, IsInjective
<1>3. IsFiniteSet(D) /\ Cardinality(D) = Len(r)
  BY <1>1, UpTo
<1> HIDE DEF D, T, g
<1>4. ExistsBijection(D, T)
  BY <1>2 DEF ExistsBijection
<1>5. Cardinality(T) = Cardinality(D)
  BY <1>3, <1>4, FS_Bijection
<1> QED
  BY <1>3, <1>5 DEF T

(* Why a hot frame is not told of, when these are the generic findings.      *)
Behind(h, G) ==
  \/ h.self < 100 /\ \E f \in G : f.self >= 100
  \/ Cardinality(G) = 3 /\ \A f \in G : f.self >= h.self

(* What the generic detector gives, after these findings.                    *)
GenericTold(cpu, findings, r) ==
  \A h \in ToSet(Pipeline!Reported(cpu)) : Hot(h) =>
    IF Named(h, findings) THEN ~\E g \in ToSet(r) : g.hotspot = h.id
    ELSE (\E g \in ToSet(r) : g.hotspot = h.id) \/ Behind(h, ToSet(r))

(* Whatever was found before it, it passes over the frames that are          *)
(* explained and no other hot one without reason.                            *)
LEMMA CpuHotspotTells ==
  ASSUME NEW cpu, IsView(cpu), NEW findings
  PROVE  LET r == Pipeline!CpuHotspot(cpu, findings)
         IN /\ r \in Seq(ToSet(r))
            /\ \A f \in ToSet(r) : Weighed(f) /\ f.category = "cpu-hotspot"
            /\ GenericTold(cpu, findings, r)
<1> DEFINE S == Pipeline!Reported(cpu)
           U == Pipeline!Unexplained(cpu, findings)
           limit == Pipeline!DetectorThresholds.cpuHotspot
           open == Pipeline!Picked(S, U)
           sorted == Pipeline!BySelf(open)
           s == Pipeline!Hottest(sorted)
           r == Pipeline!CpuHotspot(cpu, findings)
<1>1. S \in Seq(Hotspot) /\ Unlike(S) /\ U \in SUBSET DOMAIN S
  BY ViewIs, ReportedUnlike DEF Pipeline!Unexplained
<1>2. \A i \in DOMAIN S : i \in U <=> Hot(S[i]) /\ ~Named(S[i], findings)
  <2>1. limit.minSelf = 100 /\ limit.minTotal = 250
    BY DEF Pipeline!DetectorThresholds
  <2>2. U = {i \in DOMAIN S : /\ S[i].cat = "user" /\ (S[i].self >= limit.minSelf \/ S[i].total >= limit.minTotal)
                             /\ ~Named(S[i], findings)}
    BY DEF Pipeline!Unexplained, Named, Pipeline!ToSet, ToSet
  <2> HIDE DEF limit, S, U
  <2> QED
    BY <2>1, <2>2 DEF Hot
<1>3. s \in Seq(Hotspot) => /\ DOMAIN r = DOMAIN s /\ r = [i \in DOMAIN s |-> r[i]]
                            /\ \A i \in DOMAIN s : IsGenericOf(r[i], s[i])
  BY GenericIs
<1> HIDE DEF S, U, r
<1>4. open \in Seq(Hotspot) /\ Unlike(open) /\ ToSet(open) = {S[i] : i \in U}
  BY <1>1, PickedUnlike
<1> HIDE DEF open
<1>5. sorted \in Seq(Hotspot) /\ Unlike(sorted) /\ Falling(sorted) /\ ToSet(sorted) = ToSet(open)
  BY <1>4, BySelfIs
<1> HIDE DEF sorted
<1>6. s \in Seq(Hotspot) /\ Unlike(s) /\ ToSet(s) \subseteq ToSet(sorted) /\ \A h \in ToSet(sorted) : ToldOrBehind(h, s)
  BY <1>5, HottestTells
<1> HIDE DEF s
<1>7. /\ DOMAIN r = DOMAIN s /\ r = [i \in DOMAIN s |-> r[i]]
      /\ \A i \in DOMAIN s : IsGenericOf(r[i], s[i])
  BY <1>3, <1>6
<1>8. Len(s) \in Nat /\ DOMAIN s = 1 .. Len(s)
  BY <1>6, LenProperties
<1>9. r \in Seq(ToSet(r)) /\ Len(r) = Len(s)
  <2>1. \A i \in DOMAIN s : r[i] \in ToSet(r)
    BY <1>7 DEF ToSet
  <2>2. r \in [1 .. Len(s) -> ToSet(r)]
    BY <1>7, <1>8, <2>1
  <2>3. r \in Seq(ToSet(r))
    BY <1>8, <2>2, SeqDef
  <2> QED
    BY <1>7, <1>8, <2>3, LenProperties
<1>10. \A f \in ToSet(r) : Weighed(f) /\ f.category = "cpu-hotspot"
  BY <1>7 DEF ToSet, IsGenericOf
<1>11. \A h \in ToSet(s) : \E f \in ToSet(r) : f.hotspot = h.id /\ f.self = h.self
  BY <1>7 DEF ToSet, IsGenericOf
<1>12. \A f \in ToSet(r) : \E h \in ToSet(s) : f.hotspot = h.id /\ f.self = h.self
  BY <1>7 DEF ToSet, IsGenericOf
<1>13. Len(s) = 3 => Cardinality(ToSet(r)) = 3
  <2>1. \A i, j \in DOMAIN r : r[i] = r[j] => i = j
    BY <1>6, <1>7 DEF IsGenericOf, Unlike
  <2> QED
    BY <1>9, <2>1, DistinctMany
<1>14. \A h \in ToSet(S) : Hot(h) /\ ~Named(h, findings) => h \in ToSet(sorted)
  BY <1>2, <1>4, <1>5 DEF ToSet
<1>15. \A h \in ToSet(sorted) : ~Named(h, findings) /\ h \in ToSet(S)
  BY <1>1, <1>2, <1>4, <1>5 DEF ToSet
<1>16. \A h, g \in ToSet(S) : h.id = g.id => h = g
  BY <1>1 DEF Unlike, ToSet
<1>17. ASSUME NEW h \in ToSet(S), Hot(h), Named(h, findings)
       PROVE  ~\E g \in ToSet(r) : g.hotspot = h.id
  BY <1>6, <1>12, <1>15, <1>16, <1>17
<1>18. ASSUME NEW h \in ToSet(S), Hot(h), ~Named(h, findings)
       PROVE  (\E g \in ToSet(r) : g.hotspot = h.id) \/ Behind(h, ToSet(r))
  <2>1. ToldOrBehind(h, s)
    BY <1>6, <1>14, <1>18
  <2>2. CASE h \in ToSet(s)
    BY <1>11, <2>2
  <2>3. CASE h.self < 100 /\ \E g \in ToSet(s) : g.self >= 100
    BY <1>11, <2>3 DEF Behind
  <2>4. CASE Len(s) = 3 /\ \A g \in ToSet(s) : g.self >= h.self
    BY <1>12, <1>13, <2>4 DEF Behind
  <2> QED
    BY <2>1, <2>2, <2>3, <2>4 DEF ToldOrBehind
<1>19. GenericTold(cpu, findings, r)
  BY <1>17, <1>18 DEF GenericTold, S
<1> QED
  BY <1>9, <1>10, <1>19 DEF r

(* It sees of the other findings only which they are.                        *)
LEMMA GenericSeesTheSet ==
  ASSUME NEW cpu, NEW a, NEW b, ToSet(a) = ToSet(b)
  PROVE  Pipeline!CpuHotspot(cpu, a) = Pipeline!CpuHotspot(cpu, b)
<1>1. Pipeline!ToSet(a) = Pipeline!ToSet(b)
  BY DEF Pipeline!ToSet, ToSet
<1>2. Pipeline!Unexplained(cpu, a) = Pipeline!Unexplained(cpu, b)
  BY <1>1 DEF Pipeline!Unexplained
<1> QED
  BY <1>2 DEF Pipeline!CpuHotspot

------------------------------------------------------------------------------
(* The number of each element of a list.                                     *)
Keyed(key, s) == [i \in DOMAIN s |-> key[s[i]]]

(* Sorted by key, and where the key does not decide as it was.               *)
StableBy(r, s, key) ==
  \A k, l \in DOMAIN r : k < l =>
    \/ key[r[k]] > key[r[l]]
    \/ key[r[k]] = key[r[l]] /\ \E i, j \in DOMAIN s : i < j /\ r[k] = s[i] /\ r[l] = s[j]

(* One sort after another: what the later one finds equal is as the earlier  *)
(* one left it.                                                              *)
LEMMA DescendedPlaces ==
  ASSUME NEW S, NEW s \in Seq(S), NEW key \in [S -> Int], NEW r \in Seq(S),
         Descended(r, s, Keyed(key, s))
  PROVE  StableBy(r, s, key)
<1> DEFINE number == Keyed(key, s)
<1>1. Len(s) \in Nat /\ DOMAIN s = 1 .. Len(s) /\ DOMAIN r = 1 .. Len(s)
  BY LenProperties DEF Descended
<1>2. PICK p \in [1 .. Len(s) -> 1 .. Len(s)] :
        /\ \A k, l \in 1 .. Len(s) : k < l => \/ number[p[k]] > number[p[l]]
                                              \/ number[p[k]] = number[p[l]] /\ p[k] < p[l]
        /\ \A k \in 1 .. Len(s) : r[k] = s[p[k]]
  BY DEF Descended
<1>3. \A k \in DOMAIN r : p[k] \in DOMAIN s /\ number[p[k]] = key[r[k]]
  BY <1>1, <1>2 DEF Keyed
<1> HIDE DEF number
<1>4. ASSUME NEW k \in DOMAIN r, NEW l \in DOMAIN r, k < l
      PROVE  \/ key[r[k]] > key[r[l]]
             \/ key[r[k]] = key[r[l]] /\ \E i, j \in DOMAIN s : i < j /\ r[k] = s[i] /\ r[l] = s[j]
  <2>1. p[k] \in DOMAIN s /\ p[l] \in DOMAIN s /\ r[k] = s[p[k]] /\ r[l] = s[p[l]]
    BY <1>1, <1>2, <1>3
  <2>2. \/ number[p[k]] > number[p[l]]
        \/ number[p[k]] = number[p[l]] /\ p[k] < p[l]
    BY <1>1, <1>2, <1>4
  <2>3. number[p[k]] = key[r[k]] /\ number[p[l]] = key[r[l]]
    BY <1>3
  <2> QED
    BY <2>1, <2>2, <2>3
<1> QED
  BY <1>4 DEF StableBy

(* Three sorts: the findings stay, and none outranks one before it.          *)
LEMMA FindingsAreRanked ==
  ASSUME NEW S, \A f \in S : Weighed(f), NEW s \in Seq(S)
  PROVE  LET r == Pipeline!SortFindings(s)
         IN /\ ToSet(r) = ToSet(s) /\ \A f : Times(f, r) = Times(f, s)
            /\ \A i, j \in DOMAIN r : i < j => ~Outranks(r[j], r[i])
<1> DEFINE self == [f \in S |-> f.self]
           weight == [f \in S |-> Pipeline!SeverityWeight(f.severity)]
           score == [f \in S |-> Pipeline!Score(f)]
           a == Pipeline!Arranged(s, DOMAIN s, [i \in DOMAIN s |-> -s[i].self])
           b == Pipeline!Arranged(a, DOMAIN a, [i \in DOMAIN a |-> -Pipeline!SeverityWeight(a[i].severity)])
           c == Pipeline!Arranged(b, DOMAIN b, [i \in DOMAIN b |-> -Pipeline!Score(b[i])])
<1>1. Pipeline!SortFindings(s) = c
  BY DEF Pipeline!SortFindings, Pipeline!Descending
<1>2. self \in [S -> Int] /\ weight \in [S -> Int] /\ score \in [S -> Int]
  <2>1. \A f \in S : f.self \in Int /\ Pipeline!SeverityWeight(f.severity) \in Int /\ Pipeline!Score(f) \in Int
    BY ScoreIs DEF Weighed
  <2> QED
    BY <2>1
<1>3. \A f \in S : self[f] = f.self /\ weight[f] = Pipeline!SeverityWeight(f.severity) /\ score[f] = Pipeline!Score(f)
  OBVIOUS
<1> HIDE DEF self, weight, score
<1>4. a \in Seq(S) /\ Descended(a, s, Keyed(self, s))
  <2>1. \A i \in DOMAIN s : s[i] \in S
    BY LenProperties, ElementOfSeq
  <2>2. [i \in DOMAIN s |-> -s[i].self] = [i \in DOMAIN s |-> -self[s[i]]]
    BY <1>3, <2>1
  <2> QED
    BY <1>2, <2>2, DescendedBy DEF Keyed
<1> HIDE DEF a
<1>5. b \in Seq(S) /\ Descended(b, a, Keyed(weight, a))
  <2>1. \A i \in DOMAIN a : a[i] \in S
    BY <1>4, LenProperties, ElementOfSeq
  <2>2. [i \in DOMAIN a |-> -Pipeline!SeverityWeight(a[i].severity)] = [i \in DOMAIN a |-> -weight[a[i]]]
    BY <1>3, <2>1
  <2> QED
    BY <1>2, <1>4, <2>2, DescendedBy DEF Keyed
<1> HIDE DEF b
<1>6. c \in Seq(S) /\ Descended(c, b, Keyed(score, b))
  <2>1. \A i \in DOMAIN b : b[i] \in S
    BY <1>5, LenProperties, ElementOfSeq
  <2>2. [i \in DOMAIN b |-> -Pipeline!Score(b[i])] = [i \in DOMAIN b |-> -score[b[i]]]
    BY <1>3, <2>1
  <2> QED
    BY <1>2, <1>5, <2>2, DescendedBy DEF Keyed
<1> HIDE DEF c
<1>7. ToSet(c) = ToSet(s) /\ \A f : Times(f, c) = Times(f, s)
  <2>1. ToSet(a) = ToSet(s) /\ \A f : Times(f, a) = Times(f, s)
    BY <1>4, DescendedKeeps
  <2>2. ToSet(b) = ToSet(a) /\ \A f : Times(f, b) = Times(f, a)
    BY <1>4, <1>5, DescendedKeeps
  <2>3. ToSet(c) = ToSet(b) /\ \A f : Times(f, c) = Times(f, b)
    BY <1>5, <1>6, DescendedKeeps
  <2> QED
    BY <2>1, <2>2, <2>3
<1>12. StableBy(a, s, self) /\ StableBy(b, a, weight) /\ StableBy(c, b, score)
  BY <1>2, <1>4, <1>5, <1>6, DescendedPlaces
<1>8. \A k, l \in DOMAIN a : k < l => self[a[k]] >= self[a[l]]
  <2>1. \A k \in DOMAIN a : self[a[k]] \in Int
    BY <1>2, <1>4, LenProperties, ElementOfSeq
  <2>2. \A k, l \in DOMAIN a : k < l => self[a[k]] > self[a[l]] \/ self[a[k]] = self[a[l]]
    BY <1>12 DEF StableBy
  <2> QED
    BY <2>1, <2>2
<1>9. \A k, l \in DOMAIN b : k < l => \/ weight[b[k]] > weight[b[l]]
                                      \/ weight[b[k]] = weight[b[l]] /\ self[b[k]] >= self[b[l]]
  <2>1. \A k, l \in DOMAIN b : k < l =>
              \/ weight[b[k]] > weight[b[l]]
              \/ weight[b[k]] = weight[b[l]] /\ \E i, j \in DOMAIN a : i < j /\ b[k] = a[i] /\ b[l] = a[j]
    BY <1>12 DEF StableBy
  <2> QED
    BY <1>8, <2>1
<1>10. \A k, l \in DOMAIN c : k < l =>
         \/ score[c[k]] > score[c[l]]
         \/ /\ score[c[k]] = score[c[l]]
            /\ \/ weight[c[k]] > weight[c[l]]
               \/ weight[c[k]] = weight[c[l]] /\ self[c[k]] >= self[c[l]]
  <2>1. \A k, l \in DOMAIN c : k < l =>
              \/ score[c[k]] > score[c[l]]
              \/ score[c[k]] = score[c[l]] /\ \E i, j \in DOMAIN b : i < j /\ c[k] = b[i] /\ c[l] = b[j]
    BY <1>12 DEF StableBy
  <2> QED
    BY <1>9, <2>1
<1>11. ASSUME NEW i \in DOMAIN c, NEW j \in DOMAIN c, i < j
       PROVE  ~Outranks(c[j], c[i])
  <2>1. c[i] \in S /\ c[j] \in S
    BY <1>6, LenProperties, ElementOfSeq
  <2>2. /\ score[c[i]] \in Int /\ weight[c[i]] \in Int /\ self[c[i]] \in Int
        /\ score[c[j]] \in Int /\ weight[c[j]] \in Int /\ self[c[j]] \in Int
    BY <1>2, <2>1
  <2>3. \/ score[c[i]] > score[c[j]]
        \/ /\ score[c[i]] = score[c[j]]
           /\ \/ weight[c[i]] > weight[c[j]]
              \/ weight[c[i]] = weight[c[j]] /\ self[c[i]] >= self[c[j]]
    BY <1>10, <1>11
  <2>4. Outranks(c[j], c[i]) <=> \/ score[c[j]] - score[c[i]] > 0
                                 \/ /\ score[c[j]] - score[c[i]] = 0
                                    /\ \/ weight[c[j]] - weight[c[i]] > 0
                                       \/ weight[c[j]] - weight[c[i]] = 0 /\ self[c[j]] > self[c[i]]
    BY <1>3, <2>1 DEF Outranks
  <2> QED
    BY <2>2, <2>3, <2>4
<1> QED
  BY <1>1, <1>7, <1>11

------------------------------------------------------------------------------
(* How often a finding is in two lists one after the other.                  *)
LEMMA TimesOfConcat ==
  ASSUME NEW S, NEW s \in Seq(S), NEW t \in Seq(S), NEW f
  PROVE  /\ Times(f, s) \in Nat /\ Times(f, t) \in Nat
         /\ Times(f, s \o t) = Times(f, s) + Times(f, t)
<1>1. /\ s \o t \in Seq(S) /\ Len(s \o t) = Len(s) + Len(t)
      /\ \A i \in 1 .. Len(s) + Len(t) : (s \o t)[i] = IF i <= Len(s) THEN s[i] ELSE t[i - Len(s)]
  BY ConcatProperties
<1>2. /\ DOMAIN s = 1 .. Len(s) /\ Len(s) \in Nat /\ DOMAIN t = 1 .. Len(t) /\ Len(t) \in Nat
      /\ DOMAIN (s \o t) = 1 .. Len(s) + Len(t)
  BY <1>1, LenProperties
<1> DEFINE u == s \o t
           A == {i \in DOMAIN s : s[i] = f}
           B == {i \in DOMAIN t : t[i] = f}
           C == {i \in DOMAIN u : u[i] = f}
           M == {i \in C : ~(i <= Len(s))}
           g == [i \in B |-> Len(s) + i]
<1>3. \A i \in 1 .. Len(s) + Len(t) : u[i] = IF i <= Len(s) THEN s[i] ELSE t[i - Len(s)]
  BY <1>1
<1>4. DOMAIN u = 1 .. Len(s) + Len(t)
  BY <1>2
<1> HIDE DEF u
<1>5. IsFiniteSet(A) /\ IsFiniteSet(B)
  <2>1. IsFiniteSet(1 .. Len(s)) /\ IsFiniteSet(1 .. Len(t))
    BY <1>2, UpTo
  <2>2. A \subseteq 1 .. Len(s) /\ B \subseteq 1 .. Len(t)
    BY <1>2
  <2> QED
    BY <2>1, <2>2, FS_Subset
<1>6. C = A \cup M /\ A \cap M = {}
  <2>1. \A i \in C : i <= Len(s) => i \in A
    BY <1>2, <1>3, <1>4
  <2>2. \A i \in A : i \in C /\ i <= Len(s)
    BY <1>2, <1>3, <1>4
  <2>3. C \subseteq A \cup M
    BY <2>1
  <2> QED
    BY <2>2, <2>3
<1>7. g \in Bijection(B, M)
  <2>1. \A i \in B : g[i] \in M
    <3> SUFFICES ASSUME NEW i \in B PROVE Len(s) + i \in M
      OBVIOUS
    <3>1. Len(s) + i \in 1 .. Len(s) + Len(t) /\ ~(Len(s) + i <= Len(s)) /\ (Len(s) + i) - Len(s) = i
      BY <1>2
    <3>2. u[Len(s) + i] = t[(Len(s) + i) - Len(s)]
      BY <1>3, <3>1
    <3>3. u[Len(s) + i] = f
      BY <3>1, <3>2
    <3> QED
      BY <1>4, <3>1, <3>3
  <2>2. \A i, j \in B : i # j => g[i] # g[j]
    BY <1>2
  <2>3. \A m \in M : \E i \in B : g[i] = m
    <3> SUFFICES ASSUME NEW m \in M PROVE m - Len(s) \in B /\ Len(s) + (m - Len(s)) = m
      OBVIOUS
    <3>1. m \in 1 .. Len(s) + Len(t) /\ ~(m <= Len(s)) /\ u[m] = f
      BY <1>4
    <3>2. u[m] = t[m - Len(s)]
      BY <1>3, <3>1
    <3>3. m - Len(s) \in 1 .. Len(t) /\ Len(s) + (m - Len(s)) = m
      BY <1>2, <3>1
    <3> QED
      BY <1>2, <3>1, <3>2, <3>3
  <2>4. g \in [B -> M]
    BY <2>1
  <2> HIDE DEF B, M, g
  <2> QED
    BY <2>2, <2>3, <2>4 DEF Bijection, Injection, Surjection, IsInjective
<1>8. IsFiniteSet(M) /\ Cardinality(M) = Cardinality(B)
  <2> HIDE DEF B, M, g
  <2>1. ExistsBijection(B, M)
    BY <1>7 DEF ExistsBijection
  <2> QED
    BY <1>5, <2>1, FS_Bijection
<1>9. Cardinality(C) = Cardinality(A) + Cardinality(M)
  <2> HIDE DEF A, B, C, M
  <2>1. Cardinality(A \cup M) = Cardinality(A) + Cardinality(M) - Cardinality(A \cap M)
    BY <1>5, <1>8, FS_Union
  <2>2. Cardinality(A \cap M) = 0
    BY <1>6, FS_EmptySet
  <2>3. Cardinality(A) \in Nat /\ Cardinality(M) \in Nat
    BY <1>5, <1>8, FS_CardinalityType
  <2> QED
    BY <1>6, <2>1, <2>2, <2>3
<1>10. Times(f, s) = Cardinality(A) /\ Times(f, t) = Cardinality(B) /\ Times(f, u) = Cardinality(C)
  BY DEF Times
<1>11. Cardinality(A) \in Nat /\ Cardinality(B) \in Nat
  <2> HIDE DEF A, B
  <2> QED
    BY <1>5, FS_CardinalityType
<1> QED
  BY <1>8, <1>9, <1>10, <1>11 DEF u

(* What a detector gives that runs before the generic one, whatever was found *)
(* before it; the places of a finding in what these detectors give.          *)
Out(part, cpu) == Pipeline!Detect(part.id, cpu, <<>>)

AllOf(A, cpu) == UNION {ToSet(Out(part, cpu)) : part \in A}
PlacesOf(f, A, cpu) ==
  {place \in A \X Nat : place[2] \in DOMAIN Out(place[1], cpu) /\ Out(place[1], cpu)[place[2]] = f}

(* One detector more.                                                        *)
LEMMA PlacesGrow ==
  ASSUME NEW f, NEW cpu, NEW A, NEW part, part \notin A, NEW S, Out(part, cpu) \in Seq(S),
         IsFiniteSet(PlacesOf(f, A, cpu))
  PROVE  LET B == A \cup {part}
         IN /\ IsFiniteSet(PlacesOf(f, B, cpu))
            /\ Cardinality(PlacesOf(f, B, cpu)) = Cardinality(PlacesOf(f, A, cpu)) + Times(f, Out(part, cpu))
<1> DEFINE t == Out(part, cpu)
           B == A \cup {part}
           P == PlacesOf(f, A, cpu)
           Q == PlacesOf(f, B, cpu)
           I == {i \in DOMAIN t : t[i] = f}
           M == {place \in {part} \X Nat : place[2] \in DOMAIN t /\ t[place[2]] = f}
           g == [i \in I |-> <<part, i>>]
<1>1. Len(t) \in Nat /\ DOMAIN t = 1 .. Len(t)
  BY LenProperties
<1>2. Q = P \cup M
  <2>1. \A x : x \in Q <=> x \in P \/ x \in M
    BY DEF PlacesOf
  <2> QED
    BY <2>1
<1>3. P \cap M = {}
  BY DEF PlacesOf
<1>4. IsFiniteSet(I)
  <2>1. IsFiniteSet(1 .. Len(t)) /\ I \subseteq 1 .. Len(t)
    BY <1>1, UpTo
  <2> QED
    BY <2>1, FS_Subset
<1> HIDE DEF P, Q, t
<1>5. g \in Bijection(I, M)
  <2>1. \A i \in I : g[i] \in M
    BY <1>1
  <2>2. \A i, j \in I : i # j => g[i] # g[j]
    OBVIOUS
  <2>3. \A m \in M : \E i \in I : g[i] = m
    OBVIOUS
  <2>4. g \in [I -> M]
    BY <2>1
  <2> HIDE DEF I, M, g
  <2> QED
    BY <2>2, <2>3, <2>4 DEF Bijection, Injection, Surjection, IsInjective
<1>6. Times(f, t) = Cardinality(I)
  BY DEF Times
<1> HIDE DEF I, M, g
<1>7. IsFiniteSet(M) /\ Cardinality(M) = Cardinality(I)
  <2>1. ExistsBijection(I, M)
    BY <1>5 DEF ExistsBijection
  <2> QED
    BY <1>4, <2>1, FS_Bijection
<1>8. IsFiniteSet(P)
  BY DEF P
<1>9. IsFiniteSet(P \cup M) /\ Cardinality(P \cup M) = Cardinality(P) + Cardinality(M) - Cardinality(P \cap M)
  BY <1>7, <1>8, FS_Union
<1>10. Cardinality(P \cap M) = 0
  BY <1>3, FS_EmptySet
<1>11. Cardinality(P) \in Nat /\ Cardinality(M) \in Nat
  BY <1>7, <1>8, FS_CardinalityType
<1>12. Cardinality(P) + Cardinality(M) - Cardinality(P \cap M) = Cardinality(P) + Cardinality(M)
  BY <1>10, <1>11
<1>13. IsFiniteSet(Q) /\ Cardinality(Q) = Cardinality(P) + Times(f, t)
  BY <1>2, <1>6, <1>7, <1>9, <1>12
<1> QED
  BY <1>13 DEF P, Q, t

------------------------------------------------------------------------------
(* The detectors of the CPU kind, as they are registered by default.          *)
Detectors == ToSet(Pipeline!DefaultAnalyzers)

(* The detectors: the generic one comes last in their order, alone.          *)
LEMMA DetectorsAre ==
  /\ \A d \in Detectors : d.kinds = {"cpu"} /\ d.throws = FALSE /\ d.order \in Int
  /\ \A d \in Detectors : d.id = "cpu-hotspot" \/ d.order < 90
  /\ \A d, e \in Detectors : d.id = "cpu-hotspot" /\ e.id = "cpu-hotspot" => d = e
  /\ \A d \in Detectors : d.id = "cpu-hotspot" => d.order = 90
  /\ \E d \in Detectors : d.id = "cpu-hotspot"
  /\ \A d \in Detectors : d.id \in {"sync-crypto-on-hot-path", "blocking-io", "json-on-hot-path", "excessive-gc",
                                    "event-loop-stall", "deopt-loop", "require-in-hot-path", "node-modules-hotspot",
                                    "cpu-hotspot"}
<1> DEFINE D(id, order) == [id |-> id, kinds |-> {"cpu"}, order |-> order, throws |-> FALSE]
           s == <<D("sync-crypto-on-hot-path", 0), D("blocking-io", 0),
                  D("json-on-hot-path", 20), D("excessive-gc", 0),
                  D("event-loop-stall", 0), D("deopt-loop", 0),
                  D("require-in-hot-path", 30), D("node-modules-hotspot", 40), D("cpu-hotspot", 90)>>
           T == {D("sync-crypto-on-hot-path", 0), D("blocking-io", 0),
                  D("json-on-hot-path", 20), D("excessive-gc", 0),
                  D("event-loop-stall", 0), D("deopt-loop", 0),
                  D("require-in-hot-path", 30), D("node-modules-hotspot", 40), D("cpu-hotspot", 90)}
<1>1. Pipeline!DefaultAnalyzers = s
  BY DEF Pipeline!DefaultAnalyzers
<1>2. Detectors = T
  <2> HIDE DEF D
  <2>1. DOMAIN s = 1 .. 9
    OBVIOUS
  <2>2. 1 .. 9 = {1, 2, 3, 4, 5, 6, 7, 8, 9}
    OBVIOUS
  <2>3. {s[i] : i \in DOMAIN s} = T
    BY <2>1, <2>2
  <2> QED
    BY <1>1, <2>3 DEF Detectors, ToSet
<1>4. ASSUME NEW d \in T
      PROVE  /\ d.kinds = {"cpu"} /\ d.throws = FALSE /\ d.order \in Int
             /\ d.id = "cpu-hotspot" \/ d.order < 90
             /\ d.id = "cpu-hotspot" => d = D("cpu-hotspot", 90) /\ d.order = 90
             /\ d.id \in {"sync-crypto-on-hot-path", "blocking-io", "json-on-hot-path", "excessive-gc",
                          "event-loop-stall", "deopt-loop", "require-in-hot-path", "node-modules-hotspot",
                          "cpu-hotspot"}
  <2>1. CASE d = D("sync-crypto-on-hot-path", 0)
    BY <2>1
  <2>2. CASE d = D("blocking-io", 0)
    BY <2>2
  <2>3. CASE d = D("json-on-hot-path", 20)
    BY <2>3
  <2>4. CASE d = D("excessive-gc", 0)
    BY <2>4
  <2>5. CASE d = D("event-loop-stall", 0)
    BY <2>5
  <2>6. CASE d = D("deopt-loop", 0)
    BY <2>6
  <2>7. CASE d = D("require-in-hot-path", 30)
    BY <2>7
  <2>8. CASE d = D("node-modules-hotspot", 40)
    BY <2>8
  <2>9. CASE d = D("cpu-hotspot", 90)
    BY <2>9
  <2> QED
    BY <2>1, <2>2, <2>3, <2>4, <2>5, <2>6, <2>7, <2>8, <2>9
<1>5. D("cpu-hotspot", 90) \in T /\ D("cpu-hotspot", 90).id = "cpu-hotspot"
  OBVIOUS
<1> HIDE DEF T
<1> QED
  BY <1>2, <1>4, <1>5

(* The others give specific findings, whatever was found before them.        *)
LEMMA OthersTell ==
  ASSUME NEW cpu, IsView(cpu), NEW d \in Detectors, d.id # "cpu-hotspot"
  PROVE  Specifics(Out(d, cpu)) /\ \A found : Pipeline!Detect(d.id, cpu, found) = Out(d, cpu)
<1>1. d.id \in {"sync-crypto-on-hot-path", "blocking-io", "json-on-hot-path", "excessive-gc",
                "event-loop-stall", "deopt-loop", "require-in-hot-path", "node-modules-hotspot"}
  BY DetectorsAre
<1>2. CASE d.id = "sync-crypto-on-hot-path"
  BY <1>2, SyncCryptoTells DEF Out, Pipeline!Detect
<1>3. CASE d.id = "blocking-io"
  BY <1>3, BlockingIoTells DEF Out, Pipeline!Detect
<1>4. CASE d.id = "json-on-hot-path"
  BY <1>4, JsonOnHotPathTells DEF Out, Pipeline!Detect
<1>5. CASE d.id = "excessive-gc"
  BY <1>5, ExcessiveGcTells DEF Out, Pipeline!Detect
<1>6. CASE d.id = "event-loop-stall"
  BY <1>6, EventLoopStallTells DEF Out, Pipeline!Detect
<1>7. CASE d.id = "deopt-loop"
  BY <1>7, DeoptLoopTells DEF Out, Pipeline!Detect
<1>8. CASE d.id = "require-in-hot-path"
  BY <1>8, RequireInHotPathTells DEF Out, Pipeline!Detect
<1>9. CASE d.id = "node-modules-hotspot"
  BY <1>9, NodeModulesHotspotTells DEF Out, Pipeline!Detect
<1> QED
  BY <1>1, <1>2, <1>3, <1>4, <1>5, <1>6, <1>7, <1>8, <1>9

(* However they were registered, each runs once and the generic one last.    *)
InTurn(parts) ==
  /\ parts \in Seq(Detectors) /\ Len(parts) \in Nat \ {0}
  /\ \A k, l \in 1 .. Len(parts) : parts[k] = parts[l] => k = l
  /\ \A d \in Detectors : \E k \in 1 .. Len(parts) : parts[k] = d
  /\ \A k \in 1 .. Len(parts) : parts[k].id = "cpu-hotspot" <=> k = Len(parts)

(* Sorting by order leaves them so.                                          *)
LEMMA TheyRunInTurn ==
  ASSUME NEW order, IsOrder(order)
  PROVE  InTurn(Pipeline!SortAnalyzers(order))
<1> DEFINE parts == Pipeline!SortAnalyzers(order)
           J == DOMAIN order
           key == [i \in J |-> order[i].order]
           n == Len(order)
<1>1. order \in Seq(Detectors) /\ ToSet(order) = Detectors /\ \A i, j \in DOMAIN order : order[i] = order[j] => i = j
  BY DEF IsOrder, Detectors, Pipeline!ToSet, ToSet
<1>2. n \in Nat /\ J = 1 .. n /\ \A i \in J : order[i] \in Detectors
  BY <1>1, LenProperties, ElementOfSeq
<1>3. \A i \in DOMAIN order : order[i].order \in Int
  BY <1>2, DetectorsAre
<1>4. parts \in Seq(Detectors) /\ Len(parts) = n
  BY <1>1, <1>3, SortIs
<1>5. PICK p : Lists(p, J, key) /\ \A k \in 1 .. n : parts[k] = order[p[k]]
  BY <1>1, <1>3, SortIs
<1>6. Cardinality(J) = n
  <2>1. Cardinality(1 .. n) = n
    BY <1>2, UpTo
  <2> QED
    BY <1>2, <2>1
<1>7. \A i \in J : key[i] = order[i].order
  OBVIOUS
<1> HIDE DEF J, key, parts, n
<1>8. /\ p \in [1 .. n -> J]
      /\ \A i \in J : \E k \in 1 .. n : p[k] = i
      /\ \A k, l \in 1 .. n : k < l => Precedes(key, p[k], p[l]) /\ p[k] # p[l]
  BY <1>5, <1>6 DEF Lists
<1>9. \A k \in 1 .. n : p[k] \in J
  BY <1>8
<1>10. ASSUME NEW k \in 1 .. n, NEW l \in 1 .. n, parts[k] = parts[l]
       PROVE  k = l
  <2>1. p[k] = p[l]
    BY <1>1, <1>5, <1>9, <1>10 DEF J
  <2> QED
    BY <1>2, <1>8, <2>1
<1>11. \A d \in Detectors : \E k \in 1 .. n : parts[k] = d
  <2> SUFFICES ASSUME NEW d \in Detectors PROVE \E k \in 1 .. n : parts[k] = d
    OBVIOUS
  <2>1. PICK i \in J : order[i] = d
    BY <1>1 DEF ToSet, J
  <2>2. PICK k \in 1 .. n : p[k] = i
    BY <1>8
  <2> QED
    BY <1>5, <2>1, <2>2
<1>12. \A k \in 1 .. n : parts[k] \in Detectors
  BY <1>2, <1>5, <1>9
<1>13. PICK g \in 1 .. n : parts[g].id = "cpu-hotspot"
  BY <1>11, DetectorsAre
<1>14. g = n
  <2> SUFFICES ASSUME g # n PROVE FALSE
    OBVIOUS
  <2>1. n \in 1 .. n /\ g < n
    BY <1>2, <1>13
  <2>2. Precedes(key, p[g], p[n])
    BY <1>8, <2>1
  <2>3. key[p[g]] = parts[g].order /\ key[p[n]] = parts[n].order
    BY <1>5, <1>7, <1>9, <2>1
  <2>4. parts[g].order = 90 /\ parts[n] \in Detectors /\ parts[g] \in Detectors
    BY <1>12, <1>13, <2>1, DetectorsAre
  <2>5. parts[n].id # "cpu-hotspot"
    <3>1. parts[n].id = "cpu-hotspot" => parts[n] = parts[g]
      BY <1>13, <2>4, DetectorsAre
    <3> QED
      BY <1>10, <2>1, <3>1
  <2>6. parts[n].order < 90 /\ parts[n].order \in Int
    BY <2>4, <2>5, DetectorsAre
  <2> QED
    BY <2>2, <2>3, <2>4, <2>6 DEF Precedes
<1>15. \A k \in 1 .. n : parts[k].id = "cpu-hotspot" <=> k = n
  <2>1. \A k \in 1 .. n : parts[k].id = "cpu-hotspot" => parts[k] = parts[g]
    BY <1>12, <1>13, DetectorsAre
  <2> QED
    BY <1>10, <1>13, <1>14, <2>1
<1>16. n # 0
  BY <1>13
<1> QED
  BY <1>2, <1>4, <1>10, <1>11, <1>15, <1>16 DEF InTurn, parts, n

------------------------------------------------------------------------------
(* A state in which the kind has its section and its view, and one of them   *)
(* after the other.                                                          *)
Ready(s) == Formed(s) /\ s.sections = {"cpu"} /\ s.views = {"cpu"}

(* A detector then adds what it finds, and changes nothing else that         *)
(* decides.                                                                  *)
LEMMA DetectorAdds ==
  ASSUME NEW s, Ready(s), NEW cpu, NEW d \in Detectors
  PROVE  LET t == Pipeline!Step("finding-analyzer", s, cpu, d)
         IN Ready(t) /\ t.findings = s.findings \o Pipeline!Detect(d.id, cpu, s.findings)
<1> DEFINE t == Pipeline!Step("finding-analyzer", s, cpu, d)
           u == [s EXCEPT !.findings = s.findings \o Pipeline!Detect(d.id, cpu, s.findings)]
<1>1. d.kinds = {"cpu"} /\ d.throws = FALSE
  BY DetectorsAre
<1>2. d.kinds \subseteq s.sections \cap s.views
  BY <1>1 DEF Ready
<1>3. t = Pipeline!Analyze(s, cpu, d)
  BY DEF Pipeline!Step
<1>4. t = u
  BY <1>1, <1>2, <1>3 DEF Pipeline!Analyze
<1> DEFINE more == s.findings \o Pipeline!Detect(d.id, cpu, s.findings)
<1>6. u = [s EXCEPT !.findings = more]
  OBVIOUS
<1> HIDE DEF more, u, t
<1>7. Formed(u) /\ u.findings = more /\ u.sections = s.sections /\ u.views = s.views
  BY <1>6 DEF Ready, Formed
<1>5. Ready(u) /\ u.findings = more
  BY <1>7 DEF Ready
<1> QED
  BY <1>4, <1>5 DEF t, more

(* What the detectors of a set have found, in some order.                    *)
Others == {d \in Detectors : d.id # "cpu-hotspot"}

Gathered(found, A, cpu) ==
  /\ found \in Seq(AllOf(Others, cpu)) /\ ToSet(found) = AllOf(A, cpu)
  /\ \A f : IsFiniteSet(PlacesOf(f, A, cpu)) /\ Times(f, found) = Cardinality(PlacesOf(f, A, cpu))

(* None yet.                                                                 *)
LEMMA NoneGathered ==
  ASSUME NEW cpu
  PROVE  Gathered(<<>>, {}, cpu)
<1>1. <<>> \in Seq(AllOf(Others, cpu)) /\ DOMAIN <<>> = {}
  BY EmptySeq
<1>2. ToSet(<<>>) = AllOf({}, cpu)
  BY <1>1 DEF ToSet, AllOf
<1>3. ASSUME NEW f PROVE IsFiniteSet(PlacesOf(f, {}, cpu)) /\ Times(f, <<>>) = Cardinality(PlacesOf(f, {}, cpu))
  <2>1. PlacesOf(f, {}, cpu) = {}
    BY DEF PlacesOf
  <2>2. Times(f, <<>>) = Cardinality({})
    BY <1>1 DEF Times
  <2> QED
    BY <2>1, <2>2, FS_EmptySet
<1> QED
  BY <1>1, <1>2, <1>3 DEF Gathered

(* The findings of one detector more.                                        *)
LEMMA OneMoreGathered ==
  ASSUME NEW cpu, IsView(cpu), NEW found, NEW A, Gathered(found, A, cpu), NEW d \in Others, d \notin A
  PROVE  Gathered(found \o Pipeline!Detect(d.id, cpu, found), A \cup {d}, cpu)
<1> DEFINE t == Out(d, cpu)
           S == AllOf(Others, cpu)
           B == A \cup {d}
<1>1. Pipeline!Detect(d.id, cpu, found) = t /\ Specifics(t)
  BY OthersTell DEF Others
<1>2. t \in Seq(ToSet(t)) /\ ToSet(t) \subseteq S
  BY <1>1 DEF Specifics, AllOf
<1>3. AllOf(B, cpu) = AllOf(A, cpu) \cup ToSet(t)
  <2>1. \A x : x \in AllOf(B, cpu) <=> x \in AllOf(A, cpu) \/ x \in ToSet(t)
    BY DEF AllOf
  <2> QED
    BY <2>1
<1>9. ASSUME NEW f
      PROVE  /\ IsFiniteSet(PlacesOf(f, B, cpu))
             /\ Cardinality(PlacesOf(f, B, cpu)) = Cardinality(PlacesOf(f, A, cpu)) + Times(f, t)
  <2>1. IsFiniteSet(PlacesOf(f, A, cpu)) /\ Out(d, cpu) \in Seq(ToSet(t))
    BY <1>2 DEF Gathered
  <2> QED
    BY <2>1, PlacesGrow
<1> HIDE DEF t, S, B
<1>4. t \in Seq(S) /\ found \in Seq(S)
  <2>1. found \in Seq(S)
    BY DEF Gathered, S
  <2>2. \A i \in DOMAIN t : t[i] \in S
    BY <1>2 DEF ToSet
  <2>3. Len(t) \in Nat /\ DOMAIN t = 1 .. Len(t) /\ t \in [1 .. Len(t) -> ToSet(t)]
    BY <1>2, LenProperties
  <2>4. t \in [1 .. Len(t) -> S]
    BY <2>2, <2>3
  <2> QED
    BY <2>1, <2>3, <2>4, SeqDef
<1>5. found \o t \in Seq(S) /\ ToSet(found \o t) = ToSet(found) \cup ToSet(t)
  BY <1>4, SetOfConcat
<1>6. ToSet(found \o t) = AllOf(B, cpu)
  BY <1>3, <1>5 DEF Gathered
<1>7. ASSUME NEW f
      PROVE  IsFiniteSet(PlacesOf(f, B, cpu)) /\ Times(f, found \o t) = Cardinality(PlacesOf(f, B, cpu))
  <2>1. Times(f, found \o t) = Times(f, found) + Times(f, t)
    BY <1>4, TimesOfConcat
  <2>2. Times(f, found) = Cardinality(PlacesOf(f, A, cpu))
    BY DEF Gathered
  <2> QED
    BY <1>9, <2>1, <2>2
<1> QED
  BY <1>1, <1>5, <1>6, <1>7 DEF Gathered, S, B

(* The loop over them, up to the generic one and with it.                    *)
LEMMA TheyGather ==
  ASSUME NEW cpu, IsView(cpu), NEW s, Ready(s), s.findings = <<>>, NEW parts, InTurn(parts),
         NEW f, Looped(f, "finding-analyzer", s, cpu, parts)
  PROVE  /\ Ready(f[Len(parts)])
         /\ \E a : Gathered(a, Others, cpu) /\ f[Len(parts)].findings = a \o Pipeline!CpuHotspot(cpu, a)
<1> DEFINE n == Len(parts)
           A(k) == {parts[i] : i \in 1 .. k}
           Held(k) == Ready(f[k]) /\ Gathered(f[k].findings, A(k), cpu)
           Bad == {k \in 0 .. n - 1 : ~Held(k)}
<1>1. /\ parts \in Seq(Detectors) /\ n \in Nat \ {0}
      /\ \A k, l \in 1 .. n : parts[k] = parts[l] => k = l
      /\ \A d \in Detectors : \E k \in 1 .. n : parts[k] = d
      /\ \A k \in 1 .. n : parts[k].id = "cpu-hotspot" <=> k = n
      /\ \A k \in 1 .. n : parts[k] \in Detectors
  BY LenProperties, ElementOfSeq DEF InTurn
<1>2. f[0] = s /\ \A k \in 1 .. n : f[k] = Pipeline!Step("finding-analyzer", f[k - 1], cpu, parts[k])
  BY DEF Looped
<1> HIDE DEF n
<1>3. Held(0)
  <2>1. A(0) = {}
    OBVIOUS
  <2> HIDE DEF A
  <2> QED
    BY <1>2, <2>1, NoneGathered
<1>4. ASSUME NEW k \in 1 .. n - 1, Held(k - 1) PROVE Held(k)
  <2>1. k \in 1 .. n /\ k # n /\ k - 1 \in Nat
    BY <1>1
  <2>2. parts[k] \in Others
    BY <1>1, <2>1 DEF Others
  <2>3. parts[k] \notin A(k - 1)
    <3>1. \A i \in 1 .. k - 1 : i \in 1 .. n /\ i # k
      BY <1>1, <2>1
    <3> QED
      BY <1>1, <2>1, <3>1
  <2>4. A(k) = A(k - 1) \cup {parts[k]}
    <3>1. 1 .. k = (1 .. k - 1) \cup {k}
      BY <2>1
    <3> QED
      BY <3>1
  <2> HIDE DEF A
  <2>5. Ready(f[k]) /\ f[k].findings = f[k - 1].findings \o Pipeline!Detect(parts[k].id, cpu, f[k - 1].findings)
    <3>1. f[k] = Pipeline!Step("finding-analyzer", f[k - 1], cpu, parts[k])
      BY <1>2, <2>1
    <3>2. Ready(f[k - 1]) /\ parts[k] \in Detectors
      BY <1>1, <1>4, <2>1
    <3> QED
      BY <3>1, <3>2, DetectorAdds
  <2>6. Gathered(f[k - 1].findings \o Pipeline!Detect(parts[k].id, cpu, f[k - 1].findings), A(k - 1) \cup {parts[k]}, cpu)
    BY <1>4, <2>2, <2>3, OneMoreGathered
  <2> QED
    BY <2>4, <2>5, <2>6
<1>5. Bad = {}
  <2> SUFFICES ASSUME Bad # {} PROVE FALSE
    OBVIOUS
  <2> HIDE DEF Held
  <2>1. Bad \in SUBSET Nat
    BY <1>1
  <2>2. PICK m \in Bad : \A k \in Bad : m <= k
    BY <2>1, LeastNatural
  <2>3. m \in 0 .. n - 1 /\ ~Held(m)
    OBVIOUS
  <2>4. m # 0
    BY <1>3, <2>3
  <2>5. m \in 1 .. n - 1 /\ m - 1 \in 0 .. n - 1 /\ ~(m <= m - 1)
    BY <1>1, <2>3, <2>4
  <2>6. Held(m - 1)
    BY <2>2, <2>5
  <2> QED
    BY <1>4, <2>3, <2>5, <2>6
<1>6. n - 1 \in 0 .. n - 1 /\ n \in 1 .. n
  BY <1>1
<1>7. Held(n - 1)
  BY <1>5, <1>6
<1>8. A(n - 1) = Others
  <2>1. \A i \in 1 .. n - 1 : parts[i] \in Others
    <3>1. \A i \in 1 .. n - 1 : i \in 1 .. n /\ i # n
      BY <1>1
    <3> QED
      BY <1>1, <3>1 DEF Others
  <2>2. \A d \in Others : \E i \in 1 .. n - 1 : parts[i] = d
    <3> SUFFICES ASSUME NEW d \in Others PROVE \E i \in 1 .. n - 1 : parts[i] = d
      OBVIOUS
    <3>1. PICK i \in 1 .. n : parts[i] = d
      BY <1>1 DEF Others
    <3>2. i # n
      BY <1>1, <3>1 DEF Others
    <3>3. i \in 1 .. n - 1
      BY <1>1, <3>1, <3>2
    <3> QED
      BY <3>1, <3>3
  <2> QED
    BY <2>1, <2>2
<1> DEFINE a == f[n - 1].findings
<1>9. Ready(f[n - 1]) /\ Gathered(a, Others, cpu)
  BY <1>7, <1>8
<1> HIDE DEF A, Held, Bad
<1>10. Ready(f[n]) /\ f[n].findings = a \o Pipeline!Detect(parts[n].id, cpu, a)
  <2>1. f[n] = Pipeline!Step("finding-analyzer", f[n - 1], cpu, parts[n])
    BY <1>2, <1>6
  <2>2. Ready(f[n - 1]) /\ parts[n] \in Detectors
    BY <1>1, <1>6, <1>9
  <2> QED
    BY <2>1, <2>2, DetectorAdds
<1>11. Pipeline!Detect(parts[n].id, cpu, a) = Pipeline!CpuHotspot(cpu, a)
  <2>1. parts[n].id = "cpu-hotspot"
    BY <1>1, <1>6
  <2> QED
    BY <2>1 DEF Pipeline!Detect
<1> QED
  BY <1>9, <1>10, <1>11 DEF n

------------------------------------------------------------------------------
(* A phase of one part.                                                      *)
LEMMA OnePart ==
  ASSUME NEW stage, NEW begun, NEW cpu, NEW part
  PROVE  Pipeline!Phase(stage, begun, cpu, <<part>>) = Pipeline!Step(stage, begun, cpu, part)
<1> DEFINE parts == <<part>>
<1>1. parts \in Seq({part}) /\ Len(parts) = 1 /\ parts[1] = part
  OBVIOUS
<1> HIDE DEF parts
<1>2. PICK f : Looped(f, stage, begun, cpu, parts)
  BY <1>1, PhaseIs
<1>3. 1 \in 1 .. 1 /\ 1 - 1 = 0
  OBVIOUS
<1>4. f[1] = Pipeline!Step(stage, f[1 - 1], cpu, parts[1])
  BY <1>1, <1>2, <1>3 DEF Looped
<1>5. f[0] = begun /\ Pipeline!Phase(stage, begun, cpu, parts) = f[1]
  BY <1>1, <1>2 DEF Looped
<1> QED
  BY <1>1, <1>3, <1>4, <1>5 DEF parts

(* And of none.                                                              *)
LEMMA NoPart ==
  ASSUME NEW stage, NEW begun, NEW cpu
  PROVE  Pipeline!Phase(stage, begun, cpu, Pipeline!SortAnalyzers(<<>>)) = begun
<1> DEFINE parts == Pipeline!SortAnalyzers(<<>>)
<1>1. <<>> \in Seq(Section) /\ DOMAIN <<>> = {} /\ Len(<<>>) = 0
  BY EmptySeq
<1>2. parts \in Seq(Section) /\ Len(parts) = 0
  BY <1>1, SortIs
<1> HIDE DEF parts
<1>3. PICK f : Looped(f, stage, begun, cpu, parts)
  BY <1>2, PhaseIs
<1> QED
  BY <1>2, <1>3 DEF Looped, parts

(* A profile of the CPU kind alone: what its detectors begin with.           *)
LEMMA CpuIsReady ==
  ASSUME NEW cpu
  PROVE  LET s == Pipeline!Phase("section-analyzer", Pipeline!Phase("contributor", Pipeline!Begun, cpu, <<JustCpu>>),
                                 cpu, Pipeline!SortAnalyzers(<<>>))
         IN Ready(s) /\ s.findings = <<>>
<1> DEFINE b == Pipeline!Begun
           s == Pipeline!Step("contributor", b, cpu, JustCpu)
           cpuOnly == {"cpu"}
<1>1. Pipeline!Phase("section-analyzer", Pipeline!Phase("contributor", b, cpu, <<JustCpu>>),
                     cpu, Pipeline!SortAnalyzers(<<>>)) = s
  BY OnePart, NoPart
<1>2. b = [sections |-> {}, views |-> {}, extensions |-> {}, findings |-> <<>>, diagnostics |-> <<>>, finalized |-> {}]
  BY DEF Pipeline!Begun
<1>3. s = Pipeline!Contribute(b, JustCpu)
  BY DEF Pipeline!Step
<1>4. JustCpu.captured = TRUE /\ JustCpu.fate = "never" /\ JustCpu.id = "cpu"
  BY DEF JustCpu
<1>5. s = [b EXCEPT !.sections = b.sections \cup {JustCpu.id}, !.views = b.views \cup {JustCpu.id}]
  <2> HIDE DEF b, s
  <2> QED
    BY <1>3, <1>4 DEF Pipeline!Contribute
<1>6. b.sections \cup {JustCpu.id} = cpuOnly /\ b.views \cup {JustCpu.id} = cpuOnly
  BY <1>4, BegunFormed
<1> HIDE DEF b, s, cpuOnly
<1>7. s = [b EXCEPT !.sections = cpuOnly, !.views = cpuOnly]
  BY <1>5, <1>6
<1>8. s = [sections |-> cpuOnly, views |-> cpuOnly, extensions |-> {}, findings |-> <<>>, diagnostics |-> <<>>, finalized |-> {}]
  BY <1>2, <1>7
<1>9. <<>> \in Seq(Noted)
  BY EmptySeq
<1>10. /\ s.sections = cpuOnly /\ s.views = cpuOnly /\ s.extensions = {} /\ s.findings = <<>>
       /\ s.diagnostics = <<>> /\ s.finalized = {}
  BY <1>8
<1>11. Formed(s)
  BY <1>8, <1>9, <1>10 DEF Formed
<1> QED
  BY <1>1, <1>10, <1>11 DEF Ready, cpuOnly, b

(* The findings of such a profile: what the others found, in some order,     *)
(* and what the generic detector found after them, sorted.                   *)
LEMMA FindingsAre ==
  ASSUME NEW cpu, IsView(cpu), NEW order, IsOrder(order)
  PROVE  \E a : Gathered(a, Others, cpu) /\ Findings(cpu, order) = Pipeline!SortFindings(a \o Pipeline!CpuHotspot(cpu, a))
<1> DEFINE s == Pipeline!Phase("section-analyzer", Pipeline!Phase("contributor", Pipeline!Begun, cpu, <<JustCpu>>),
                               cpu, Pipeline!SortAnalyzers(<<>>))
           parts == Pipeline!SortAnalyzers(order)
           t == Pipeline!Phase("finding-analyzer", s, cpu, parts)
           u == [t EXCEPT !.findings = Pipeline!SortFindings(@)]
           v == Pipeline!Phase("finalize", u, cpu, <<JustCpu>>)
<1>1. Pipeline!Found(<<JustCpu>>, <<>>, order, cpu) = t
  BY DEF Pipeline!Found
<1>2. ~Pipeline!MetaThrows(<<JustCpu>>)
  <2>1. DOMAIN <<JustCpu>> = {1} /\ <<JustCpu>>[1] = JustCpu /\ JustCpu.meta = "none"
    BY DEF JustCpu
  <2> QED
    BY <2>1 DEF Pipeline!MetaThrows
<1>3. Findings(cpu, order) = v.findings
  BY <1>1, <1>2 DEF Findings, Pipeline!RunAnalysis
<1>4. Ready(s) /\ s.findings = <<>>
  BY CpuIsReady
<1>5. InTurn(parts)
  BY TheyRunInTurn
<1> HIDE DEF s, parts
<1>6. PICK f : Looped(f, "finding-analyzer", s, cpu, parts)
  BY <1>5, PhaseIs DEF InTurn
<1>7. t = f[Len(parts)]
  BY <1>6 DEF Looped
<1>8. /\ Ready(f[Len(parts)])
      /\ \E a : Gathered(a, Others, cpu) /\ f[Len(parts)].findings = a \o Pipeline!CpuHotspot(cpu, a)
  BY <1>4, <1>5, <1>6, TheyGather
<1> HIDE DEF t
<1>9. Ready(t) /\ \E a : Gathered(a, Others, cpu) /\ t.findings = a \o Pipeline!CpuHotspot(cpu, a)
  BY <1>7, <1>8
<1>10. Formed(u) /\ u.findings = Pipeline!SortFindings(t.findings)
  BY <1>9, SortedFindings DEF Ready, FindingsSorted
<1> HIDE DEF u
<1>11. v = Pipeline!Finalize(u, JustCpu)
  <2>1. v = Pipeline!Step("finalize", u, cpu, JustCpu)
    BY OnePart
  <2> HIDE DEF v
  <2> QED
    BY <2>1 DEF Pipeline!Step
<1> HIDE DEF v
<1>12. JustCpu.captured = TRUE /\ JustCpu.finalize = "runs"
  BY DEF JustCpu
<1>13. v = u \/ v = [u EXCEPT !.finalized = @ \cup {JustCpu.id}]
  BY <1>11, <1>12 DEF Pipeline!Finalize
<1>14. v.findings = u.findings
  BY <1>10, <1>13 DEF Formed
<1> QED
  BY <1>3, <1>9, <1>10, <1>14

------------------------------------------------------------------------------
(* A list of one set is a list of a wider one.                               *)
LEMMA WiderList ==
  ASSUME NEW A, NEW B, A \subseteq B, NEW s \in Seq(A)
  PROVE  s \in Seq(B)
<1>1. Len(s) \in Nat /\ s \in [1 .. Len(s) -> A]
  BY LenProperties
<1>2. s \in [1 .. Len(s) -> B]
  BY <1>1
<1> QED
  BY <1>1, <1>2, SeqDef

(* The findings of one order: each hot frame is told of once, as long as it   *)
(* is not behind others, and the findings are ranked.                        *)
LEMMA ToldInOneOrder ==
  ASSUME NEW cpu, IsView(cpu), NEW a, Gathered(a, Others, cpu)
  PROVE  LET r == Pipeline!CpuHotspot(cpu, a)
             found == Pipeline!SortFindings(a \o r)
         IN /\ ToldOnce(cpu, found)
            /\ \A f : /\ Times(f, found) = Cardinality(PlacesOf(f, Others, cpu)) + Times(f, r)
<1> DEFINE r == Pipeline!CpuHotspot(cpu, a)
           found == Pipeline!SortFindings(a \o r)
           S == AllOf(Others, cpu) \cup ToSet(r)
<1>1. /\ r \in Seq(ToSet(r))
      /\ \A f \in ToSet(r) : Weighed(f) /\ f.category = "cpu-hotspot"
      /\ GenericTold(cpu, a, r)
  BY CpuHotspotTells
<1>2. a \in Seq(AllOf(Others, cpu)) /\ ToSet(a) = AllOf(Others, cpu)
  BY DEF Gathered
<1>3. \A f \in ToSet(a) : Weighed(f) /\ f.category # "cpu-hotspot"
  <2>1. \A d \in Others : Specifics(Out(d, cpu))
    BY OthersTell DEF Others
  <2>2. \A f \in AllOf(Others, cpu) : \E d \in Others : f \in ToSet(Out(d, cpu))
    BY DEF AllOf
  <2>3. \A d \in Others : \A f \in ToSet(Out(d, cpu)) : Weighed(f) /\ f.category # "cpu-hotspot"
    BY <2>1 DEF Specifics, ToSet
  <2> QED
    BY <1>2, <2>2, <2>3
<1> HIDE DEF r
<1>4. a \in Seq(S) /\ r \in Seq(S) /\ \A f \in S : Weighed(f)
  <2>1. AllOf(Others, cpu) \subseteq S /\ ToSet(r) \subseteq S
    OBVIOUS
  <2>2. \A f \in S : Weighed(f)
    BY <1>1, <1>2, <1>3
  <2> HIDE DEF S
  <2> QED
    BY <1>1, <1>2, <2>1, <2>2, WiderList
<1> HIDE DEF S
<1>5. a \o r \in Seq(S) /\ ToSet(a \o r) = ToSet(a) \cup ToSet(r)
  BY <1>4, SetOfConcat
<1>6. /\ ToSet(found) = ToSet(a \o r) /\ \A f : Times(f, found) = Times(f, a \o r)
      /\ \A i, j \in DOMAIN found : i < j => ~Outranks(found[j], found[i])
  BY <1>4, <1>5, FindingsAreRanked
<1> HIDE DEF found
<1>7. \A f : Times(f, found) = Cardinality(PlacesOf(f, Others, cpu)) + Times(f, r)
  <2>1. \A f : Times(f, a \o r) = Times(f, a) + Times(f, r)
    BY <1>4, TimesOfConcat
  <2>2. \A f : Times(f, a) = Cardinality(PlacesOf(f, Others, cpu))
    BY DEF Gathered
  <2> QED
    BY <1>6, <2>1, <2>2
<1>8. ToSet(found) = ToSet(a) \cup ToSet(r)
  BY <1>5, <1>6
<1>9. Generic(found) = ToSet(r)
  BY <1>1, <1>3, <1>8 DEF Generic
<1>10. ASSUME NEW h PROVE Named(h, found) <=> Named(h, a)
  <2>1. \A f : f.category = "cpu-hotspot" => ~Pipeline!ExplainedBy(h, f)
    BY DEF Pipeline!ExplainedBy, Pipeline!SpecificCategories
  <2> QED
    BY <1>1, <1>8, <2>1 DEF Named
<1>11. ASSUME NEW h PROVE (Shown(h, found) <=> \E g \in ToSet(r) : g.hotspot = h.id) /\ (LeftOut(h, found) <=> Behind(h, ToSet(r)))
  BY <1>9 DEF Shown, LeftOut, Behind
<1>12. ASSUME NEW h \in ToSet(Pipeline!Reported(cpu)), Hot(h)
       PROVE  IF Named(h, found) THEN ~Shown(h, found) ELSE Shown(h, found) \/ LeftOut(h, found)
  <2>1. IF Named(h, a) THEN ~\E g \in ToSet(r) : g.hotspot = h.id
        ELSE (\E g \in ToSet(r) : g.hotspot = h.id) \/ Behind(h, ToSet(r))
    BY <1>1, <1>12 DEF GenericTold
  <2> QED
    BY <1>10, <1>11, <2>1
<1>13. ToldOnce(cpu, found)
  BY <1>6, <1>12 DEF ToldOnce
<1> QED
  BY <1>7, <1>13 DEF r, found

(* And in any two orders the findings are the same.                          *)
LEMMA SameInAnyOrder ==
  ASSUME NEW cpu, IsView(cpu), NEW a, Gathered(a, Others, cpu), NEW b, Gathered(b, Others, cpu)
  PROVE  SameFindings(Pipeline!SortFindings(a \o Pipeline!CpuHotspot(cpu, a)),
                      Pipeline!SortFindings(b \o Pipeline!CpuHotspot(cpu, b)))
<1>1. Pipeline!CpuHotspot(cpu, a) = Pipeline!CpuHotspot(cpu, b)
  <2>1. ToSet(a) = ToSet(b)
    BY DEF Gathered
  <2> QED
    BY <2>1, GenericSeesTheSet
<1> DEFINE r == Pipeline!CpuHotspot(cpu, a)
           s == Pipeline!SortFindings(a \o r)
           t == Pipeline!SortFindings(b \o Pipeline!CpuHotspot(cpu, b))
<1>2. \A f : Times(f, s) = Cardinality(PlacesOf(f, Others, cpu)) + Times(f, r)
  BY ToldInOneOrder
<1>3. \A f : Times(f, t) = Cardinality(PlacesOf(f, Others, cpu)) + Times(f, Pipeline!CpuHotspot(cpu, b))
  BY ToldInOneOrder
<1> HIDE DEF s, t, r
<1>4. \A f : Times(f, s) = Times(f, t)
  BY <1>1, <1>2, <1>3 DEF r
<1> QED
  BY <1>4 DEF SameFindings, s, t, r

(* One view.                                                                 *)
LEMMA HotFramesHoldForAll ==
  ASSUME NEW cpu \in Views
  PROVE  HotFramesHold(cpu)
<1> DEFINE found == [order \in Orders |-> Findings(cpu, order)]
<1>1. IsView(cpu) /\ \A order \in Orders : IsOrder(order)
  BY ViewsAssumption, OrdersAssumption DEF ViewsAssumption, OrdersAssumption
<1>2. \A order \in Orders : found[order] = Findings(cpu, order)
  OBVIOUS
<1>3. \A order \in Orders : \E a : Gathered(a, Others, cpu)
                                  /\ found[order] = Pipeline!SortFindings(a \o Pipeline!CpuHotspot(cpu, a))
  BY <1>1, <1>2, FindingsAre
<1>4. found \in {[order \in Orders |-> Findings(cpu, order)]}
  OBVIOUS
<1> HIDE DEF found
<1>5. ASSUME NEW order \in Orders, NEW other \in Orders
      PROVE  ToldOnce(cpu, found[order]) /\ SameFindings(found[order], found[other])
  <2>1. PICK a : Gathered(a, Others, cpu) /\ found[order] = Pipeline!SortFindings(a \o Pipeline!CpuHotspot(cpu, a))
    BY <1>3
  <2>2. PICK b : Gathered(b, Others, cpu) /\ found[other] = Pipeline!SortFindings(b \o Pipeline!CpuHotspot(cpu, b))
    BY <1>3
  <2>3. ToldOnce(cpu, found[order])
    BY <1>1, <2>1, ToldInOneOrder
  <2>4. SameFindings(found[order], found[other])
    BY <1>1, <2>1, <2>2, SameInAnyOrder
  <2> QED
    BY <2>3, <2>4
<1> QED
  BY <1>4, <1>5 DEF HotFramesHold

(* For any view of the CPU kind and the detectors registered in any order: a *)
(* hot user frame of the report is named by a specific finding or reported    *)
(* as it is and never both, unless it is behind three generic findings no     *)
(* less hot or behind frames hot by themselves; the findings are the same     *)
(* whatever the order, each as often, and no finding outranks one before it   *)
(* (cpu-hotspot.ts, explained-hotspot.ts, pipeline.ts).                       *)
THEOREM HotFramesAreToldOnceForAll == FindingsSpec => []HotFramesAreToldOnce
<1> DEFINE IInv == topic = "findings" => input \in Views
<1>1. FindingsInit => IInv
  BY DEF FindingsInit, Take
<1>2. IInv /\ [CarryOut]_vars => IInv'
  BY DEF CarryOut, vars
<1>3. IInv => HotFramesAreToldOnce
  BY HotFramesHoldForAll DEF HotFramesAreToldOnce, After
<1> HIDE DEF IInv
<1> QED
  BY <1>1, <1>2, <1>3, PTL DEF FindingsSpec
=============================================================================
