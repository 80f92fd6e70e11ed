------------------------ MODULE AsyncCollectorProofs ------------------------
(***************************************************************************)
(* For any table size, scan limit and number of operations: the counters   *)
(* the collector keeps beside its table agree with the table, what it      *)
(* evicts is the quickest of the candidates, every operation is in one     *)
(* place, and the capture implements Custody.                              *)
(***************************************************************************)
EXTENDS AsyncCollector, FiniteSetTheorems, FunctionTheorems, SequenceTheorems, WellFoundedInduction, TLAPS

(* The runs open in the target whose record is in the table.               *)
CountedRuns == {i \in 1 .. Len(stack) : stack[i] \in Retained}

CompletedOnce ==
  \A i, j \in 1 .. Len(completed) : completed[i] = completed[j] => i = j

CompletedRetained ==
  /\ \A i \in 1 .. Len(completed) :
       completed[i] \in Retained /\ records[completed[i]] # NoTime
  /\ \A id \in Retained :
       records[id] # NoTime => \E i \in 1 .. Len(completed) : completed[i] = id

BornInv ==
  /\ Born = 1 .. Cardinality(Born)
  /\ Retained \subseteq Born
  /\ \A i \in 1 .. Len(stack) : stack[i] \in Born

ActiveInv == activeCount >= Cardinality(CountedRuns)

InflightInv == inflightCount = Cardinality(Retained) - Len(completed)

TableInv == BornInv /\ CompletedOnce /\ CompletedRetained /\ InflightInv /\ ActiveInv

IInv == TypeOK /\ TableInv

------------------------------------------------------------------------------
(* A sequence without its i-th element. *)
LEMMA RemoveAtIs ==
  ASSUME NEW S, NEW s \in Seq(S), NEW i \in 1 .. Len(s)
  PROVE  /\ RemoveAt(s, i) \in Seq(S)
         /\ Len(RemoveAt(s, i)) = Len(s) - 1
         /\ \A j \in 1 .. Len(s) - 1 :
              RemoveAt(s, i)[j] = IF j < i THEN s[j] ELSE s[j + 1]
<1> DEFINE before == SubSeq(s, 1, i - 1)
           after  == SubSeq(s, i + 1, Len(s))
<1>1. /\ before \in Seq(S) /\ Len(before) = i - 1
      /\ \A j \in 1 .. i - 1 : before[j] = s[j]
  BY SubSeqProperties
<1>2. /\ after \in Seq(S) /\ Len(after) = Len(s) - i
      /\ \A j \in 1 .. Len(s) - i : after[j] = s[i + j]
  BY SubSeqProperties
<1>3. RemoveAt(s, i) = before \o after
  BY DEF RemoveAt
<1> HIDE DEF before, after
<1>4. /\ before \o after \in Seq(S)
      /\ Len(before \o after) = Len(s) - 1
      /\ \A j \in 1 .. Len(s) - 1 :
           (before \o after)[j] = IF j <= i - 1 THEN before[j] ELSE after[j - (i - 1)]
  BY <1>1, <1>2, ConcatProperties
<1>5. ASSUME NEW j \in 1 .. Len(s) - 1
      PROVE  (before \o after)[j] = IF j < i THEN s[j] ELSE s[j + 1]
  <2>1. i \in Int /\ j \in Int /\ (j < i \/ i <= j)
    OBVIOUS
  <2>2. j < i => (before \o after)[j] = s[j]
    BY <1>1, <1>4
  <2>3. ASSUME i <= j PROVE (before \o after)[j] = s[j + 1]
    <3>1. j - (i - 1) \in 1 .. Len(s) - i
      BY <2>3
    <3>2. after[j - (i - 1)] = s[i + (j - (i - 1))]
      BY <1>2, <3>1
    <3>3. i + (j - (i - 1)) = j + 1
      OBVIOUS
    <3> QED
      BY <1>4, <2>3, <3>2, <3>3
  <2>4. (j < i) \/ (~(j < i) /\ i <= j)
    BY <2>1
  <2> QED
    BY <2>2, <2>3, <2>4, Zenon
<1> QED
  BY <1>3, <1>4, <1>5

(* A nonempty set of naturals has a least element. *)
LEMMA LeastNatural ==
  ASSUME NEW S \in SUBSET Nat, S # {}
  PROVE  \E m \in S : \A n \in S : m <= n
<1> DEFINE R == {pair \in Nat \X Nat : pair[1] < pair[2]}
<1>1. IsWellFoundedOn(R, Nat)
  BY NatLessThanWellFounded DEF OpToRel
<1>2. PICK m \in S : \A n \in S : <<n, m>> \notin R
  BY <1>1, WFMin, Zenon
<1>3. ASSUME NEW n \in S PROVE m <= n
  <2>1. <<n, m>> \notin R
    BY <1>2
  <2>2. n \in Nat /\ m \in Nat /\ <<n, m>> \in Nat \X Nat
    OBVIOUS
  <2>3. ~(n < m)
    BY <2>1, <2>2
  <2> QED
    BY <2>2, <2>3
<1> QED
  BY <1>3

(* The candidate that is evicted: one of the scanned, and none of them has *)
(* a smaller duration.                                                     *)
LEMMA EvictionPlaceIs ==
  ASSUME TypeOK, CompletedRetained, completed # <<>>
  PROVE  /\ EvictionPlace \in 1 .. Len(completed)
         /\ \A j \in Scanned : records[completed[j]] >= records[Victim]
<1> DEFINE time(i) == records[completed[i]]
<1>1. Len(completed) \in Nat /\ Len(completed) >= 1
  BY DEF TypeOK
<1>2. /\ 1 \in Scanned /\ Scanned \subseteq 1 .. Len(completed)
      /\ Scanned \subseteq Nat
  BY <1>1, CollectorAssumption DEF Scanned, CollectorAssumption
<1>3. \A i \in Scanned : time(i) \in Nat
  <2> TAKE i \in Scanned
  <2>1. completed[i] \in Retained /\ records[completed[i]] # NoTime
    BY <1>2 DEF CompletedRetained
  <2> QED
    BY <2>1, CollectorAssumption DEF TypeOK, CollectorAssumption
<1> HIDE DEF time
<1>4. PICK least \in {time(i) : i \in Scanned} : \A n \in {time(i) : i \in Scanned} : least <= n
  <2> DEFINE T == {time(i) : i \in Scanned}
  <2>1. T \in SUBSET Nat /\ T # {}
    BY <1>2, <1>3
  <2> HIDE DEF T
  <2>2. \E m \in T : \A n \in T : m <= n
    BY <2>1, LeastNatural
  <2> QED
    BY <2>2 DEF T
<1>5. PICK first \in {i \in Scanned : time(i) = least} :
        \A n \in {i \in Scanned : time(i) = least} : first <= n
  <2> DEFINE T == {i \in Scanned : time(i) = least}
  <2>1. T \in SUBSET Nat /\ T # {}
    BY <1>2, <1>4
  <2> HIDE DEF T
  <2>2. \E m \in T : \A n \in T : m <= n
    BY <2>1, LeastNatural
  <2> QED
    BY <2>2 DEF T
<1>6. \A j \in Scanned : time(first) <= time(j) /\ (j < first => time(first) < time(j))
  <2> SUFFICES ASSUME NEW j \in Scanned
               PROVE  time(first) <= time(j) /\ (j < first => time(first) < time(j))
    OBVIOUS
  <2>1. time(first) = least /\ first \in Nat /\ j \in Nat /\ least \in Nat /\ time(j) \in Nat
    BY <1>2, <1>3, <1>5
  <2>2. least <= time(j)
    BY <1>4
  <2>3. time(j) = least => first <= j
    BY <1>5
  <2> QED
    BY <2>1, <2>2, <2>3
<1>7. \E i \in Scanned : \A j \in Scanned : ~Quicker(j, i) /\ (j < i => Quicker(i, j))
  <2>1. first \in Scanned /\ \A j \in Scanned : time(first) \in Nat /\ time(j) \in Nat
    BY <1>3, <1>5
  <2>2. \A j \in Scanned : ~(time(j) < time(first)) /\ (j < first => time(first) < time(j))
    BY <1>6, <2>1
  <2> QED
    BY <2>1, <2>2 DEF Quicker, time
<1>8. /\ EvictionPlace \in Scanned
      /\ \A j \in Scanned : ~Quicker(j, EvictionPlace)
  BY <1>7 DEF EvictionPlace
<1>9. \A j \in Scanned : time(j) >= time(EvictionPlace)
  <2>1. \A j \in Scanned : ~(time(j) < time(EvictionPlace))
    BY <1>8 DEF Quicker, time
  <2> QED
    BY <1>3, <1>8, <2>1
<1> QED
  BY <1>2, <1>8, <1>9 DEF time, Victim
------------------------------------------------------------------------------
(* The sets whose sizes are counted are finite. *)
LEMMA Finite ==
  ASSUME TypeOK
  PROVE  /\ IsFiniteSet(Born) /\ Cardinality(Born) \in Nat
         /\ IsFiniteSet(Retained) /\ Cardinality(Retained) \in Nat
         /\ IsFiniteSet(CountedRuns) /\ Cardinality(CountedRuns) \in Nat
<1>1. IsFiniteSet(Ops)
  BY FS_Interval, CollectorAssumption DEF Ops, CollectorAssumption
<1>2. Born \in SUBSET Ops /\ Retained \in SUBSET Ops
  BY DEF TypeOK, Born
<1>3. Len(stack) \in Nat
  BY DEF TypeOK
<1>4. IsFiniteSet(1 .. Len(stack)) /\ CountedRuns \in SUBSET (1 .. Len(stack))
  BY <1>3, FS_Interval DEF CountedRuns
<1>5. IsFiniteSet(Born) /\ IsFiniteSet(Retained) /\ IsFiniteSet(CountedRuns)
  BY <1>1, <1>2, <1>4, FS_Subset
<1> QED
  BY <1>5, FS_CardinalityType

(* A step that leaves the target's operations, its open runs and the table *)
(* alone leaves the invariant of the table alone.                          *)
LEMMA TableAlone ==
  ASSUME TableInv, UNCHANGED <<kind, stack, records, completed, activeCount, inflightCount>>
  PROVE  TableInv'
<1>1. UNCHANGED <<Born, Retained, CountedRuns>>
  BY DEF Born, Retained, CountedRuns
<1> QED
  BY <1>1 DEF TableInv, BornInv, CompletedOnce, CompletedRetained, InflightInv, ActiveInv

LEMMA TableCleared ==
  ASSUME TypeOK, TableInv, ClearRetained, UNCHANGED <<kind, stack>>
  PROVE  TableInv'
<1>1. Retained' = {} /\ completed' = <<>> /\ activeCount' = 0 /\ inflightCount' = 0
  BY DEF ClearRetained, Retained, Empty
<1>2. Born' = Born /\ BornInv'
  BY <1>1 DEF Born, BornInv, TableInv
<1>3. CountedRuns' = {}
  BY <1>1 DEF CountedRuns
<1>4. Cardinality({}) = 0
  BY FS_EmptySet
<1>5. CompletedOnce' /\ CompletedRetained'
  BY <1>1 DEF CompletedOnce, CompletedRetained
<1>6. InflightInv' /\ ActiveInv'
  BY <1>1, <1>3, <1>4 DEF InflightInv, ActiveInv
<1> QED
  BY <1>2, <1>5, <1>6 DEF TableInv

(* The id that init is called with is new. *)
LEMMA NewId ==
  ASSUME TypeOK, BornInv, NEW k \in Kinds, HookInit(k)
  PROVE  /\ NextId \in Ops /\ NextId \notin Born
         /\ Born' = Born \cup {NextId}
         /\ Born' = 1 .. Cardinality(Born')
<1> DEFINE n == Cardinality(Born)
<1>1. n \in Nat /\ IsFiniteSet(Born)
  BY Finite
<1>2. NextId = n + 1 /\ NextId \in Ops /\ Born = 1 .. n
  BY DEF HookInit, NextId, BornInv
<1> HIDE DEF n
<1>3. NextId \notin Born
  BY <1>1, <1>2
<1>4. k # "unborn" /\ kind' = [kind EXCEPT ![NextId] = k]
  BY DEF HookInit, Kinds
<1>5. Born' = Born \cup {NextId}
  BY <1>2, <1>4 DEF Born, TypeOK
<1>6. Cardinality(Born') = n + 1
  BY <1>1, <1>3, <1>5, FS_AddElement DEF n
<1>7. Born' = 1 .. n + 1
  BY <1>1, <1>2, <1>5
<1> QED
  BY <1>2, <1>3, <1>5, <1>6, <1>7
(* init adds an operation without a run to the table, in a free place or   *)
(* in that of the victim, or adds nothing.                                 *)
LEMMA TableInit ==
  ASSUME TypeOK, TableInv, NEW k \in Kinds, HookInit(k)
  PROVE  TableInv'
<1> DEFINE id == NextId
<1> USE DEF TableInv
<1>1. /\ id \in Ops /\ id \notin Born /\ Born' = Born \cup {id}
      /\ Born' = 1 .. Cardinality(Born')
  BY NewId
<1>2. id \notin Retained
  BY <1>1 DEF BornInv
<1>3. UNCHANGED <<stack, activeCount>>
  BY DEF HookInit
<1>4. IsFiniteSet(Retained) /\ Cardinality(Retained) \in Nat
  BY Finite
<1> HIDE DEF id
<1>5. Retained' \subseteq Retained \cup {id} => BornInv' /\ ActiveInv'
  <2> SUFFICES ASSUME Retained' \subseteq Retained \cup {id} PROVE BornInv' /\ ActiveInv'
    OBVIOUS
  <2>1. BornInv'
    BY <1>1, <1>3 DEF BornInv
  <2>2. CountedRuns' \subseteq CountedRuns
    BY <1>1, <1>3 DEF CountedRuns, BornInv
  <2>3. IsFiniteSet(CountedRuns) /\ Cardinality(CountedRuns) \in Nat
    BY Finite
  <2>4. Cardinality(CountedRuns') <= Cardinality(CountedRuns) /\ Cardinality(CountedRuns') \in Nat
    BY <2>2, <2>3, FS_Subset, FS_CardinalityType
  <2>5. activeCount \in Nat
    BY DEF TypeOK
  <2> QED
    BY <1>3, <2>1, <2>3, <2>4, <2>5 DEF ActiveInv
<1>6. CASE Retain(id, Retained) /\ completed' = completed
  <2>1. /\ records' = [i \in Retained \cup {id} |-> IF i = id THEN NoTime ELSE records[i]]
        /\ inflightCount' = inflightCount + 1
    BY <1>6 DEF Retain
  <2>2. Retained' = Retained \cup {id}
    BY <2>1 DEF Retained
  <2>3. Cardinality(Retained') = Cardinality(Retained) + 1
    BY <1>2, <1>4, <2>2, FS_AddElement
  <2>4. CompletedOnce'
    BY <1>6 DEF CompletedOnce
  <2>5. CompletedRetained'
    BY <1>2, <1>6, <2>1, <2>2 DEF CompletedRetained
  <2>6. InflightInv'
    BY <1>4, <1>6, <2>1, <2>3 DEF InflightInv, TypeOK
  <2> QED
    BY <1>5, <2>2, <2>4, <2>5, <2>6
<1>7. CASE /\ completed # <<>> /\ Retain(id, Retained \ {Victim})
           /\ completed' = RemoveAt(completed, EvictionPlace)
  <2> DEFINE p == EvictionPlace
             v == Victim
  <2>1. p \in 1 .. Len(completed) /\ v = completed[p]
    BY <1>7, EvictionPlaceIs DEF Victim
  <2>2. v \in Retained
    BY <2>1 DEF CompletedRetained
  <2>3. /\ records' = [i \in (Retained \ {v}) \cup {id} |-> IF i = id THEN NoTime ELSE records[i]]
        /\ inflightCount' = inflightCount + 1
    BY <1>7 DEF Retain
  <2>4. completed \in Seq(Ops) /\ Len(completed) \in Nat
    BY DEF TypeOK
  <2>5. /\ Len(completed') = Len(completed) - 1
        /\ \A j \in 1 .. Len(completed) - 1 :
             completed'[j] = IF j < p THEN completed[j] ELSE completed[j + 1]
    BY <1>7, <2>1, <2>4, RemoveAtIs
  <2> HIDE DEF p, v
  <2>6. Retained' = (Retained \ {v}) \cup {id}
    BY <2>3 DEF Retained
  <2>7. Cardinality(Retained') = Cardinality(Retained)
    <3>1. IsFiniteSet(Retained \ {v}) /\ Cardinality(Retained \ {v}) = Cardinality(Retained) - 1
      BY <1>4, <2>2, FS_RemoveElement
    <3>2. Cardinality((Retained \ {v}) \cup {id}) = Cardinality(Retained \ {v}) + 1
      BY <1>2, <3>1, FS_AddElement
    <3> QED
      BY <1>4, <2>6, <3>1, <3>2
  <2>8. CompletedOnce'
    BY <2>1, <2>4, <2>5 DEF CompletedOnce
  <2>9. \A j \in 1 .. Len(completed') : \E i \in 1 .. Len(completed) : i # p /\ completed'[j] = completed[i]
    BY <2>1, <2>4, <2>5
  <2>10. \A i \in 1 .. Len(completed) : i # p => \E j \in 1 .. Len(completed') : completed'[j] = completed[i]
    <3> TAKE i \in 1 .. Len(completed)
    <3>1. i \in Int /\ p \in Int /\ (i # p => (i < p \/ i > p))
      BY <2>1
    <3>2. ASSUME i < p PROVE \E j \in 1 .. Len(completed') : completed'[j] = completed[i]
      <4>1. i \in 1 .. Len(completed') /\ completed'[i] = completed[i]
        BY <2>1, <2>4, <2>5, <3>2
      <4> QED
        BY <4>1
    <3>3. ASSUME i > p PROVE \E j \in 1 .. Len(completed') : completed'[j] = completed[i]
      <4>1. i - 1 \in 1 .. Len(completed') /\ completed'[i - 1] = completed[i]
        BY <2>1, <2>4, <2>5, <3>3
      <4> QED
        BY <4>1
    <3> QED
      BY <3>1, <3>2, <3>3
  <2>11. \A i \in 1 .. Len(completed) : i # p => completed[i] # v
    BY <2>1 DEF CompletedOnce
  <2>12. CompletedRetained'
    <3>1. ASSUME NEW j \in 1 .. Len(completed')
          PROVE  completed'[j] \in Retained' /\ records'[completed'[j]] # NoTime
      <4>1. PICK i \in 1 .. Len(completed) : i # p /\ completed'[j] = completed[i]
        BY <2>9
      <4>2. completed[i] \in Retained \ {v} /\ records[completed[i]] # NoTime
        BY <2>11, <4>1 DEF CompletedRetained
      <4> QED
        BY <1>2, <2>3, <2>6, <4>1, <4>2
    <3>2. ASSUME NEW i \in Retained', records'[i] # NoTime
          PROVE  \E j \in 1 .. Len(completed') : completed'[j] = i
      <4>1. i \in Retained \ {v} /\ records[i] # NoTime
        BY <2>3, <2>6, <3>2
      <4>2. PICK n \in 1 .. Len(completed) : completed[n] = i
        BY <4>1 DEF CompletedRetained
      <4>3. n # p
        BY <2>1, <4>1, <4>2
      <4> QED
        BY <2>10, <4>2, <4>3
    <3> QED
      BY <3>1, <3>2 DEF CompletedRetained
  <2>13. InflightInv'
    BY <1>4, <2>3, <2>4, <2>5, <2>7 DEF InflightInv, TypeOK
  <2> QED
    BY <1>5, <2>6, <2>8, <2>12, <2>13
<1>8. CASE UNCHANGED <<records, completed, inflightCount>>
  <2>1. Retained' = Retained
    BY <1>8 DEF Retained
  <2>2. CompletedOnce' /\ CompletedRetained' /\ InflightInv'
    BY <1>8, <2>1 DEF CompletedOnce, CompletedRetained, InflightInv
  <2> QED
    BY <1>5, <2>1, <2>2
<1> QED
  BY <1>6, <1>7, <1>8 DEF HookInit, id
(* A run begins: its position is counted when its record is there. *)
LEMMA TableBefore ==
  ASSUME TypeOK, TableInv, NEW id \in Ops, HookBefore(id)
  PROVE  TableInv'
<1> USE DEF TableInv
<1>1. /\ UNCHANGED <<kind, records, completed, inflightCount>>
      /\ stack' = Append(stack, id) /\ id \in Born
      /\ activeCount' = IF id \in Retained THEN activeCount + 1 ELSE activeCount
  BY DEF HookBefore
<1>2. Born' = Born /\ Retained' = Retained
  BY <1>1 DEF Born, Retained
<1>3. /\ Len(stack) \in Nat /\ Len(stack') = Len(stack) + 1
      /\ stack'[Len(stack) + 1] = id
      /\ \A i \in 1 .. Len(stack) : stack'[i] = stack[i]
  BY <1>1, AppendProperties DEF TypeOK
<1>4. BornInv'
  BY <1>1, <1>2, <1>3 DEF BornInv
<1>5. CompletedOnce' /\ CompletedRetained' /\ InflightInv'
  BY <1>1, <1>2 DEF CompletedOnce, CompletedRetained, InflightInv
<1>6. /\ IsFiniteSet(CountedRuns) /\ Cardinality(CountedRuns) \in Nat
      /\ activeCount \in Nat
  BY Finite DEF TypeOK
<1>7. CASE id \in Retained
  <2>1. CountedRuns' = CountedRuns \cup {Len(stack) + 1}
    BY <1>2, <1>3, <1>7 DEF CountedRuns
  <2>2. Len(stack) + 1 \notin CountedRuns
    BY <1>3 DEF CountedRuns
  <2>3. Cardinality(CountedRuns') = Cardinality(CountedRuns) + 1
    BY <1>6, <2>1, <2>2, FS_AddElement
  <2> QED
    BY <1>1, <1>4, <1>5, <1>6, <1>7, <2>3 DEF ActiveInv
<1>8. CASE id \notin Retained
  <2>1. CountedRuns' = CountedRuns
    BY <1>2, <1>3, <1>8 DEF CountedRuns
  <2> QED
    BY <1>1, <1>4, <1>5, <1>8, <2>1 DEF ActiveInv
<1> QED
  BY <1>7, <1>8

(* A run ends: the count comes down only when its record is there. *)
LEMMA TableAfter ==
  ASSUME TypeOK, TableInv, HookAfter
  PROVE  TableInv'
<1> USE DEF TableInv
<1> DEFINE n == Len(stack)
<1>1. /\ UNCHANGED <<kind, records, completed, inflightCount>>
      /\ stack # <<>> /\ stack' = Front(stack)
      /\ \/ stack[n] \in Retained /\ activeCount' = IF activeCount > 0 THEN activeCount - 1 ELSE 0
         \/ activeCount' = activeCount
  BY DEF HookAfter, Last
<1>2. Born' = Born /\ Retained' = Retained
  BY <1>1 DEF Born, Retained
<1>3. n \in Nat /\ n >= 1
  BY <1>1 DEF TypeOK
<1>4. Len(stack') = n - 1 /\ \A i \in 1 .. n - 1 : stack'[i] = stack[i]
  <2>1. \A i \in 1 .. n - 1 : stack[i] \in Ops
    BY DEF TypeOK
  <2> HIDE DEF n
  <2>2. /\ Len(SubSeq(stack, 1, n - 1)) = IF 1 <= n - 1 THEN n - 1 - 1 + 1 ELSE 0
        /\ \A i \in 1 .. n - 1 - 1 + 1 : SubSeq(stack, 1, n - 1)[i] = stack[1 + i - 1]
    BY <1>3, <2>1, SubSeqProperties
  <2>3. stack' = SubSeq(stack, 1, n - 1)
    BY <1>1 DEF Front, n
  <2>4. Len(stack') = n - 1
    BY <1>3, <2>2, <2>3
  <2>5. \A i \in 1 .. n - 1 : stack'[i] = stack[i]
    BY <1>3, <2>2, <2>3
  <2> QED
    BY <2>4, <2>5
<1>5. BornInv'
  BY <1>1, <1>2, <1>3, <1>4 DEF BornInv
<1>6. CompletedOnce' /\ CompletedRetained' /\ InflightInv'
  BY <1>1, <1>2 DEF CompletedOnce, CompletedRetained, InflightInv
<1>7. /\ IsFiniteSet(CountedRuns) /\ Cardinality(CountedRuns) \in Nat
      /\ activeCount \in Nat
  BY Finite DEF TypeOK
<1>8. CountedRuns' = CountedRuns \ {n}
  BY <1>2, <1>3, <1>4 DEF CountedRuns
<1>9. CASE stack[n] \in Retained
  <2>1. n \in CountedRuns
    BY <1>3, <1>9 DEF CountedRuns
  <2>2. Cardinality(CountedRuns') = Cardinality(CountedRuns) - 1
    BY <1>7, <1>8, <2>1, FS_RemoveElement
  <2>3. activeCount >= Cardinality(CountedRuns)
    BY DEF ActiveInv
  <2>4. activeCount' >= Cardinality(CountedRuns) - 1
    BY <1>1, <1>7, <2>3
  <2> QED
    BY <1>5, <1>6, <2>2, <2>4 DEF ActiveInv
<1>10. CASE stack[n] \notin Retained
  <2>1. CountedRuns' = CountedRuns
    BY <1>8, <1>10 DEF CountedRuns
  <2> QED
    BY <1>1, <1>5, <1>6, <1>10, <2>1 DEF ActiveInv
<1> QED
  BY <1>9, <1>10

(* Each completed record is one record of the table. *)
LEMMA CompletedCount ==
  ASSUME TypeOK, CompletedOnce, CompletedRetained
  PROVE  /\ Range(completed) = {id \in Retained : records[id] # NoTime}
         /\ IsFiniteSet(Range(completed))
         /\ Cardinality(Range(completed)) = Len(completed)
<1>1. completed \in Seq(Ops) /\ Len(completed) \in Nat /\ DOMAIN completed = 1 .. Len(completed)
  BY DEF TypeOK
<1>2. Range(completed) = {completed[i] : i \in 1 .. Len(completed)}
  BY <1>1 DEF Range
<1>3. Range(completed) = {id \in Retained : records[id] # NoTime}
  BY <1>2 DEF CompletedRetained
<1> DEFINE f == [i \in 1 .. Len(completed) |-> completed[i]]
<1>4. \A i, j \in 1 .. Len(completed) : completed[i] = completed[j] => i = j
  BY DEF CompletedOnce
<1>5. f \in Bijection(1 .. Len(completed), Range(completed))
  BY <1>2, <1>4, Fun_IsBij
<1>6. Cardinality(1 .. Len(completed)) = Len(completed) /\ IsFiniteSet(1 .. Len(completed))
  BY <1>1, FS_Interval
<1> QED
  BY <1>3, <1>5, <1>6, Fun_ExistsBij, FS_Bijection

(* An operation completes: once, and out of those in flight. *)
LEMMA TableComplete ==
  ASSUME TypeOK, TableInv, NEW id \in Ops, NEW elapsed \in Durations,
         Complete(id, elapsed), UNCHANGED <<kind, stack, activeCount>>
  PROVE  TableInv'
<1> USE DEF TableInv
<1>1. CASE id \notin Retained
  BY <1>1, TableAlone DEF Complete
<1>2. ASSUME id \in Retained PROVE TableInv'
  <2>1. records' = [records EXCEPT ![id] = IF @ = NoTime THEN elapsed ELSE @]
    BY <1>2 DEF Complete
  <2>2. Retained' = Retained /\ Born' = Born /\ CountedRuns' = CountedRuns
    BY <2>1 DEF Retained, Born, CountedRuns
  <2>3. BornInv' /\ ActiveInv'
    BY <2>2 DEF BornInv, ActiveInv
  <2>4. elapsed # NoTime
    BY CollectorAssumption DEF CollectorAssumption, NoTime
  <2>5. /\ records'[id] # NoTime
        /\ \A i \in Retained : i # id => records'[i] = records[i]
    BY <1>2, <2>1, <2>4 DEF Retained
  <2>6. completed \in Seq(Ops) /\ Len(completed) \in Nat
    BY DEF TypeOK
  <2>7. CASE Contains(completed, id)
    <3>1. UNCHANGED <<completed, inflightCount>>
      BY <1>2, <2>7 DEF Complete
    <3>2. PICK i \in 1 .. Len(completed) : completed[i] = id
      BY <2>7 DEF Contains
    <3>3. CompletedRetained'
      BY <2>2, <2>5, <3>1, <3>2 DEF CompletedRetained
    <3> QED
      BY <2>2, <2>3, <3>1, <3>3 DEF CompletedOnce, InflightInv
  <2>8. CASE ~Contains(completed, id)
    <3>1. /\ completed' = Append(completed, id)
          /\ inflightCount' = IF inflightCount > 0 THEN inflightCount - 1 ELSE 0
      BY <1>2, <2>8 DEF Complete
    <3>2. /\ Len(completed') = Len(completed) + 1
          /\ completed'[Len(completed) + 1] = id
          /\ \A i \in 1 .. Len(completed) : completed'[i] = completed[i]
      BY <2>6, <3>1, AppendProperties
    <3>3. \A i \in 1 .. Len(completed) : completed[i] # id
      BY <2>8 DEF Contains
    <3>4. CompletedOnce'
      BY <2>6, <3>2, <3>3 DEF CompletedOnce
    <3>5. CompletedRetained'
      <4>1. ASSUME NEW i \in 1 .. Len(completed')
            PROVE  completed'[i] \in Retained' /\ records'[completed'[i]] # NoTime
        <5>1. CASE i \in 1 .. Len(completed)
          BY <2>2, <2>5, <3>2, <3>3, <5>1 DEF CompletedRetained
        <5>2. CASE i = Len(completed) + 1
          BY <1>2, <2>2, <2>5, <3>2, <5>2
        <5> QED
          BY <2>6, <3>2, <5>1, <5>2
      <4>2. ASSUME NEW other \in Retained', records'[other] # NoTime
            PROVE  \E i \in 1 .. Len(completed') : completed'[i] = other
        <5>1. CASE other = id
          BY <2>6, <3>2, <5>1
        <5>2. CASE other # id
          <6>1. PICK i \in 1 .. Len(completed) : completed[i] = other
            BY <2>2, <2>5, <4>2, <5>2 DEF CompletedRetained
          <6> QED
            BY <2>6, <3>2, <6>1
        <5> QED
          BY <5>1, <5>2
      <4> QED
        BY <4>1, <4>2 DEF CompletedRetained
    <3>6. inflightCount > 0
      <4> DEFINE done == Range(completed)
      <4>1. done \subseteq Retained /\ id \notin done
        <5>1. done \subseteq Retained
          BY CompletedCount
        <5>2. \A other \in done : \E i \in 1 .. Len(completed) : completed[i] = other
          BY CompletedCount DEF CompletedRetained
        <5> QED
          BY <3>3, <5>1, <5>2
      <4>2. Cardinality(done) = Len(completed)
        BY CompletedCount
      <4>3. IsFiniteSet(Retained) /\ Cardinality(Retained) \in Nat
        BY Finite
      <4> HIDE DEF done
      <4>4. Cardinality(done) < Cardinality(Retained)
        <5>1. /\ IsFiniteSet(Retained \ {id})
              /\ Cardinality(Retained \ {id}) = Cardinality(Retained) - 1
          BY <1>2, <4>3, FS_RemoveElement
        <5>2. done \subseteq Retained \ {id}
          BY <4>1
        <5>3. Cardinality(done) <= Cardinality(Retained \ {id})
          BY <5>1, <5>2, FS_Subset
        <5> QED
          BY <2>6, <4>2, <4>3, <5>1, <5>3
      <4> QED
        BY <2>6, <4>2, <4>3, <4>4 DEF InflightInv
    <3>7. InflightInv'
      <4>1. Cardinality(Retained) \in Nat
        BY Finite
      <4>2. inflightCount' = Cardinality(Retained) - Len(completed) - 1
        BY <2>6, <3>1, <3>6, <4>1 DEF InflightInv
      <4> QED
        BY <2>2, <2>6, <3>2, <4>1, <4>2 DEF InflightInv
    <3> QED
      BY <2>3, <3>4, <3>5, <3>7
  <2> QED
    BY <2>7, <2>8
<1> QED
  BY <1>1, <1>2
(* A drain takes out the completed records and none that is in flight. *)
LEMMA TableDrain ==
  ASSUME TypeOK, TableInv, EvaluateDrain
  PROVE  TableInv'
<1> USE DEF TableInv
<1>1. /\ records' = Without(records, Range(completed)) /\ completed' = <<>>
      /\ UNCHANGED <<kind, stack, activeCount, inflightCount>>
  BY DEF EvaluateDrain, nodeVars
<1>2. Retained' = Retained \ Range(completed) /\ \A id \in Retained' : records'[id] = records[id]
  BY <1>1 DEF Retained, Without
<1>3. Born' = Born
  BY <1>1 DEF Born
<1>4. BornInv'
  BY <1>1, <1>2, <1>3 DEF BornInv
<1>5. CompletedOnce'
  BY <1>1 DEF CompletedOnce
<1>6. \A id \in Retained' : records'[id] = NoTime
  BY <1>2, CompletedCount
<1>7. CompletedRetained'
  BY <1>1, <1>6 DEF CompletedRetained
<1>8. /\ Range(completed) \subseteq Retained /\ IsFiniteSet(Retained)
      /\ IsFiniteSet(Range(completed)) /\ Cardinality(Range(completed)) = Len(completed)
  BY Finite, CompletedCount
<1>9. Cardinality(Retained') = Cardinality(Retained) - Len(completed)
  <2>1. Cardinality(Retained \ Range(completed))
          = Cardinality(Retained) - Cardinality(Retained \cap Range(completed))
    BY <1>8, FS_Difference
  <2>2. Retained \cap Range(completed) = Range(completed)
    BY <1>8
  <2> QED
    BY <1>2, <1>8, <2>1, <2>2
<1>10. InflightInv'
  <2>1. Cardinality(Retained) \in Nat /\ Len(completed) \in Nat /\ inflightCount \in Nat
    BY Finite DEF TypeOK
  <2>2. Len(completed') = 0
    BY <1>1
  <2> QED
    BY <1>1, <1>9, <2>1, <2>2 DEF InflightInv
<1>11. ActiveInv'
  <2>1. IsFiniteSet(CountedRuns) /\ Cardinality(CountedRuns) \in Nat /\ activeCount \in Nat
    BY Finite DEF TypeOK
  <2>2. CountedRuns' \subseteq CountedRuns
    BY <1>1, <1>2 DEF CountedRuns
  <2>3. Cardinality(CountedRuns') <= Cardinality(CountedRuns) /\ Cardinality(CountedRuns') \in Nat
    BY <2>1, <2>2, FS_Subset, FS_CardinalityType
  <2> QED
    BY <1>1, <2>1, <2>3 DEF ActiveInv
<1> QED
  BY <1>4, <1>5, <1>7, <1>10, <1>11

LEMMA TableStep ==
  ASSUME TypeOK, TableInv, [Next]_vars
  PROVE  TableInv'
<1>1. ASSUME NEW k \in Kinds, HookInit(k) PROVE TableInv'
  BY <1>1, TableInit
<1>2. ASSUME NEW id \in Ops, HookBefore(id) PROVE TableInv'
  BY <1>2, TableBefore
<1>3. CASE HookAfter
  BY <1>3, TableAfter
<1>4. ASSUME NEW id \in Ops, HookDestroy(id) PROVE TableInv'
  BY <1>4, TableComplete DEF HookDestroy
<1>5. ASSUME NEW id \in Ops, HookPromiseResolve(id) PROVE TableInv'
  BY <1>5, TableComplete DEF HookPromiseResolve
<1>6. CASE CaptureStart
  BY <1>6, TableCleared DEF CaptureStart
<1>7. CASE EvaluateDrain
  BY <1>7, TableDrain
<1>8. CASE EvaluateRead
  BY <1>8, TableCleared DEF EvaluateRead, nodeVars
<1>9. CASE Dispose
  <2>1. UNCHANGED <<kind, stack>>
    BY <1>9 DEF Dispose, nodeVars
  <2>2. CASE closed
    BY <1>9, <2>1, <2>2, TableAlone DEF Dispose, tableVars
  <2>3. CASE ~closed
    BY <1>9, <2>1, <2>3, TableCleared DEF Dispose
  <2> QED
    BY <2>2, <2>3
<1>10. CASE \/ SendDrain \/ ReceiveDrain \/ Stop \/ ReceiveRead \/ StopTimesOut \/ ReceiveLate
            \/ Disconnect \/ Done \/ UNCHANGED vars
  <2>1. UNCHANGED <<kind, stack, records, completed, activeCount, inflightCount>>
    BY <1>10 DEF SendDrain, ReceiveDrain, Stop, ReceiveRead, StopTimesOut, ReceiveLate, Disconnect,
                 Done, vars, nodeVars, tableVars
  <2> QED
    BY <2>1, TableAlone
<1> QED
  BY <1>1, <1>2, <1>3, <1>4, <1>5, <1>6, <1>7, <1>8, <1>9, <1>10 DEF Next
------------------------------------------------------------------------------
(* The initial state. *)
LEMMA InitIInv == Init => IInv
<1> SUFFICES ASSUME Init PROVE IInv
  OBVIOUS
<1>1. Retained = {} /\ Born = {} /\ Cardinality({}) = 0
  BY FS_EmptySet DEF Init, Empty, Retained, Born
<1>2. TypeOK
  <2>1. kind \in [Ops -> Kinds \cup {"unborn"}]
    BY DEF Init
  <2>2. runs \in 0..MaxRuns /\ drains \in 0..MaxDrains
    BY CollectorAssumption DEF Init, CollectorAssumption
  <2>3. \A S : <<>> \in Seq(S)
    OBVIOUS
  <2>4. /\ stack \in Seq(Ops) /\ completed \in Seq(Ops)
        /\ asked \in Seq({"drain", "read"}) /\ replies \in Seq(SUBSET Ops)
        /\ drained \in Seq(SUBSET Ops) /\ bundle \in Seq(SUBSET Ops)
    BY <2>3 DEF Init
  <2>5. /\ early \in SUBSET Ops /\ resolved \in SUBSET Ops /\ destroyed \in SUBSET Ops
        /\ openRuns \in SUBSET Ops /\ evicted \in SUBSET Ops /\ refused \in SUBSET Ops
        /\ lost \in SUBSET Ops /\ phase \in Phases /\ disabled \in BOOLEAN /\ closed \in BOOLEAN
        /\ activeCount \in Nat /\ inflightCount \in Nat /\ recordsDropped \in Nat
    BY DEF Init, Phases
  <2> QED
    BY <1>1, <2>1, <2>2, <2>4, <2>5 DEF TypeOK
<1>3. BornInv /\ CompletedOnce /\ CompletedRetained /\ InflightInv
  BY <1>1 DEF Init, BornInv, CompletedOnce, CompletedRetained, InflightInv
<1>4. CountedRuns = {}
  BY <1>1 DEF CountedRuns
<1>5. ActiveInv
  BY <1>1, <1>4 DEF Init, ActiveInv
<1> QED
  BY <1>2, <1>3, <1>5 DEF IInv, TableInv

(* A cleared table has its type. *)
LEMMA ClearedTypes ==
  ASSUME ClearRetained
  PROVE  /\ Retained' \in SUBSET Ops
         /\ \A id \in Retained' : records'[id] \in Durations \cup {NoTime}
         /\ completed' \in Seq(Ops) /\ openRuns' \in SUBSET Ops
         /\ activeCount' \in Nat /\ inflightCount' \in Nat /\ recordsDropped' \in Nat
  BY DEF ClearRetained, Retained, Empty

LEMMA TypeInit ==
  ASSUME IInv, NEW k \in Kinds, HookInit(k)
  PROVE  TypeOK'
<1> USE DEF IInv, TableInv
<1>1. NextId \in Ops
  BY NewId
<1>2. /\ UNCHANGED <<early, resolved, destroyed, stack, runs, openRuns, activeCount,
                      disabled, wireVars, probeVars, lost>>
      /\ kind' = [kind EXCEPT ![NextId] = k]
  BY DEF HookInit
<1>3. kind' \in [Ops -> Kinds \cup {"unborn"}]
  BY <1>1, <1>2 DEF TypeOK
<1>4. ASSUME NEW kept \in SUBSET Retained, Retain(NextId, kept)
      PROVE  /\ Retained' \in SUBSET Ops
             /\ \A id \in Retained' : records'[id] \in Durations \cup {NoTime}
             /\ inflightCount' \in Nat /\ recordsDropped' \in Nat /\ refused' \in SUBSET Ops
  BY <1>1, <1>4 DEF Retain, Retained, TypeOK
<1>5. /\ Retained' \in SUBSET Ops
      /\ \A id \in Retained' : records'[id] \in Durations \cup {NoTime}
      /\ completed' \in Seq(Ops) /\ inflightCount' \in Nat /\ recordsDropped' \in Nat
      /\ evicted' \in SUBSET Ops /\ refused' \in SUBSET Ops
  <2>1. CASE Retain(NextId, Retained) /\ UNCHANGED <<completed, evicted>>
    BY <1>4, <2>1 DEF TypeOK
  <2>2. CASE /\ completed # <<>> /\ Retain(NextId, Retained \ {Victim})
             /\ completed' = RemoveAt(completed, EvictionPlace)
             /\ evicted' = evicted \cup {Victim}
    <3>1. EvictionPlace \in 1 .. Len(completed)
      BY <2>2, EvictionPlaceIs
    <3>2. completed \in Seq(Ops)
      BY DEF TypeOK
    <3>3. Victim \in Ops
      BY <3>1, <3>2 DEF Victim
    <3>4. completed' \in Seq(Ops)
      BY <2>2, <3>1, <3>2, RemoveAtIs
    <3> QED
      BY <1>4, <2>2, <3>3, <3>4 DEF TypeOK
  <2>3. CASE /\ recordsDropped' = recordsDropped + 1
             /\ refused' = refused \cup {NextId}
             /\ UNCHANGED <<records, completed, inflightCount, evicted>>
    BY <1>1, <2>3 DEF TypeOK, Retained
  <2> QED
    BY <2>1, <2>2, <2>3 DEF HookInit
<1> QED
  BY <1>2, <1>3, <1>5 DEF TypeOK, wireVars, probeVars

LEMMA TypeComplete ==
  ASSUME TypeOK, NEW id \in Ops, NEW elapsed \in Durations, Complete(id, elapsed)
  PROVE  /\ Retained' \in SUBSET Ops
         /\ \A i \in Retained' : records'[i] \in Durations \cup {NoTime}
         /\ completed' \in Seq(Ops) /\ inflightCount' \in Nat
<1>1. CASE UNCHANGED <<records, completed, inflightCount>>
  BY <1>1 DEF TypeOK, Retained
<1>2. CASE id \in Retained
  <2>1. Retained' = Retained /\ \A i \in Retained : records'[i] \in Durations \cup {NoTime}
    BY <1>2 DEF Complete, Retained, TypeOK
  <2>2. completed' \in Seq(Ops)
    <3>1. completed' = completed \/ completed' = Append(completed, id)
      BY <1>2 DEF Complete
    <3>2. completed \in Seq(Ops)
      BY DEF TypeOK
    <3>3. Append(completed, id) \in Seq(Ops)
      BY <3>2, AppendProperties
    <3> QED
      BY <3>1, <3>2, <3>3
  <2>3. inflightCount' \in Nat
    BY <1>2 DEF Complete, TypeOK
  <2> QED
    BY <2>1, <2>2, <2>3 DEF TypeOK
<1> QED
  BY <1>1, <1>2 DEF Complete

LEMMA TypeStep ==
  ASSUME IInv, [Next]_vars
  PROVE  TypeOK'
<1> USE DEF IInv
<1>1. ASSUME NEW k \in Kinds, HookInit(k) PROVE TypeOK'
  BY <1>1, TypeInit
<1>2. ASSUME NEW id \in Ops, HookBefore(id) PROVE TypeOK'
  <2>1. stack' \in Seq(Ops) /\ openRuns' \in SUBSET Ops /\ activeCount' \in Nat /\ runs' \in 0..MaxRuns
    BY <1>2, CollectorAssumption DEF HookBefore, TypeOK, CollectorAssumption
  <2> QED
    BY <1>2, <2>1 DEF HookBefore, TypeOK, Retained, wireVars, probeVars, ghostVars
<1>3. CASE HookAfter
  <2>1. Front(stack) \in Seq(Ops)
    <3>1. \A i \in 1 .. Len(stack) - 1 : stack[i] \in Ops
      BY DEF TypeOK
    <3>2. Len(stack) \in Nat
      BY DEF TypeOK
    <3> QED
      BY <3>1, <3>2, SubSeqProperties DEF Front
  <2>2. stack' \in Seq(Ops)
    BY <1>3, <2>1 DEF HookAfter
  <2>3. openRuns' \in SUBSET Ops /\ activeCount' \in Nat
    BY <1>3 DEF HookAfter, TypeOK
  <2> QED
    BY <1>3, <2>2, <2>3 DEF HookAfter, TypeOK, Retained, wireVars, probeVars, ghostVars
<1>4. ASSUME NEW id \in Ops, HookDestroy(id) PROVE TypeOK'
  <2>1. PICK elapsed \in Durations : Complete(id, elapsed)
    BY <1>4 DEF HookDestroy
  <2> QED
    BY <1>4, <2>1, TypeComplete DEF HookDestroy, TypeOK, wireVars, probeVars, ghostVars
<1>5. ASSUME NEW id \in Ops, HookPromiseResolve(id) PROVE TypeOK'
  <2>1. PICK elapsed \in Durations : Complete(id, elapsed)
    BY <1>5 DEF HookPromiseResolve
  <2> QED
    BY <1>5, <2>1, TypeComplete DEF HookPromiseResolve, TypeOK, wireVars, probeVars, ghostVars
<1>6. CASE CaptureStart
  <2>1. early' \in SUBSET Ops
    BY <1>6 DEF CaptureStart, Born
  <2> QED
    BY <1>6, <2>1, ClearedTypes DEF CaptureStart, TypeOK, Phases, wireVars
<1>7. CASE SendDrain
  <2>1. asked' \in Seq({"drain", "read"}) /\ drains' \in 0..MaxDrains
    BY <1>7, CollectorAssumption DEF SendDrain, TypeOK, CollectorAssumption
  <2> QED
    BY <1>7, <2>1 DEF SendDrain, TypeOK, Retained, nodeVars, tableVars, ghostVars
<1>8. CASE EvaluateDrain
  <2>1. Range(completed) \in SUBSET Ops
    BY DEF Range, TypeOK
  <2>2. replies' \in Seq(SUBSET Ops)
    BY <1>8, <2>1 DEF EvaluateDrain, TypeOK
  <2>3. asked' \in Seq({"drain", "read"})
    BY <1>8 DEF EvaluateDrain, TypeOK
  <2>4. Retained' \in SUBSET Ops /\ \A id \in Retained' : records'[id] \in Durations \cup {NoTime}
    BY <1>8 DEF EvaluateDrain, Without, Retained, TypeOK
  <2> QED
    BY <1>8, <2>2, <2>3, <2>4 DEF EvaluateDrain, TypeOK, nodeVars, probeVars, ghostVars
<1>9. CASE EvaluateRead
  <2>1. replies' \in Seq(SUBSET Ops) /\ asked' \in Seq({"drain", "read"})
    BY <1>9 DEF EvaluateRead, TypeOK
  <2> QED
    BY <1>9, <2>1, ClearedTypes DEF EvaluateRead, TypeOK, nodeVars, probeVars, ghostVars
<1>10. CASE ReceiveDrain
  <2>1. replies' \in Seq(SUBSET Ops) /\ drained' \in Seq(SUBSET Ops)
    BY <1>10 DEF ReceiveDrain, TypeOK
  <2> QED
    BY <1>10, <2>1 DEF ReceiveDrain, TypeOK, Retained, nodeVars, tableVars, ghostVars
<1>11. CASE Stop
  <2>1. phase' \in Phases /\ bundle' \in Seq(SUBSET Ops) /\ asked' \in Seq({"drain", "read"})
    <3>1. CASE closed
      BY <1>11, <3>1 DEF Stop, TypeOK, Phases
    <3>2. CASE ~closed
      <4>1. asked' = Append(asked, "read") /\ phase' = "stopping" /\ bundle' = bundle
        BY <1>11, <3>2 DEF Stop
      <4> QED
        BY <4>1 DEF TypeOK, Phases
    <3> QED
      BY <3>1, <3>2
  <2> QED
    BY <1>11, <2>1 DEF Stop, TypeOK, Retained, nodeVars, tableVars, ghostVars
<1>12. CASE ReceiveRead
  <2>1. phase' \in Phases /\ bundle' \in Seq(SUBSET Ops) /\ replies' \in Seq(SUBSET Ops)
    <3>1. replies \in Seq(SUBSET Ops) /\ Len(replies) = 1
      BY <1>12 DEF ReceiveRead, TypeOK
    <3>2. replies # <<>>
      BY <3>1
    <3>3. Head(replies) \in SUBSET Ops
      BY <3>1, <3>2, HeadTailProperties
    <3> QED
      BY <1>12, <3>3 DEF ReceiveRead, TypeOK, Phases
  <2> QED
    BY <1>12, <2>1 DEF ReceiveRead, TypeOK, Retained, nodeVars, tableVars, ghostVars
<1>13. CASE Disconnect
  <2>1. lost' \in SUBSET Ops
    <3>1. UNION Range(replies) \in SUBSET Ops
      BY DEF Range, TypeOK
    <3> QED
      BY <1>13, <3>1 DEF Disconnect, TypeOK
  <2>2. phase' \in Phases /\ bundle' \in Seq(SUBSET Ops)
    BY <1>13 DEF Disconnect, TypeOK, Phases
  <2> QED
    BY <1>13, <2>1, <2>2 DEF Disconnect, TypeOK, Retained, nodeVars, tableVars
<1>14. CASE Dispose
  <2>1. CASE closed
    BY <1>14, <2>1 DEF Dispose, TypeOK, Retained, Phases, nodeVars, tableVars, wireVars, ghostVars
  <2>2. CASE ~closed
    BY <1>14, <2>2, ClearedTypes DEF Dispose, TypeOK, Phases, nodeVars, wireVars, ghostVars
  <2> QED
    BY <2>1, <2>2
<1>15. CASE UNCHANGED vars
  BY <1>15 DEF vars, TypeOK, Retained, nodeVars, tableVars, wireVars, probeVars, ghostVars
<1>16. CASE StopTimesOut
  <2>1. UNION Range(drained) \in SUBSET Ops
    BY DEF Range, TypeOK
  <2>2. lost' \in SUBSET Ops /\ drained' \in Seq(SUBSET Ops) /\ bundle' \in Seq(SUBSET Ops)
    BY <1>16, <2>1 DEF StopTimesOut, TypeOK
  <2> QED
    BY <1>16, <2>2 DEF StopTimesOut, TypeOK, Retained, Phases, nodeVars, tableVars, wireVars
<1>17. CASE ReceiveLate
  <2>1. Head(replies) \in SUBSET Ops /\ Tail(replies) \in Seq(SUBSET Ops)
    BY <1>17, HeadTailProperties DEF ReceiveLate, TypeOK
  <2>2. lost' \in SUBSET Ops /\ replies' \in Seq(SUBSET Ops)
    BY <1>17, <2>1 DEF ReceiveLate, TypeOK
  <2> QED
    BY <1>17, <2>2 DEF ReceiveLate, TypeOK, Retained, nodeVars, tableVars, probeVars
<1> QED
  BY <1>1, <1>2, <1>3, <1>4, <1>5, <1>6, <1>7, <1>8, <1>9, <1>10, <1>11, <1>12, <1>13, <1>14, <1>15,
     <1>16, <1>17 DEF Next, Done

(* IInv is inductive. *)
THEOREM Inductive == Spec => []IInv
<1>1. IInv /\ [Next]_vars => IInv'
  BY TypeStep, TableStep DEF IInv
<1> QED
  BY InitIInv, <1>1, PTL DEF Spec

(* Every variable keeps its type, whatever the hooks and drains do. *)
THEOREM TypeCorrect == Spec => []TypeOK
<1>1. IInv => TypeOK
  BY DEF IInv
<1> QED
  BY Inductive, <1>1, PTL

(* The in-flight counter is the number of retained records that have not   *)
(* completed, for any table size and any number of operations.             *)
THEOREM InflightIsExact == Spec => []InflightAgrees
<1>1. IInv => InflightAgrees
  BY CompletedCount DEF IInv, TableInv, InflightInv, InflightAgrees
<1> QED
  BY Inductive, <1>1, PTL

(* The active counter never falls below the open runs that have a record,  *)
(* whatever is evicted, drained or read inside them.                       *)
THEOREM ActiveIsEnough == Spec => []ActiveNeverUnder
<1>1. ASSUME IInv PROVE ActiveNeverUnder
  <2> DEFINE shown == Open \cap Retained
  <2>1. /\ IsFiniteSet(CountedRuns) /\ Cardinality(CountedRuns) \in Nat
        /\ activeCount \in Nat /\ activeCount >= Cardinality(CountedRuns)
    BY <1>1, Finite DEF IInv, TypeOK, TableInv, ActiveInv
  <2>2. DOMAIN stack = 1 .. Len(stack)
    BY <1>1 DEF IInv, TypeOK
  <2>3. shown = {stack[i] : i \in CountedRuns}
    BY <2>2 DEF Open, Range, CountedRuns
  <2> HIDE DEF shown
  <2>4. Cardinality(shown) <= Cardinality(CountedRuns) /\ Cardinality(shown) \in Nat
    <3> DEFINE f == [i \in CountedRuns |-> stack[i]]
    <3>1. f \in Surjection(CountedRuns, shown)
      BY <2>3, Fun_IsSurj
    <3> QED
      BY <2>1, <3>1, FS_Surjection, FS_CardinalityType
  <2> QED
    BY <2>1, <2>4 DEF ActiveNeverUnder, shown
<1> QED
  BY Inductive, <1>1, PTL

(* A record that is evicted has completed, and no slower than any of the   *)
(* candidates: operations in flight and the slowest survive.               *)
THEOREM EvictionIsSparing == Spec => EvictionSparesTheSlow
<1> DEFINE Spares == \A id \in (evicted' \ evicted) \cap Retained :
                       /\ records[id] # NoTime
                       /\ \A i \in Scanned : records[completed[i]] >= records[id]
<1>1. ASSUME IInv, [Next]_vars PROVE [Spares]_vars
  <2> SUFFICES ASSUME NEW id \in (evicted' \ evicted) \cap Retained
               PROVE  /\ records[id] # NoTime
                      /\ \A i \in Scanned : records[completed[i]] >= records[id]
    BY DEF Spares
  <2>1. completed # <<>> /\ id = Victim
    BY <1>1 DEF Next, HookInit, HookBefore, HookAfter, HookDestroy, HookPromiseResolve,
                CaptureStart, SendDrain, EvaluateDrain, EvaluateRead, ReceiveDrain, Stop,
                ReceiveRead, StopTimesOut, ReceiveLate, Disconnect, Dispose, Done, vars, ghostVars
  <2>2. TypeOK /\ CompletedRetained
    BY <1>1 DEF IInv, TableInv
  <2>3. /\ EvictionPlace \in 1 .. Len(completed)
        /\ \A j \in Scanned : records[completed[j]] >= records[Victim]
    BY <2>1, <2>2, EvictionPlaceIs
  <2>4. records[Victim] # NoTime
    BY <2>2, <2>3 DEF CompletedRetained, Victim
  <2> QED
    BY <2>1, <2>3, <2>4
<1> QED
  BY Inductive, <1>1, PTL DEF Spec, EvictionSparesTheSlow
------------------------------------------------------------------------------
(* Where the operations are.  The lemmas on sequences of sets come first.  *)

Apart(s) == \A i, j \in 1 .. Len(s) : i # j => s[i] \cap s[j] = {}

All(s) == UNION {s[i] : i \in 1 .. Len(s)}

LEMMA UnionOfRange ==
  ASSUME NEW S, NEW s \in Seq(S)
  PROVE  UNION Range(s) = All(s)
<1>1. DOMAIN s = 1 .. Len(s)
  OBVIOUS
<1> QED
  BY <1>1 DEF Range, All

LEMMA AllConcat ==
  ASSUME NEW S, NEW s \in Seq(SUBSET S), NEW t \in Seq(SUBSET S)
  PROVE  /\ s \o t \in Seq(SUBSET S)
         /\ All(s \o t) = All(s) \cup All(t)
         /\ Apart(s \o t) <=> Apart(s) /\ Apart(t) /\ All(s) \cap All(t) = {}
<1> DEFINE m == Len(s)
           n == Len(t)
           u == s \o t
<1>1. m \in Nat /\ n \in Nat
  OBVIOUS
<1>2. /\ u \in Seq(SUBSET S) /\ Len(u) = m + n
      /\ \A i \in 1 .. m + n : u[i] = IF i <= m THEN s[i] ELSE t[i - m]
  BY ConcatProperties
<1> HIDE DEF u
<1>3. ASSUME NEW i \in 1 .. m PROVE i \in 1 .. m + n /\ u[i] = s[i]
  BY <1>1, <1>2
<1>4. ASSUME NEW i \in 1 .. n PROVE m + i \in 1 .. m + n /\ u[m + i] = t[i]
  <2>1. m + i \in 1 .. m + n /\ ~(m + i <= m) /\ (m + i) - m = i
    BY <1>1
  <2> QED
    BY <1>2, <2>1
<1>5. ASSUME NEW i \in 1 .. m + n
      PROVE  \/ i \in 1 .. m /\ u[i] = s[i]
             \/ \E j \in 1 .. n : i = m + j /\ u[i] = t[j]
  <2>1. CASE i <= m
    BY <1>1, <1>2, <2>1
  <2>2. CASE ~(i <= m)
    <3>1. i - m \in 1 .. n /\ i = m + (i - m) /\ u[i] = t[i - m]
      BY <1>1, <1>2, <2>2
    <3> QED
      BY <3>1
  <2> QED
    BY <2>1, <2>2
<1>6. All(u) = All(s) \cup All(t)
  <2>1. \A x : x \in All(u) <=> \E i \in 1 .. m + n : x \in u[i]
    BY <1>2 DEF All
  <2>2. \A x : x \in All(s) <=> \E i \in 1 .. m : x \in s[i]
    BY DEF All
  <2>3. \A x : x \in All(t) <=> \E i \in 1 .. n : x \in t[i]
    BY DEF All
  <2> QED
    BY <1>3, <1>4, <1>5, <2>1, <2>2, <2>3
<1>7. ASSUME Apart(u) PROVE Apart(s) /\ Apart(t) /\ All(s) \cap All(t) = {}
  <2>1. \A i, j \in 1 .. m + n : i # j => u[i] \cap u[j] = {}
    BY <1>2, <1>7 DEF Apart
  <2>2. Apart(s)
    BY <1>3, <2>1 DEF Apart
  <2>3. ASSUME NEW i \in 1 .. n, NEW j \in 1 .. n, i # j PROVE t[i] \cap t[j] = {}
    <3>1. m + i # m + j
      BY <1>1, <2>3
    <3> QED
      BY <1>4, <2>1, <3>1
  <2>4. ASSUME NEW i \in 1 .. m, NEW j \in 1 .. n PROVE s[i] \cap t[j] = {}
    <3>1. i # m + j
      BY <1>1
    <3> QED
      BY <1>3, <1>4, <2>1, <3>1
  <2> QED
    BY <2>2, <2>3, <2>4 DEF Apart, All
<1>8. ASSUME Apart(s), Apart(t), All(s) \cap All(t) = {} PROVE Apart(u)
  <2>1. \A i \in 1 .. m : s[i] \subseteq All(s)
    BY DEF All
  <2>2. \A i \in 1 .. n : t[i] \subseteq All(t)
    BY DEF All
  <2>3. ASSUME NEW i \in 1 .. m + n, NEW j \in 1 .. m + n, i # j PROVE u[i] \cap u[j] = {}
    BY <1>5, <1>8, <2>1, <2>2, <2>3 DEF Apart
  <2> QED
    BY <1>2, <2>3 DEF Apart
<1> QED
  BY <1>2, <1>6, <1>7, <1>8 DEF u

LEMMA AllSingle ==
  ASSUME NEW S, NEW X \in SUBSET S
  PROVE  <<X>> \in Seq(SUBSET S) /\ All(<<X>>) = X /\ Apart(<<X>>)
<1>1. <<X>> \in Seq(SUBSET S) /\ Len(<<X>>) = 1 /\ <<X>>[1] = X
  OBVIOUS
<1>2. \A i \in 1 .. 1 : i = 1
  OBVIOUS
<1> QED
  BY <1>1, <1>2 DEF All, Apart

LEMMA AllEmpty == All(<<>>) = {} /\ Apart(<<>>)
<1>1. Len(<<>>) = 0
  OBVIOUS
<1> QED
  BY <1>1 DEF All, Apart

LEMMA AllAppend ==
  ASSUME NEW S, NEW s \in Seq(SUBSET S), NEW X \in SUBSET S
  PROVE  /\ Append(s, X) \in Seq(SUBSET S)
         /\ All(Append(s, X)) = All(s) \cup X
         /\ Apart(Append(s, X)) <=> Apart(s) /\ All(s) \cap X = {}
<1>1. Append(s, X) = s \o <<X>>
  BY AppendIsConcat
<1>2. <<X>> \in Seq(SUBSET S) /\ All(<<X>>) = X /\ Apart(<<X>>)
  BY AllSingle
<1>3. /\ s \o <<X>> \in Seq(SUBSET S)
      /\ All(s \o <<X>>) = All(s) \cup All(<<X>>)
      /\ Apart(s \o <<X>>) <=> Apart(s) /\ Apart(<<X>>) /\ All(s) \cap All(<<X>>) = {}
  BY <1>2, AllConcat
<1> QED
  BY <1>1, <1>2, <1>3

LEMMA HeadTailConcat ==
  ASSUME NEW S, NEW s \in Seq(S), s # <<>>
  PROVE  /\ Head(s) \in S /\ Tail(s) \in Seq(S)
         /\ s = <<Head(s)>> \o Tail(s)
<1>1. /\ Head(s) \in S /\ Head(s) = s[1]
      /\ Tail(s) \in Seq(S) /\ Len(Tail(s)) = Len(s) - 1
      /\ \A i \in 1 .. Len(Tail(s)) : Tail(s)[i] = s[i + 1]
  BY HeadTailProperties
<1>2. Len(s) \in Nat /\ Len(s) >= 1
  BY EmptySeq
<1> DEFINE u == <<Head(s)>> \o Tail(s)
<1>3. <<Head(s)>> \in Seq(S) /\ Len(<<Head(s)>>) = 1 /\ <<Head(s)>>[1] = Head(s)
  BY <1>1
<1>4. /\ u \in Seq(S) /\ Len(u) = 1 + Len(Tail(s))
      /\ \A i \in 1 .. 1 + Len(Tail(s)) :
           u[i] = IF i <= 1 THEN <<Head(s)>>[i] ELSE Tail(s)[i - 1]
  BY <1>1, <1>3, ConcatProperties
<1> HIDE DEF u
<1>5. Len(u) = Len(s)
  BY <1>1, <1>2, <1>4
<1>6. ASSUME NEW i \in 1 .. Len(s) PROVE s[i] = u[i]
  <2>1. CASE i = 1
    BY <1>1, <1>2, <1>3, <1>4, <2>1
  <2>2. CASE i # 1
    <3>1. i - 1 \in 1 .. Len(Tail(s)) /\ (i - 1) + 1 = i /\ i \in 1 .. 1 + Len(Tail(s)) /\ ~(i <= 1)
      BY <1>1, <1>2, <2>2
    <3> QED
      BY <1>1, <1>4, <3>1
  <2> QED
    BY <2>1, <2>2
<1>7. s = u
  BY <1>4, <1>5, <1>6, SeqEqual
<1> QED
  BY <1>1, <1>7 DEF u

LEMMA AllTail ==
  ASSUME NEW S, NEW s \in Seq(SUBSET S), s # <<>>
  PROVE  /\ Head(s) \in SUBSET S /\ Tail(s) \in Seq(SUBSET S)
         /\ All(s) = Head(s) \cup All(Tail(s))
         /\ Apart(s) <=> Apart(Tail(s)) /\ Head(s) \cap All(Tail(s)) = {}
<1> DEFINE first == <<Head(s)>>
           rest  == Tail(s)
<1>1. /\ Head(s) \in SUBSET S /\ rest \in Seq(SUBSET S)
      /\ s = first \o rest
  BY HeadTailConcat
<1>2. first \in Seq(SUBSET S) /\ All(first) = Head(s) /\ Apart(first)
  BY <1>1, AllSingle
<1> HIDE DEF first, rest
<1>a. first \in Seq(SUBSET S) /\ rest \in Seq(SUBSET S)
  BY <1>1, <1>2
<1>3. /\ All(first \o rest) = All(first) \cup All(rest)
      /\ Apart(first \o rest) <=> Apart(first) /\ Apart(rest) /\ All(first) \cap All(rest) = {}
  BY ONLY <1>a, AllConcat
<1> QED
  BY <1>1, <1>2, <1>3 DEF rest
------------------------------------------------------------------------------
(* What the probe and the connection hold of the operations. *)
HeldAll == UNION Range(Held)

(* There is nothing on the wire before the capture and after it, and what  *)
(* was created before it is not of this capture.                           *)
WireInv ==
  /\ early \subseteq Born
  /\ phase = "install" =>
       early = {} /\ lost = {} /\ asked = <<>> /\ replies = <<>> /\ drained = <<>>
  /\ closed \/ phase \in {"stopped", "disposed"} => asked = <<>> /\ replies = <<>>

(* Every operation of the capture is in one place. *)
Parted ==
  /\ Apart(replies) /\ Apart(Held)
  /\ Observed = Retained \cup Carried \cup HeldAll \cup evicted \cup refused \cup lost
  /\ Retained \cap (Carried \cup HeldAll \cup evicted \cup refused \cup lost) = {}
  /\ Carried \cap (HeldAll \cup evicted \cup refused \cup lost) = {}
  /\ HeldAll \cap (evicted \cup refused \cup lost) = {}
  /\ evicted \cap (refused \cup lost) = {}
  /\ refused \cap lost = {}

BooksInv == phase # "disposed" => Parted

(* What a step does to the places.  An operation is created,               *)
Creates ==
  /\ phase # "disposed"
  /\ UNCHANGED <<replies, Held, lost, phase>>
  /\ \E id \in Ops \ Born :
       /\ Observed' = Observed \cup {id}
       /\ \/ Retained' = Retained \cup {id} /\ UNCHANGED <<evicted, refused>>
          \/ \E v \in Retained :
               /\ Retained' = (Retained \ {v}) \cup {id}
               /\ evicted' = evicted \cup {v} /\ UNCHANGED refused
          \/ refused' = refused \cup {id} /\ UNCHANGED <<Retained, evicted>>

(* the target answers with operations it retained,                         *)
Answers ==
  /\ phase \notin {"install", "disposed"}
  /\ UNCHANGED <<Observed, Held, evicted, refused, lost, phase>>
  /\ \E C \in SUBSET Retained : replies' = Append(replies, C) /\ Retained' = Retained \ C

(* an answer arrives,                                                      *)
Arrives ==
  /\ UNCHANGED <<Observed, Retained, evicted, refused, lost>>
  /\ replies # <<>> /\ phase \notin {"install", "disposed"} /\ phase' \notin {"install", "disposed"}
  /\ replies' = Tail(replies) /\ Held' = Append(Held, Head(replies))

(* an answer comes too late,                                               *)
TooLate ==
  /\ UNCHANGED <<Observed, Retained, Held, evicted, refused, phase>>
  /\ replies # <<>> /\ phase \notin {"install", "disposed"}
  /\ replies' = Tail(replies) /\ lost' = lost \cup Head(replies)

(* the probe's share is given up,                                          *)
GivesUp ==
  /\ UNCHANGED <<Observed, Retained, replies, evicted, refused>>
  /\ phase \notin {"install", "disposed"} /\ phase' \notin {"install", "disposed"}
  /\ Held' = <<>> /\ lost' = lost \cup HeldAll

(* the answers on their way are lost,                                      *)
Breaks ==
  /\ UNCHANGED <<Observed, Retained, Held, evicted, refused>>
  /\ phase \notin {"install", "disposed"} /\ phase' \notin {"install", "disposed"}
  /\ replies' = <<>> /\ lost' = lost \cup Carried

(* the capture begins or ends,                                             *)
Begins ==
  /\ phase = "install" /\ phase' = "capture"
  /\ replies = <<>> /\ Held = <<>> /\ lost = {}
  /\ UNCHANGED <<replies, Held, lost>>
  /\ Observed' = {} /\ Retained' = {} /\ evicted' = {} /\ refused' = {}

Ends ==
  /\ phase \in {"stopped", "abandoned"} /\ phase' = "disposed" /\ replies = <<>>
  /\ UNCHANGED <<Observed, replies, Held, evicted, refused, lost>>

(* or all stays where it is.                                               *)
Stays ==
  /\ UNCHANGED <<Observed, Retained, replies, Held, evicted, refused, lost>>
  /\ phase' = phase \/ (phase' \notin {"install", "disposed"} /\ phase \notin {"install", "disposed"})

LEMMA CreationIs ==
  ASSUME IInv, WireInv, phase # "disposed", NEW k \in Kinds, HookInit(k)
  PROVE  Creates /\ WireInv'
<1>1. TypeOK /\ BornInv /\ CompletedRetained
  BY DEF IInv, TableInv
<1>2. /\ NextId \in Ops /\ NextId \notin Born
      /\ Born' = Born \cup {NextId}
  BY <1>1, NewId
<1>3. UNCHANGED <<early, replies, Held, lost, phase, asked, drained, closed>>
  BY DEF HookInit, wireVars, probeVars, Held
<1>4. NextId \notin early /\ early \subseteq Born
  BY <1>2 DEF WireInv
<1>5. Observed' = Observed \cup {NextId}
  BY <1>2, <1>3, <1>4 DEF Observed
<1>6. \/ Retained' = Retained \cup {NextId} /\ UNCHANGED <<evicted, refused>>
      \/ \E v \in Retained :
           /\ Retained' = (Retained \ {v}) \cup {NextId}
           /\ evicted' = evicted \cup {v} /\ UNCHANGED refused
      \/ refused' = refused \cup {NextId} /\ UNCHANGED <<Retained, evicted>>
  <2>1. ASSUME NEW kept, Retain(NextId, kept)
        PROVE  Retained' = kept \cup {NextId} /\ UNCHANGED refused
    BY <2>1 DEF Retain, Retained
  <2>2. CASE Retain(NextId, Retained) /\ UNCHANGED <<completed, evicted>>
    BY <2>1, <2>2
  <2>3. CASE /\ completed # <<>> /\ Retain(NextId, Retained \ {Victim})
             /\ evicted' = evicted \cup {Victim}
    <3>1. EvictionPlace \in 1 .. Len(completed)
      BY <1>1, <2>3, EvictionPlaceIs
    <3>2. Victim \in Retained
      BY <1>1, <3>1 DEF CompletedRetained, Victim
    <3> QED
      BY <2>1, <2>3, <3>2
  <2>4. CASE /\ refused' = refused \cup {NextId}
             /\ UNCHANGED <<records, completed, inflightCount, evicted>>
    BY <2>4 DEF Retained
  <2> QED
    BY <2>2, <2>3, <2>4 DEF HookInit
<1>7. Creates
  BY <1>2, <1>3, <1>5, <1>6 DEF Creates
<1>8. WireInv'
  BY <1>2, <1>3 DEF WireInv
<1> QED
  BY <1>7, <1>8

LEMMA StepIs ==
  ASSUME IInv, WireInv, [Next]_vars
  PROVE  /\ \/ Creates \/ Answers \/ Arrives \/ TooLate \/ GivesUp
            \/ Breaks \/ Begins \/ Ends \/ Stays
         /\ WireInv'
<1>1. ASSUME phase # "disposed", NEW k \in Kinds, HookInit(k) PROVE Creates /\ WireInv'
  BY <1>1, CreationIs
<1>2. ASSUME UNCHANGED <<kind, early, Retained, probeVars, wireVars, ghostVars>>
      PROVE  Stays /\ WireInv'
  <2>1. UNCHANGED <<Born, Observed, Held>>
    BY <1>2 DEF Born, Observed, Held, probeVars
  <2> QED
    BY <1>2, <2>1 DEF Stays, WireInv, probeVars, wireVars, ghostVars
<1>3. ASSUME NEW id \in Ops, HookBefore(id) PROVE Stays /\ WireInv'
  BY <1>2, <1>3 DEF HookBefore, Retained
<1>4. CASE HookAfter
  BY <1>2, <1>4 DEF HookAfter, Retained
<1>5. ASSUME NEW id \in Ops, HookDestroy(id) \/ HookPromiseResolve(id) PROVE Stays /\ WireInv'
  <2>1. PICK elapsed \in Durations : Complete(id, elapsed)
    BY <1>5 DEF HookDestroy, HookPromiseResolve
  <2>2. Retained' = Retained
    BY <2>1 DEF Complete, Retained
  <2> QED
    BY <1>2, <1>5, <2>2 DEF HookDestroy, HookPromiseResolve
<1>6. CASE CaptureStart
  <2>1. /\ phase = "install" /\ phase' = "capture" /\ early' = Born /\ Born' = Born
        /\ UNCHANGED <<replies, asked, drained, closed>>
        /\ evicted' = {} /\ refused' = {} /\ lost' = {} /\ Retained' = {}
    BY <1>6 DEF CaptureStart, ClearRetained, Retained, Empty, wireVars, Born
  <2>2. lost = {} /\ asked = <<>> /\ replies = <<>> /\ drained = <<>>
    BY <2>1 DEF WireInv
  <2>3. Held = <<>> /\ Held' = <<>> /\ Observed' = {}
    BY <2>1, <2>2 DEF Held, Observed
  <2> QED
    BY <2>1, <2>2, <2>3 DEF Begins, WireInv
<1>7. CASE SendDrain
  <2>1. Held' = Held
    BY <1>7 DEF SendDrain, Held
  <2>2. UNCHANGED <<Observed, Retained, Born>>
    BY <1>7 DEF SendDrain, Observed, Born, Retained, nodeVars, tableVars
  <2> QED
    BY <1>7, <2>1, <2>2 DEF SendDrain, Stays, WireInv, nodeVars, ghostVars
<1>8. ASSUME NEW C \in SUBSET Retained, asked # <<>>, asked' = Tail(asked),
             replies' = Append(replies, C), Retained' = Retained \ C,
             UNCHANGED <<nodeVars, closed, probeVars, ghostVars>>
      PROVE  Answers /\ WireInv'
  <2>1. UNCHANGED <<Observed, Born, Held, early>>
    BY <1>8 DEF Observed, Born, Held, nodeVars, probeVars
  <2>2. phase \notin {"install", "stopped", "disposed"} /\ ~closed
    BY <1>8 DEF WireInv
  <2> QED
    BY <1>8, <2>1, <2>2 DEF Answers, WireInv, probeVars, ghostVars
<1>9. CASE EvaluateDrain
  <2>1. Range(completed) \subseteq Retained
    BY CompletedCount DEF IInv, TableInv
  <2>2. Retained' = Retained \ Range(completed)
    BY <1>9 DEF EvaluateDrain, Without, Retained
  <2> QED
    BY <1>8, <1>9, <2>1, <2>2 DEF EvaluateDrain
<1>10. CASE EvaluateRead
  <2>1. Retained' = Retained \ Retained
    BY <1>10 DEF EvaluateRead, ClearRetained, Retained, Empty
  <2> QED
    BY <1>8, <1>10, <2>1 DEF EvaluateRead
<1>11. CASE ReceiveDrain
  <2>1. replies # <<>>
    BY <1>11 DEF ReceiveDrain
  <2>2. phase \in {"capture", "stopping"} /\ ~closed
    BY <1>11, <2>1 DEF ReceiveDrain, WireInv
  <2>3. UNCHANGED <<Observed, Retained, Born, early, asked, closed, phase, ghostVars>>
    BY <1>11 DEF ReceiveDrain, Observed, Born, Retained, nodeVars, tableVars
  <2>4. Held' = Append(Held, Head(replies)) /\ replies' = Tail(replies)
    BY <1>11, <2>2 DEF ReceiveDrain, Held
  <2> QED
    BY <2>1, <2>2, <2>3, <2>4 DEF Arrives, WireInv, ghostVars
<1>12. CASE Stop
  <2>1. /\ phase = "capture" /\ phase' \in {"stopping", "stopped"}
        /\ UNCHANGED <<Observed, Retained, Born, early, closed, replies, evicted, refused, lost>>
    BY <1>12 DEF Stop, Observed, Born, Retained, nodeVars, tableVars, ghostVars
  <2>2. Held' = Held
    BY <1>12, <2>1 DEF Stop, Held
  <2>3. Stays
    BY <2>1, <2>2 DEF Stays
  <2>4. CASE closed
    <3>1. phase' = "stopped" /\ asked' = asked
      BY <1>12, <2>4 DEF Stop
    <3>2. asked = <<>> /\ replies = <<>> /\ early \subseteq Born
      BY <2>4 DEF WireInv
    <3> QED
      BY <2>1, <2>3, <3>1, <3>2 DEF WireInv
  <2>5. CASE ~closed
    <3>1. phase' = "stopping" /\ ~closed'
      BY <1>12, <2>1, <2>5 DEF Stop
    <3>2. early \subseteq Born
      BY DEF WireInv
    <3> QED
      BY <2>1, <2>3, <3>1, <3>2 DEF WireInv
  <2> QED
    BY <2>3, <2>4, <2>5
<1>13. CASE ReceiveRead
  <2>1. /\ phase = "stopping" /\ phase' = "stopped" /\ asked = <<>> /\ Len(replies) = 1
        /\ UNCHANGED <<Observed, Retained, Born, early, closed, asked, ghostVars>>
        /\ replies' = <<>> /\ bundle' = Append(drained, Head(replies))
    BY <1>13 DEF ReceiveRead, Observed, Born, Retained, nodeVars, tableVars
  <2>2. replies # <<>> /\ Tail(replies) = <<>>
    <3>1. replies \in Seq(SUBSET Ops) /\ Len(replies) = 1
      BY <2>1 DEF IInv, TypeOK
    <3>2. replies # <<>>
      BY <3>1, EmptySeq
    <3>3. Tail(replies) \in Seq(SUBSET Ops) /\ Len(Tail(replies)) = 0
      BY <3>1, <3>2, HeadTailProperties
    <3> QED
      BY <3>2, <3>3, EmptySeq
  <2>3. Held' = Append(Held, Head(replies))
    BY <2>1 DEF Held
  <2> QED
    BY <2>1, <2>2, <2>3 DEF Arrives, WireInv, ghostVars
<1>14. CASE Disconnect
  <2>1. /\ phase \in {"capture", "stopping", "stopped", "abandoned"}
        /\ phase' \in {"capture", "stopping", "stopped", "abandoned"}
        /\ UNCHANGED <<Observed, Retained, Born, early, evicted, refused>>
        /\ asked' = <<>> /\ replies' = <<>> /\ lost' = lost \cup Carried
    BY <1>14 DEF Disconnect, Observed, Born, Retained, Carried, nodeVars, tableVars
  <2>2. Held' = Held
    BY <1>14, <2>1 DEF Disconnect, Held
  <2> QED
    BY <2>1, <2>2 DEF Breaks, WireInv
<1>15. CASE Dispose
  <2>1. /\ phase \in {"stopped", "abandoned"} /\ phase' = "disposed"
        /\ asked = <<>> /\ replies = <<>>
        /\ UNCHANGED <<Observed, Born, early, ghostVars, replies, asked, bundle>>
    BY <1>15 DEF Dispose, Observed, Born, nodeVars, wireVars
  <2>2. Held' = Held
    BY <2>1 DEF Held
  <2> QED
    BY <2>1, <2>2 DEF Ends, WireInv, ghostVars
<1>16. CASE UNCHANGED vars
  BY <1>2, <1>16 DEF vars, nodeVars, tableVars, Retained
<1>17. CASE StopTimesOut
  <2>1. /\ phase = "stopping" /\ phase' = "abandoned" /\ Held = drained /\ Held' = <<>>
        /\ UNCHANGED <<Observed, Retained, Born, early, replies, asked, closed, evicted, refused>>
    BY <1>17 DEF StopTimesOut, Held, Observed, Born, Retained, nodeVars, tableVars, wireVars
  <2>2. lost' = lost \cup HeldAll
    BY <1>17, <2>1 DEF StopTimesOut, HeldAll
  <2> QED
    BY <2>1, <2>2 DEF GivesUp, WireInv
<1>18. CASE ReceiveLate
  <2>1. /\ phase = "abandoned" /\ phase' = phase /\ replies # <<>>
        /\ replies' = Tail(replies) /\ lost' = lost \cup Head(replies)
        /\ UNCHANGED <<Observed, Retained, Born, early, asked, closed, drained, bundle, evicted, refused>>
    BY <1>18 DEF ReceiveLate, Observed, Born, Retained, nodeVars, tableVars, probeVars
  <2>2. Held' = Held /\ ~closed
    BY <2>1 DEF Held, WireInv
  <2> QED
    BY <2>1, <2>2 DEF TooLate, WireInv
<1> QED
  BY <1>1, <1>3, <1>4, <1>5, <1>6, <1>7, <1>9, <1>10, <1>11, <1>12, <1>13, <1>14, <1>15, <1>16,
     <1>17, <1>18 DEF Next, Done

LEMMA PartedStep ==
  ASSUME IInv, BooksInv, phase' # "disposed",
         Creates \/ Answers \/ Arrives \/ TooLate \/ GivesUp \/ Breaks \/ Begins \/ Ends \/ Stays
  PROVE  Parted'
<1>1. /\ replies \in Seq(SUBSET Ops) /\ Held \in Seq(SUBSET Ops) /\ Retained \in SUBSET Ops
      /\ Observed \subseteq Born
  BY DEF IInv, TypeOK, Held, Observed
<1>2. Carried = All(replies) /\ HeldAll = All(Held)
  BY <1>1, UnionOfRange DEF Carried, HeldAll
<1>3. phase # "disposed" => Parted
  BY DEF BooksInv
<1>4. CASE Creates
  <2>1. UNCHANGED <<Carried, HeldAll, replies, Held, lost, phase>>
    BY <1>4 DEF Creates, Carried, HeldAll
  <2>2. PICK id \in Ops \ Born :
          /\ Observed' = Observed \cup {id}
          /\ \/ Retained' = Retained \cup {id} /\ UNCHANGED <<evicted, refused>>
             \/ \E v \in Retained :
                  /\ Retained' = (Retained \ {v}) \cup {id}
                  /\ evicted' = evicted \cup {v} /\ UNCHANGED refused
             \/ refused' = refused \cup {id} /\ UNCHANGED <<Retained, evicted>>
    BY <1>4 DEF Creates
  <2>3. Parted /\ id \notin Observed
    BY <1>1, <1>3, <2>1, <2>2
  <2>4. CASE Retained' = Retained \cup {id} /\ UNCHANGED <<evicted, refused>>
    BY <2>1, <2>2, <2>3, <2>4 DEF Parted, Apart
  <2>5. CASE \E v \in Retained :
               /\ Retained' = (Retained \ {v}) \cup {id}
               /\ evicted' = evicted \cup {v} /\ UNCHANGED refused
    BY <2>1, <2>2, <2>3, <2>5 DEF Parted, Apart
  <2>6. CASE refused' = refused \cup {id} /\ UNCHANGED <<Retained, evicted>>
    BY <2>1, <2>2, <2>3, <2>6 DEF Parted, Apart
  <2> QED
    BY <2>2, <2>4, <2>5, <2>6
<1>5. CASE Answers
  <2>1. UNCHANGED <<Observed, HeldAll, Held, evicted, refused, lost, phase>>
    BY <1>5 DEF Answers, HeldAll
  <2>2. PICK C \in SUBSET Retained : replies' = Append(replies, C) /\ Retained' = Retained \ C
    BY <1>5 DEF Answers
  <2>3. Parted /\ C \in SUBSET Ops
    BY <1>1, <1>3, <2>1
  <2>4. /\ Append(replies, C) \in Seq(SUBSET Ops) /\ All(Append(replies, C)) = All(replies) \cup C
        /\ Apart(Append(replies, C)) <=> Apart(replies) /\ All(replies) \cap C = {}
    BY <1>1, <2>3, AllAppend
  <2>5. Carried' = Carried \cup C
    BY <1>2, <2>2, <2>4, UnionOfRange DEF Carried
  <2>6. Apart(replies')
    BY <1>2, <2>2, <2>3, <2>4 DEF Parted
  <2> QED
    BY <2>1, <2>2, <2>3, <2>5, <2>6 DEF Parted, Apart
<1>6. CASE Arrives
  <2>1. /\ UNCHANGED <<Observed, Retained, evicted, refused, lost>> /\ replies # <<>>
        /\ replies' = Tail(replies) /\ Held' = Append(Held, Head(replies))
    BY <1>6 DEF Arrives
  <2>2. Parted
    BY <1>3, <1>6 DEF Arrives
  <2>3. /\ Head(replies) \in SUBSET Ops /\ Tail(replies) \in Seq(SUBSET Ops)
        /\ All(replies) = Head(replies) \cup All(Tail(replies))
        /\ Apart(replies) <=> Apart(Tail(replies)) /\ Head(replies) \cap All(Tail(replies)) = {}
    BY <1>1, <2>1, AllTail
  <2>4. /\ Append(Held, Head(replies)) \in Seq(SUBSET Ops)
        /\ All(Append(Held, Head(replies))) = All(Held) \cup Head(replies)
        /\ Apart(Append(Held, Head(replies))) <=> Apart(Held) /\ All(Held) \cap Head(replies) = {}
    BY <1>1, <2>3, AllAppend
  <2>5. Carried' = All(Tail(replies)) /\ HeldAll' = HeldAll \cup Head(replies)
    BY <1>2, <2>1, <2>3, <2>4, UnionOfRange DEF Carried, HeldAll
  <2>6. Apart(replies') /\ Apart(Held')
    BY <1>2, <2>1, <2>2, <2>3, <2>4 DEF Parted
  <2> QED
    BY <1>2, <2>1, <2>2, <2>3, <2>5, <2>6 DEF Parted
<1>7. CASE Breaks
  <2>1. /\ UNCHANGED <<Observed, Retained, HeldAll, Held, evicted, refused>>
        /\ replies' = <<>> /\ lost' = lost \cup Carried
    BY <1>7 DEF Breaks, HeldAll
  <2>2. Parted
    BY <1>3, <1>7 DEF Breaks
  <2>3. Carried' = {} /\ Apart(replies')
    BY <2>1, AllEmpty, EmptySeq, UnionOfRange DEF Carried
  <2> QED
    BY <2>1, <2>2, <2>3 DEF Parted, Apart
<1>8. CASE Begins
  <2>1. /\ Observed' = {} /\ Retained' = {} /\ evicted' = {} /\ refused' = {}
        /\ replies' = <<>> /\ Held' = <<>> /\ lost' = lost
        /\ lost = {}
    BY <1>8 DEF Begins
  <2>2. Carried' = {} /\ HeldAll' = {}
    BY <2>1, AllEmpty, EmptySeq, UnionOfRange DEF Carried, HeldAll
  <2> QED
    BY <2>1, <2>2, AllEmpty DEF Parted
<1>9. CASE Ends
  BY <1>9 DEF Ends
<1>10. CASE Stays
  <2>1. UNCHANGED <<Observed, Retained, replies, Carried, HeldAll, Held, evicted, refused, lost>>
    BY <1>10 DEF Stays, Carried, HeldAll
  <2>2. Parted
    BY <1>3, <1>10 DEF Stays
  <2> QED
    BY <2>1, <2>2 DEF Parted, Apart
<1>11. CASE TooLate
  <2>1. /\ UNCHANGED <<Observed, Retained, Held, HeldAll, evicted, refused>> /\ replies # <<>>
        /\ replies' = Tail(replies) /\ lost' = lost \cup Head(replies)
    BY <1>11 DEF TooLate, HeldAll
  <2>2. Parted
    BY <1>3, <1>11 DEF TooLate
  <2>3. /\ Head(replies) \in SUBSET Ops /\ Tail(replies) \in Seq(SUBSET Ops)
        /\ All(replies) = Head(replies) \cup All(Tail(replies))
        /\ Apart(replies) <=> Apart(Tail(replies)) /\ Head(replies) \cap All(Tail(replies)) = {}
    BY <1>1, <2>1, AllTail
  <2>4. Carried' = All(Tail(replies))
    BY <2>1, <2>3, UnionOfRange DEF Carried
  <2>5. Apart(replies') /\ Apart(Held')
    BY <2>1, <2>2, <2>3 DEF Parted
  <2> QED
    BY <1>2, <2>1, <2>2, <2>3, <2>4, <2>5 DEF Parted
<1>12. CASE GivesUp
  <2>1. /\ UNCHANGED <<Observed, Retained, replies, Carried, evicted, refused>>
        /\ Held' = <<>> /\ lost' = lost \cup HeldAll
    BY <1>12 DEF GivesUp, Carried
  <2>2. Parted
    BY <1>3, <1>12 DEF GivesUp
  <2>3. HeldAll' = {} /\ Apart(Held')
    BY <2>1, AllEmpty, EmptySeq, UnionOfRange DEF HeldAll
  <2> QED
    BY <2>1, <2>2, <2>3 DEF Parted, Apart
<1> QED
  BY <1>4, <1>5, <1>6, <1>7, <1>8, <1>9, <1>10, <1>11, <1>12

LEMMA InitBooks == Init => WireInv /\ BooksInv
<1> SUFFICES ASSUME Init PROVE WireInv /\ BooksInv
  OBVIOUS
<1>1. Retained = {} /\ Born = {} /\ Held = <<>> /\ replies = <<>>
  BY DEF Init, Empty, Retained, Born, Held
<1>2. Carried = {} /\ HeldAll = {}
  BY <1>1, AllEmpty, EmptySeq, UnionOfRange DEF Carried, HeldAll
<1>3. Observed = {}
  BY <1>1 DEF Observed
<1> QED
  BY <1>1, <1>2, <1>3, AllEmpty DEF Init, WireInv, BooksInv, Parted

(* The inductive invariant, with the places of the operations. *)
Placed == IInv /\ WireInv /\ BooksInv

THEOREM PlacedHolds == Spec => []Placed
<1>1. Init => Placed
  BY InitIInv, InitBooks DEF Placed
<1>2. ASSUME Placed, [Next]_vars PROVE Placed'
  <2>1. IInv'
    BY <1>2, TypeStep, TableStep DEF Placed, IInv
  <2>2. WireInv' /\ BooksInv'
    BY <1>2, StepIs, PartedStep DEF Placed, BooksInv
  <2> QED
    BY <2>1, <2>2 DEF Placed
<1> QED
  BY <1>1, <1>2, PTL DEF Spec

(* Until it is disposed of, the capture has every operation in exactly one *)
(* place: in the table, in one answer, with the probe, or among those      *)
(* evicted, refused or lost -- for any number of drains and operations.    *)
THEOREM Conserved == Spec => []Conservation
<1>1. ASSUME Placed PROVE Conservation
  <2> SUFFICES ASSUME phase # "disposed"
               PROVE  /\ UNION Range(Places) = Observed
                      /\ \A i, j \in DOMAIN Places : i # j => Places[i] \cap Places[j] = {}
    BY DEF Conservation
  <2> DEFINE rest == <<Retained, evicted, refused, lost>>
  <2>1. Parted
    BY <1>1 DEF Placed, BooksInv
  <2>2. /\ replies \in Seq(SUBSET Ops) /\ Held \in Seq(SUBSET Ops)
        /\ Retained \in SUBSET Ops /\ evicted \in SUBSET Ops
        /\ refused \in SUBSET Ops /\ lost \in SUBSET Ops
    BY <1>1 DEF Placed, IInv, TypeOK, Held
  <2>3. /\ rest \in Seq(SUBSET Ops)
        /\ All(rest) = Retained \cup evicted \cup refused \cup lost /\ Apart(rest)
    <3>1. rest \in Seq(SUBSET Ops) /\ Len(rest) = 4
      BY <2>2
    <3>2. rest[1] = Retained /\ rest[2] = evicted /\ rest[3] = refused /\ rest[4] = lost
      OBVIOUS
    <3>3. 1 .. 4 = {1, 2, 3, 4}
      OBVIOUS
    <3> HIDE DEF rest
    <3>4. All(rest) = Retained \cup evicted \cup refused \cup lost
      BY <3>1, <3>2, <3>3 DEF All
    <3>5. Apart(rest)
      BY <2>1, <3>1, <3>2, <3>3 DEF Apart, Parted
    <3> QED
      BY <3>1, <3>4, <3>5
  <2>4. Carried = All(replies) /\ HeldAll = All(Held)
    BY <2>2, UnionOfRange DEF Carried, HeldAll
  <2> HIDE DEF rest
  <2>5. /\ replies \o Held \in Seq(SUBSET Ops)
        /\ All(replies \o Held) = Carried \cup HeldAll
        /\ Apart(replies \o Held)
    <3>1. Apart(replies) /\ Apart(Held) /\ All(replies) \cap All(Held) = {}
      BY <2>1, <2>4 DEF Parted
    <3>2. /\ replies \o Held \in Seq(SUBSET Ops)
          /\ All(replies \o Held) = All(replies) \cup All(Held)
          /\ Apart(replies \o Held) <=>
               Apart(replies) /\ Apart(Held) /\ All(replies) \cap All(Held) = {}
      BY <2>2, AllConcat
    <3> QED
      BY <2>4, <3>1, <3>2
  <2>6. /\ (replies \o Held) \o rest \in Seq(SUBSET Ops)
        /\ All((replies \o Held) \o rest) = Observed
        /\ Apart((replies \o Held) \o rest)
    <3> DEFINE told == replies \o Held
    <3> HIDE DEF told
    <3>1. told \in Seq(SUBSET Ops) /\ All(told) = Carried \cup HeldAll /\ Apart(told)
      BY <2>5 DEF told
    <3>2. /\ told \o rest \in Seq(SUBSET Ops)
          /\ All(told \o rest) = All(told) \cup All(rest)
          /\ Apart(told \o rest) <=> Apart(told) /\ Apart(rest) /\ All(told) \cap All(rest) = {}
      BY <2>3, <3>1, AllConcat
    <3>3. All(told) \cap All(rest) = {} /\ All(told) \cup All(rest) = Observed
      BY <2>1, <2>3, <3>1 DEF Parted
    <3> QED
      BY <2>3, <3>1, <3>2, <3>3 DEF told
  <2>7. Places = (replies \o Held) \o rest
    BY DEF Places, rest
  <2>8. Places \in Seq(SUBSET Ops) /\ All(Places) = Observed /\ Apart(Places)
    BY <2>6, <2>7
  <2>9. DOMAIN Places = 1 .. Len(Places) /\ UNION Range(Places) = All(Places)
    BY <2>8, UnionOfRange
  <2> QED
    BY <2>8, <2>9 DEF Apart
<1> QED
  BY PlacedHolds, <1>1, PTL

LEMMA CustodyStep ==
  ASSUME Placed, [Next]_vars
  PROVE  [Custodian!Next]_(Custodian!vars)
<1> DEFINE cut == CASE ~Began -> {}
                    [] Over -> Observed \ ((UNION Range(Held)) \cup lost)
                    [] OTHER -> evicted \cup refused
           keeps == IF Began /\ ~Over THEN Retained ELSE {}
<1>0. IInv /\ WireInv
  BY DEF Placed
<1>1. /\ \/ Creates \/ Answers \/ Arrives \/ TooLate \/ GivesUp
         \/ Breaks \/ Begins \/ Ends \/ Stays
      /\ WireInv'
  BY <1>0, StepIs
<1>2. phase # "disposed" => Parted
  BY DEF Placed, BooksInv
<1>3. /\ replies \in Seq(SUBSET Ops) /\ Held \in Seq(SUBSET Ops) /\ Retained \in SUBSET Ops
      /\ Observed \subseteq Born
  BY <1>0 DEF IInv, TypeOK, Held, Observed
<1>4. Carried = All(replies) /\ HeldAll = All(Held)
  BY <1>3, UnionOfRange DEF Carried, HeldAll
<1>5. ASSUME phase \notin {"install", "disposed"} PROVE keeps = Retained /\ cut = evicted \cup refused
  BY <1>5 DEF Began, Over
<1>6. ASSUME phase' \notin {"install", "disposed"} PROVE keeps' = Retained' /\ cut' = evicted' \cup refused'
  BY <1>6 DEF Began, Over
<1>7. ASSUME phase = "install" PROVE keeps = {} /\ cut = {}
  BY <1>7 DEF Began, Over
<1>8. ASSUME phase' = "install" PROVE keeps' = {} /\ cut' = {}
  BY <1>8 DEF Began, Over
<1>9. ASSUME phase' = "disposed" PROVE keeps' = {} /\ cut' = Observed' \ (HeldAll' \cup lost')
  <2>1. Began' /\ Over'
    BY <1>9 DEF Began, Over
  <2>2. keeps' = {}
    BY <2>1
  <2>3. cut' = Observed' \ ((UNION Range(Held))' \cup lost')
    BY <2>1
  <2> QED
    BY <2>2, <2>3 DEF HeldAll
<1>10. ASSUME UNCHANGED <<keeps, Carried, HeldAll, cut, lost>> PROVE UNCHANGED Custodian!vars
  BY <1>10 DEF Custodian!vars, HeldAll
<1>11. Custodian!Known = keeps \cup Carried \cup HeldAll \cup cut \cup lost
  BY DEF Custodian!Known, HeldAll
<1> HIDE DEF cut, keeps
<1>12. CASE Creates
  <2>1. UNCHANGED <<Carried, HeldAll, lost, phase>>
    BY <1>12 DEF Creates, Carried, HeldAll
  <2>2. CASE phase = "install"
    BY <1>7, <1>8, <1>10, <2>1, <2>2
  <2>3. CASE phase # "install"
    <3>1. /\ keeps = Retained /\ cut = evicted \cup refused
          /\ keeps' = Retained' /\ cut' = evicted' \cup refused'
      BY <1>5, <1>6, <1>12, <2>1, <2>3 DEF Creates
    <3>2. PICK id \in Ops \ Born :
            \/ Retained' = Retained \cup {id} /\ UNCHANGED <<evicted, refused>>
            \/ \E v \in Retained :
                 /\ Retained' = (Retained \ {v}) \cup {id}
                 /\ evicted' = evicted \cup {v} /\ UNCHANGED refused
            \/ refused' = refused \cup {id} /\ UNCHANGED <<Retained, evicted>>
      BY <1>12 DEF Creates
    <3>3. Parted
      BY <1>2, <1>12 DEF Creates
    <3>4. id \in Ops \ Custodian!Known /\ id \notin Retained
      BY <1>3, <1>11, <3>1, <3>2, <3>3 DEF Parted
    <3>5. ASSUME keeps' = keeps \cup {id}, cut' = cut PROVE Custodian!Admit
      BY <2>1, <3>4, <3>5 DEF Custodian!Admit, HeldAll, keeps, cut
    <3>6. ASSUME NEW v \in Retained, keeps' = (keeps \ {v}) \cup {id}, cut' = cut \cup {v}
          PROVE  Custodian!Admit
      <4>1. v \in keeps /\ id \notin keeps /\ id \in keeps' /\ keeps' \subseteq keeps \cup {id}
        BY <3>1, <3>4, <3>6
      <4>2. cut' = cut \cup (keeps \ keeps')
        BY <3>6, <4>1
      <4> QED
        BY <2>1, <3>4, <4>1, <4>2 DEF Custodian!Admit, HeldAll, keeps, cut
    <3>7. ASSUME keeps' = keeps, cut' = cut \cup {id} PROVE Custodian!TurnAway
      BY <2>1, <3>4, <3>7 DEF Custodian!TurnAway, HeldAll, keeps, cut
    <3>8. CASE Retained' = Retained \cup {id} /\ UNCHANGED <<evicted, refused>>
      BY <3>1, <3>5, <3>8 DEF Custodian!Next
    <3>9. CASE \E v \in Retained :
                 /\ Retained' = (Retained \ {v}) \cup {id}
                 /\ evicted' = evicted \cup {v} /\ UNCHANGED refused
      <4>1. PICK v \in Retained :
              /\ Retained' = (Retained \ {v}) \cup {id}
              /\ evicted' = evicted \cup {v} /\ UNCHANGED refused
        BY <3>9
      <4>2. keeps' = (keeps \ {v}) \cup {id} /\ cut' = cut \cup {v}
        BY <3>1, <4>1
      <4> QED
        BY <3>6, <4>2 DEF Custodian!Next
    <3>10. CASE refused' = refused \cup {id} /\ UNCHANGED <<Retained, evicted>>
      <4>1. keeps' = keeps /\ cut' = cut \cup {id}
        BY <3>1, <3>10
      <4> QED
        BY <3>7, <4>1 DEF Custodian!Next
    <3> QED
      BY <3>2, <3>8, <3>9, <3>10
  <2> QED
    BY <2>2, <2>3
<1>13. CASE Answers
  <2>1. /\ UNCHANGED <<HeldAll, evicted, refused, lost, phase>>
        /\ phase \notin {"install", "disposed"}
    BY <1>13 DEF Answers, HeldAll
  <2>2. PICK C \in SUBSET Retained : replies' = Append(replies, C) /\ Retained' = Retained \ C
    BY <1>13 DEF Answers
  <2>3. keeps = Retained /\ keeps' = Retained \ C /\ cut' = cut
    BY <1>5, <1>6, <2>1, <2>2
  <2>4. Append(replies, C) \in Seq(SUBSET Ops) /\ All(Append(replies, C)) = All(replies) \cup C
    BY <1>3, AllAppend
  <2>5. Carried' = Carried \cup C
    BY <1>4, <2>2, <2>4, UnionOfRange DEF Carried
  <2>6. keeps' \subseteq keeps /\ Carried' = Carried \cup (keeps \ keeps')
    BY <2>3, <2>5
  <2> QED
    BY <2>1, <2>3, <2>6 DEF Custodian!Next, Custodian!Answer, HeldAll, keeps, cut
<1>14. CASE Arrives
  <2>1. /\ UNCHANGED <<Retained, evicted, refused, lost>> /\ replies # <<>>
        /\ phase \notin {"install", "disposed"} /\ phase' \notin {"install", "disposed"}
        /\ replies' = Tail(replies) /\ Held' = Append(Held, Head(replies))
    BY <1>14 DEF Arrives
  <2>2. Parted
    BY <1>2, <2>1
  <2>3. /\ Head(replies) \in SUBSET Ops /\ Tail(replies) \in Seq(SUBSET Ops)
        /\ All(replies) = Head(replies) \cup All(Tail(replies))
        /\ Head(replies) \cap All(Tail(replies)) = {}
    BY <1>3, <2>1, <2>2, AllTail DEF Parted
  <2>4. /\ Append(Held, Head(replies)) \in Seq(SUBSET Ops)
        /\ All(Append(Held, Head(replies))) = All(Held) \cup Head(replies)
    BY <1>3, <2>3, AllAppend
  <2>5. Carried' = All(Tail(replies)) /\ HeldAll' = HeldAll \cup Head(replies)
    BY <1>4, <2>1, <2>3, <2>4, UnionOfRange DEF Carried, HeldAll
  <2>6. Carried' \subseteq Carried /\ HeldAll' = HeldAll \cup (Carried \ Carried')
    BY <1>4, <2>3, <2>5
  <2>7. keeps' = keeps /\ cut' = cut
    BY <1>5, <1>6, <2>1
  <2> QED
    BY <2>1, <2>6, <2>7 DEF Custodian!Next, Custodian!Deliver, HeldAll, keeps, cut
<1>15. CASE Breaks
  <2>1. /\ UNCHANGED <<Retained, HeldAll, evicted, refused>>
        /\ phase \notin {"install", "disposed"} /\ phase' \notin {"install", "disposed"}
        /\ replies' = <<>> /\ lost' = lost \cup Carried
    BY <1>15 DEF Breaks, HeldAll
  <2>2. Carried' = {}
    BY <2>1, AllEmpty, EmptySeq, UnionOfRange DEF Carried
  <2>3. keeps' = keeps /\ cut' = cut
    BY <1>5, <1>6, <2>1
  <2> QED
    BY <2>1, <2>2, <2>3 DEF Custodian!Next, Custodian!Lose, HeldAll, keeps, cut
<1>16. CASE Begins
  <2>1. UNCHANGED <<Carried, HeldAll, lost>>
    BY <1>16 DEF Begins, Carried, HeldAll
  <2>2. keeps = {} /\ cut = {} /\ keeps' = {} /\ cut' = {}
    BY <1>6, <1>7, <1>16 DEF Begins
  <2> QED
    BY <1>10, <2>1, <2>2
<1>17. CASE Ends
  <2>1. /\ phase \in {"stopped", "abandoned"} /\ phase' = "disposed" /\ replies = <<>>
        /\ UNCHANGED <<Observed, Carried, HeldAll, evicted, refused, lost>>
    BY <1>17 DEF Ends, Carried, HeldAll
  <2>2. Carried = {} /\ Parted
    BY <1>2, <1>4, <2>1, AllEmpty
  <2>3. keeps = Retained /\ cut = evicted \cup refused /\ keeps' = {} /\ cut' = Observed \ (HeldAll \cup lost)
    BY <1>5, <1>9, <2>1
  <2>4. cut' = cut \cup keeps
    BY <2>2, <2>3 DEF Parted
  <2> QED
    BY <2>1, <2>2, <2>3, <2>4 DEF Custodian!Next, Custodian!Retire, HeldAll, keeps, cut
<1>18. CASE Stays
  <2>1. UNCHANGED <<Observed, Retained, Carried, HeldAll, evicted, refused, lost>>
    BY <1>18 DEF Stays, Carried, HeldAll
  <2>2. CASE phase' = phase
    <3>1. Began' = Began /\ Over' = Over /\ Held' = Held
      BY <1>18, <2>2 DEF Began, Over, Stays
    <3>2. keeps' = keeps /\ cut' = cut
      BY <2>1, <3>1 DEF keeps, cut
    <3> QED
      BY <1>10, <2>1, <3>2
  <2>3. CASE phase' \notin {"install", "disposed"} /\ phase \notin {"install", "disposed"}
    BY <1>5, <1>6, <1>10, <2>1, <2>3
  <2> QED
    BY <1>18, <2>2, <2>3 DEF Stays
<1>19. CASE TooLate
  <2>1. /\ UNCHANGED <<Retained, HeldAll, evicted, refused, phase>> /\ replies # <<>>
        /\ phase \notin {"install", "disposed"}
        /\ replies' = Tail(replies) /\ lost' = lost \cup Head(replies)
    BY <1>19 DEF TooLate, HeldAll
  <2>2. Parted
    BY <1>2, <2>1
  <2>3. /\ Head(replies) \in SUBSET Ops /\ Tail(replies) \in Seq(SUBSET Ops)
        /\ All(replies) = Head(replies) \cup All(Tail(replies))
        /\ Head(replies) \cap All(Tail(replies)) = {}
    BY <1>3, <2>1, <2>2, AllTail DEF Parted
  <2>4. Carried' = All(Tail(replies))
    BY <2>1, <2>3, UnionOfRange DEF Carried
  <2>5. Carried' \subseteq Carried /\ lost' = lost \cup (Carried \ Carried')
    BY <1>4, <2>1, <2>3, <2>4
  <2>6. keeps' = keeps /\ cut' = cut
    BY <1>5, <1>6, <2>1
  <2> QED
    BY <2>1, <2>5, <2>6 DEF Custodian!Next, Custodian!Lose, HeldAll, keeps, cut
<1>20. CASE GivesUp
  <2>1. /\ UNCHANGED <<Retained, Carried, evicted, refused>>
        /\ phase \notin {"install", "disposed"} /\ phase' \notin {"install", "disposed"}
        /\ Held' = <<>> /\ lost' = lost \cup HeldAll
    BY <1>20 DEF GivesUp, Carried
  <2>2. HeldAll' = {}
    BY <2>1, AllEmpty, EmptySeq, UnionOfRange DEF HeldAll
  <2>3. keeps' = keeps /\ cut' = cut
    BY <1>5, <1>6, <2>1
  <2> QED
    BY <2>1, <2>2, <2>3 DEF Custodian!Next, Custodian!GiveUp, HeldAll, keeps, cut
<1> QED
  BY <1>1, <1>12, <1>13, <1>14, <1>15, <1>16, <1>17, <1>18, <1>19, <1>20

(* The collector and the probe keep the promise of Custody about every     *)
(* operation, for any table size, scan limit and number of drains.         *)
THEOREM KeepsItsCustody == Spec => KeepsCustody
<1>1. ASSUME Init PROVE Custodian!Init
  <2>1. ~Began /\ ~Over /\ Held = <<>> /\ lost = {} /\ replies = <<>>
    BY <1>1 DEF Init, Began, Over, Held
  <2>2. Carried = {} /\ UNION Range(Held) = {}
    BY <2>1, AllEmpty, EmptySeq, UnionOfRange DEF Carried
  <2> QED
    BY <2>1, <2>2 DEF Custodian!Init
<1>2. Placed /\ [Next]_vars => [Custodian!Next]_(Custodian!vars)
  BY CustodyStep
<1> QED
  BY <1>1, <1>2, PlacedHolds, PTL DEF Spec, KeepsCustody, Custodian!Spec

(* The table never holds more records than --async-max-events, whatever    *)
(* completes, is evicted or is refused.                                    *)
THEOREM TableIsBounded == Spec => [](Cardinality(Retained) <= MaxRecords)
<1> DEFINE Bounded == Cardinality(Retained) <= MaxRecords
<1>1. Init => Bounded
  BY FS_EmptySet, CollectorAssumption DEF Init, Retained, Empty, CollectorAssumption
<1>2. ASSUME IInv, WireInv, Bounded, [Next]_vars PROVE Bounded'
  <2> USE CollectorAssumption DEF CollectorAssumption
  <2>1. TypeOK /\ BornInv /\ CompletedRetained
    BY <1>2 DEF IInv, TableInv
  <2>2. IsFiniteSet(Retained) /\ Cardinality(Retained) \in Nat
    BY <2>1, Finite
  <2>3. ASSUME Retained' \subseteq Retained PROVE Bounded'
    <3>1. Cardinality(Retained') <= Cardinality(Retained) /\ Cardinality(Retained') \in Nat
      BY <2>2, <2>3, FS_Subset, FS_CardinalityType
    <3> QED
      BY <1>2, <2>2, <3>1
  <2>4. ASSUME NEW k \in Kinds, HookInit(k) PROVE Bounded'
    <3>1. NextId \notin Retained
      BY <2>1, <2>4, NewId DEF BornInv
    <3>2. ASSUME NEW kept, Retain(NextId, kept) PROVE Retained' = kept \cup {NextId}
      BY <3>2 DEF Retain, Retained
    <3>3. CASE Cardinality(Retained) < MaxRecords /\ Retain(NextId, Retained)
      <4>1. Cardinality(Retained \cup {NextId}) = Cardinality(Retained) + 1
        BY <2>2, <3>1, FS_AddElement
      <4> QED
        BY <2>2, <3>2, <3>3, <4>1
    <3>4. CASE completed # <<>> /\ Retain(NextId, Retained \ {Victim})
      <4>1. Victim \in Retained
        BY <2>1, <3>4, EvictionPlaceIs DEF CompletedRetained, Victim
      <4>2. IsFiniteSet(Retained \ {Victim}) /\ Cardinality(Retained \ {Victim}) = Cardinality(Retained) - 1
        BY <2>2, <4>1, FS_RemoveElement
      <4>3. NextId \notin Retained \ {Victim}
        BY <3>1
      <4>4. Cardinality((Retained \ {Victim}) \cup {NextId}) = Cardinality(Retained \ {Victim}) + 1
        BY <4>2, <4>3, FS_AddElement
      <4> QED
        <5>1. Retained' = (Retained \ {Victim}) \cup {NextId}
          BY <3>2, <3>4
        <5>2. Cardinality(Retained') = (Cardinality(Retained) - 1) + 1
          BY <4>2, <4>4, <5>1
        <5> QED
          BY <1>2, <2>2, <5>2
    <3>5. CASE UNCHANGED records
      BY <2>3, <3>5 DEF Retained
    <3> QED
      BY <2>4, <3>3, <3>4, <3>5 DEF HookInit
  <2>5. ASSUME NEW id \in Ops, HookDestroy(id) \/ HookPromiseResolve(id) PROVE Bounded'
    <3>1. PICK elapsed \in Durations : Complete(id, elapsed)
      BY <2>5 DEF HookDestroy, HookPromiseResolve
    <3> QED
      BY <2>3, <3>1 DEF Complete, Retained
  <2>6. CASE CaptureStart \/ EvaluateRead \/ Dispose
    BY <2>3, <2>6 DEF CaptureStart, EvaluateRead, Dispose, ClearRetained, Retained, Empty, tableVars
  <2>7. CASE EvaluateDrain
    BY <2>3, <2>7 DEF EvaluateDrain, Without, Retained
  <2>8. CASE \/ HookAfter \/ SendDrain \/ ReceiveDrain \/ Stop \/ ReceiveRead \/ StopTimesOut
             \/ ReceiveLate \/ Disconnect \/ Done \/ UNCHANGED vars \/ \E id \in Ops : HookBefore(id)
    BY <2>3, <2>8 DEF HookAfter, SendDrain, ReceiveDrain, Stop, ReceiveRead, StopTimesOut,
                      ReceiveLate, Disconnect, Done, HookBefore, vars, tableVars, Retained
  <2> QED
    BY <1>2, <2>4, <2>5, <2>6, <2>7, <2>8 DEF Next
<1>3. Placed => IInv /\ WireInv
  BY DEF Placed
<1> QED
  BY <1>1, <1>2, <1>3, PlacedHolds, PTL DEF Spec
=============================================================================
