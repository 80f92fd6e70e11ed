------------------------- MODULE SpawnSourceProofs -------------------------
(***************************************************************************)
(* Proofs about SpawnSource for any number of heartbeats and any batch.    *)
(*                                                                         *)
(* The books: a heartbeat that was emitted waits in the batch, travels in  *)
(* the pipe, was read, was discarded, or was lost in a write that threw,   *)
(* and is in one of these places only.  A completion in the pipe has       *)
(* nothing behind it but later heartbeats and the crash of a child that    *)
(* went on; so when it is read, the earlier heartbeats are neither waiting *)
(* nor travelling, and a crash before it has been told.                    *)
(***************************************************************************)
EXTENDS SpawnSource, FiniteSetTheorems, TLAPS

Lines == [kind : {"beat", "ready", "crash", "complete"}, n : Nat]
Crash == Line("crash", 0)

BeatsOf(lines) == {line.n : line \in {l \in lines : l.kind = "beat"}}
Waiting    == BeatsIn(pending)
Travelling == BeatsIn(pipe)
Lost       == BeatsOf(failed)

(* No heartbeat is in a sequence of lines twice.                           *)
Distinct(lines) ==
  \A i, j \in DOMAIN lines :
    i # j /\ lines[i].kind = "beat" /\ lines[j].kind = "beat" => lines[i].n # lines[j].n

RecordInv ==
  /\ live \in [exit : {"none", "code", "signal"}, crash : BOOLEAN, complete : BOOLEAN,
               beats : SUBSET Beats, dropped : 0..MaxBeats]
  /\ reported \in [exit : {"none", "code", "signal"}, crash : BOOLEAN, complete : BOOLEAN]

LineInv ==
  /\ pipe \in Seq(Lines) /\ pending \in Seq(Lines) /\ failed \in SUBSET Lines
  /\ \A i \in DOMAIN pending : pending[i].kind = "beat"
  /\ \A i \in DOMAIN pipe : pipe[i].kind = "ready" => pipe[i].n = 0

BooksInv ==
  /\ 1..emitted = Waiting \cup Travelling \cup live.beats \cup discarded \cup Lost
  /\ Waiting \cap (Travelling \cup live.beats \cup discarded \cup Lost) = {}
  /\ Travelling \cap (live.beats \cup discarded \cup Lost) = {}
  /\ live.beats \cap Lost = {} /\ discarded \cap Lost = {}
  /\ Distinct(pending) /\ Distinct(pipe)
  /\ dropped = Cardinality(Lost)

LostBefore == Lost \cap 1..completeAt

Later(line, at) == line.kind = "crash" \/ (line.kind = "beat" /\ line.n > at)

CrashTold == Crash \in failed \/ live.crash

(* What the order of the lines guarantees of the completion and the crash. *)
OrderInv ==
  /\ completeAt <= emitted
  /\ \A n \in Waiting : n > completeAt
  /\ \A i \in DOMAIN pipe : pipe[i].kind = "complete" =>
       /\ completeAt # -1 /\ ~live.complete
       /\ pipe[i].n = Cardinality(LostBefore)
       /\ \A j \in DOMAIN pipe : j > i => Later(pipe[j], completeAt)
       /\ threw = "fatal" => CrashTold \/ \E j \in DOMAIN pipe : j < i /\ pipe[j] = Crash
  /\ live.complete =>
       /\ completeAt # -1
       /\ live.dropped = Cardinality(LostBefore)
       /\ \A i \in DOMAIN pipe : Later(pipe[i], completeAt)
       /\ threw = "fatal" => CrashTold
  /\ ~live.complete => live.dropped = 0
  /\ threw # "no" => CrashTold \/ \E i \in DOMAIN pipe : pipe[i] = Crash

ChildInv ==
  /\ hooks = "absent" =>
       /\ emitted = 0 /\ completeAt = -1 /\ threw = "no"
       /\ pending = <<>> /\ pipe = <<>> /\ ~live.complete
  /\ completeAt # -1 => child \in {"completed", "crashing", "dead"}
  /\ live.exit # "none" => ~Alive /\ live.exit = ended

EndInv ==
  /\ reported.exit # "none" => reported.exit = live.exit
  /\ pc = "done" /\ ~aborted => reported.exit = live.exit /\ (live.crash => reported.crash)
  /\ NothingLeftRunning

IInv ==
  /\ TypeOK /\ RecordInv /\ LineInv /\ BooksInv /\ OrderInv /\ ChildInv /\ EndInv

------------------------------------------------------------------------------
(* Heartbeats of sequences of lines.                                       *)

LEMMA BeatIn ==
  ASSUME NEW lines, NEW n
  PROVE  n \in BeatsIn(lines) <=>
           \E i \in DOMAIN lines : lines[i].kind = "beat" /\ lines[i].n = n
BY DEF BeatsIn, LinesOf

LEMMA BeatsOfLines == ASSUME NEW lines PROVE BeatsIn(lines) = BeatsOf(LinesOf(lines))
BY DEF BeatsIn, BeatsOf

LEMMA BeatsOfUnion ==
  ASSUME NEW S, NEW T PROVE BeatsOf(S \cup T) = BeatsOf(S) \cup BeatsOf(T)
BY DEF BeatsOf

LEMMA BeatsOfEmpty == BeatsIn(<<>>) = {} /\ Distinct(<<>>)
BY DEF BeatsIn, LinesOf, Distinct

LEMMA BeatsOfConcat ==
  ASSUME NEW p \in Seq(Lines), NEW q \in Seq(Lines)
  PROVE  BeatsIn(p \o q) = BeatsIn(p) \cup BeatsIn(q)
<1>1. ASSUME NEW n, n \in BeatsIn(p \o q) PROVE n \in BeatsIn(p) \cup BeatsIn(q)
  <2>1. PICK i \in DOMAIN (p \o q) : (p \o q)[i].kind = "beat" /\ (p \o q)[i].n = n
    BY <1>1, BeatIn
  <2>2. CASE i <= Len(p)
    BY <2>1, <2>2, BeatIn
  <2>3. CASE i > Len(p)
    <3>1. i - Len(p) \in DOMAIN q /\ (p \o q)[i] = q[i - Len(p)]
      BY <2>1, <2>3
    <3> QED
      BY <2>1, <3>1, BeatIn
  <2> QED
    BY <2>1, <2>2, <2>3
<1>2. ASSUME NEW n, n \in BeatsIn(p) PROVE n \in BeatsIn(p \o q)
  <2>1. PICK i \in DOMAIN p : p[i].kind = "beat" /\ p[i].n = n
    BY <1>2, BeatIn
  <2>2. i \in DOMAIN (p \o q) /\ (p \o q)[i] = p[i]
    BY <2>1
  <2> QED
    BY <2>1, <2>2, BeatIn
<1>3. ASSUME NEW n, n \in BeatsIn(q) PROVE n \in BeatsIn(p \o q)
  <2>1. PICK i \in DOMAIN q : q[i].kind = "beat" /\ q[i].n = n
    BY <1>3, BeatIn
  <2>2. Len(p) + i \in DOMAIN (p \o q) /\ (p \o q)[Len(p) + i] = q[i]
    BY <2>1
  <2> QED
    BY <2>1, <2>2, BeatIn
<1> QED
  BY <1>1, <1>2, <1>3

LEMMA BeatsOfAppend ==
  ASSUME NEW p \in Seq(Lines), NEW line \in Lines
  PROVE  /\ line.kind = "beat" => BeatsIn(Append(p, line)) = BeatsIn(p) \cup {line.n}
         /\ line.kind # "beat" => BeatsIn(Append(p, line)) = BeatsIn(p)
         /\ LinesOf(Append(p, line)) = LinesOf(p) \cup {line}
<1>1. LinesOf(Append(p, line)) = LinesOf(p) \cup {line}
  <2>1. ASSUME NEW l, l \in LinesOf(Append(p, line)) PROVE l \in LinesOf(p) \cup {line}
    BY <2>1 DEF LinesOf
  <2>2. ASSUME NEW l, l \in LinesOf(p) PROVE l \in LinesOf(Append(p, line))
    <3>1. PICK i \in DOMAIN p : l = p[i]
      BY <2>2 DEF LinesOf
    <3>2. i \in DOMAIN Append(p, line) /\ Append(p, line)[i] = l
      BY <3>1
    <3> QED
      BY <3>2 DEF LinesOf
  <2>3. line \in LinesOf(Append(p, line))
    <3>1. Len(p) + 1 \in DOMAIN Append(p, line) /\ Append(p, line)[Len(p) + 1] = line
      OBVIOUS
    <3> QED
      BY <3>1 DEF LinesOf
  <2> QED
    BY <2>1, <2>2, <2>3
<1>2. BeatsIn(Append(p, line)) = BeatsIn(p) \cup BeatsOf({line})
  BY <1>1, BeatsOfLines, BeatsOfUnion
<1>3. /\ line.kind = "beat" => BeatsOf({line}) = {line.n}
      /\ line.kind # "beat" => BeatsOf({line}) = {}
  BY DEF BeatsOf
<1> QED
  BY <1>1, <1>2, <1>3

LEMMA BeatsOfTail ==
  ASSUME NEW p \in Seq(Lines), p # <<>>
  PROVE  /\ Head(p).kind = "beat" => BeatsIn(p) = BeatsIn(Tail(p)) \cup {Head(p).n}
         /\ Head(p).kind # "beat" => BeatsIn(p) = BeatsIn(Tail(p))
<1>1. ASSUME NEW n, n \in BeatsIn(p)
      PROVE  n \in BeatsIn(Tail(p)) \/ (Head(p).kind = "beat" /\ n = Head(p).n)
  <2>1. PICK i \in DOMAIN p : p[i].kind = "beat" /\ p[i].n = n
    BY <1>1, BeatIn
  <2>2. CASE i = 1
    BY <2>1, <2>2
  <2>3. CASE i # 1
    <3>1. i - 1 \in DOMAIN Tail(p) /\ Tail(p)[i - 1] = p[i]
      BY <2>1, <2>3
    <3>2. Tail(p)[i - 1].kind = "beat" /\ Tail(p)[i - 1].n = n
      BY <2>1, <3>1
    <3> QED
      BY <3>1, <3>2, BeatIn
  <2> QED
    BY <2>2, <2>3
<1>2. ASSUME NEW n, n \in BeatsIn(Tail(p)) PROVE n \in BeatsIn(p)
  <2>1. PICK i \in DOMAIN Tail(p) : Tail(p)[i].kind = "beat" /\ Tail(p)[i].n = n
    BY <1>2, BeatIn
  <2>2. i + 1 \in DOMAIN p /\ p[i + 1] = Tail(p)[i]
    BY <2>1
  <2> QED
    BY <2>1, <2>2, BeatIn
<1>3. 1 \in DOMAIN p /\ p[1] = Head(p)
  OBVIOUS
<1>4. Head(p).kind = "beat" => Head(p).n \in BeatsIn(p)
  BY <1>3, BeatIn
<1> QED
  BY <1>1, <1>2, <1>4

LEMMA DistinctConcat ==
  ASSUME NEW p \in Seq(Lines), NEW q \in Seq(Lines), Distinct(p), Distinct(q),
         BeatsIn(p) \cap BeatsIn(q) = {}
  PROVE  Distinct(p \o q)
<1> DEFINE r == p \o q
<1>1. SUFFICES ASSUME NEW i \in DOMAIN r, NEW j \in DOMAIN r, i # j,
                      r[i].kind = "beat", r[j].kind = "beat"
               PROVE  r[i].n # r[j].n
  BY DEF Distinct
<1>2. ASSUME NEW k \in DOMAIN r
      PROVE  \/ k \in DOMAIN p /\ r[k] = p[k]
             \/ k - Len(p) \in DOMAIN q /\ r[k] = q[k - Len(p)] /\ k > Len(p)
  BY <1>2
<1>3. CASE i \in DOMAIN p /\ j \in DOMAIN p
  <2>1. r[i] = p[i] /\ r[j] = p[j]
    BY <1>3
  <2> QED
    BY <1>1, <1>3, <2>1 DEF Distinct
<1>4. CASE i \in DOMAIN p /\ j \notin DOMAIN p
  <2>1. r[i] = p[i] /\ j - Len(p) \in DOMAIN q /\ r[j] = q[j - Len(p)]
    BY <1>2, <1>4
  <2>2. r[i].n \in BeatsIn(p) /\ r[j].n \in BeatsIn(q)
    BY <1>1, <1>4, <2>1, BeatIn
  <2> QED
    BY <2>2
<1>5. CASE i \notin DOMAIN p /\ j \in DOMAIN p
  <2>1. r[j] = p[j] /\ i - Len(p) \in DOMAIN q /\ r[i] = q[i - Len(p)]
    BY <1>2, <1>5
  <2>2. r[j].n \in BeatsIn(p) /\ r[i].n \in BeatsIn(q)
    BY <1>1, <1>5, <2>1, BeatIn
  <2> QED
    BY <2>2
<1>6. CASE i \notin DOMAIN p /\ j \notin DOMAIN p
  <2>1. /\ i - Len(p) \in DOMAIN q /\ r[i] = q[i - Len(p)]
        /\ j - Len(p) \in DOMAIN q /\ r[j] = q[j - Len(p)]
    BY <1>2, <1>6
  <2>2. i - Len(p) # j - Len(p)
    BY <1>1
  <2> QED
    BY <1>1, <2>1, <2>2 DEF Distinct
<1> QED
  BY <1>3, <1>4, <1>5, <1>6

LEMMA DistinctAppend ==
  ASSUME NEW p \in Seq(Lines), NEW line \in Lines, Distinct(p),
         line.kind = "beat" => line.n \notin BeatsIn(p)
  PROVE  Distinct(Append(p, line))
<1> DEFINE r == Append(p, line)
<1>1. SUFFICES ASSUME NEW i \in DOMAIN r, NEW j \in DOMAIN r, i # j,
                      r[i].kind = "beat", r[j].kind = "beat"
               PROVE  r[i].n # r[j].n
  BY DEF Distinct
<1>2. CASE i \in DOMAIN p /\ j \in DOMAIN p
  <2>1. r[i] = p[i] /\ r[j] = p[j]
    BY <1>2
  <2> QED
    BY <1>1, <1>2, <2>1 DEF Distinct
<1>3. CASE i \in DOMAIN p /\ j = Len(p) + 1
  <2>1. r[i] = p[i] /\ r[j] = line
    BY <1>3
  <2>2. r[i].n \in BeatsIn(p)
    BY <1>1, <1>3, <2>1, BeatIn
  <2> QED
    BY <1>1, <2>1, <2>2
<1>4. CASE j \in DOMAIN p /\ i = Len(p) + 1
  <2>1. r[j] = p[j] /\ r[i] = line
    BY <1>4
  <2>2. r[j].n \in BeatsIn(p)
    BY <1>1, <1>4, <2>1, BeatIn
  <2> QED
    BY <1>1, <2>1, <2>2
<1> QED
  BY <1>1, <1>2, <1>3, <1>4

LEMMA DistinctTail ==
  ASSUME NEW p \in Seq(Lines), p # <<>>, Distinct(p)
  PROVE  /\ Distinct(Tail(p))
         /\ Head(p).kind = "beat" => Head(p).n \notin BeatsIn(Tail(p))
<1>1. ASSUME NEW i \in DOMAIN Tail(p)
      PROVE  i + 1 \in DOMAIN p /\ Tail(p)[i] = p[i + 1] /\ i \in Nat
  BY <1>1
<1>2. Distinct(Tail(p))
  <2> SUFFICES ASSUME NEW i \in DOMAIN Tail(p), NEW j \in DOMAIN Tail(p), i # j,
                      Tail(p)[i].kind = "beat", Tail(p)[j].kind = "beat"
               PROVE  Tail(p)[i].n # Tail(p)[j].n
    BY DEF Distinct
  <2>1. i + 1 # j + 1
    BY <1>1
  <2> QED
    BY <1>1, <2>1 DEF Distinct
<1>3. ASSUME Head(p).kind = "beat", Head(p).n \in BeatsIn(Tail(p)) PROVE FALSE
  <2>1. PICK i \in DOMAIN Tail(p) : Tail(p)[i].kind = "beat" /\ Tail(p)[i].n = Head(p).n
    <3> DEFINE n == Head(p).n
               t == Tail(p)
    <3>1. n \in BeatsIn(t) => \E i \in DOMAIN t : t[i].kind = "beat" /\ t[i].n = n
      <4> HIDE DEF n, t
      <4> QED
        BY BeatIn
    <3> QED
      BY <1>3, <3>1
  <2>2. 1 \in DOMAIN p /\ p[1] = Head(p)
    OBVIOUS
  <2>3. i + 1 \in DOMAIN p /\ p[i + 1].kind = "beat" /\ p[i + 1].n = p[1].n /\ i + 1 # 1
    BY <1>1, <2>1, <2>2
  <2> QED
    BY <1>3, <2>2, <2>3 DEF Distinct
<1> QED
  BY <1>2, <1>3

------------------------------------------------------------------------------
(* A write of the target, and a line read.                                 *)

LEMMA ConcatIndex ==
  ASSUME NEW p \in Seq(Lines), NEW q \in Seq(Lines), NEW i \in DOMAIN (p \o q)
  PROVE  \/ i \in DOMAIN p /\ (p \o q)[i] = p[i]
         \/ i - Len(p) \in DOMAIN q /\ (p \o q)[i] = q[i - Len(p)] /\ i > Len(p)
OBVIOUS

LEMMA AppendIndex ==
  ASSUME NEW p \in Seq(Lines), NEW line \in Lines, NEW i \in DOMAIN Append(p, line)
  PROVE  \/ i \in DOMAIN p /\ Append(p, line)[i] = p[i]
         \/ i = Len(p) + 1 /\ Append(p, line)[i] = line
OBVIOUS

LEMMA LineTypes == ASSUME NEW p \in Seq(Lines) PROVE LinesOf(p) \subseteq Lines
BY DEF LinesOf

LEMMA NumberedFinite ==
  ASSUME NEW m \in Nat, NEW S \in SUBSET (1..m)
  PROVE  IsFiniteSet(S) /\ Cardinality(S) \in 0..m
<1>1. IsFiniteSet(1..m) /\ Cardinality(1..m) = m
  BY FS_Interval
<1>2. IsFiniteSet(S) /\ Cardinality(S) <= Cardinality(1..m)
  <2> DEFINE T == 1..m
  <2>1. IsFiniteSet(T) /\ S \in SUBSET T
    BY <1>1
  <2> HIDE DEF T
  <2>2. IsFiniteSet(S) /\ Cardinality(S) <= Cardinality(T)
    BY <2>1, FS_Subset
  <2> QED
    BY <2>2 DEF T
<1>3. Cardinality(S) \in Nat
  BY <1>2, FS_CardinalityType
<1> QED
  BY <1>1, <1>2, <1>3

LEMMA WrittenLines ==
  ASSUME LineInv, NEW lines \in Seq(Lines), Written(lines),
         \A i \in DOMAIN lines : lines[i].kind = "ready" => lines[i].n = 0
  PROVE  LineInv'
<1>1. pending' = <<>>
  BY DEF Written
<1>2. CASE pipe' = pipe \o lines /\ UNCHANGED <<dropped, failed>>
  <2>1. pipe' \in Seq(Lines)
    BY <1>2 DEF LineInv
  <2>2. ASSUME NEW i \in DOMAIN pipe', pipe'[i].kind = "ready" PROVE pipe'[i].n = 0
    <3>1. \/ i \in DOMAIN pipe /\ pipe'[i] = pipe[i]
          \/ i - Len(pipe) \in DOMAIN lines /\ pipe'[i] = lines[i - Len(pipe)]
      BY <1>2, ConcatIndex DEF LineInv
    <3> QED
      BY <2>2, <3>1 DEF LineInv
  <2> QED
    BY <1>1, <1>2, <2>1, <2>2 DEF LineInv
<1>3. CASE failed' = failed \cup LinesOf(lines) /\ UNCHANGED pipe
  BY <1>1, <1>3, LineTypes DEF LineInv
<1> QED
  BY <1>2, <1>3 DEF Written

(* A write moves what waits, and what is new, to the pipe or to the lost.  *)
LEMMA WrittenBooks ==
  ASSUME LineInv, BooksInv, emitted \in Nat, emitted' \in Nat, emitted <= emitted',
         NEW lines \in Seq(Lines), Distinct(lines), Written(lines),
         BeatsIn(lines) = Waiting \cup (emitted + 1)..emitted',
         UNCHANGED <<discarded, live>>
  PROVE  BooksInv'
<1> DEFINE fresh == (emitted + 1)..emitted'
<1>1. 1..emitted' = (1..emitted) \cup fresh /\ fresh \cap (1..emitted) = {}
  OBVIOUS
<1>2. fresh \cap (Waiting \cup Travelling \cup live.beats \cup discarded \cup Lost) = {}
  BY <1>1 DEF BooksInv
<1>3. Waiting' = {} /\ Distinct(pending)'
  BY BeatsOfEmpty DEF Written, Waiting
<1>4. BeatsIn(lines) = Waiting \cup fresh
  OBVIOUS
<1>5. CASE pipe' = pipe \o lines /\ UNCHANGED <<dropped, failed>>
  <2>1. Travelling' = Travelling \cup BeatsIn(lines)
    BY <1>5, BeatsOfConcat DEF Travelling, LineInv
  <2>2. Distinct(pipe)'
    <3>1. Travelling \cap BeatsIn(lines) = {}
      BY <1>2, <1>4 DEF BooksInv
    <3> QED
      BY <1>5, <3>1, DistinctConcat DEF Travelling, LineInv, BooksInv
  <2>3. Lost' = Lost
    BY <1>5 DEF Lost
  <2> HIDE DEF fresh
  <2> QED
    BY <1>1, <1>2, <1>3, <1>4, <1>5, <2>1, <2>2, <2>3 DEF BooksInv
<1>6. CASE /\ dropped' = dropped + Cardinality(BeatsIn(lines))
           /\ failed' = failed \cup LinesOf(lines)
           /\ UNCHANGED pipe
  <2>1. Lost' = Lost \cup BeatsIn(lines)
    BY <1>6, BeatsOfUnion, BeatsOfLines DEF Lost
  <2>2. Travelling' = Travelling
    BY <1>6 DEF Travelling
  <2>3. Lost \cap BeatsIn(lines) = {}
    BY <1>2, <1>4 DEF BooksInv
  <2>4. IsFiniteSet(Lost) /\ Cardinality(Lost) \in Nat
    <3>1. Lost \in SUBSET (1..emitted)
      BY DEF BooksInv
    <3> QED
      BY <3>1, NumberedFinite
  <2>5. IsFiniteSet(BeatsIn(lines)) /\ Cardinality(BeatsIn(lines)) \in Nat
    <3>1. BeatsIn(lines) \in SUBSET (1..emitted')
      BY <1>1, <1>4 DEF BooksInv
    <3> QED
      BY <3>1, NumberedFinite
  <2>6. Cardinality(Lost \cup BeatsIn(lines)) = Cardinality(Lost) + Cardinality(BeatsIn(lines))
    <3> DEFINE new == BeatsIn(lines)
    <3>1. IsFiniteSet(Lost) /\ IsFiniteSet(new) /\ Cardinality(Lost \cap new) = 0
      BY <2>3, <2>4, <2>5, FS_EmptySet
    <3>2. Cardinality(Lost) \in Nat /\ Cardinality(new) \in Nat
      BY <2>4, <2>5
    <3> HIDE DEF new
    <3>3. Cardinality(Lost \cup new) = Cardinality(Lost) + Cardinality(new) - Cardinality(Lost \cap new)
      BY <3>1, FS_Union
    <3>4. Cardinality(Lost \cup new) = Cardinality(Lost) + Cardinality(new)
      BY <3>1, <3>2, <3>3
    <3> QED
      BY <3>4 DEF new
  <2>7. dropped' = Cardinality(Lost')
    BY <1>6, <2>1, <2>6 DEF BooksInv
  <2>8. Distinct(pipe)'
    BY <1>6 DEF BooksInv
  <2> HIDE DEF fresh
  <2> QED
    BY <1>1, <1>2, <1>3, <1>4, <2>1, <2>2, <2>7, <2>8 DEF BooksInv
<1> QED
  BY <1>5, <1>6 DEF Written

(* What is written after the completion is a later heartbeat or a crash.   *)
LEMMA WrittenLater ==
  ASSUME LineInv, OrderInv, emitted \in Nat, emitted' \in Nat, emitted <= emitted',
         completeAt \in Nat \cup {-1},
         NEW lines \in Seq(Lines), Written(lines),
         \A i \in DOMAIN lines : Later(lines[i], completeAt),
         UNCHANGED <<completeAt, live>>,
         threw' = "fatal" => threw = "fatal",
         threw' # "no" => threw # "no" \/ \E i \in DOMAIN lines : lines[i] = Crash
  PROVE  OrderInv'
<1>1. Waiting' = {}
  BY BeatsOfEmpty DEF Written, Waiting
<1>2. completeAt' <= emitted'
  BY DEF OrderInv
<1>3. CASE pipe' = pipe \o lines /\ UNCHANGED <<dropped, failed>>
  <2>1. ASSUME NEW i \in DOMAIN pipe'
        PROVE  \/ i \in DOMAIN pipe /\ pipe'[i] = pipe[i]
               \/ Later(pipe'[i], completeAt) /\ i > Len(pipe)
    BY <1>3, ConcatIndex DEF LineInv
  <2>2. DOMAIN pipe \subseteq DOMAIN pipe' /\ \A i \in DOMAIN pipe : pipe'[i] = pipe[i]
    BY <1>3 DEF LineInv
  <2>3. LostBefore' = LostBefore /\ (CrashTold <=> CrashTold')
    BY <1>3 DEF LostBefore, Lost, CrashTold
  <2>4. ASSUME NEW i \in DOMAIN pipe', pipe'[i].kind = "complete"
        PROVE  /\ completeAt # -1 /\ ~live.complete
               /\ pipe'[i].n = Cardinality(LostBefore)
               /\ \A j \in DOMAIN pipe' : j > i => Later(pipe'[j], completeAt)
               /\ threw' = "fatal" =>
                    CrashTold \/ \E j \in DOMAIN pipe' : j < i /\ pipe'[j] = Crash
    <3>1. i \in DOMAIN pipe /\ pipe'[i] = pipe[i]
      BY <2>1, <2>4 DEF Later
    <3>2. /\ completeAt # -1 /\ ~live.complete
          /\ pipe[i].n = Cardinality(LostBefore)
          /\ \A j \in DOMAIN pipe : j > i => Later(pipe[j], completeAt)
          /\ threw = "fatal" => CrashTold \/ \E j \in DOMAIN pipe : j < i /\ pipe[j] = Crash
      BY <2>4, <3>1 DEF OrderInv
    <3>3. \A j \in DOMAIN pipe' : j > i => Later(pipe'[j], completeAt)
      BY <2>1, <3>1, <3>2
    <3>4. threw' = "fatal" => CrashTold \/ \E j \in DOMAIN pipe' : j < i /\ pipe'[j] = Crash
      BY <2>2, <3>2
    <3> QED
      BY <3>1, <3>2, <3>3, <3>4
  <2>5. live.complete => \A i \in DOMAIN pipe' : Later(pipe'[i], completeAt)
    BY <2>1 DEF OrderInv
  <2>6. threw' # "no" => CrashTold \/ \E i \in DOMAIN pipe' : pipe'[i] = Crash
    <3>1. ASSUME NEW i \in DOMAIN lines, lines[i] = Crash
          PROVE  \E j \in DOMAIN pipe' : pipe'[j] = Crash
      <4>1. Len(pipe) + i \in DOMAIN pipe' /\ pipe'[Len(pipe) + i] = lines[i]
        BY <1>3 DEF LineInv
      <4> QED
        BY <3>1, <4>1
    <3> QED
      BY <2>2, <3>1 DEF OrderInv
  <2>7. completeAt' = completeAt /\ live' = live /\ failed' = failed
    BY <1>3
  <2> QED
    BY <1>1, <1>2, <2>3, <2>4, <2>5, <2>6, <2>7 DEF OrderInv
<1>4. CASE failed' = failed \cup LinesOf(lines) /\ UNCHANGED pipe
  <2>1. \A n \in BeatsIn(lines) : n > completeAt
    BY BeatIn DEF Later
  <2>2. Lost' = Lost \cup BeatsIn(lines)
    BY <1>4, BeatsOfUnion, BeatsOfLines DEF Lost
  <2>3. LostBefore' = LostBefore
    BY <2>1, <2>2 DEF LostBefore
  <2>4. /\ CrashTold => CrashTold'
        /\ (\E i \in DOMAIN lines : lines[i] = Crash) => CrashTold'
    BY <1>4 DEF CrashTold, LinesOf
  <2>5. pipe' = pipe /\ completeAt' = completeAt /\ live' = live
    BY <1>4
  <2> QED
    BY <1>1, <1>2, <2>3, <2>4, <2>5 DEF OrderInv, Later
<1> QED
  BY <1>3, <1>4 DEF Written

(* Before the completion is sent, no line is one.                          *)
LEMMA WrittenBefore ==
  ASSUME LineInv, OrderInv, completeAt = -1, completeAt' = -1, emitted' \in Nat,
         NEW lines \in Seq(Lines), Written(lines),
         \A i \in DOMAIN lines : lines[i].kind # "complete",
         UNCHANGED live,
         threw' # "no" => threw # "no" \/ \E i \in DOMAIN lines : lines[i] = Crash
  PROVE  OrderInv'
<1>1. Waiting' = {} /\ completeAt' <= emitted'
  BY BeatsOfEmpty DEF Written, Waiting
<1>2. ~live.complete /\ \A i \in DOMAIN pipe : pipe[i].kind # "complete"
  BY DEF OrderInv
<1>3. CASE pipe' = pipe \o lines /\ UNCHANGED <<dropped, failed>>
  <2>1. \A i \in DOMAIN pipe' : pipe'[i].kind # "complete"
    BY <1>2, <1>3, ConcatIndex DEF LineInv
  <2>2. \A i \in DOMAIN pipe : i \in DOMAIN pipe' /\ pipe'[i] = pipe[i]
    BY <1>3 DEF LineInv
  <2>3. \A i \in DOMAIN lines : Len(pipe) + i \in DOMAIN pipe' /\ pipe'[Len(pipe) + i] = lines[i]
    BY <1>3 DEF LineInv
  <2>4. threw' # "no" => CrashTold' \/ \E i \in DOMAIN pipe' : pipe'[i] = Crash
    BY <1>3, <2>2, <2>3 DEF OrderInv, CrashTold
  <2> QED
    BY <1>1, <1>2, <2>1, <2>4 DEF OrderInv
<1>4. CASE failed' = failed \cup LinesOf(lines) /\ UNCHANGED pipe
  <2>1. \A i \in DOMAIN lines : lines[i] \in failed'
    BY <1>4 DEF LinesOf
  <2>2. threw' # "no" => CrashTold' \/ \E i \in DOMAIN pipe' : pipe'[i] = Crash
    BY <1>4, <2>1 DEF OrderInv, CrashTold
  <2> QED
    BY <1>1, <1>2, <1>4, <2>2 DEF OrderInv
<1> QED
  BY <1>3, <1>4 DEF Written

------------------------------------------------------------------------------
(* The actions that touch lines.                                           *)

Books == LineInv /\ BooksInv /\ OrderInv

LEMMA Numbers ==
  ASSUME IInv
  PROVE  /\ MaxBeats \in Nat /\ BatchSize \in Nat \ {0}
         /\ emitted \in 0..MaxBeats /\ completeAt \in Nat \cup {-1}
         /\ dropped \in Nat
BY SpawnAssumption DEF IInv, TypeOK

LEMMA LifecycleLines ==
  ASSUME LineInv, BooksInv, emitted \in Nat, NEW line \in Lines, line.kind # "beat"
  PROVE  /\ Append(pending, line) \in Seq(Lines) /\ Distinct(Append(pending, line))
         /\ BeatsIn(Append(pending, line)) = Waiting \cup (emitted + 1)..emitted
         /\ \A i \in DOMAIN Append(pending, line) :
              \/ Append(pending, line)[i].kind = "beat"
              \/ Append(pending, line)[i] = line
         /\ Len(pending) + 1 \in DOMAIN Append(pending, line)
         /\ Append(pending, line)[Len(pending) + 1] = line
<1>1. pending \in Seq(Lines) /\ Distinct(pending)
  BY DEF LineInv, BooksInv
<1>2. Append(pending, line) \in Seq(Lines)
  BY <1>1
<1>3. Distinct(Append(pending, line))
  BY <1>1, DistinctAppend
<1>4. BeatsIn(Append(pending, line)) = Waiting
  BY <1>1, BeatsOfAppend DEF Waiting
<1>5. (emitted + 1)..emitted = {}
  OBVIOUS
<1>6. \A i \in DOMAIN Append(pending, line) :
        \/ Append(pending, line)[i].kind = "beat"
        \/ Append(pending, line)[i] = line
  BY <1>1, AppendIndex DEF LineInv
<1>7. /\ Len(pending) + 1 \in DOMAIN Append(pending, line)
      /\ Append(pending, line)[Len(pending) + 1] = line
  BY <1>1
<1> QED
  BY <1>2, <1>3, <1>4, <1>5, <1>6, <1>7

LEMMA LoadBooks == ASSUME IInv, LoadPreload PROVE Books'
<1> DEFINE line == Line("ready", dropped)
           lines == Append(pending, line)
<1>1. /\ LineInv /\ BooksInv /\ OrderInv /\ emitted = 0 /\ completeAt = -1
      /\ emitted \in Nat
  BY DEF IInv, LoadPreload, Loading, ChildInv
<1>2. dropped = 0
  <2>1. Lost \in SUBSET (1..0)
    BY <1>1 DEF BooksInv
  <2> QED
    BY <1>1, <2>1, NumberedFinite DEF BooksInv
<1>3. line \in Lines /\ line.kind = "ready" /\ line.n = 0
  BY <1>2 DEF Line, Lines
<1>4. Written(lines) /\ UNCHANGED <<emitted, discarded, live, completeAt, threw>>
  BY DEF LoadPreload, EmitCritical, hookVars, hostVars
<1>5. /\ lines \in Seq(Lines) /\ Distinct(lines)
      /\ BeatsIn(lines) = Waiting \cup (emitted + 1)..emitted
      /\ \A i \in DOMAIN lines : lines[i].kind = "beat" \/ lines[i] = line
  BY <1>1, <1>3, LifecycleLines
<1> HIDE DEF line, lines
<1>6. LineInv'
  BY <1>1, <1>3, <1>4, <1>5, WrittenLines
<1>7. BooksInv'
  BY <1>1, <1>4, <1>5, WrittenBooks
<1>8. OrderInv'
  BY <1>1, <1>3, <1>4, <1>5, WrittenBefore
<1> QED
  BY <1>6, <1>7, <1>8 DEF Books

(* The completion takes the counter of all heartbeats lost so far.         *)
LEMMA CompleteBooks == ASSUME IInv, Complete PROVE Books'
<1> DEFINE line == Line("complete", dropped)
           lines == Append(pending, line)
<1>1. /\ LineInv /\ BooksInv /\ OrderInv /\ completeAt = -1 /\ emitted \in Nat /\ dropped \in Nat
  BY Numbers DEF IInv, Complete, ChildInv
<1>2. line \in Lines /\ line.kind = "complete" /\ line.n = dropped
  BY <1>1 DEF Line, Lines
<1>3. Written(lines) /\ UNCHANGED <<emitted, discarded, live, threw>> /\ completeAt' = emitted
  BY DEF Complete, EmitCritical
<1>4. /\ lines \in Seq(Lines) /\ Distinct(lines)
      /\ BeatsIn(lines) = Waiting \cup (emitted + 1)..emitted
      /\ \A i \in DOMAIN lines : lines[i].kind = "beat" \/ lines[i] = line
  BY <1>1, <1>2, LifecycleLines
<1>5. lines = Append(pending, line) /\ pending \in Seq(Lines)
  BY <1>1 DEF LineInv
<1> HIDE DEF line, lines
<1>6. LineInv'
  BY <1>1, <1>2, <1>3, <1>4, WrittenLines
<1>7. BooksInv'
  BY <1>1, <1>3, <1>4, WrittenBooks
<1>8. OrderInv'
  <2>1. Waiting' = {} /\ completeAt' <= emitted' /\ completeAt' # -1
    BY <1>1, <1>3, BeatsOfEmpty DEF Written, Waiting
  <2>2. ~live'.complete /\ live'.dropped = 0 /\ \A i \in DOMAIN pipe : pipe[i].kind # "complete"
    BY <1>1, <1>3 DEF OrderInv
  <2>3. CASE pipe' = pipe \o lines /\ UNCHANGED <<dropped, failed>>
    <3>1. ASSUME NEW i \in DOMAIN pipe', pipe'[i].kind = "complete"
          PROVE  i = Len(pipe') /\ pipe'[i] = line
      <4>1. i - Len(pipe) \in DOMAIN lines /\ pipe'[i] = lines[i - Len(pipe)]
        BY <1>1, <1>4, <2>2, <2>3, <3>1, ConcatIndex DEF LineInv
      <4>2. lines[i - Len(pipe)] = line
        BY <1>4, <3>1, <4>1
      <4>3. \A j \in DOMAIN pending : lines[j] = pending[j] /\ pending[j].kind = "beat"
        BY <1>1, <1>5, <1>2 DEF LineInv
      <4>4. i - Len(pipe) \notin DOMAIN pending
        BY <1>2, <4>2, <4>3
      <4>5. i - Len(pipe) = Len(pending) + 1
        BY <1>2, <1>5, <4>1, <4>4
      <4>6. Len(pipe') = Len(pipe) + Len(pending) + 1
        BY <1>1, <1>2, <1>4, <1>5, <2>3 DEF LineInv
      <4> QED
        BY <1>1, <4>1, <4>2, <4>5, <4>6 DEF LineInv
    <3>2. Cardinality(LostBefore') = dropped
      <4>1. LostBefore' = Lost
        BY <1>1, <1>3, <2>3 DEF LostBefore, Lost, BooksInv
      <4> QED
        BY <1>1, <4>1 DEF BooksInv
    <3>3. ASSUME NEW i \in DOMAIN pipe', pipe'[i].kind = "complete"
          PROVE  /\ pipe'[i].n = Cardinality(LostBefore')
                 /\ \A j \in DOMAIN pipe' : ~(j > i)
      BY <1>2, <1>6, <3>1, <3>2, <3>3 DEF LineInv
    <3>4. \A i \in DOMAIN pipe : i \in DOMAIN pipe' /\ pipe'[i] = pipe[i] /\ i < Len(pipe')
      <4>1. Len(pipe') > Len(pipe) /\ Len(pipe) \in Nat
        BY <1>1, <1>2, <1>4, <1>5, <2>3 DEF LineInv
      <4> QED
        BY <1>1, <1>4, <2>3, <4>1 DEF LineInv
    <3>5. threw' # "no" => CrashTold' \/ \E j \in DOMAIN pipe' : j < Len(pipe') /\ pipe'[j] = Crash
      BY <1>1, <1>3, <2>3, <3>4 DEF OrderInv, CrashTold
    <3>6. ASSUME NEW i \in DOMAIN pipe', pipe'[i].kind = "complete", threw' = "fatal"
          PROVE  CrashTold' \/ \E j \in DOMAIN pipe' : j < i /\ pipe'[j] = Crash
      BY <3>1, <3>5, <3>6
    <3> QED
      BY <2>1, <2>2, <3>3, <3>5, <3>6 DEF OrderInv
  <2>4. CASE failed' = failed \cup LinesOf(lines) /\ UNCHANGED pipe
    <3>1. threw' # "no" => CrashTold' \/ \E i \in DOMAIN pipe' : pipe'[i] = Crash
      BY <1>1, <1>3, <2>4 DEF OrderInv, CrashTold
    <3> QED
      BY <2>1, <2>2, <2>4, <3>1 DEF OrderInv
  <2> QED
    BY <1>3, <2>3, <2>4 DEF Written
<1> QED
  BY <1>6, <1>7, <1>8 DEF Books

LEMMA FlushBooks == ASSUME IInv, FlushTimer PROVE Books'
<1>1. /\ LineInv /\ BooksInv /\ OrderInv /\ emitted \in Nat /\ completeAt \in Nat \cup {-1}
      /\ pending \in Seq(Lines) /\ Distinct(pending)
  BY Numbers DEF IInv, LineInv, BooksInv
<1>2. Written(pending) /\ UNCHANGED <<emitted, discarded, live, completeAt, threw>>
  BY DEF FlushTimer, hookVars
<1>3. BeatsIn(pending) = Waiting \cup (emitted + 1)..emitted
  <2>1. (emitted + 1)..emitted = {}
    BY <1>1
  <2> QED
    BY <2>1 DEF Waiting
<1>4. \A i \in DOMAIN pending : pending[i].kind = "beat" /\ pending[i].n > completeAt
  <2>1. \A i \in DOMAIN pending : pending[i].kind = "beat" /\ pending[i].n \in Waiting
    BY <1>1, BeatIn DEF LineInv, Waiting
  <2> QED
    BY <1>1, <2>1 DEF OrderInv
<1>5. LineInv'
  BY <1>1, <1>2, <1>4, WrittenLines
<1>6. BooksInv'
  BY <1>1, <1>2, <1>3, WrittenBooks
<1>7. OrderInv'
  BY <1>1, <1>2, <1>4, WrittenLater DEF Later
<1> QED
  BY <1>5, <1>6, <1>7 DEF Books

LEMMA BeatBooks == ASSUME IInv, Heartbeat PROVE Books'
<1> DEFINE line == Line("beat", emitted + 1)
           lines == Append(pending, line)
<1>1. /\ LineInv /\ BooksInv /\ OrderInv /\ emitted \in Nat /\ completeAt \in Nat \cup {-1}
      /\ pending \in Seq(Lines) /\ Distinct(pending) /\ completeAt <= emitted
  BY Numbers DEF IInv, LineInv, BooksInv, OrderInv
<1>2. line \in Lines /\ line.kind = "beat" /\ line.n = emitted + 1
  BY <1>1 DEF Line, Lines
<1>3. UNCHANGED <<discarded, live, completeAt, threw>> /\ emitted' = emitted + 1
  BY DEF Heartbeat, hookVars
<1>4. \/ Written(lines)
      \/ pending' = lines /\ UNCHANGED <<pipe, dropped, failed>>
  BY DEF Heartbeat
<1>5. lines \in Seq(Lines) /\ BeatsIn(lines) = Waiting \cup {emitted + 1}
  BY <1>1, <1>2, BeatsOfAppend DEF Waiting
<1>6. emitted + 1 \notin Waiting \cup Travelling \cup live.beats \cup discarded \cup Lost
  BY <1>1 DEF BooksInv
<1>7. Distinct(lines)
  BY <1>1, <1>2, <1>6, DistinctAppend DEF Waiting
<1>8. \A i \in DOMAIN lines : lines[i].kind = "beat" /\ lines[i].n > completeAt
  <2>1. \A i \in DOMAIN pending : pending[i].kind = "beat" /\ pending[i].n > completeAt
    <3>1. \A i \in DOMAIN pending : pending[i].kind = "beat" /\ pending[i].n \in Waiting
      BY <1>1, BeatIn DEF LineInv, Waiting
    <3> QED
      BY <1>1, <3>1 DEF OrderInv
  <2>2. \A i \in DOMAIN lines : (i \in DOMAIN pending /\ lines[i] = pending[i]) \/ lines[i] = line
    BY <1>1, <1>2, AppendIndex
  <2> QED
    BY <1>1, <1>2, <2>1, <2>2
<1> HIDE DEF line, lines
<1>9. CASE Written(lines)
  <2>1. (emitted + 1)..emitted' = {emitted + 1} /\ emitted' \in Nat /\ emitted <= emitted'
    BY <1>1, <1>3
  <2>2. BeatsIn(lines) = Waiting \cup (emitted + 1)..emitted'
    BY <1>5, <2>1
  <2>3. LineInv'
    BY <1>1, <1>5, <1>8, <1>9, WrittenLines
  <2>4. BooksInv'
    BY <1>1, <1>3, <1>5, <1>7, <1>9, <2>1, <2>2, WrittenBooks
  <2>5. OrderInv'
    BY <1>1, <1>3, <1>5, <1>8, <1>9, <2>1, WrittenLater DEF Later
  <2> QED
    BY <2>3, <2>4, <2>5 DEF Books
<1>10. CASE pending' = lines /\ UNCHANGED <<pipe, dropped, failed>>
  <2>1. Waiting' = Waiting \cup {emitted + 1} /\ Travelling' = Travelling /\ Lost' = Lost
    BY <1>5, <1>10 DEF Waiting, Travelling, Lost
  <2>2. 1..emitted' = (1..emitted) \cup {emitted + 1}
    BY <1>1, <1>3
  <2>3. LineInv'
    BY <1>1, <1>5, <1>8, <1>10 DEF LineInv
  <2>4. Distinct(pending)' /\ Distinct(pipe)'
    BY <1>1, <1>7, <1>10 DEF BooksInv
  <2>5. BooksInv'
    BY <1>1, <1>3, <1>6, <1>10, <2>1, <2>2, <2>4 DEF BooksInv
  <2>6. LostBefore' = LostBefore
    BY <1>3, <2>1 DEF LostBefore
  <2>7. \A n \in Waiting' : n > completeAt
    BY <1>1, <2>1 DEF OrderInv
  <2>8. completeAt' <= emitted'
    BY <1>1, <1>3
  <2>9. OrderInv'
    BY <1>1, <1>3, <1>10, <2>6, <2>7, <2>8 DEF OrderInv, Later, CrashTold
  <2> QED
    BY <2>3, <2>5, <2>9 DEF Books
<1> QED
  BY <1>4, <1>9, <1>10

(* A line read: a heartbeat moves from the pipe to the source, a completion *)
(* becomes the last word.                                                  *)
LEMMA ReadBooks == ASSUME IInv, ReadPipe PROVE Books'
<1> DEFINE line == Head(pipe)
           rest == Tail(pipe)
<1>1. /\ LineInv /\ BooksInv /\ OrderInv /\ RecordInv /\ emitted \in 0..MaxBeats
      /\ completeAt \in Nat \cup {-1} /\ MaxBeats \in Nat
      /\ pipe \in Seq(Lines) /\ pipe # <<>>
  BY Numbers DEF IInv, LineInv, ReadPipe
<1>2. /\ live' = Learn(line) /\ pipe' = rest
      /\ UNCHANGED <<emitted, pending, dropped, failed, discarded, completeAt, threw>>
  BY DEF ReadPipe, hookVars
<1>3. /\ rest \in Seq(Lines) /\ line \in Lines /\ 1 \in DOMAIN pipe /\ pipe[1] = line
      /\ \A i \in DOMAIN rest : i + 1 \in DOMAIN pipe /\ rest[i] = pipe[i + 1] /\ i + 1 > 1
      /\ \A i \in DOMAIN pipe : i = 1 \/ (i - 1 \in DOMAIN rest /\ rest[i - 1] = pipe[i])
  BY <1>1
<1>4. /\ line.kind = "beat" => Travelling = BeatsIn(rest) \cup {line.n}
      /\ line.kind # "beat" => Travelling = BeatsIn(rest)
      /\ Distinct(rest) /\ (line.kind = "beat" => line.n \notin BeatsIn(rest))
  BY <1>1, BeatsOfTail, DistinctTail DEF Travelling, BooksInv
<1>5. /\ line.kind = "beat" => live'.beats = live.beats \cup {line.n} /\ live'.dropped = live.dropped
      /\ line.kind # "beat" => live'.beats = live.beats
      /\ line.kind = "complete" => live'.complete
      /\ line.kind # "complete" => live'.complete = live.complete
      /\ live.crash => live'.crash
      /\ line.kind = "crash" => live'.crash /\ live'.dropped = live.dropped
      /\ line.kind \in {"ready", "complete"} =>
           live'.dropped = IF line.n > live.dropped THEN line.n ELSE live.dropped
  BY <1>1, <1>2, <1>3 DEF Learn, RecordInv, Lines
<1>6. line.kind = "ready" => line.n = 0
  BY <1>1, <1>3 DEF LineInv
<1>7. Waiting' = Waiting /\ Travelling' = BeatsIn(rest) /\ Lost' = Lost /\ LostBefore' = LostBefore
  BY <1>2 DEF Waiting, Travelling, Lost, LostBefore
<1> HIDE DEF line, rest
<1>8. LineInv'
  BY <1>1, <1>2, <1>3 DEF LineInv
<1>9. BooksInv'
  <2>1. Distinct(pending)' /\ Distinct(pipe)'
    BY <1>1, <1>2, <1>4 DEF BooksInv
  <2>2. dropped' = Cardinality(Lost')
    BY <1>1, <1>2, <1>7 DEF BooksInv
  <2>3. CASE line.kind = "beat"
    BY <1>1, <1>2, <1>4, <1>5, <1>7, <2>1, <2>2, <2>3 DEF BooksInv
  <2>4. CASE line.kind # "beat"
    BY <1>1, <1>2, <1>4, <1>5, <1>7, <2>1, <2>2, <2>4 DEF BooksInv
  <2> QED
    BY <2>3, <2>4
<1>10. OrderInv'
  <2>1. completeAt' <= emitted' /\ \A n \in Waiting' : n > completeAt'
    BY <1>1, <1>2, <1>7 DEF OrderInv
  <2>2. /\ threw' # "no" => CrashTold' \/ \E i \in DOMAIN pipe' : pipe'[i] = Crash
        /\ CrashTold => CrashTold'
        /\ line = Crash => CrashTold'
    <3>1. line = Crash => CrashTold'
      BY <1>5 DEF Crash, Line, CrashTold
    <3>2. CrashTold => CrashTold'
      BY <1>2, <1>5 DEF CrashTold
    <3>3. CASE line # Crash
      BY <1>1, <1>2, <1>3, <3>2, <3>3 DEF OrderInv
    <3> QED
      BY <3>1, <3>2, <3>3
  <2>3. CASE line.kind = "complete"
    <3>1. /\ completeAt # -1 /\ ~live.complete /\ line.n = Cardinality(LostBefore)
          /\ \A j \in DOMAIN pipe : j > 1 => Later(pipe[j], completeAt)
          /\ threw = "fatal" => CrashTold
      BY <1>1, <1>3, <2>3 DEF OrderInv
    <3>2. live'.dropped = line.n
      BY <1>1, <1>3, <1>5, <2>3, <3>1 DEF OrderInv, Lines
    <3>3. \A i \in DOMAIN rest : Later(rest[i], completeAt)
      BY <1>3, <3>1
    <3>4. \A i \in DOMAIN rest : rest[i].kind # "complete"
      BY <3>3 DEF Later
    <3> QED
      BY <1>2, <1>5, <1>7, <2>1, <2>2, <2>3, <3>1, <3>2, <3>3, <3>4 DEF OrderInv
  <2>4. CASE line.kind # "complete"
    <3>1. live'.dropped = live.dropped
      <4>1. CASE line.kind = "ready"
        BY <1>1, <1>5, <1>6, <4>1 DEF RecordInv
      <4>2. CASE line.kind # "ready"
        BY <1>3, <1>5, <2>4, <4>2 DEF Lines
      <4> QED
        BY <4>1, <4>2
    <3>2. ASSUME NEW i \in DOMAIN rest, rest[i].kind = "complete"
          PROVE  /\ completeAt # -1 /\ ~live.complete
                 /\ rest[i].n = Cardinality(LostBefore)
                 /\ \A j \in DOMAIN rest : j > i => Later(rest[j], completeAt)
                 /\ threw = "fatal" =>
                      CrashTold' \/ \E j \in DOMAIN rest : j < i /\ rest[j] = Crash
      <4>1. /\ completeAt # -1 /\ ~live.complete
            /\ pipe[i + 1].n = Cardinality(LostBefore)
            /\ \A j \in DOMAIN pipe : j > i + 1 => Later(pipe[j], completeAt)
            /\ threw = "fatal" =>
                 CrashTold \/ \E j \in DOMAIN pipe : j < i + 1 /\ pipe[j] = Crash
        BY <1>1, <1>3, <3>2 DEF OrderInv
      <4>2. ASSUME NEW j \in DOMAIN rest, j > i PROVE j + 1 > i + 1
        BY <4>2, <1>3
      <4>3. ASSUME NEW j \in DOMAIN pipe, j < i + 1, pipe[j] = Crash
            PROVE  line = Crash \/ \E k \in DOMAIN rest : k < i /\ rest[k] = Crash
        <5>1. CASE j = 1
          BY <1>3, <4>3, <5>1
        <5>2. CASE j # 1
          <6>1. j - 1 \in DOMAIN rest /\ rest[j - 1] = Crash /\ j - 1 < i
            BY <1>1, <1>3, <4>3, <5>2
          <6> QED
            BY <6>1
        <5> QED
          BY <5>1, <5>2
      <4>4. threw = "fatal" => CrashTold' \/ \E j \in DOMAIN rest : j < i /\ rest[j] = Crash
        BY <2>2, <4>1, <4>3
      <4>5. \A j \in DOMAIN rest : j > i => Later(rest[j], completeAt)
        BY <1>3, <4>1, <4>2
      <4> QED
        BY <1>3, <3>2, <4>1, <4>4, <4>5
    <3>3. live.complete =>
            /\ completeAt # -1 /\ live.dropped = Cardinality(LostBefore)
            /\ \A i \in DOMAIN rest : Later(rest[i], completeAt)
            /\ threw = "fatal" => CrashTold
      BY <1>1, <1>3 DEF OrderInv
    <3>4. ~live.complete => live.dropped = 0
      BY <1>1 DEF OrderInv
    <3> QED
      BY <1>2, <1>5, <1>7, <2>1, <2>2, <2>4, <3>1, <3>2, <3>3, <3>4 DEF OrderInv
  <2> QED
    BY <2>3, <2>4
<1> QED
  BY <1>8, <1>9, <1>10 DEF Books

LEMMA DisposeBooks == ASSUME IInv, DisposeAnswered PROVE Books'
<1>1. LineInv /\ BooksInv /\ OrderInv
  BY DEF IInv
<1>2. UNCHANGED <<emitted, dropped, failed, pipe, threw, completeAt, live>>
  BY DEF DisposeAnswered
<1>3. Travelling' = Travelling /\ Lost' = Lost /\ LostBefore' = LostBefore
  BY <1>2 DEF Travelling, Lost, LostBefore
<1>4. CASE discarded' = discarded \cup BeatsIn(pending) /\ pending' = <<>>
  <2>1. Waiting' = {} /\ Distinct(pending)' /\ discarded' = discarded \cup Waiting
    BY <1>4, BeatsOfEmpty DEF Waiting
  <2>2. LineInv'
    BY <1>1, <1>2, <1>4 DEF LineInv
  <2>3. BooksInv'
    BY <1>1, <1>2, <1>3, <2>1 DEF BooksInv
  <2>4. OrderInv'
    BY <1>1, <1>2, <1>3, <2>1 DEF OrderInv, Later, CrashTold
  <2> QED
    BY <2>2, <2>3, <2>4 DEF Books
<1>5. CASE UNCHANGED <<discarded, pending>>
  <2>1. Waiting' = Waiting
    BY <1>5 DEF Waiting
  <2> QED
    BY <1>1, <1>2, <1>3, <1>5, <2>1 DEF LineInv, BooksInv, OrderInv, Later, CrashTold, Books
<1> QED
  BY <1>4, <1>5 DEF DisposeAnswered

(* The other actions leave the lines and what was read of them alone.      *)
LEMMA QuietBooks ==
  ASSUME IInv, UNCHANGED <<lineVars, completeAt>>,
         threw' = "fatal" => threw = "fatal" \/ completeAt = -1,
         threw' # "no" => threw # "no",
         live'.beats = live.beats, live'.dropped = live.dropped,
         live'.complete = live.complete, live'.crash = live.crash
  PROVE  Books'
<1>1. UNCHANGED <<emitted, pending, dropped, failed, discarded, pipe>>
  BY DEF lineVars
<1>2. Waiting' = Waiting /\ Travelling' = Travelling /\ Lost' = Lost /\ LostBefore' = LostBefore
  BY <1>1 DEF Waiting, Travelling, Lost, LostBefore
<1>3. LineInv'
  BY <1>1 DEF IInv, LineInv
<1>4. BooksInv'
  BY <1>1, <1>2 DEF IInv, BooksInv
<1>5. OrderInv'
  BY <1>1, <1>2 DEF IInv, OrderInv, Later, CrashTold
<1> QED
  BY <1>3, <1>4, <1>5 DEF Books

LEMMA CrashBooks == ASSUME IInv, UncaughtException PROVE Books'
<1> DEFINE line == Line("crash", 0)
           lines == Append(pending, line)
<1>1. /\ LineInv /\ BooksInv /\ OrderInv /\ emitted \in Nat /\ completeAt \in Nat \cup {-1}
  BY Numbers DEF IInv
<1>2. line \in Lines /\ line.kind = "crash" /\ line = Crash
  BY DEF Line, Lines, Crash
<1>3. /\ UNCHANGED <<emitted, discarded, live, completeAt>>
      /\ threw' = "fatal" => completeAt = -1
  BY DEF UncaughtException, hostVars
<1>4. /\ lines \in Seq(Lines) /\ Distinct(lines)
      /\ BeatsIn(lines) = Waiting \cup (emitted + 1)..emitted
      /\ \A i \in DOMAIN lines : lines[i].kind = "beat" \/ lines[i] = line
      /\ Len(pending) + 1 \in DOMAIN lines /\ lines[Len(pending) + 1] = line
  BY <1>1, <1>2, LifecycleLines
<1>5. \A i \in DOMAIN lines : Later(lines[i], completeAt)
  <2>1. ASSUME NEW i \in DOMAIN lines, lines[i].kind = "beat" PROVE lines[i].n > completeAt
    <3>1. lines[i].n \in BeatsIn(lines)
      BY <2>1, BeatIn
    <3>2. lines[i].n \in Waiting
      BY <1>1, <1>4, <3>1
    <3> QED
      BY <1>1, <3>2 DEF OrderInv
  <2> QED
    BY <1>2, <1>4, <2>1 DEF Later
<1>6. \/ threw = "no" /\ Written(lines)
      \/ threw = "handled" /\ UNCHANGED <<pending, dropped, failed, pipe>>
  BY DEF UncaughtException, EmitCritical
<1> HIDE DEF line, lines
<1>7. CASE Written(lines)
  <2>1. LineInv'
    BY <1>1, <1>2, <1>4, <1>7, WrittenLines
  <2>2. BooksInv'
    BY <1>1, <1>3, <1>4, <1>7, WrittenBooks
  <2>3. OrderInv'
    <3>1. CASE completeAt = -1
      BY <1>1, <1>2, <1>3, <1>4, <1>7, <3>1, WrittenBefore
    <3>2. CASE completeAt # -1
      BY <1>1, <1>2, <1>3, <1>4, <1>5, <1>7, <3>2, WrittenLater
    <3> QED
      BY <3>1, <3>2
  <2> QED
    BY <2>1, <2>2, <2>3 DEF Books
<1>8. CASE threw = "handled" /\ UNCHANGED <<pending, dropped, failed, pipe>>
  BY <1>3, <1>8, QuietBooks DEF lineVars
<1> QED
  BY <1>6, <1>7, <1>8

LEMMA BooksStep == ASSUME IInv, [Next]_vars PROVE Books'
<1>1. CASE LoadPreload
  BY <1>1, LoadBooks
<1>2. CASE Heartbeat
  BY <1>2, BeatBooks
<1>3. CASE FlushTimer
  BY <1>3, FlushBooks
<1>4. CASE UncaughtException
  BY <1>4, CrashBooks
<1>5. CASE Complete
  BY <1>5, CompleteBooks
<1>6. CASE PrintUrl
  BY QuietBooks, <1>6 DEF PrintUrl, hookVars
<1>7. CASE StartPause
  BY QuietBooks, <1>7 DEF StartPause, hookVars
<1>8. CASE Exit
  BY QuietBooks, <1>8 DEF Exit, Dies, hookVars
<1>9. CASE Killed
  BY QuietBooks, <1>9 DEF Killed, Dies, hookVars
<1>10. CASE SigKill
  BY QuietBooks, <1>10 DEF SigKill, Dies, hookVars
<1>11. CASE ReadPipe
  BY <1>11, ReadBooks
<1>12. CASE ExitEvent
  <2>1. live' = [live EXCEPT !.exit = ended] /\ UNCHANGED <<lineVars, completeAt, threw>>
    BY <1>12 DEF ExitEvent, hookVars
  <2>2. /\ live'.beats = live.beats /\ live'.dropped = live.dropped
        /\ live'.complete = live.complete /\ live'.crash = live.crash
    BY <2>1 DEF IInv, RecordInv
  <2> QED
    BY <2>1, <2>2, QuietBooks
<1>13. CASE Disconnect
  BY QuietBooks, <1>13 DEF Disconnect, hookVars
<1>14. CASE EnabledLate
  BY QuietBooks, <1>14 DEF EnabledLate, Ended, hookVars
<1>15. CASE UrlSeen
  BY QuietBooks, <1>15 DEF UrlSeen, hookVars
<1>16. CASE StartupFails
  BY QuietBooks, <1>16 DEF StartupFails, hookVars
<1>17. CASE KillFallback
  BY QuietBooks, <1>17 DEF KillFallback, hookVars
<1>18. CASE ConnectCdp
  BY QuietBooks, <1>18 DEF ConnectCdp, hookVars
<1>19. CASE EnableDebugger
  BY QuietBooks, <1>19 DEF EnableDebugger, hookVars
<1>20. CASE Prepared
  BY QuietBooks, <1>20 DEF Prepared, hookVars
<1>21. CASE Abort
  BY QuietBooks, <1>21 DEF Abort, hookVars
<1>22. CASE ReleaseRuntime
  BY QuietBooks, <1>22 DEF ReleaseRuntime, hookVars
<1>23. CASE ResumePaused
  BY QuietBooks, <1>23 DEF ResumePaused, hookVars
<1>24. CASE GiveUpPause
  BY QuietBooks, <1>24 DEF GiveUpPause, hookVars
<1>25. CASE StopWaiting
  BY QuietBooks, <1>25 DEF StopWaiting, hookVars
<1>26. CASE CollectLive
  BY QuietBooks, <1>26 DEF CollectLive, Snapshot, hookVars
<1>27. CASE ReadIntegrity
  BY QuietBooks, <1>27 DEF ReadIntegrity, hookVars
<1>28. CASE DisposeAnswered
  BY <1>28, DisposeBooks
<1>34. CASE DisposeRejected
  BY QuietBooks, <1>34 DEF DisposeRejected, hookVars
<1>29. CASE CloseCdp
  BY QuietBooks, <1>29 DEF CloseCdp, hookVars
<1>30. CASE GraceOver
  BY QuietBooks, <1>30 DEF GraceOver, Final, hookVars
<1>31. CASE TermOver
  BY QuietBooks, <1>31 DEF TermOver, Final, hookVars
<1>32. CASE Terminated
  BY QuietBooks, <1>32 DEF Terminated, vars, hookVars
<1>33. CASE UNCHANGED vars
  BY QuietBooks, <1>33 DEF hookVars, vars
<1> QED
  BY <1>1, <1>2, <1>3, <1>4, <1>5, <1>6, <1>7, <1>8, <1>9, <1>10, <1>11,
     <1>12, <1>13, <1>14, <1>15, <1>16, <1>17, <1>18, <1>19, <1>20, <1>21,
     <1>22, <1>23, <1>24, <1>25, <1>26, <1>27, <1>28, <1>29, <1>30, <1>31,
     <1>32, <1>33, <1>34 DEF Next, Hooks, Process, Arrival, Connect, Release, Stop

------------------------------------------------------------------------------
(* The records, the child and the end.                                     *)

LEMMA EmittedStep == ASSUME IInv, [Next]_vars PROVE emitted' \in 0..MaxBeats
<1>1. emitted \in 0..MaxBeats /\ MaxBeats \in Nat
  BY Numbers
<1>2. CASE Heartbeat
  BY <1>1, <1>2 DEF Heartbeat
<1>3. CASE emitted' = emitted
  BY <1>1, <1>3
<1> QED
  BY <1>2, <1>3 DEF Next, Hooks, Process, Arrival, Connect, Release, Stop,
     LoadPreload, FlushTimer, UncaughtException, Complete, PrintUrl,
     StartPause, Exit, Killed, SigKill, ReadPipe, ExitEvent, Disconnect,
     EnabledLate, UrlSeen, StartupFails, KillFallback, ConnectCdp,
     EnableDebugger, Prepared, Abort, ReleaseRuntime, ResumePaused,
     GiveUpPause, StopWaiting, CollectLive, ReadIntegrity, DisposeAnswered,
     DisposeRejected,
     CloseCdp, GraceOver, TermOver, Terminated, Dies, lineVars, vars

(* What the books say of the types.                                        *)
LEMMA TypesFromBooks ==
  ASSUME Books', emitted' \in 0..MaxBeats, MaxBeats \in Nat
  PROVE  /\ dropped' \in 0..MaxBeats /\ live'.dropped \in 0..MaxBeats
         /\ live'.beats \subseteq Beats /\ BeatsIn(pending') \cup discarded' \subseteq Beats
<1>1. 1..emitted' \subseteq Beats
  BY DEF Beats
<1>2. Lost' \in SUBSET (1..MaxBeats) /\ LostBefore' \in SUBSET (1..MaxBeats)
  BY <1>1 DEF Books, BooksInv, LostBefore, Beats
<1>3. Cardinality(Lost') \in 0..MaxBeats /\ Cardinality(LostBefore') \in 0..MaxBeats
  BY <1>2, NumberedFinite
<1>4. dropped' \in 0..MaxBeats /\ live'.dropped \in 0..MaxBeats
  BY <1>3 DEF Books, BooksInv, OrderInv
<1>5. live'.beats \subseteq Beats /\ BeatsIn(pending') \cup discarded' \subseteq Beats
  BY <1>1 DEF Books, BooksInv, Waiting
<1> QED
  BY <1>4, <1>5

LEMMA RecordStep == ASSUME IInv, [Next]_vars, Books' PROVE RecordInv'
<1> DEFINE Ends == {"none", "code", "signal"}
<1>1. RecordInv
  BY DEF IInv
<1>2. CASE UNCHANGED <<live, reported>>
  BY <1>1, <1>2 DEF RecordInv
<1>3. CASE ReadPipe
  <2>1. live' = Learn(Head(pipe)) /\ reported' = reported /\ emitted' = emitted
    BY <1>3 DEF ReadPipe, hostVars
  <2>2. live'.beats \subseteq Beats /\ live'.dropped \in 0..MaxBeats
    BY <2>1, Numbers, TypesFromBooks
  <2>3. Head(pipe) \in Lines
    BY <1>3 DEF IInv, LineInv, ReadPipe
  <2>4. Head(pipe).kind \in {"beat", "ready", "crash", "complete"}
    BY <2>3 DEF Lines
  <2>5. CASE Head(pipe).kind = "beat"
    BY <1>1, <2>1, <2>2, <2>5 DEF RecordInv, Learn
  <2>6. CASE Head(pipe).kind = "ready"
    BY <1>1, <2>1, <2>2, <2>6 DEF RecordInv, Learn
  <2>7. CASE Head(pipe).kind = "crash"
    BY <1>1, <2>1, <2>2, <2>7 DEF RecordInv, Learn
  <2>8. CASE Head(pipe).kind = "complete"
    BY <1>1, <2>1, <2>2, <2>8 DEF RecordInv, Learn
  <2> QED
    BY <2>4, <2>5, <2>6, <2>7, <2>8
<1>4. CASE ExitEvent
  BY <1>1, <1>4 DEF ExitEvent, hostVars, RecordInv, IInv, TypeOK
<1>5. CASE CollectLive
  BY <1>1, <1>5 DEF CollectLive, Snapshot, RecordInv
<1>6. CASE GraceOver
  BY <1>1, <1>6 DEF GraceOver, Final, RecordInv
<1>7. CASE TermOver
  BY <1>1, <1>7 DEF TermOver, Final, RecordInv
<1> QED
  BY <1>2, <1>3, <1>4, <1>5, <1>6, <1>7 DEF Next, Hooks, Process, Arrival,
     Connect, Release, Stop, LoadPreload, Heartbeat, FlushTimer,
     UncaughtException, Complete, PrintUrl, StartPause, Dies, Exit, Killed,
     SigKill, Disconnect, EnabledLate, UrlSeen, StartupFails, KillFallback,
     ConnectCdp, EnableDebugger, Prepared, Abort, ReleaseRuntime,
     ResumePaused, GiveUpPause, StopWaiting, ReadIntegrity, DisposeAnswered,
     DisposeRejected,
     CloseCdp, Terminated, hostVars, vars

(* A line tells nothing of the exit.                                       *)
LEMMA LearnKeeps ==
  ASSUME IInv, ReadPipe PROVE live'.exit = live.exit /\ pipe # <<>>
<1>1. Head(pipe).kind \in {"beat", "ready", "crash", "complete"}
  <2>1. pipe \in Seq(Lines) /\ pipe # <<>>
    BY DEF IInv, LineInv, ReadPipe
  <2>2. Head(pipe) \in Lines
    BY <2>1
  <2> QED
    BY <2>2 DEF Lines
<1>2. live' = Learn(Head(pipe)) /\ pipe # <<>> /\ RecordInv
  BY DEF ReadPipe, IInv
<1> QED
  BY <1>1, <1>2 DEF Learn, RecordInv

LEMMA TypeStep == ASSUME IInv, [Next]_vars, Books', emitted' \in 0..MaxBeats PROVE TypeOK'
<1>1. /\ TypeOK /\ MaxBeats \in Nat /\ BatchSize \in Nat \ {0}
  BY Numbers DEF IInv
<1>2. /\ dropped' \in 0..MaxBeats /\ live'.dropped \in 0..MaxBeats
      /\ live'.beats \subseteq Beats /\ BeatsIn(pending') \cup discarded' \subseteq Beats
  BY <1>1, TypesFromBooks
<1>3. Len(<<>>) < BatchSize
  BY <1>1
<1>4. CASE LoadPreload
  BY <1>1, <1>2, <1>3, <1>4 DEF LoadPreload, EmitCritical, Written, TypeOK,
     Alive, procVars, lineVars, hookVars, hostVars
<1>5. CASE Heartbeat
  <2>1. Len(pending') < BatchSize
    <3>1. CASE Full(Append(pending, Line("beat", emitted + 1)))
      BY <1>3, <1>5, <3>1 DEF Heartbeat, Written
    <3>2. CASE ~Full(Append(pending, Line("beat", emitted + 1)))
      <4>1. pending' = Append(pending, Line("beat", emitted + 1)) /\ pending \in Seq(Lines)
        BY <1>5, <3>2 DEF Heartbeat, IInv, LineInv
      <4>2. Len(pending') \in Nat /\ ~(Len(pending') >= BatchSize)
        BY <3>2, <4>1 DEF Full
      <4> QED
        BY <1>1, <4>2
    <3> QED
      BY <3>1, <3>2
  <2>2. UNCHANGED <<procVars, hookVars, hostVars, discarded, live>>
    BY <1>5 DEF Heartbeat
  <2> QED
    BY <1>1, <1>2, <2>1, <2>2 DEF TypeOK, Alive, procVars, hookVars, hostVars
<1>6. CASE FlushTimer
  BY <1>1, <1>2, <1>3, <1>6 DEF FlushTimer, Written, TypeOK, Alive,
     procVars, lineVars, hookVars, hostVars
<1>7. CASE UncaughtException
  BY <1>1, <1>2, <1>3, <1>7 DEF UncaughtException, EmitCritical, Written,
     TypeOK, Alive, procVars, lineVars, hookVars, hostVars
<1>8. CASE Complete
  BY <1>1, <1>2, <1>3, <1>8 DEF Complete, EmitCritical, Written, TypeOK,
     Alive, procVars, lineVars, hookVars, hostVars
<1>9. CASE PrintUrl
  BY <1>1, <1>2, <1>3, <1>9 DEF PrintUrl, TypeOK, Alive, procVars, lineVars,
     hookVars, hostVars
<1>10. CASE StartPause
  <2>1. /\ child = "running" /\ child' = "paused" /\ breakDue' = FALSE
        /\ UNCHANGED <<ended, url, emitted, pending, dropped, failed, discarded,
                       pipe, hooks, threw, completeAt, sig,
                       pc, aborted, cdp, debugger, reported,
                       counted, live>>
    BY <1>1, <1>10 DEF StartPause, procVars, lineVars, hookVars, hostVars
  <2>2. /\ child' \in {"running", "paused", "starting", "held", "crashing", "completed", "dead"}
        /\ (ended' = "none" <=> child' # "dead") /\ breakDue' \in BOOLEAN
    BY <1>1, <1>10, <2>1 DEF StartPause, TypeOK, Alive
  <2> QED
    BY <1>1, <1>2, <2>1, <2>2 DEF TypeOK, Alive
<1>11. CASE Exit
  BY <1>1, <1>2, <1>3, <1>11 DEF Exit, Dies, TypeOK, Alive, procVars,
     lineVars, hookVars, hostVars
<1>12. CASE Killed
  BY <1>1, <1>2, <1>3, <1>12 DEF Killed, Dies, TypeOK, Alive, procVars,
     lineVars, hookVars, hostVars
<1>13. CASE SigKill
  BY <1>1, <1>2, <1>3, <1>13 DEF SigKill, Dies, TypeOK, Alive, procVars,
     lineVars, hookVars, hostVars
<1>14. CASE ReadPipe
  BY <1>1, <1>2, <1>14 DEF ReadPipe, TypeOK, Alive, procVars, hookVars,
     hostVars
<1>15. CASE ExitEvent
  BY <1>1, <1>2, <1>3, <1>15 DEF ExitEvent, TypeOK, Alive, procVars,
     lineVars, hookVars, hostVars
<1>16. CASE Disconnect
  BY <1>1, <1>2, <1>3, <1>16 DEF Disconnect, TypeOK, Alive, procVars,
     lineVars, hookVars, hostVars
<1>17. CASE EnabledLate
  <2>1. /\ debugger' \in [target : BOOLEAN, known : BOOLEAN]
        /\ UNCHANGED <<child, ended, url, breakDue, emitted, pending, dropped,
                       failed, discarded, pipe, hooks,
                       threw, completeAt, sig, pc, aborted,
                       cdp, reported, counted, live>>
    BY <1>1, <1>17 DEF EnabledLate, procVars, lineVars, hookVars, hostVars,
       TypeOK
  <2> QED
    BY <1>1, <1>2, <2>1 DEF TypeOK, Alive
<1>18. CASE UrlSeen
  BY <1>1, <1>2, <1>3, <1>18 DEF UrlSeen, TypeOK, Alive, procVars, lineVars,
     hookVars, hostVars
<1>19. CASE StartupFails
  BY <1>1, <1>2, <1>3, <1>19 DEF StartupFails, TypeOK, Alive, procVars,
     lineVars, hookVars, hostVars
<1>20. CASE KillFallback
  BY <1>1, <1>2, <1>3, <1>20 DEF KillFallback, TypeOK, Alive, procVars,
     lineVars, hookVars, hostVars
<1>21. CASE ConnectCdp
  BY <1>1, <1>2, <1>3, <1>21 DEF ConnectCdp, TypeOK, Alive, procVars,
     lineVars, hookVars, hostVars
<1>22. CASE EnableDebugger
  <2>1. /\ debugger' \in [target : BOOLEAN, known : BOOLEAN]
        /\ UNCHANGED <<child, ended, url, breakDue, emitted, pending, dropped,
                       failed, discarded, pipe, hooks,
                       threw, completeAt, sig, pc, aborted,
                       cdp, reported, counted, live>>
    BY <1>1, <1>22 DEF EnableDebugger, procVars, lineVars, hookVars, hostVars
  <2> QED
    BY <1>1, <1>2, <2>1 DEF TypeOK, Alive
<1>23. CASE Prepared
  BY <1>1, <1>2, <1>3, <1>23 DEF Prepared, TypeOK, Alive, procVars,
     lineVars, hookVars, hostVars
<1>24. CASE Abort
  BY <1>1, <1>2, <1>3, <1>24 DEF Abort, TypeOK, Alive, procVars, lineVars,
     hookVars, hostVars
<1>25. CASE ReleaseRuntime
  BY <1>1, <1>2, <1>3, <1>25 DEF ReleaseRuntime, TypeOK, Alive, procVars,
     lineVars, hookVars, hostVars
<1>26. CASE ResumePaused
  BY <1>1, <1>2, <1>3, <1>26 DEF ResumePaused, TypeOK, Alive, procVars,
     lineVars, hookVars, hostVars
<1>27. CASE GiveUpPause
  BY <1>1, <1>2, <1>3, <1>27 DEF GiveUpPause, TypeOK, Alive, procVars,
     lineVars, hookVars, hostVars
<1>28. CASE StopWaiting
  <2>1. /\ child' = (IF child = "paused" THEN "running" ELSE child)
        /\ breakDue' = FALSE /\ pc' = "collect"
        /\ UNCHANGED <<ended, url, emitted, pending, dropped, failed, discarded,
                       pipe, hooks, threw, completeAt, sig,
                       aborted, cdp, debugger, reported,
                       counted, live>>
    BY <1>1, <1>28 DEF StopWaiting, procVars, lineVars, hookVars, hostVars
  <2>2. /\ child' \in {"running", "paused", "starting", "held", "crashing", "completed", "dead"}
        /\ (ended' = "none" <=> child' # "dead") /\ breakDue' \in BOOLEAN
    BY <1>1, <1>28, <2>1 DEF StopWaiting, TypeOK, Alive
  <2> QED
    BY <1>1, <1>2, <2>1, <2>2 DEF TypeOK, Alive
<1>29. CASE CollectLive
  BY <1>1, <1>2, <1>3, <1>29 DEF CollectLive, Snapshot, TypeOK, Alive,
     procVars, lineVars, hookVars, hostVars
<1>30. CASE ReadIntegrity
  BY <1>1, <1>2, <1>3, <1>30 DEF ReadIntegrity, TypeOK, Alive, procVars,
     lineVars, hookVars, hostVars
<1>31. CASE DisposeAnswered
  BY <1>1, <1>2, <1>3, <1>31 DEF DisposeAnswered, TypeOK, Alive, procVars,
     lineVars, hookVars, hostVars
<1>37. CASE DisposeRejected
  BY <1>1, <1>2, <1>3, <1>37 DEF DisposeRejected, TypeOK, Alive, procVars,
     lineVars, hookVars, hostVars
<1>32. CASE CloseCdp
  BY <1>1, <1>2, <1>3, <1>32 DEF CloseCdp, TypeOK, Alive, procVars,
     lineVars, hookVars, hostVars
<1>33. CASE GraceOver
  BY <1>1, <1>2, <1>3, <1>33 DEF GraceOver, Final, TypeOK, Alive, procVars,
     lineVars, hookVars, hostVars
<1>34. CASE TermOver
  BY <1>1, <1>2, <1>3, <1>34 DEF TermOver, Final, TypeOK, Alive, procVars,
     lineVars, hookVars, hostVars
<1>35. CASE Terminated
  BY <1>1, <1>2, <1>3, <1>35 DEF Terminated, vars, TypeOK, Alive, procVars,
     lineVars, hookVars, hostVars
<1>36. CASE UNCHANGED vars
  BY <1>1, <1>2, <1>3, <1>36 DEF TypeOK, Alive, procVars, lineVars,
     hookVars, hostVars, vars
<1> QED
  BY <1>4, <1>5, <1>6, <1>7, <1>8, <1>9, <1>10, <1>11, <1>12, <1>13, <1>14,
     <1>15, <1>16, <1>17, <1>18, <1>19, <1>20, <1>21, <1>22, <1>23, <1>24,
     <1>25, <1>26, <1>27, <1>28, <1>29, <1>30, <1>31, <1>32, <1>33, <1>34,
     <1>35, <1>36, <1>37 DEF Next, Hooks, Process, Arrival, Connect, Release, Stop

LEMMA ChildStep == ASSUME IInv, [Next]_vars PROVE ChildInv'
<1>1. ChildInv /\ TypeOK /\ RecordInv
  BY DEF IInv
<1>2. CASE LoadPreload
  BY <1>1, <1>2 DEF LoadPreload, EmitCritical, Written, ChildInv, TypeOK,
     RecordInv, Alive, procVars, lineVars, hookVars
<1>3. CASE Heartbeat
  BY <1>1, <1>3 DEF Heartbeat, Written, ChildInv, TypeOK, RecordInv, Alive,
     procVars, lineVars, hookVars
<1>4. CASE FlushTimer
  BY <1>1, <1>4 DEF FlushTimer, Written, ChildInv, TypeOK, RecordInv, Alive,
     procVars, lineVars, hookVars
<1>5. CASE UncaughtException
  BY <1>1, <1>5 DEF UncaughtException, EmitCritical, Written, ChildInv,
     TypeOK, RecordInv, Alive, procVars, lineVars, hookVars
<1>6. CASE Complete
  BY <1>1, <1>6 DEF Complete, EmitCritical, Written, ChildInv, TypeOK,
     RecordInv, Alive, procVars, lineVars, hookVars
<1>7. CASE PrintUrl
  BY <1>1, <1>7 DEF PrintUrl, ChildInv, TypeOK, RecordInv, Alive, procVars,
     lineVars, hookVars
<1>8. CASE StartPause
  BY <1>1, <1>8 DEF StartPause, ChildInv, TypeOK, RecordInv, Alive,
     procVars, lineVars, hookVars
<1>9. CASE Exit
  BY <1>1, <1>9 DEF Exit, Dies, ChildInv, TypeOK, RecordInv, Alive,
     procVars, lineVars, hookVars
<1>10. CASE Killed
  BY <1>1, <1>10 DEF Killed, Dies, ChildInv, TypeOK, RecordInv, Alive,
     procVars, lineVars, hookVars
<1>11. CASE SigKill
  BY <1>1, <1>11 DEF SigKill, Dies, ChildInv, TypeOK, RecordInv, Alive,
     procVars, lineVars, hookVars
<1>12. CASE ReadPipe
  <2>1. live'.exit = live.exit /\ pipe # <<>>
    BY <1>12, LearnKeeps
  <2> QED
    BY <1>1, <2>1, <1>12 DEF ReadPipe, ChildInv, Alive, procVars, hookVars
<1>13. CASE ExitEvent
  BY <1>1, <1>13 DEF ExitEvent, ChildInv, TypeOK, RecordInv, Alive,
     procVars, lineVars, hookVars
<1>14. CASE Disconnect
  BY <1>1, <1>14 DEF Disconnect, ChildInv, TypeOK, RecordInv, Alive,
     procVars, lineVars, hookVars
<1>15. CASE EnabledLate
  BY <1>1, <1>15 DEF EnabledLate, Ended, ChildInv, TypeOK, RecordInv, Alive,
     procVars, lineVars, hookVars
<1>16. CASE UrlSeen
  BY <1>1, <1>16 DEF UrlSeen, ChildInv, TypeOK, RecordInv, Alive, procVars,
     lineVars, hookVars
<1>17. CASE StartupFails
  BY <1>1, <1>17 DEF StartupFails, ChildInv, TypeOK, RecordInv, Alive,
     procVars, lineVars, hookVars
<1>18. CASE KillFallback
  BY <1>1, <1>18 DEF KillFallback, ChildInv, TypeOK, RecordInv, Alive,
     procVars, lineVars, hookVars
<1>19. CASE ConnectCdp
  BY <1>1, <1>19 DEF ConnectCdp, ChildInv, TypeOK, RecordInv, Alive,
     procVars, lineVars, hookVars
<1>20. CASE EnableDebugger
  BY <1>1, <1>20 DEF EnableDebugger, ChildInv, TypeOK, RecordInv, Alive,
     procVars, lineVars, hookVars
<1>21. CASE Prepared
  BY <1>1, <1>21 DEF Prepared, ChildInv, TypeOK, RecordInv, Alive, procVars,
     lineVars, hookVars
<1>22. CASE Abort
  BY <1>1, <1>22 DEF Abort, ChildInv, TypeOK, RecordInv, Alive, procVars,
     lineVars, hookVars
<1>23. CASE ReleaseRuntime
  BY <1>1, <1>23 DEF ReleaseRuntime, ChildInv, TypeOK, RecordInv, Alive,
     procVars, lineVars, hookVars
<1>24. CASE ResumePaused
  BY <1>1, <1>24 DEF ResumePaused, ChildInv, TypeOK, RecordInv, Alive,
     procVars, lineVars, hookVars
<1>25. CASE GiveUpPause
  BY <1>1, <1>25 DEF GiveUpPause, ChildInv, TypeOK, RecordInv, Alive,
     procVars, lineVars, hookVars
<1>26. CASE StopWaiting
  BY <1>1, <1>26 DEF StopWaiting, ChildInv, TypeOK, RecordInv, Alive,
     procVars, lineVars, hookVars
<1>27. CASE CollectLive
  BY <1>1, <1>27 DEF CollectLive, Snapshot, ChildInv, TypeOK, RecordInv,
     Alive, procVars, lineVars, hookVars
<1>28. CASE ReadIntegrity
  BY <1>1, <1>28 DEF ReadIntegrity, ChildInv, TypeOK, RecordInv, Alive,
     procVars, lineVars, hookVars
<1>29. CASE DisposeAnswered
  BY <1>1, <1>29 DEF DisposeAnswered, ChildInv, TypeOK, RecordInv, Alive,
     procVars, lineVars, hookVars
<1>35. CASE DisposeRejected
  BY <1>1, <1>35 DEF DisposeRejected, ChildInv, TypeOK, RecordInv, Alive,
     procVars, lineVars, hookVars
<1>30. CASE CloseCdp
  BY <1>1, <1>30 DEF CloseCdp, ChildInv, TypeOK, RecordInv, Alive, procVars,
     lineVars, hookVars
<1>31. CASE GraceOver
  BY <1>1, <1>31 DEF GraceOver, Final, ChildInv, TypeOK, RecordInv, Alive,
     procVars, lineVars, hookVars
<1>32. CASE TermOver
  BY <1>1, <1>32 DEF TermOver, Final, ChildInv, TypeOK, RecordInv, Alive,
     procVars, lineVars, hookVars
<1>33. CASE Terminated
  BY <1>1, <1>33 DEF Terminated, vars, ChildInv, TypeOK, RecordInv, Alive,
     procVars, lineVars, hookVars
<1>34. CASE UNCHANGED vars
  BY <1>1, <1>34 DEF ChildInv, TypeOK, RecordInv, Alive, procVars, lineVars,
     hookVars, vars
<1> QED
  BY <1>2, <1>3, <1>4, <1>5, <1>6, <1>7, <1>8, <1>9, <1>10, <1>11, <1>12,
     <1>13, <1>14, <1>15, <1>16, <1>17, <1>18, <1>19, <1>20, <1>21, <1>22,
     <1>23, <1>24, <1>25, <1>26, <1>27, <1>28, <1>29, <1>30, <1>31, <1>32,
     <1>33, <1>34, <1>35 DEF Next, Hooks, Process, Arrival, Connect, Release, Stop

LEMMA EndStep == ASSUME IInv, [Next]_vars PROVE EndInv'
<1>1. EndInv /\ ChildInv /\ RecordInv /\ TypeOK
  BY DEF IInv
<1>2. CASE LoadPreload
  BY <1>1, <1>2 DEF LoadPreload, EmitCritical, Written, EndInv,
     NothingLeftRunning, ChildInv, RecordInv, TypeOK, Alive, procVars,
     hostVars
<1>3. CASE Heartbeat
  BY <1>1, <1>3 DEF Heartbeat, Written, EndInv, NothingLeftRunning,
     ChildInv, RecordInv, TypeOK, Alive, procVars, hostVars
<1>4. CASE FlushTimer
  BY <1>1, <1>4 DEF FlushTimer, Written, EndInv, NothingLeftRunning,
     ChildInv, RecordInv, TypeOK, Alive, procVars, hostVars
<1>5. CASE UncaughtException
  BY <1>1, <1>5 DEF UncaughtException, EmitCritical, Written, EndInv,
     NothingLeftRunning, ChildInv, RecordInv, TypeOK, Alive, procVars,
     hostVars
<1>6. CASE Complete
  BY <1>1, <1>6 DEF Complete, EmitCritical, Written, EndInv,
     NothingLeftRunning, ChildInv, RecordInv, TypeOK, Alive, procVars,
     hostVars
<1>7. CASE PrintUrl
  BY <1>1, <1>7 DEF PrintUrl, EndInv, NothingLeftRunning, ChildInv,
     RecordInv, TypeOK, Alive, procVars, hostVars
<1>8. CASE StartPause
  BY <1>1, <1>8 DEF StartPause, EndInv, NothingLeftRunning, ChildInv,
     RecordInv, TypeOK, Alive, procVars, hostVars
<1>9. CASE Exit
  BY <1>1, <1>9 DEF Exit, Dies, EndInv, NothingLeftRunning, ChildInv,
     RecordInv, TypeOK, Alive, procVars, hostVars
<1>10. CASE Killed
  BY <1>1, <1>10 DEF Killed, Dies, EndInv, NothingLeftRunning, ChildInv,
     RecordInv, TypeOK, Alive, procVars, hostVars
<1>11. CASE SigKill
  BY <1>1, <1>11 DEF SigKill, Dies, EndInv, NothingLeftRunning, ChildInv,
     RecordInv, TypeOK, Alive, procVars, hostVars
<1>12. CASE ReadPipe
  <2>1. live'.exit = live.exit /\ pc \notin {"done", "failed"}
    BY <1>12, LearnKeeps DEF ReadPipe, Ended
  <2> QED
    BY <1>1, <2>1, <1>12 DEF ReadPipe, EndInv, NothingLeftRunning, hostVars
<1>13. CASE ExitEvent
  BY <1>1, <1>13 DEF ExitEvent, EndInv, NothingLeftRunning, ChildInv,
     RecordInv, TypeOK, Alive, procVars, hostVars
<1>14. CASE Disconnect
  BY <1>1, <1>14 DEF Disconnect, EndInv, NothingLeftRunning, ChildInv,
     RecordInv, TypeOK, Alive, procVars, hostVars
<1>15. CASE EnabledLate
  BY <1>1, <1>15 DEF EnabledLate, Ended, EndInv, NothingLeftRunning,
     ChildInv, RecordInv, TypeOK, Alive, procVars, hostVars
<1>16. CASE UrlSeen
  BY <1>1, <1>16 DEF UrlSeen, EndInv, NothingLeftRunning, ChildInv,
     RecordInv, TypeOK, Alive, procVars, hostVars
<1>17. CASE StartupFails
  BY <1>1, <1>17 DEF StartupFails, EndInv, NothingLeftRunning, ChildInv,
     RecordInv, TypeOK, Alive, procVars, hostVars
<1>18. CASE KillFallback
  BY <1>1, <1>18 DEF KillFallback, EndInv, NothingLeftRunning, ChildInv,
     RecordInv, TypeOK, Alive, procVars, hostVars
<1>19. CASE ConnectCdp
  BY <1>1, <1>19 DEF ConnectCdp, EndInv, NothingLeftRunning, ChildInv,
     RecordInv, TypeOK, Alive, procVars, hostVars
<1>20. CASE EnableDebugger
  BY <1>1, <1>20 DEF EnableDebugger, EndInv, NothingLeftRunning, ChildInv,
     RecordInv, TypeOK, Alive, procVars, hostVars
<1>21. CASE Prepared
  BY <1>1, <1>21 DEF Prepared, EndInv, NothingLeftRunning, ChildInv,
     RecordInv, TypeOK, Alive, procVars, hostVars
<1>22. CASE Abort
  BY <1>1, <1>22 DEF Abort, EndInv, NothingLeftRunning, ChildInv, RecordInv,
     TypeOK, Alive, procVars, hostVars
<1>23. CASE ReleaseRuntime
  BY <1>1, <1>23 DEF ReleaseRuntime, EndInv, NothingLeftRunning, ChildInv,
     RecordInv, TypeOK, Alive, procVars, hostVars
<1>24. CASE ResumePaused
  BY <1>1, <1>24 DEF ResumePaused, EndInv, NothingLeftRunning, ChildInv,
     RecordInv, TypeOK, Alive, procVars, hostVars
<1>25. CASE GiveUpPause
  BY <1>1, <1>25 DEF GiveUpPause, EndInv, NothingLeftRunning, ChildInv,
     RecordInv, TypeOK, Alive, procVars, hostVars
<1>26. CASE StopWaiting
  BY <1>1, <1>26 DEF StopWaiting, EndInv, NothingLeftRunning, ChildInv,
     RecordInv, TypeOK, Alive, procVars, hostVars
<1>27. CASE CollectLive
  BY <1>1, <1>27 DEF CollectLive, Snapshot, EndInv, NothingLeftRunning,
     ChildInv, RecordInv, TypeOK, Alive, procVars, hostVars
<1>28. CASE ReadIntegrity
  BY <1>1, <1>28 DEF ReadIntegrity, EndInv, NothingLeftRunning, ChildInv,
     RecordInv, TypeOK, Alive, procVars, hostVars
<1>29. CASE DisposeAnswered
  BY <1>1, <1>29 DEF DisposeAnswered, EndInv, NothingLeftRunning, ChildInv,
     RecordInv, TypeOK, Alive, procVars, hostVars
<1>35. CASE DisposeRejected
  BY <1>1, <1>35 DEF DisposeRejected, EndInv, NothingLeftRunning, ChildInv,
     RecordInv, TypeOK, Alive, procVars, hostVars
<1>30. CASE CloseCdp
  BY <1>1, <1>30 DEF CloseCdp, EndInv, NothingLeftRunning, ChildInv,
     RecordInv, TypeOK, Alive, procVars, hostVars
<1>31. CASE GraceOver
  BY <1>1, <1>31 DEF GraceOver, Final, EndInv, NothingLeftRunning, ChildInv,
     RecordInv, TypeOK, Alive, procVars, hostVars
<1>32. CASE TermOver
  BY <1>1, <1>32 DEF TermOver, Final, EndInv, NothingLeftRunning, ChildInv,
     RecordInv, TypeOK, Alive, procVars, hostVars
<1>33. CASE Terminated
  BY <1>1, <1>33 DEF Terminated, vars, EndInv, NothingLeftRunning, ChildInv,
     RecordInv, TypeOK, Alive, procVars, hostVars
<1>34. CASE UNCHANGED vars
  BY <1>1, <1>34 DEF EndInv, NothingLeftRunning, ChildInv, RecordInv,
     TypeOK, Alive, procVars, hostVars, vars
<1> QED
  BY <1>2, <1>3, <1>4, <1>5, <1>6, <1>7, <1>8, <1>9, <1>10, <1>11, <1>12,
     <1>13, <1>14, <1>15, <1>16, <1>17, <1>18, <1>19, <1>20, <1>21, <1>22,
     <1>23, <1>24, <1>25, <1>26, <1>27, <1>28, <1>29, <1>30, <1>31, <1>32,
     <1>33, <1>34, <1>35 DEF Next, Hooks, Process, Arrival, Connect, Release, Stop

------------------------------------------------------------------------------
LEMMA Begin == Init => IInv
<1> SUFFICES ASSUME Init PROVE IInv
  OBVIOUS
<1>1. /\ Waiting = {} /\ Travelling = {} /\ Lost = {} /\ LostBefore = {}
      /\ Distinct(pending) /\ Distinct(pipe) /\ 1..emitted = {}
  BY BeatsOfEmpty DEF Init, Waiting, Travelling, Lost, LostBefore, BeatsOf
<1>2. TypeOK
  <2>1. /\ 0 \in 0..MaxBeats /\ -1 \in -1..MaxBeats /\ Len(<<>>) < BatchSize
    BY SpawnAssumption
  <2>2. BeatsIn(pending) \cup discarded \subseteq Beats
    BY <1>1 DEF Init, Waiting
  <2>3. pending = <<>> /\ debugger = [target |-> FALSE, known |-> FALSE]
    BY DEF Init
  <2>4. ended = "none" /\ child = "starting" /\ live.beats = {} /\ live.dropped = 0
    BY DEF Init
  <2>5. /\ child \in {"starting", "held", "running", "paused", "crashing", "completed", "dead"}
        /\ (ended = "none" <=> Alive) /\ hooks = "absent" /\ threw = "no" /\ sig = "none"
        /\ pc = "url" /\ cdp = "none" /\ aborted = FALSE /\ url = FALSE /\ breakDue = FALSE
    BY DEF Init, Alive
  <2>6. emitted = 0 /\ dropped = 0 /\ completeAt = -1 /\ counted = -1
    BY DEF Init
  <2>7. debugger \in [target : BOOLEAN, known : BOOLEAN]
    BY <2>3
  <2> QED
    BY <2>1, <2>2, <2>3, <2>4, <2>5, <2>6, <2>7 DEF TypeOK
<1>3. RecordInv
  BY SpawnAssumption DEF Init, RecordInv, Nothing
<1>4. LineInv
  BY DEF Init, LineInv
<1>5. BooksInv
  BY <1>1, FS_EmptySet DEF Init, BooksInv
<1>6. OrderInv
  BY <1>1 DEF Init, OrderInv, CrashTold
<1>7. ChildInv
  BY DEF Init, ChildInv
<1>8. EndInv
  BY DEF Init, EndInv, NothingLeftRunning, Nothing
<1> QED
  BY <1>2, <1>3, <1>4, <1>5, <1>6, <1>7, <1>8 DEF IInv

LEMMA Step == IInv /\ [Next]_vars => IInv'
<1> SUFFICES ASSUME IInv, [Next]_vars PROVE IInv'
  OBVIOUS
<1>1. Books'
  BY BooksStep
<1>2. TypeOK'
  BY <1>1, EmittedStep, TypeStep
<1>3. RecordInv' /\ ChildInv' /\ EndInv'
  BY <1>1, RecordStep, ChildStep, EndStep
<1> QED
  BY <1>1, <1>2, <1>3 DEF IInv, Books

LEMMA Always == Spec => []IInv
BY Begin, Step, PTL DEF Spec

------------------------------------------------------------------------------
(* Every variable keeps the values the code can give it: in particular the *)
(* drop counter of the target never exceeds what it emitted, and a batch   *)
(* is written when it is full (framework.ts).                              *)
THEOREM TypeCorrect == Spec => []TypeOK
<1>1. IInv => TypeOK
  BY DEF IInv
<1> QED
  BY <1>1, Always, PTL

(* When the completion is read, every heartbeat emitted before it has been *)
(* read, was thrown away by dispose, or is in the counter the record       *)
(* carried, for any number of heartbeats and any batch (framework.ts:299). *)
THEOREM CompletionComesLast == Spec => []CompletionIsLast
<1>1. ASSUME IInv PROVE CompletionIsLast
  <2>1. SUFFICES ASSUME live.complete
                 PROVE  Cardinality((1..completeAt) \ (live.beats \cup discarded)) = live.dropped
    BY DEF CompletionIsLast
  <2>2. /\ completeAt \in Nat \cup {-1} /\ emitted \in Nat /\ completeAt <= emitted
        /\ live.dropped = Cardinality(LostBefore)
    BY <1>1, <2>1, Numbers DEF IInv, OrderInv
  <2>3. \A n \in Waiting \cup Travelling : n > completeAt
    <3>1. \A n \in Travelling : \E i \in DOMAIN pipe : pipe[i].kind = "beat" /\ pipe[i].n = n
      BY BeatIn DEF Travelling
    <3> QED
      BY <1>1, <2>1, <3>1 DEF IInv, OrderInv, Later
  <2>4. 1..completeAt \subseteq 1..emitted
    BY <2>2
  <2>5. (1..completeAt) \ (live.beats \cup discarded) = LostBefore
    BY <1>1, <2>2, <2>3, <2>4 DEF IInv, BooksInv, LostBefore
  <2> QED
    BY <2>2, <2>5
<1> QED
  BY <1>1, Always, PTL

(* When the profiler is done with a connected child, the child is dead,    *)
(* killed or known to have completed (terminate.ts:8-36).                  *)
THEOREM NothingIsLeft == Spec => []NothingLeftRunning
<1>1. IInv => NothingLeftRunning
  BY DEF IInv, EndInv
<1> QED
  BY <1>1, Always, PTL

(* The bundle of a capture that was not aborted tells the exit, and the    *)
(* crash whenever the completion was read (coordinator.ts:187-203): the    *)
(* line of a crash before the completion is ahead of it in the pipe.  A    *)
(* later crash is told, its write threw, or its line is still unread.      *)
THEOREM EndReported == Spec => []EndIsReported
<1>1. ASSUME IInv PROVE EndIsReported
  <2>1. SUFFICES ASSUME pc = "done", ~aborted
                 PROVE  /\ reported.exit = live.exit
                        /\ live.complete /\ threw \in {"fatal", "late"} =>
                             \/ reported.crash \/ Crash \in failed
                             \/ threw = "late" /\ Crash \in LinesOf(pipe)
    BY DEF EndIsReported, Crash
  <2>2. reported.exit = live.exit /\ (live.crash => reported.crash)
    BY <1>1, <2>1 DEF IInv, EndInv
  <2>3. live.complete /\ threw = "fatal" => live.crash \/ Crash \in failed
    BY <1>1 DEF IInv, OrderInv, CrashTold
  <2>4. threw = "late" => live.crash \/ Crash \in failed \/ Crash \in LinesOf(pipe)
    BY <1>1 DEF IInv, OrderInv, CrashTold, LinesOf
  <2> QED
    BY <2>2, <2>3, <2>4
<1> QED
  BY <1>1, Always, PTL
=============================================================================
