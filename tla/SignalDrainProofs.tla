-------------------------- MODULE SignalDrainProofs --------------------------
(***************************************************************************)
(* Proofs about SignalDrain, for every cap, chunk and number of samples    *)
(* and calls.  IInv relates the progress of the calls to the phase, says   *)
(* where the samples that left the buffer are, keeps the final read apart  *)
(* from what the drains took, and says what a capture without timeouts     *)
(* has collected.                                                          *)
(***************************************************************************)
EXTENDS SignalDrain, FiniteSetTheorems, TLAPS

(* The calls whose answers InFlight collects. *)
Answered == {n \in Calls : status[n] = "answered" /\ ~IsRead(n)}

(* Calls run and settle in order, one is awaited, none after the read.     *)
CallInv ==
  /\ \A n \in Calls : status[n] = "unsent" <=> n > sent
  /\ \A m, n \in Calls : m < n /\ status[m] = "queued" => status[n] \in {"queued", "unsent"}
  /\ awaiting <= sent
  /\ phase \in {"wait", "stopping"} => sent < MaxCalls
  /\ phase = "reading" => awaiting = sent /\ sent > 0
  /\ phase = "done" => awaiting = 0
  /\ ~open => awaiting = 0 /\ \A n \in Calls : status[n] \in {"unsent", "settled"}

(* What left the buffer is in one of four places. *)
BookInv ==
  /\ 1..base = InFlight \cup held \cup evicted \cup lost
  /\ InFlight \cap held = {} /\ InFlight \cap evicted = {} /\ InFlight \cap lost = {}
  /\ held \cap evicted = {} /\ held \cap lost = {} /\ evicted \cap lost = {}
  /\ \A m, n \in Answered : m # n => data[m] \cap data[n] = {}

(* The cap and its counter. *)
CapInv ==
  /\ produced - base <= Cap
  /\ dropped = Cardinality(evicted)

(* The final read took nothing a drain has. *)
ReadInv ==
  /\ \A n \in Calls : IsRead(n) /\ status[n] = "answered" =>
       data[n] \cap (held \cup InFlight) = {}
  /\ phase # "done" => final = {}
  /\ held \cap final = {}

(* What the read holds, when no cut came after it: the beginning of the    *)
(* buffer, up to what was produced when it was sent.                       *)
Beginning(taken) ==
  /\ taken \subseteq Buffer
  /\ \A s \in taken : (base + 1)..s \subseteq taken
  /\ \A s \in Buffer : bornIn[s] < sent => s \in taken

(* A capture that recorded no timeout awaits every call until it settles.  *)
QuietInv ==
  open /\ timeouts = {} =>
    /\ lost = {}
    /\ \A n \in Calls : status[n] \in {"queued", "answered"} => n = awaiting
    /\ phase = "done" /\ dropped = 0 => Beginning(final)
    /\ phase = "reading" /\ status[sent] = "answered" /\ dropped = 0 => Beginning(data[sent])

IInv == TypeOK /\ CallInv /\ BookInv /\ CapInv /\ ReadInv /\ QuietInv

------------------------------------------------------------------------------
(* Membership in InFlight, without the union. *)
LEMMA InFlightMembers ==
  \A s : s \in InFlight <=> \E n \in Answered : s \in data[n]
BY DEF InFlight, Answered

LEMMA InitHolds == Init => IInv
<1> SUFFICES ASSUME Init PROVE IInv
  OBVIOUS
<1> USE BufferAssumption DEF BufferAssumption, Init
<1>1. TypeOK
  BY DEF TypeOK, Samples, Calls, Phases, Statuses
<1>2. CallInv
  BY DEF CallInv, Calls
<1>3. InFlight = {} /\ Answered = {}
  BY DEF InFlight, Answered
<1>4. BookInv
  <2>1. 1..base = {}
    OBVIOUS
  <2> QED BY <1>3, <2>1 DEF BookInv
<1>5. CapInv
  BY FS_EmptySet DEF CapInv
<1>6. ReadInv
  BY DEF ReadInv, IsRead
<1>7. QuietInv
  BY DEF QuietInv, Calls
<1> QED BY <1>1, <1>2, <1>4, <1>5, <1>6, <1>7 DEF IInv

(* Types.                                                                  *)
LEMMA TypeStep == TypeOK /\ CallInv /\ CapInv /\ [Next]_vars => TypeOK'
<1> SUFFICES ASSUME TypeOK, CallInv, CapInv, [Next]_vars PROVE TypeOK'
  OBVIOUS
<1> USE BufferAssumption DEF BufferAssumption, TypeOK, Phases, Statuses
<1>0. \A t \in Nat : t + 1 <= MaxCalls => t + 1 \in Calls
  BY DEF Calls
<1>1. CASE Produce
  <2>1. produced' \in 0..MaxSamples /\ base' \in 0..produced'
    BY <1>1 DEF Produce
  <2>2. \A s \in (base + 1)..(base + Chunk) : produced - base >= Cap => s \in Samples
    BY DEF Samples
  <2>3. evicted' \in SUBSET Samples
    BY <1>1, <2>2 DEF Produce
  <2>4. dropped' \in Nat
    BY <1>1 DEF Produce
  <2>5. bornIn' \in [Samples -> 0..MaxCalls]
    BY <1>1 DEF Produce, Samples
  <2> QED BY <1>1, <2>1, <2>3, <2>4, <2>5 DEF Produce, callVars, hostVars
<1>2. CASE Disconnect
  <2>1. status' \in [Calls -> {"unsent", "queued", "answered", "settled"}]
    BY <1>2 DEF Disconnect
  <2>2. \A n \in Calls : data[n] \subseteq Samples
    OBVIOUS
  <2>3. lost' \subseteq Samples
    BY <1>2, <2>2 DEF Disconnect
  <2>4. /\ reader' = reader /\ produced' = produced /\ base' = base /\ evicted' = evicted
        /\ dropped' = dropped /\ bornIn' = bornIn /\ sent' = sent /\ data' = data
        /\ held' = held /\ final' = final /\ timeouts' = timeouts
        /\ open' \in BOOLEAN
    BY <1>2 DEF Disconnect, targetVars
  <2>5. awaiting' \in 0..MaxCalls /\ phase' \in {"wait", "stopping", "reading", "done"}
    BY <1>2 DEF Disconnect
  <2> QED BY <2>1, <2>3, <2>4, <2>5
<1>3. CASE Tick
  <2>1. sent + 1 \in Calls
    BY <1>0, <1>3 DEF Tick
  <2>2. sent' \in 0..MaxCalls /\ awaiting' \in 0..MaxCalls
    BY <1>3 DEF Tick, Send
  <2>3. status' \in [Calls -> {"unsent", "queued", "answered", "settled"}]
    BY <1>3, <2>1 DEF Tick, Send
  <2> QED BY <1>3, <2>2, <2>3 DEF Tick, Send, targetVars
<1>4. CASE StopTicking
  BY <1>4 DEF StopTicking, targetVars, callVars
<1>5. CASE FinalRead
  <2>1. sent < MaxCalls
    BY <1>5 DEF FinalRead, CallInv
  <2> QED BY <1>0, <1>5, <2>1 DEF FinalRead, Send, targetVars, callVars
<1>6. CASE Timeout
  <2>1. timeouts' \in SUBSET {"drain", "read"}
    BY <1>6 DEF Timeout
  <2>2. held' \in SUBSET Samples /\ lost' \in SUBSET Samples
    BY <1>6 DEF Timeout
  <2> QED BY <1>6, <2>1, <2>2 DEF Timeout, targetVars, callVars
<1>7. ASSUME NEW n \in Calls, Execute(n) PROVE TypeOK'
  <2>1. Buffer \in SUBSET Samples
    BY DEF Buffer, Samples
  <2> QED BY <1>7, <2>1 DEF Execute, hostVars
<1>8. ASSUME NEW n \in Calls, Receive(n) PROVE TypeOK'
  <2>1. data[n] \subseteq Samples
    OBVIOUS
  <2>2. held' \in SUBSET Samples /\ lost' \in SUBSET Samples /\ final' \in SUBSET Samples
    BY <1>8, <2>1 DEF Receive
  <2> QED BY <1>8, <2>2 DEF Receive, targetVars
<1>9. CASE UNCHANGED vars
  BY <1>9 DEF vars, targetVars, callVars, hostVars
<1> QED BY <1>1, <1>2, <1>3, <1>4, <1>5, <1>6, <1>7, <1>8, <1>9 DEF Next, Host, Terminated

LEMMA CallStep == TypeOK /\ CallInv /\ [Next]_vars => CallInv'
<1> SUFFICES ASSUME TypeOK, CallInv, [Next]_vars PROVE CallInv'
  OBVIOUS
<1> USE BufferAssumption DEF BufferAssumption, TypeOK, CallInv, Calls, Phases, Statuses
<1>1. CASE Produce
  BY <1>1 DEF Produce, callVars, hostVars
<1>2. CASE Disconnect
  BY <1>2 DEF Disconnect
<1>3. CASE Tick
  BY <1>3 DEF Tick, Send
<1>4. CASE StopTicking
  BY <1>4 DEF StopTicking, callVars
<1>5. CASE FinalRead
  BY <1>5 DEF FinalRead, Send, callVars
<1>6. CASE Timeout
  BY <1>6 DEF Timeout, callVars
<1>7. ASSUME NEW n \in Calls, Execute(n) PROVE CallInv'
  BY <1>7 DEF Execute, FirstOf, hostVars
<1>8. ASSUME NEW n \in Calls, Receive(n) PROVE CallInv'
  BY <1>8 DEF Receive, FirstOf, IsRead
<1>9. CASE UNCHANGED vars
  BY <1>9 DEF vars, callVars, hostVars
<1> QED BY <1>1, <1>2, <1>3, <1>4, <1>5, <1>6, <1>7, <1>8, <1>9 DEF Next, Host, Terminated

(* The cut takes Chunk samples that had not been cut before.               *)
LEMMA CapStep == TypeOK /\ BookInv /\ CapInv /\ [Next]_vars => CapInv'
<1> SUFFICES ASSUME TypeOK, BookInv, CapInv, [Next]_vars PROVE CapInv'
  OBVIOUS
<1> USE BufferAssumption DEF BufferAssumption, TypeOK, CapInv, Samples
<1>1. CASE Produce
  <2>1. CASE produced - base >= Cap
    <3> DEFINE cut == (base + 1)..(base + Chunk)
    <3>1. evicted \subseteq 1..base
      BY DEF BookInv
    <3>2. IsFiniteSet(evicted) /\ IsFiniteSet(1..base)
      <4>1. 1 \in Int /\ base \in Int
        OBVIOUS
      <4>2. IsFiniteSet(1..base)
        BY <4>1, FS_Interval
      <4> QED BY <3>1, <4>2, FS_Subset
    <3>3. IsFiniteSet(cut) /\ Cardinality(cut) = Chunk
      <4>1. base + 1 \in Int /\ base + Chunk \in Int
        OBVIOUS
      <4>2. IsFiniteSet(cut)
        BY <4>1, FS_Interval
      <4>3. Cardinality(cut) = IF base + 1 > base + Chunk THEN 0
                               ELSE (base + Chunk) - (base + 1) + 1
        BY <4>1, FS_Interval
      <4> QED BY <4>2, <4>3
    <3>4. evicted \cap cut = {}
      BY <3>1
    <3>5. Cardinality(evicted \cup cut) = Cardinality(evicted) + Chunk
      <4>1. Cardinality(evicted \cup cut)
              = Cardinality(evicted) + Cardinality(cut) - Cardinality(evicted \cap cut)
        BY <3>2, <3>3, FS_Union
      <4>2. Cardinality(evicted \cap cut) = 0
        BY <3>4, FS_EmptySet
      <4> QED BY <4>1, <4>2, <3>2, <3>3, FS_CardinalityType
    <3>6. evicted' = evicted \cup cut /\ dropped' = dropped + Chunk
      BY <1>1, <2>1 DEF Produce
    <3>7. produced' - base' <= Cap
      BY <1>1, <2>1 DEF Produce
    <3> QED BY <3>5, <3>6, <3>7
  <2>2. CASE ~(produced - base >= Cap)
    BY <1>1, <2>2 DEF Produce
  <2> QED BY <2>1, <2>2
<1>2. CASE Disconnect
  BY <1>2 DEF Disconnect, targetVars
<1>3. CASE Tick
  BY <1>3 DEF Tick, targetVars
<1>4. CASE StopTicking
  BY <1>4 DEF StopTicking, targetVars
<1>5. CASE FinalRead
  BY <1>5 DEF FinalRead, targetVars
<1>6. CASE Timeout
  BY <1>6 DEF Timeout, targetVars
<1>7. ASSUME NEW n \in Calls, Execute(n) PROVE CapInv'
  BY <1>7 DEF Execute
<1>8. ASSUME NEW n \in Calls, Receive(n) PROVE CapInv'
  BY <1>8 DEF Receive, targetVars
<1>9. CASE UNCHANGED vars
  BY <1>9 DEF vars, targetVars
<1> QED BY <1>1, <1>2, <1>3, <1>4, <1>5, <1>6, <1>7, <1>8, <1>9 DEF Next, Host, Terminated

(* The drained samples move with the answers that carry them.              *)
LEMMA BookStep == TypeOK /\ CallInv /\ BookInv /\ [Next]_vars => BookInv'
<1> SUFFICES ASSUME TypeOK, CallInv, BookInv, [Next]_vars PROVE BookInv'
  OBVIOUS
<1> USE BufferAssumption DEF BufferAssumption
<1>0. \A s : s \in InFlight' <=> \E n \in Answered' : s \in data'[n]
  BY DEF InFlight, Answered
<1>a. ASSUME Answered' = Answered, data' = data PROVE InFlight' = InFlight
  BY <1>0, <1>a, InFlightMembers
<1>b. base \in Nat /\ produced \in Nat /\ base <= produced /\ sent \in 0..MaxCalls
  BY DEF TypeOK
<1>c. ASSUME Answered' = Answered, data' = data,
             UNCHANGED <<base, evicted, held, lost>>
      PROVE  BookInv'
  BY <1>a, <1>c DEF BookInv
<1>1. CASE Produce
  <2>1. Answered' = Answered /\ data' = data /\ held' = held /\ lost' = lost
    BY <1>1 DEF Produce, Answered, IsRead, callVars, hostVars
  <2>2. InFlight' = InFlight
    BY <2>1, <1>a
  <2>3. CASE produced - base >= Cap
    <3> DEFINE cut == (base + 1)..(base + Chunk)
    <3>1. base' = base + Chunk /\ evicted' = evicted \cup cut
      BY <1>1, <2>3 DEF Produce
    <3>2. 1..base' = (1..base) \cup cut /\ (1..base) \cap cut = {}
      BY <1>b, <3>1
    <3> HIDE DEF cut
    <3> QED BY <2>1, <2>2, <3>1, <3>2 DEF BookInv
  <2>4. CASE ~(produced - base >= Cap)
    BY <1>1, <1>c, <2>1, <2>4 DEF Produce
  <2> QED BY <2>3, <2>4
<1>2. CASE Disconnect
  <2>1. Answered' = {}
    BY <1>2 DEF Disconnect, Answered
  <2>2. InFlight' = {}
    BY <1>0, <2>1
  <2>3. lost' = lost \cup InFlight /\ UNCHANGED <<base, evicted, held, data>>
    BY <1>2 DEF Disconnect, InFlight, targetVars
  <2> QED BY <2>1, <2>2, <2>3 DEF BookInv
<1>3. CASE Tick
  <2>1. Answered' = Answered
    BY <1>3, <1>b DEF Tick, Send, Answered, IsRead, TypeOK, CallInv, Calls
  <2> QED BY <1>3, <1>c, <2>1 DEF Tick, Send, targetVars
<1>4. CASE StopTicking
  <2>1. Answered' = Answered
    BY <1>4 DEF StopTicking, Answered, IsRead, callVars
  <2> QED BY <1>4, <1>c, <2>1 DEF StopTicking, targetVars, callVars
<1>5. CASE FinalRead
  <2>1. CASE open
    <3>1. Answered' = Answered
      BY <1>5, <1>b, <2>1 DEF FinalRead, Send, Answered, IsRead, TypeOK, CallInv, Calls
    <3> QED BY <1>5, <1>c, <2>1, <3>1 DEF FinalRead, Send, targetVars
  <2>2. CASE ~open
    <3>1. Answered = {} /\ Answered' = {}
      BY <1>5, <2>2 DEF FinalRead, Answered, CallInv, callVars
    <3> QED BY <1>5, <1>c, <2>2, <3>1 DEF FinalRead, targetVars, callVars
  <2> QED BY <2>1, <2>2
<1>6. CASE Timeout
  <2>1. Answered' = Answered /\ data' = data /\ UNCHANGED <<base, evicted>>
    BY <1>6 DEF Timeout, Answered, IsRead, callVars, targetVars
  <2>2. InFlight' = InFlight
    BY <2>1, <1>a
  <2>3. \/ UNCHANGED <<held, lost>>
        \/ held' = {} /\ lost' = lost \cup held
    BY <1>6 DEF Timeout
  <2> QED BY <2>1, <2>2, <2>3 DEF BookInv
<1>7. ASSUME NEW n \in Calls, Execute(n) PROVE BookInv'
  <2>0. status[n] = "queued" /\ UNCHANGED <<evicted, held, lost, sent, phase, produced>>
    BY <1>7 DEF Execute, FirstOf, hostVars
  <2>1. \A m : IsRead(m)' <=> IsRead(m)
    BY <2>0 DEF IsRead
  <2>2. \A m \in Answered : data'[m] = data[m] /\ m # n
    BY <1>7, <2>0 DEF Execute, Answered, TypeOK
  <2>3. CASE IsRead(n)
    <3>1. Answered' = Answered /\ base' = base
      BY <1>7, <2>0, <2>1, <2>3 DEF Execute, Answered, TypeOK
    <3>2. InFlight' = InFlight
      <4>1. \A s : (\E m \in Answered' : s \in data'[m]) <=> \E m \in Answered : s \in data[m]
        BY <2>2, <3>1
      <4>2. \A s : s \in InFlight' <=> s \in InFlight
        BY <1>0, <4>1, InFlightMembers
      <4> QED BY <4>2 DEF InFlight
    <3>3. \A k, m \in Answered : k # m => data[k] \cap data[m] = {}
      BY DEF BookInv
    <3>4. \A k, m \in Answered' : k # m => data'[k] \cap data'[m] = {}
      BY <2>2, <3>1, <3>3
    <3> QED BY <2>0, <3>1, <3>2, <3>4 DEF BookInv
  <2>4. CASE ~IsRead(n)
    <3>1. Answered' = Answered \cup {n} /\ base' = produced /\ data'[n] = Buffer
      BY <1>7, <2>0, <2>1, <2>4 DEF Execute, Answered, TypeOK
    <3>2. InFlight' = InFlight \cup Buffer
      BY <1>0, <2>2, <3>1, InFlightMembers
    <3>3. 1..produced = (1..base) \cup Buffer /\ (1..base) \cap Buffer = {}
      BY <1>b DEF Buffer
    <3>4. 1..base' = (1..base) \cup Buffer
      BY <3>1, <3>3
    <3>5. \A m \in Answered : data[m] \cap Buffer = {}
      BY <3>3, InFlightMembers DEF BookInv
    <3>6. \A k, m \in Answered' : k # m => data'[k] \cap data'[m] = {}
      BY <2>2, <3>1, <3>5 DEF BookInv
    <3> QED BY <2>0, <3>2, <3>3, <3>4, <3>6 DEF BookInv
  <2> QED BY <2>3, <2>4
<1>8. ASSUME NEW n \in Calls, Receive(n) PROVE BookInv'
  <2>0. status[n] = "answered" /\ UNCHANGED <<base, evicted, sent, data>>
    BY <1>8 DEF Receive, targetVars
  <2>1. CASE IsRead(n)
    <3>1. Answered' = Answered /\ UNCHANGED <<held, lost>>
      BY <1>8, <2>0, <2>1 DEF Receive, Answered, IsRead, TypeOK
    <3> QED BY <1>c, <2>0, <3>1
  <2>2. CASE ~IsRead(n)
    <3>1. phase' = phase
      BY <1>8, <2>2 DEF Receive
    <3>2. n \in Answered /\ Answered' = Answered \ {n}
      BY <1>8, <2>0, <2>2, <3>1 DEF Receive, Answered, IsRead, TypeOK
    <3>3. data[n] \subseteq InFlight
      BY <3>2, InFlightMembers
    <3>4. InFlight' = InFlight \ data[n]
      BY <1>0, <2>0, <3>2, InFlightMembers DEF BookInv
    <3>5. \/ held' = held \cup data[n] /\ lost' = lost
          \/ lost' = lost \cup data[n] /\ held' = held
      BY <1>8, <2>2 DEF Receive
    <3> QED BY <2>0, <3>2, <3>3, <3>4, <3>5 DEF BookInv
  <2> QED BY <2>1, <2>2
<1>9. CASE UNCHANGED vars
  <2>1. Answered' = Answered
    BY <1>9 DEF vars, Answered, IsRead, callVars, hostVars
  <2> QED BY <1>9, <1>c, <2>1 DEF vars, targetVars, callVars, hostVars
<1> QED BY <1>1, <1>2, <1>3, <1>4, <1>5, <1>6, <1>7, <1>8, <1>9 DEF Next, Host, Terminated

(* The read copies what no drain had taken, and runs after every drain.    *)
LEMMA ReadStep == TypeOK /\ CallInv /\ BookInv /\ ReadInv /\ [Next]_vars => ReadInv'
<1> SUFFICES ASSUME TypeOK, CallInv, BookInv, ReadInv, [Next]_vars PROVE ReadInv'
  OBVIOUS
<1> USE BufferAssumption DEF BufferAssumption
<1>0. \A s : s \in InFlight' <=> \E n \in Answered' : s \in data'[n]
  BY DEF InFlight, Answered
<1>a. ASSUME Answered' = Answered, data' = data PROVE InFlight' = InFlight
  BY <1>0, <1>a, InFlightMembers
<1>b. (held \cup InFlight) \cap Buffer = {}
  BY DEF TypeOK, BookInv, Buffer
<1>1. CASE Produce
  <2>1. Answered' = Answered /\ data' = data
    BY <1>1 DEF Produce, Answered, IsRead, callVars, hostVars
  <2> QED BY <1>1, <1>a, <2>1 DEF Produce, ReadInv, IsRead, callVars, hostVars
<1>2. CASE Disconnect
  BY <1>2 DEF Disconnect, ReadInv
<1>3. CASE Tick
  BY <1>3 DEF Tick, ReadInv, IsRead
<1>4. CASE StopTicking
  BY <1>4 DEF StopTicking, ReadInv, IsRead
<1>5. CASE FinalRead
  BY <1>5 DEF FinalRead, Send, ReadInv, IsRead, CallInv, TypeOK, callVars
<1>6. CASE Timeout
  <2>1. Answered' = Answered /\ data' = data
    BY <1>6 DEF Timeout, Answered, IsRead, callVars
  <2>2. InFlight' = InFlight
    BY <1>a, <2>1
  <2>3. held' \subseteq held /\ final' = final /\ status' = status
    BY <1>6 DEF Timeout, callVars
  <2>4. \A n : IsRead(n)' => IsRead(n)
    BY <1>6 DEF Timeout, IsRead, callVars
  <2>5. phase' # "done" => phase # "done"
    BY <1>6 DEF Timeout
  <2> QED BY <2>1, <2>2, <2>3, <2>4, <2>5 DEF ReadInv
<1>7. ASSUME NEW n \in Calls, Execute(n) PROVE ReadInv'
  <2>0. status[n] = "queued" /\ UNCHANGED <<held, final, sent, phase>>
    BY <1>7 DEF Execute, FirstOf, hostVars
  <2>1. \A m : IsRead(m)' <=> IsRead(m)
    BY <2>0 DEF IsRead
  <2>2. \A m \in Calls : m # n => data'[m] = data[m] /\ status'[m] = status[m]
    BY <1>7 DEF Execute, TypeOK
  <2>3. CASE IsRead(n)
    <3>1. Answered' = Answered /\ n \notin Answered /\ data'[n] = Buffer
      BY <1>7, <2>0, <2>1, <2>3 DEF Execute, Answered, TypeOK
    <3>2. InFlight' = InFlight
      BY <1>0, <2>2, <3>1, InFlightMembers DEF Answered
    <3>3. \A m \in Calls : IsRead(m) => m = n
      BY <2>3 DEF IsRead
    <3> QED BY <1>b, <2>0, <2>1, <3>1, <3>2, <3>3 DEF ReadInv
  <2>4. CASE ~IsRead(n)
    <3>1. \A m \in Calls : IsRead(m) => n < m
      BY <2>0, <2>4 DEF IsRead, CallInv, TypeOK, Calls
    <3>2. \A m \in Calls : IsRead(m) => m # n /\ status[m] # "answered"
      BY <2>0, <2>4, <3>1 DEF CallInv
    <3> QED BY <2>0, <2>1, <2>2, <3>2 DEF ReadInv
  <2> QED BY <2>3, <2>4
<1>8. ASSUME NEW n \in Calls, Receive(n) PROVE ReadInv'
  <2>0. /\ status[n] = "answered" /\ UNCHANGED <<sent, data>>
        /\ status' = [status EXCEPT ![n] = "settled"]
    BY <1>8 DEF Receive
  <2>1. CASE IsRead(n)
    <3>1. \A m \in Calls : IsRead(m)' => m = n
      BY <2>0, <2>1 DEF IsRead
    <3>2. status'[n] = "settled"
      BY <2>0 DEF TypeOK
    <3>3. held' = held /\ final' \in {data[n], final} /\ data[n] \cap held = {}
      BY <1>8, <2>0, <2>1 DEF Receive, ReadInv
    <3>4. phase' # "done" => phase # "done" /\ final' = final
      BY <1>8, <2>1 DEF Receive
    <3> QED BY <3>1, <3>2, <3>3, <3>4 DEF ReadInv
  <2>2. CASE ~IsRead(n)
    <3>1. phase' = phase /\ final' = final
      BY <1>8, <2>2 DEF Receive
    <3>2. n \in Answered /\ Answered' = Answered \ {n}
      BY <2>0, <2>2, <3>1 DEF Answered, IsRead, TypeOK
    <3>3. data[n] \subseteq InFlight /\ InFlight' \subseteq InFlight
      BY <1>0, <2>0, <3>2, InFlightMembers
    <3>4. held' \subseteq held \cup data[n] /\ (phase = "done" => held' = held)
      BY <1>8, <2>2 DEF Receive, CallInv, Calls
    <3>5. \A m \in Calls : IsRead(m)' /\ status'[m] = "answered" =>
            IsRead(m) /\ status[m] = "answered"
      BY <2>0, <3>1 DEF IsRead, TypeOK
    <3>6. held' \cap final' = {}
      BY <3>1, <3>4 DEF ReadInv
    <3> QED BY <2>0, <3>1, <3>3, <3>4, <3>5, <3>6 DEF ReadInv
  <2> QED BY <2>1, <2>2
<1>9. CASE UNCHANGED vars
  <2>1. Answered' = Answered /\ data' = data
    BY <1>9 DEF vars, Answered, IsRead, callVars, hostVars
  <2> QED BY <1>9, <1>a, <2>1 DEF vars, ReadInv, IsRead, callVars, hostVars
<1> QED BY <1>1, <1>2, <1>3, <1>4, <1>5, <1>6, <1>7, <1>8, <1>9 DEF Next, Host, Terminated

(* Without a timeout, a call is awaited from its sending to its answer.    *)
LEMMA QuietStep == TypeOK /\ CallInv /\ QuietInv /\ [Next]_vars => QuietInv'
<1> SUFFICES ASSUME TypeOK, CallInv, QuietInv, [Next]_vars, open', timeouts' = {}
             PROVE  QuietInv'
  BY DEF QuietInv
<1> USE BufferAssumption DEF BufferAssumption
<1>a. open /\ timeouts = {}
  <2>1. \A n \in Calls : Execute(n) \/ Receive(n) => open' = open /\ timeouts' = timeouts
    BY DEF Execute, Receive, hostVars
  <2>2. Produce \/ Tick \/ StopTicking \/ UNCHANGED vars => open' = open /\ timeouts' = timeouts
    BY DEF Produce, Tick, Send, StopTicking, vars, callVars, hostVars
  <2>3. FinalRead \/ Timeout => open' = open /\ (timeouts' = {} => timeouts = {})
    BY DEF FinalRead, Send, Timeout, callVars
  <2>4. ~Disconnect
    BY DEF Disconnect
  <2> QED BY <2>1, <2>2, <2>3, <2>4 DEF Next, Host, Terminated
<1>b. /\ lost = {}
      /\ \A n \in Calls : status[n] \in {"queued", "answered"} => n = awaiting
      /\ phase = "done" /\ dropped = 0 => Beginning(final)
      /\ phase = "reading" /\ status[sent] = "answered" /\ dropped = 0 => Beginning(data[sent])
  BY <1>a DEF QuietInv
<1>c. /\ produced \in Nat /\ base \in Nat /\ sent \in Nat /\ dropped \in Nat
      /\ base <= produced
      /\ \A s \in Buffer : s \in Samples
  BY DEF TypeOK, Buffer, Samples
<1>1. CASE Produce
  <2>1. UNCHANGED <<lost, status, data, sent, awaiting, phase, final>>
    BY <1>1 DEF Produce, callVars, hostVars
  <2>2. ASSUME dropped' = 0, NEW taken, Beginning(taken) PROVE Beginning(taken)'
    <3>1. dropped = 0 /\ base' = base
      BY <1>1, <1>c, <2>2 DEF Produce
    <3>2. Buffer' = Buffer \cup {produced + 1}
      BY <1>1, <1>c, <3>1 DEF Produce, Buffer
    <3>3. bornIn'[produced + 1] = sent
      BY <1>1, <1>c DEF Produce, TypeOK, Samples
    <3>4. \A s \in Buffer : bornIn'[s] = bornIn[s]
      BY <1>1, <1>c DEF Produce, TypeOK, Samples, Buffer
    <3>5. \A s \in Buffer' : bornIn'[s] < sent => s \in taken
      BY <1>c, <2>2, <3>2, <3>3, <3>4 DEF Beginning
    <3> QED BY <2>1, <2>2, <3>1, <3>2, <3>5 DEF Beginning
  <2>3. dropped' = 0 => dropped = 0
    BY <1>1, <1>c DEF Produce
  <2>4. phase' = "done" /\ dropped' = 0 => Beginning(final)'
    BY <1>b, <2>1, <2>2, <2>3
  <2> QED BY <1>b, <2>1, <2>2, <2>3 DEF QuietInv
<1>3. CASE Tick
  <2>1. sent + 1 \in Calls /\ sent' = sent + 1 /\ awaiting' = sent + 1
    BY <1>3, <1>c DEF Tick, Send, Calls
  <2>2. status' = [status EXCEPT ![sent + 1] = "queued"]
    BY <1>3 DEF Tick, Send
  <2>3. awaiting = 0 /\ phase' = "wait" /\ lost' = lost
    BY <1>3 DEF Tick
  <2>4. \A n \in Calls : status'[n] \in {"queued", "answered"} => n = awaiting'
    BY <1>b, <2>1, <2>2, <2>3 DEF TypeOK, Calls
  <2> QED BY <1>b, <2>3, <2>4 DEF QuietInv
<1>4. CASE StopTicking
  BY <1>4, <1>b DEF StopTicking, QuietInv, callVars
<1>5. CASE FinalRead
  <2>1. sent + 1 \in Calls /\ sent' = sent + 1 /\ awaiting' = sent + 1
    BY <1>5, <1>a, <1>c DEF FinalRead, Send, CallInv, Calls
  <2>2. status' = [status EXCEPT ![sent + 1] = "queued"] /\ status'[sent'] = "queued"
    BY <1>5, <1>a, <2>1 DEF FinalRead, Send, TypeOK
  <2>3. awaiting = 0 /\ phase' = "reading" /\ lost' = lost
    BY <1>5, <1>a DEF FinalRead
  <2>4. \A n \in Calls : status'[n] \in {"queued", "answered"} => n = awaiting'
    BY <1>b, <2>1, <2>2, <2>3 DEF TypeOK, Calls
  <2> QED BY <1>b, <2>2, <2>3, <2>4 DEF QuietInv
<1>6. CASE Timeout
  <2>1. timeouts' # {}
    BY <1>6 DEF Timeout
  <2> QED BY <2>1
<1>7. ASSUME NEW n \in Calls, Execute(n) PROVE QuietInv'
  <2>0. /\ status[n] = "queued"
        /\ UNCHANGED <<lost, awaiting, phase, sent, dropped, produced, bornIn, final>>
    BY <1>7 DEF Execute, FirstOf, hostVars
  <2>1. n = awaiting /\ phase # "done"
    BY <1>b, <2>0 DEF CallInv, Calls
  <2>2. \A m \in Calls : status'[m] \in {"queued", "answered"} => m = awaiting'
    BY <1>7, <1>b, <2>0, <2>1 DEF Execute, TypeOK
  <2>3. ASSUME phase = "reading" PROVE Beginning(data[sent])'
    <3>1. n = sent /\ IsRead(n)
      BY <2>1, <2>3 DEF IsRead, CallInv
    <3>2. base' = base /\ data'[sent'] = Buffer /\ Buffer' = Buffer
      BY <1>7, <2>0, <3>1 DEF Execute, TypeOK, Buffer
    <3>3. \A s \in Buffer : (base + 1)..s \subseteq Buffer
      BY <1>c DEF Buffer
    <3> QED BY <2>0, <3>2, <3>3 DEF Beginning
  <2> QED BY <1>b, <2>0, <2>1, <2>2, <2>3 DEF QuietInv
<1>8. ASSUME NEW n \in Calls, Receive(n) PROVE QuietInv'
  <2>0. /\ status[n] = "answered" /\ status' = [status EXCEPT ![n] = "settled"]
        /\ UNCHANGED <<sent, dropped, produced, bornIn, base, data>>
    BY <1>8 DEF Receive, targetVars
  <2>1. n = awaiting /\ phase # "done"
    BY <1>b, <2>0 DEF CallInv, Calls
  <2>2. lost' = lost /\ awaiting' = 0
    BY <1>8, <2>1 DEF Receive
  <2>3. \A m \in Calls : status'[m] \notin {"queued", "answered"}
    BY <1>b, <2>0, <2>1 DEF TypeOK
  <2>4. Buffer' = Buffer
    BY <2>0 DEF Buffer
  <2>5. CASE phase = "reading"
    <3>1. n = sent /\ IsRead(n)
      BY <2>1, <2>5 DEF IsRead, CallInv
    <3>2. phase' = "done" /\ final' = data[sent]
      BY <1>8, <2>1, <3>1 DEF Receive
    <3>3. dropped = 0 => Beginning(final)'
      BY <1>b, <2>0, <2>4, <2>5, <3>1, <3>2 DEF Beginning
    <3> QED BY <1>b, <2>0, <2>2, <2>3, <3>2, <3>3 DEF QuietInv
  <2>6. CASE phase # "reading"
    <3>1. phase' = phase
      BY <1>8, <2>1, <2>6 DEF Receive, IsRead
    <3> QED BY <1>b, <2>1, <2>2, <2>3, <2>6, <3>1 DEF QuietInv
  <2> QED BY <2>5, <2>6
<1>9. CASE UNCHANGED vars
  BY <1>9, <1>b DEF vars, targetVars, callVars, hostVars, QuietInv, Beginning, Buffer
<1>10. ~Disconnect
  BY DEF Disconnect
<1> QED BY <1>1, <1>3, <1>4, <1>5, <1>6, <1>7, <1>8, <1>9, <1>10 DEF Next, Host, Terminated

(* Where the samples are before and after a step: it is one of Custody, or *)
(* it moves no sample.                                                     *)
LEMMA CustodyStep ==
  ASSUME TypeOK, CallInv, BookInv, [Next]_vars
  PROVE  [Custodian!Next]_(Custodian!vars)
<1> USE BufferAssumption DEF BufferAssumption
<1>0. \A s : s \in InFlight' <=> \E n \in Answered' : s \in data'[n]
  BY DEF InFlight, Answered
<1>a. ASSUME Answered' = Answered, data' = data PROVE InFlight' = InFlight
  BY <1>0, <1>a, InFlightMembers
<1>b. base \in Nat /\ produced \in Nat /\ base <= produced /\ sent \in 0..MaxCalls
  BY DEF TypeOK
<1>c. ASSUME Answered' = Answered, data' = data,
             UNCHANGED <<base, produced, evicted, held, lost>>
      PROVE  UNCHANGED Custodian!vars
  BY <1>a, <1>c DEF Custodian!vars, Buffer
<1>d. Buffer \subseteq 1..produced /\ 1..base \subseteq 1..produced
  BY <1>b DEF Buffer
<1>1. ASSUME Produce PROVE Custodian!Admit
  <2>1. InFlight' = InFlight /\ UNCHANGED <<held, lost>>
    BY <1>1, <1>a DEF Produce, Answered, IsRead, callVars, hostVars
  <2>2. produced + 1 \in Samples /\ produced' = produced + 1
    BY <1>1, <1>b DEF Produce, Samples
  <2>3. produced + 1 \notin Custodian!Known
    <3>1. InFlight \cup held \cup evicted \cup lost = 1..base
      BY DEF BookInv
    <3>2. produced + 1 \notin Buffer /\ produced + 1 \notin 1..base
      BY <1>b DEF Buffer
    <3> QED BY <3>1, <3>2 DEF Custodian!Known
  <2>4. CASE produced - base >= Cap
    <3>1. base' = base + Chunk /\ evicted' = evicted \cup ((base + 1)..(base + Chunk))
      BY <1>1, <2>4 DEF Produce
    <3>2. base + Chunk <= produced /\ Chunk \in Nat
      BY <1>b, <2>4
    <3>3. /\ Buffer' = (base + Chunk + 1)..(produced + 1)
          /\ Buffer = (base + 1)..produced
      BY <2>2, <3>1 DEF Buffer
    <3>4. /\ Buffer' \subseteq Buffer \cup {produced + 1} /\ produced + 1 \in Buffer'
          /\ Buffer \ Buffer' = (base + 1)..(base + Chunk)
      BY <1>b, <3>2, <3>3
    <3> QED BY <2>1, <2>2, <2>3, <3>1, <3>4 DEF Custodian!Admit
  <2>5. CASE ~(produced - base >= Cap)
    <3>1. UNCHANGED <<base, evicted>>
      BY <1>1, <2>5 DEF Produce
    <3>2. Buffer' = (base + 1)..(produced + 1) /\ Buffer = (base + 1)..produced
      BY <2>2, <3>1 DEF Buffer
    <3>3. Buffer' = Buffer \cup {produced + 1}
      BY <1>b, <3>2
    <3> QED BY <2>1, <2>2, <2>3, <3>1, <3>3 DEF Custodian!Admit
  <2> QED BY <2>4, <2>5
<1>2. ASSUME Disconnect PROVE Custodian!Lose
  <2>1. Answered' = {}
    BY <1>2 DEF Disconnect, Answered
  <2>2. InFlight' = {}
    BY <1>0, <2>1
  <2>3. lost' = lost \cup InFlight /\ UNCHANGED <<base, produced, evicted, held>>
    BY <1>2 DEF Disconnect, InFlight, targetVars
  <2> QED BY <2>2, <2>3 DEF Custodian!Lose, Buffer
<1>3. ASSUME Tick PROVE UNCHANGED Custodian!vars
  <2>1. Answered' = Answered
    BY <1>3, <1>b DEF Tick, Send, Answered, IsRead, TypeOK, CallInv, Calls
  <2> QED BY <1>3, <1>c, <2>1 DEF Tick, Send, targetVars
<1>4. ASSUME StopTicking PROVE UNCHANGED Custodian!vars
  <2>1. Answered' = Answered
    BY <1>4 DEF StopTicking, Answered, IsRead, callVars
  <2> QED BY <1>4, <1>c, <2>1 DEF StopTicking, targetVars, callVars
<1>5. ASSUME FinalRead PROVE UNCHANGED Custodian!vars
  <2>1. CASE open
    <3>1. Answered' = Answered
      BY <1>5, <1>b, <2>1 DEF FinalRead, Send, Answered, IsRead, TypeOK, CallInv, Calls
    <3> QED BY <1>5, <1>c, <2>1, <3>1 DEF FinalRead, Send, targetVars
  <2>2. CASE ~open
    <3>1. Answered = {} /\ Answered' = {}
      BY <1>5, <2>2 DEF FinalRead, Answered, CallInv, callVars
    <3> QED BY <1>5, <1>c, <2>2, <3>1 DEF FinalRead, targetVars, callVars
  <2> QED BY <2>1, <2>2
<1>6. ASSUME Timeout PROVE Custodian!GiveUp \/ UNCHANGED Custodian!vars
  <2>1. Answered' = Answered /\ data' = data /\ UNCHANGED <<base, produced, evicted>>
    BY <1>6 DEF Timeout, Answered, IsRead, callVars, targetVars
  <2>2. CASE UNCHANGED <<held, lost>>
    BY <1>c, <2>1, <2>2
  <2>3. CASE held' = {} /\ lost' = lost \cup held
    BY <1>a, <2>1, <2>3 DEF Custodian!GiveUp, Buffer
  <2> QED BY <1>6, <2>2, <2>3 DEF Timeout
<1>7. ASSUME NEW n \in Calls, Execute(n) PROVE Custodian!Answer \/ UNCHANGED Custodian!vars
  <2>0. status[n] = "queued" /\ UNCHANGED <<evicted, held, lost, sent, phase, produced>>
    BY <1>7 DEF Execute, FirstOf, hostVars
  <2>1. \A m : IsRead(m)' <=> IsRead(m)
    BY <2>0 DEF IsRead
  <2>2. \A m \in Answered : data'[m] = data[m] /\ m # n
    BY <1>7, <2>0 DEF Execute, Answered, TypeOK
  <2>3. CASE IsRead(n)
    <3>1. Answered' = Answered /\ base' = base
      BY <1>7, <2>0, <2>1, <2>3 DEF Execute, Answered, TypeOK
    <3>2. InFlight' = InFlight
      BY <1>0, <2>2, <3>1, InFlightMembers DEF InFlight
    <3> QED BY <2>0, <3>1, <3>2 DEF Custodian!vars, Buffer
  <2>4. CASE ~IsRead(n)
    <3>1. Answered' = Answered \cup {n} /\ base' = produced /\ data'[n] = Buffer
      BY <1>7, <2>0, <2>1, <2>4 DEF Execute, Answered, TypeOK
    <3>2. InFlight' = InFlight \cup Buffer
      BY <1>0, <2>2, <3>1, InFlightMembers
    <3>3. Buffer' = {}
      BY <1>b, <2>0, <3>1 DEF Buffer
    <3> QED BY <2>0, <3>2, <3>3 DEF Custodian!Answer
  <2> QED BY <2>3, <2>4
<1>8. ASSUME NEW n \in Calls, Receive(n)
      PROVE  Custodian!Deliver \/ Custodian!Lose \/ UNCHANGED Custodian!vars
  <2>0. status[n] = "answered" /\ UNCHANGED <<base, produced, evicted, sent, data>>
    BY <1>8 DEF Receive, targetVars
  <2>1. CASE IsRead(n)
    <3>1. Answered' = Answered /\ UNCHANGED <<held, lost>>
      BY <1>8, <2>0, <2>1 DEF Receive, Answered, IsRead, TypeOK
    <3> QED BY <1>c, <2>0, <3>1
  <2>2. CASE ~IsRead(n)
    <3>1. phase' = phase
      BY <1>8, <2>2 DEF Receive
    <3>2. n \in Answered /\ Answered' = Answered \ {n}
      BY <1>8, <2>0, <2>2, <3>1 DEF Receive, Answered, IsRead, TypeOK
    <3>3. data[n] \subseteq InFlight
      BY <3>2, InFlightMembers
    <3>4. InFlight' = InFlight \ data[n]
      BY <1>0, <2>0, <3>2, InFlightMembers DEF BookInv
    <3>5. InFlight \ InFlight' = data[n] /\ Buffer' = Buffer
      BY <2>0, <3>3, <3>4 DEF Buffer
    <3>6. \/ held' = held \cup data[n] /\ lost' = lost
          \/ lost' = lost \cup data[n] /\ held' = held
      BY <1>8, <2>2 DEF Receive
    <3>7. evicted' = evicted /\ InFlight' \subseteq InFlight
      BY <2>0, <3>4
    <3> QED BY <3>5, <3>6, <3>7 DEF Custodian!Deliver, Custodian!Lose
  <2> QED BY <2>1, <2>2
<1>9. ASSUME UNCHANGED vars PROVE UNCHANGED Custodian!vars
  <2>1. Answered' = Answered
    BY <1>9 DEF vars, Answered, IsRead, callVars, hostVars
  <2> QED BY <1>9, <1>c, <2>1 DEF vars, targetVars, callVars, hostVars
<1> QED BY <1>1, <1>2, <1>3, <1>4, <1>5, <1>6, <1>7, <1>8, <1>9
        DEF Next, Host, Terminated, Custodian!Next

------------------------------------------------------------------------------
(* The theorems.                                                           *)

(* IInv holds of every reachable state of the drain protocol               *)
(* (periodic-drain.ts:22-111).                                             *)
THEOREM InvariantHolds == Spec => []IInv
<1>1. Init => IInv
  BY InitHolds
<1>2. IInv /\ [Next]_vars => IInv'
  BY TypeStep, CallStep, CapStep, BookStep, ReadStep, QuietStep DEF IInv
<1> QED BY <1>1, <1>2, PTL DEF Spec

(* Every variable keeps its type.                                          *)
THEOREM TypeCorrect == Spec => []TypeOK
<1>1. IInv => TypeOK
  BY DEF IInv
<1> QED BY <1>1, InvariantHolds, PTL

(* No sample vanishes and none is in two places, whatever drains time out, *)
(* come late or are lost with the connection (periodic-drain.ts:78-106).   *)
THEOREM Conserved == Spec => []Conservation
<1>1. ASSUME TypeOK, BookInv, ReadInv PROVE Conservation
  <2>1. 1..produced = (1..base) \cup Buffer /\ (1..base) \cap Buffer = {}
    BY <1>1 DEF TypeOK, Buffer
  <2>2. 1..produced = Buffer \cup InFlight \cup held \cup evicted \cup lost
    BY <1>1, <2>1 DEF BookInv
  <2>3. /\ Buffer \cap InFlight = {} /\ Buffer \cap held = {}
        /\ Buffer \cap evicted = {} /\ Buffer \cap lost = {}
    BY <1>1, <2>1 DEF BookInv
  <2>4. \A i, j \in 1..5 : i # j => Places[i] \cap Places[j] = {}
    BY <1>1, <2>3 DEF BookInv, Places
  <2>5. DOMAIN Places = 1..5
    BY DEF Places
  <2>6. held \cap final = {}
    BY <1>1 DEF ReadInv
  <2> QED BY <2>2, <2>4, <2>5, <2>6 DEF Conservation
<1> QED BY <1>1, InvariantHolds, PTL DEF IInv

(* The buffer stays within its cap and its counter is exact                *)
(* (framework.ts:385-402).                                                 *)
THEOREM CapExact == Spec => []CapIsExact
<1>1. ASSUME TypeOK, CapInv PROVE CapIsExact
  <2>1. base + 1 \in Int /\ produced \in Int
    BY <1>1 DEF TypeOK
  <2>2. Cardinality(Buffer) = IF base + 1 > produced THEN 0 ELSE produced - (base + 1) + 1
    BY <2>1, FS_Interval DEF Buffer
  <2>3. Cardinality(Buffer) <= Cap
    BY <1>1, <2>2, BufferAssumption DEF TypeOK, CapInv, BufferAssumption
  <2> QED BY <1>1, <2>3 DEF CapIsExact, CapInv
<1> QED BY <1>1, InvariantHolds, PTL DEF IInv

(* A signal that misses samples says so: with no timeout, no drop and no   *)
(* lost connection, the profiler holds the series from its first sample to *)
(* the final read without a hole (periodic-drain.ts:78-106).               *)
THEOREM LossReported == Spec => []LossIsReported
<1>1. ASSUME IInv PROVE LossIsReported
  <2> SUFFICES ASSUME phase = "done", open, timeouts = {}, dropped = 0
               PROVE  /\ \A s \in held \cup final : 1..s \subseteq held \cup final
                      /\ \A s \in 1..produced : bornIn[s] < sent => s \in held \cup final
    BY DEF LossIsReported
  <2>1. base \in Nat /\ produced \in Nat /\ base <= produced
    BY <1>1 DEF IInv, TypeOK
  <2>2. awaiting = 0 /\ lost = {} /\ Beginning(final)
    BY <1>1 DEF IInv, CallInv, QuietInv
  <2>3. InFlight = {}
    BY <1>1, <2>2, InFlightMembers DEF IInv, QuietInv, Answered, Calls
  <2>4. evicted = {}
    <3>1. evicted \subseteq 1..base /\ Cardinality(evicted) = 0
      BY <1>1 DEF IInv, BookInv, CapInv
    <3>2. IsFiniteSet(1..base)
      <4>1. 1 \in Int /\ base \in Int
        BY <2>1
      <4> QED BY <4>1, FS_Interval
    <3> QED BY <3>1, <3>2, FS_Subset, FS_EmptySet
  <2>5. 1..base = held
    BY <1>1, <2>2, <2>3, <2>4 DEF IInv, BookInv
  <2>6. final \subseteq Buffer /\ \A s \in final : (base + 1)..s \subseteq final
    BY <2>2 DEF Beginning
  <2>7. \A s \in held \cup final : 1..s \subseteq held \cup final
    <3>1. ASSUME NEW s \in held PROVE 1..s \subseteq held
      BY <2>1, <2>5, <3>1
    <3>2. ASSUME NEW s \in final PROVE 1..s \subseteq held \cup final
      <4>1. s \in (base + 1)..produced
        BY <2>6 DEF Buffer
      <4>2. 1..s \subseteq (1..base) \cup ((base + 1)..s)
        BY <2>1, <4>1
      <4>3. (base + 1)..s \subseteq final
        BY <2>6
      <4> QED BY <2>5, <4>2, <4>3
    <3> QED BY <3>1, <3>2
  <2>8. ASSUME NEW s \in 1..produced, bornIn[s] < sent PROVE s \in held \cup final
    <3>1. s \in 1..base \/ s \in Buffer
      BY <2>1 DEF Buffer
    <3> QED BY <2>2, <2>5, <2>8, <3>1 DEF Beginning
  <2> QED BY <2>7, <2>8
<1> QED BY <1>1, InvariantHolds, PTL

(* The drains implement Custody: what was handed over, cut off or lost     *)
(* never comes back (periodic-drain.ts, readers/event-loop.ts,             *)
(* readers/gc.ts, kinds/memory/probe.ts).                                  *)
THEOREM KeepsItsCustody == Spec => KeepsCustody
<1>1. Init => Custodian!Init
  <2> SUFFICES ASSUME Init PROVE Custodian!Init
    OBVIOUS
  <2>1. Buffer = {} /\ InFlight = {}
    BY DEF Init, Buffer, InFlight
  <2> QED BY <2>1 DEF Init, Custodian!Init
<1>2. IInv /\ [Next]_vars => [Custodian!Next]_(Custodian!vars)
  BY CustodyStep DEF IInv
<1> QED BY <1>1, <1>2, InvariantHolds, PTL DEF Spec, KeepsCustody, Custodian!Spec
==============================================================================
