-------------------------- MODULE InspectorProofs --------------------------
(***************************************************************************)
(* For any processes, and any number of polling rounds: the search closes  *)
(* what it opened, signals only what looked like Node, and attaches to the *)
(* process it was asked for.                                               *)
(***************************************************************************)
EXTENDS Inspector, SequenceTheorems, TLAPS

(* The type invariant, by what its variables range over. *)
Machine ==
  /\ exe \in [Pids -> {"node", "other", "unreadable"}] /\ gone \in SUBSET Pids
  /\ listens \in [Ports -> Pids \union {Nobody, Stuck}]
  /\ dual \in SUBSET Ports /\ posix \in BOOLEAN

Counts ==
  /\ slot \in 1 .. 5 /\ round \in 0 .. MaxRounds + 1
  /\ late \in 0 .. 1 /\ stray \in 0 .. 1 /\ exits \in 0 .. 1

Found ==
  /\ targets \in Seq(Targets) /\ answer \in Pids \union {None}
  /\ chosen \in Targets \union {NoTarget}

Places ==
  /\ pc \in Scanning \union {"connect", "install", "connected", "failed"}
  /\ conn \in {None, "open"} /\ client \in {None, "open", "closed"}
  /\ looked \in {None, "node", "other", "unreadable"}
  /\ struck \in BOOLEAN /\ reused \in BOOLEAN

(* A discovery connection is in use only while its target is asked, and an *)
(* answer is that of the process that listens.                             *)
ProbeInv ==
  /\ pc = "body" => slot <= 4
  /\ conn # None => pc \in {"ask", "close"}
  /\ pc \in {"ask", "close"} => targets # <<>>
  /\ answer # None => pc = "close" /\ answer = Head(targets).id

(* The capture's connection goes to the process that answered with the     *)
(* requested pid.                                                          *)
AttachInv ==
  /\ pc \in {"connect", "install", "connected"} => chosen.id = Requested
  /\ client = "open" => pc \in {"install", "connected"}

(* What was seen of the process holds until the pid changes hands.         *)
SignalInv ==
  /\ pc \in {"decide", "signal"} => round = 0
  /\ round = 0 => ~struck
  /\ pc = "signal" => looked \in {"node", "unreadable"}
  /\ looked = "node" /\ ~reused => exe[Requested] = "node"
  /\ struck => looked = "unreadable" \/ reused

IInv == TypeOK /\ ProbeInv /\ AttachInv /\ SignalInv /\ stray = 0

------------------------------------------------------------------------------
LEMMA TypeParts == TypeOK <=> Machine /\ Counts /\ Found /\ Places
  BY DEF TypeOK, Machine, Counts, Found, Places

(* The steps keep the types. *)
(* The processes and their ports. *)
LEMMA MachineStep ==
  ASSUME IInv, [Next]_vars
  PROVE  Machine'
<1> USE InspectorAssumption DEF IInv, TypeOK, Machine, os, fixed, search
<1>1. CASE FetchSlot
  BY <1>1 DEF FetchSlot, Goto
<1>2. CASE BodyEnds
  BY <1>2 DEF BodyEnds, Goto
<1>3. CASE ScanDone
  BY <1>3 DEF ScanDone, Goto
<1>4. CASE ProbeOpens
  BY <1>4 DEF ProbeOpens, Goto, Candidate, Reachable, Untried
<1>5. CASE ProbeFails
  BY <1>5 DEF ProbeFails, Candidate, Reachable, Untried
<1>6. CASE Ask
  BY <1>6 DEF Ask, Goto, Candidate
<1>7. CASE ProbeCloses
  BY <1>7 DEF ProbeCloses, Goto, Candidate, Matches
<1>8. CASE NoMatch
  BY <1>8 DEF NoMatch, Goto, Untried
<1>9. CASE Decide
  BY <1>9 DEF Decide, Goto, MaySignal
<1>10. CASE SignalTarget
  BY <1>10 DEF SignalTarget, Goto, NewRound
<1>11. CASE Pause
  BY <1>11 DEF Pause, Goto, NewRound
<1>12. CASE LateSettles
  BY <1>12 DEF LateSettles
<1>13. CASE InspectorOpens
  BY <1>13 DEF InspectorOpens
<1>14. CASE Attach
  BY <1>14 DEF Attach, Goto
<1>15. CASE Install
  BY <1>15 DEF Install, Goto
<1>16. CASE SignalExit
  BY <1>16 DEF SignalExit
<1>17. ASSUME NEW p \in Pids, ProcessEnds(p) PROVE Machine'
  BY <1>17 DEF ProcessEnds
<1>18. CASE PidReused
  BY <1>18 DEF PidReused, InspectorAssumption
<1>19. CASE UNCHANGED vars
  BY <1>19 DEF vars
<1> QED
  BY <1>1, <1>2, <1>3, <1>4, <1>5, <1>6, <1>7, <1>8, <1>9, <1>10, <1>11,
     <1>12, <1>13, <1>14, <1>15, <1>16, <1>17, <1>18, <1>19 DEF Next,
     Search, Finished

(* Slots, rounds and connections. *)
LEMMA CountsStep ==
  ASSUME IInv, [Next]_vars
  PROVE  Counts'
<1> USE InspectorAssumption DEF IInv, TypeOK, Counts, SignalInv, ProbeInv, InspectorAssumption, os, fixed, search
<1>1. CASE FetchSlot
  BY <1>1 DEF FetchSlot, Goto
<1>2. CASE BodyEnds
  BY <1>2 DEF BodyEnds, Goto
<1>3. CASE ScanDone
  BY <1>3 DEF ScanDone, Goto
<1>4. CASE ProbeOpens
  BY <1>4 DEF ProbeOpens, Goto, Candidate, Reachable, Untried
<1>5. CASE ProbeFails
  BY <1>5 DEF ProbeFails, Candidate, Reachable, Untried
<1>6. CASE Ask
  BY <1>6 DEF Ask, Goto, Candidate
<1>7. CASE ProbeCloses
  BY <1>7 DEF ProbeCloses, Goto, Candidate, Matches
<1>8. CASE NoMatch
  BY <1>8 DEF NoMatch, Goto, Untried
<1>9. CASE Decide
  BY <1>9 DEF Decide, Goto, MaySignal
<1>10. CASE SignalTarget
  BY <1>10 DEF SignalTarget, Goto, NewRound
<1>11. CASE Pause
  BY <1>11 DEF Pause, Goto, NewRound
<1>12. CASE LateSettles
  BY <1>12 DEF LateSettles
<1>13. CASE InspectorOpens
  BY <1>13 DEF InspectorOpens
<1>14. CASE Attach
  BY <1>14 DEF Attach, Goto
<1>15. CASE Install
  BY <1>15 DEF Install, Goto
<1>16. CASE SignalExit
  BY <1>16 DEF SignalExit
<1>17. ASSUME NEW p \in Pids, ProcessEnds(p) PROVE Counts'
  BY <1>17 DEF ProcessEnds
<1>18. CASE PidReused
  BY <1>18 DEF PidReused
<1>19. CASE UNCHANGED vars
  BY <1>19 DEF vars
<1> QED
  BY <1>1, <1>2, <1>3, <1>4, <1>5, <1>6, <1>7, <1>8, <1>9, <1>10, <1>11,
     <1>12, <1>13, <1>14, <1>15, <1>16, <1>17, <1>18, <1>19 DEF Next,
     Search, Finished

(* The targets found, the answer of the one that is asked, the choice. *)
LEMMA FoundStep ==
  ASSUME IInv, [Next]_vars
  PROVE  Found'
<1> USE DEF IInv, TypeOK, Found, ProbeInv, os, fixed, search
<1>1. CASE FetchSlot
  <2>1. ASSUME NEW t \in Targets PROVE Append(targets, t) \in Seq(Targets)
    BY AppendProperties
  <2>2. \A i \in 1 .. 4 : (i + 1) \div 2 \in 1 .. 2
    OBVIOUS
  <2>3. slot \in 1 .. 4 /\ Slots[slot].port \in Ports
    BY <1>1, <2>2, InspectorAssumption DEF FetchSlot, Slots, InspectorAssumption
  <2>4. \A port \in Ports : listens[port] \notin {Nobody, Stuck} => listens[port] \in Pids
    OBVIOUS
  <2>5. targets' = targets \/ \E t \in Targets : targets' = Append(targets, t)
    BY <1>1, <2>3, <2>4 DEF FetchSlot, Targets
  <2> QED
    BY <1>1, <2>1, <2>5 DEF FetchSlot
<1>2. CASE BodyEnds
  BY <1>2 DEF BodyEnds, Goto
<1>3. CASE ScanDone
  BY <1>3 DEF ScanDone, Goto
<1>4. CASE ProbeOpens
  BY <1>4 DEF ProbeOpens, Goto, Candidate, Reachable, Untried
<1>5. CASE ProbeFails
  <2>1. targets # <<>> => Tail(targets) \in Seq(Targets) /\ Head(targets) \in Targets
    BY HeadTailProperties
  <2> QED
    BY <1>5, <2>1 DEF ProbeFails, Untried
<1>6. CASE Ask
  <2>1. targets # <<>> => Tail(targets) \in Seq(Targets) /\ Head(targets) \in Targets
    BY HeadTailProperties
  <2> QED
    BY <1>6, <2>1 DEF Ask, Candidate, Targets
<1>7. CASE ProbeCloses
  <2>1. targets # <<>> => Tail(targets) \in Seq(Targets) /\ Head(targets) \in Targets
    BY HeadTailProperties
  <2> QED
    BY <1>7, <2>1 DEF ProbeCloses, Candidate
<1>8. CASE NoMatch
  BY <1>8 DEF NoMatch, Goto, Untried
<1>9. CASE Decide
  BY <1>9 DEF Decide, Goto, MaySignal
<1>10. CASE SignalTarget
  <2>1. <<>> \in Seq(Targets)
    OBVIOUS
  <2> QED
    BY <1>10, <2>1 DEF SignalTarget, NewRound
<1>11. CASE Pause
  <2>1. <<>> \in Seq(Targets)
    OBVIOUS
  <2> QED
    BY <1>11, <2>1 DEF Pause, NewRound
<1>12. CASE LateSettles
  BY <1>12 DEF LateSettles
<1>13. CASE InspectorOpens
  BY <1>13 DEF InspectorOpens
<1>14. CASE Attach
  BY <1>14 DEF Attach, Goto
<1>15. CASE Install
  BY <1>15 DEF Install, Goto
<1>16. CASE SignalExit
  BY <1>16 DEF SignalExit
<1>17. ASSUME NEW p \in Pids, ProcessEnds(p) PROVE Found'
  BY <1>17 DEF ProcessEnds
<1>18. CASE PidReused
  BY <1>18 DEF PidReused
<1>19. CASE UNCHANGED vars
  BY <1>19 DEF vars
<1> QED
  BY <1>1, <1>2, <1>3, <1>4, <1>5, <1>6, <1>7, <1>8, <1>9, <1>10, <1>11,
     <1>12, <1>13, <1>14, <1>15, <1>16, <1>17, <1>18, <1>19 DEF Next,
     Search, Finished

(* Where the source is, and its flags. *)
LEMMA PlacesStep ==
  ASSUME IInv, [Next]_vars
  PROVE  Places'
<1> USE InspectorAssumption DEF IInv, TypeOK, Places, Scanning, InspectorAssumption, os, fixed, search
<1>1. CASE FetchSlot
  BY <1>1 DEF FetchSlot, Goto
<1>2. CASE BodyEnds
  BY <1>2 DEF BodyEnds, Goto
<1>3. CASE ScanDone
  BY <1>3 DEF ScanDone, Goto
<1>4. CASE ProbeOpens
  BY <1>4 DEF ProbeOpens, Goto, Candidate, Reachable, Untried
<1>5. CASE ProbeFails
  BY <1>5 DEF ProbeFails, Candidate, Reachable, Untried
<1>6. CASE Ask
  BY <1>6 DEF Ask, Goto, Candidate
<1>7. CASE ProbeCloses
  BY <1>7 DEF ProbeCloses, Goto, Candidate, Matches
<1>8. CASE NoMatch
  BY <1>8 DEF NoMatch, Goto, Untried
<1>9. CASE Decide
  BY <1>9 DEF Decide, Goto, MaySignal
<1>10. CASE SignalTarget
  BY <1>10 DEF SignalTarget, Goto, NewRound
<1>11. CASE Pause
  BY <1>11 DEF Pause, Goto, NewRound
<1>12. CASE LateSettles
  BY <1>12 DEF LateSettles
<1>13. CASE InspectorOpens
  BY <1>13 DEF InspectorOpens
<1>14. CASE Attach
  BY <1>14 DEF Attach, Goto
<1>15. CASE Install
  BY <1>15 DEF Install, Goto
<1>16. CASE SignalExit
  BY <1>16 DEF SignalExit
<1>17. ASSUME NEW p \in Pids, ProcessEnds(p) PROVE Places'
  BY <1>17 DEF ProcessEnds
<1>18. CASE PidReused
  BY <1>18 DEF PidReused
<1>19. CASE UNCHANGED vars
  BY <1>19 DEF vars
<1> QED
  BY <1>1, <1>2, <1>3, <1>4, <1>5, <1>6, <1>7, <1>8, <1>9, <1>10, <1>11,
     <1>12, <1>13, <1>14, <1>15, <1>16, <1>17, <1>18, <1>19 DEF Next,
     Search, Finished

(* The finally closes the connection before the answer is used. *)
LEMMA ProbeStep ==
  ASSUME IInv, [Next]_vars
  PROVE  ProbeInv'
<1> USE DEF IInv, ProbeInv, TypeOK, None, os, fixed, search
<1>1. CASE FetchSlot
  BY <1>1 DEF FetchSlot, Goto
<1>2. CASE BodyEnds
  BY <1>2 DEF BodyEnds, Goto
<1>3. CASE ScanDone
  BY <1>3 DEF ScanDone, Goto
<1>4. CASE ProbeOpens
  BY <1>4 DEF ProbeOpens, Goto, Candidate, Reachable, Untried
<1>5. CASE ProbeFails
  BY <1>5 DEF ProbeFails, Candidate, Reachable, Untried
<1>6. CASE Ask
  BY <1>6 DEF Ask, Goto, Candidate
<1>7. CASE ProbeCloses
  BY <1>7 DEF ProbeCloses, Goto, Candidate, Matches
<1>8. CASE NoMatch
  BY <1>8 DEF NoMatch, Goto, Untried
<1>9. CASE Decide
  BY <1>9 DEF Decide, Goto, MaySignal
<1>10. CASE SignalTarget
  BY <1>10 DEF SignalTarget, Goto, NewRound
<1>11. CASE Pause
  BY <1>11 DEF Pause, Goto, NewRound
<1>12. CASE LateSettles
  BY <1>12 DEF LateSettles
<1>13. CASE InspectorOpens
  BY <1>13 DEF InspectorOpens
<1>14. CASE Attach
  BY <1>14 DEF Attach, Goto
<1>15. CASE Install
  BY <1>15 DEF Install, Goto
<1>16. CASE SignalExit
  BY <1>16 DEF SignalExit
<1>17. ASSUME NEW p \in Pids, ProcessEnds(p) PROVE ProbeInv'
  BY <1>17 DEF ProcessEnds
<1>18. CASE PidReused
  BY <1>18 DEF PidReused
<1>19. CASE UNCHANGED vars
  BY <1>19 DEF vars
<1> QED
  BY <1>1, <1>2, <1>3, <1>4, <1>5, <1>6, <1>7, <1>8, <1>9, <1>10, <1>11,
     <1>12, <1>13, <1>14, <1>15, <1>16, <1>17, <1>18, <1>19 DEF Next,
     Search, Finished

(* Only a matching answer leads to the attachment. *)
LEMMA AttachStep ==
  ASSUME IInv, [Next]_vars
  PROVE  AttachInv'
<1> USE InspectorAssumption DEF IInv, AttachInv, ProbeInv, TypeOK, os, fixed, search
<1>1. CASE FetchSlot
  BY <1>1 DEF FetchSlot, Goto
<1>2. CASE BodyEnds
  BY <1>2 DEF BodyEnds, Goto
<1>3. CASE ScanDone
  BY <1>3 DEF ScanDone, Goto
<1>4. CASE ProbeOpens
  BY <1>4 DEF ProbeOpens, Goto, Candidate, Reachable, Untried
<1>5. CASE ProbeFails
  BY <1>5 DEF ProbeFails, Candidate, Reachable, Untried
<1>6. CASE Ask
  BY <1>6 DEF Ask, Goto, Candidate
<1>7. CASE ProbeCloses
  BY <1>7 DEF ProbeCloses, Goto, Candidate, Matches, InspectorAssumption, None
<1>8. CASE NoMatch
  BY <1>8 DEF NoMatch, Goto, Untried
<1>9. CASE Decide
  BY <1>9 DEF Decide, Goto, MaySignal
<1>10. CASE SignalTarget
  BY <1>10 DEF SignalTarget, Goto, NewRound
<1>11. CASE Pause
  BY <1>11 DEF Pause, Goto, NewRound
<1>12. CASE LateSettles
  BY <1>12 DEF LateSettles
<1>13. CASE InspectorOpens
  BY <1>13 DEF InspectorOpens
<1>14. CASE Attach
  BY <1>14 DEF Attach, Goto
<1>15. CASE Install
  BY <1>15 DEF Install, Goto
<1>16. CASE SignalExit
  BY <1>16 DEF SignalExit
<1>17. ASSUME NEW p \in Pids, ProcessEnds(p) PROVE AttachInv'
  BY <1>17 DEF ProcessEnds
<1>18. CASE PidReused
  BY <1>18 DEF PidReused
<1>19. CASE UNCHANGED vars
  BY <1>19 DEF vars
<1> QED
  BY <1>1, <1>2, <1>3, <1>4, <1>5, <1>6, <1>7, <1>8, <1>9, <1>10, <1>11,
     <1>12, <1>13, <1>14, <1>15, <1>16, <1>17, <1>18, <1>19 DEF Next,
     Search, Finished

(* The name is looked at once, before the one signal. *)
LEMMA SignalStep ==
  ASSUME IInv, [Next]_vars
  PROVE  SignalInv'
<1> USE DEF IInv, SignalInv, TypeOK, os, fixed, search
<1>1. CASE FetchSlot
  BY <1>1 DEF FetchSlot, Goto
<1>2. CASE BodyEnds
  BY <1>2 DEF BodyEnds, Goto
<1>3. CASE ScanDone
  BY <1>3 DEF ScanDone, Goto
<1>4. CASE ProbeOpens
  BY <1>4 DEF ProbeOpens, Goto, Candidate, Reachable, Untried
<1>5. CASE ProbeFails
  BY <1>5 DEF ProbeFails, Candidate, Reachable, Untried
<1>6. CASE Ask
  BY <1>6 DEF Ask, Goto, Candidate
<1>7. CASE ProbeCloses
  BY <1>7 DEF ProbeCloses, Goto, Candidate, Matches
<1>8. CASE NoMatch
  BY <1>8 DEF NoMatch, Goto, Untried
<1>9. CASE Decide
  BY <1>9 DEF Decide, Goto, MaySignal
<1>10. CASE SignalTarget
  BY <1>10 DEF SignalTarget, Goto, NewRound
<1>11. CASE Pause
  BY <1>11 DEF Pause, Goto, NewRound
<1>12. CASE LateSettles
  BY <1>12 DEF LateSettles
<1>13. CASE InspectorOpens
  BY <1>13 DEF InspectorOpens
<1>14. CASE Attach
  BY <1>14 DEF Attach, Goto
<1>15. CASE Install
  BY <1>15 DEF Install, Goto
<1>16. CASE SignalExit
  BY <1>16 DEF SignalExit
<1>17. ASSUME NEW p \in Pids, ProcessEnds(p) PROVE SignalInv'
  BY <1>17 DEF ProcessEnds
<1>18. CASE PidReused
  BY <1>18 DEF PidReused
<1>19. CASE UNCHANGED vars
  BY <1>19 DEF vars
<1> QED
  BY <1>1, <1>2, <1>3, <1>4, <1>5, <1>6, <1>7, <1>8, <1>9, <1>10, <1>11,
     <1>12, <1>13, <1>14, <1>15, <1>16, <1>17, <1>18, <1>19 DEF Next,
     Search, Finished

(* A late connection is closed by the handler it left behind. *)
LEMMA StrayStep ==
  ASSUME IInv, [Next]_vars
  PROVE  (stray = 0)'
<1> USE DEF IInv, os, fixed, search
<1>1. CASE FetchSlot
  BY <1>1 DEF FetchSlot, Goto
<1>2. CASE BodyEnds
  BY <1>2 DEF BodyEnds, Goto
<1>3. CASE ScanDone
  BY <1>3 DEF ScanDone, Goto
<1>4. CASE ProbeOpens
  BY <1>4 DEF ProbeOpens, Goto, Candidate, Reachable, Untried
<1>5. CASE ProbeFails
  BY <1>5 DEF ProbeFails, Candidate, Reachable, Untried
<1>6. CASE Ask
  BY <1>6 DEF Ask, Goto, Candidate
<1>7. CASE ProbeCloses
  BY <1>7 DEF ProbeCloses, Goto, Candidate, Matches
<1>8. CASE NoMatch
  BY <1>8 DEF NoMatch, Goto, Untried
<1>9. CASE Decide
  BY <1>9 DEF Decide, Goto, MaySignal
<1>10. CASE SignalTarget
  BY <1>10 DEF SignalTarget, Goto, NewRound
<1>11. CASE Pause
  BY <1>11 DEF Pause, Goto, NewRound
<1>12. CASE LateSettles
  BY <1>12 DEF LateSettles
<1>13. CASE InspectorOpens
  BY <1>13 DEF InspectorOpens
<1>14. CASE Attach
  BY <1>14 DEF Attach, Goto
<1>15. CASE Install
  BY <1>15 DEF Install, Goto
<1>16. CASE SignalExit
  BY <1>16 DEF SignalExit
<1>17. ASSUME NEW p \in Pids, ProcessEnds(p) PROVE (stray = 0)'
  BY <1>17 DEF ProcessEnds
<1>18. CASE PidReused
  BY <1>18 DEF PidReused
<1>19. CASE UNCHANGED vars
  BY <1>19 DEF vars
<1> QED
  BY <1>1, <1>2, <1>3, <1>4, <1>5, <1>6, <1>7, <1>8, <1>9, <1>10, <1>11,
     <1>12, <1>13, <1>14, <1>15, <1>16, <1>17, <1>18, <1>19 DEF Next,
     Search, Finished

LEMMA InitIInv == Init => IInv
<1> SUFFICES ASSUME Init PROVE IInv
  OBVIOUS
<1>1. Machine
  BY DEF Init, Machine
<1>2. Counts
  BY InspectorAssumption DEF InspectorAssumption, Init, Counts
<1>3. Found
  <2>1. <<>> \in Seq(Targets)
    OBVIOUS
  <2> QED
    BY <2>1 DEF Init, Found
<1>4. Places
  BY DEF Init, Places, Scanning
<1>5. ProbeInv /\ AttachInv /\ stray = 0
  BY DEF Init, ProbeInv, AttachInv, None
<1>6. SignalInv
  BY DEF Init, SignalInv, None
<1> QED
  BY <1>1, <1>2, <1>3, <1>4, <1>5, <1>6, TypeParts DEF IInv

(* IInv is inductive. *)
THEOREM Inductive == Spec => []IInv
<1>1. IInv /\ [Next]_vars => IInv'
  <2> SUFFICES ASSUME IInv, [Next]_vars PROVE IInv'
    OBVIOUS
  <2>1. TypeOK'
    BY MachineStep, CountsStep, FoundStep, PlacesStep DEF TypeOK, Machine, Counts, Found, Places
  <2> QED
    BY <2>1, ProbeStep, AttachStep, SignalStep, StrayStep DEF IInv
<1> QED
  BY InitIInv, <1>1, PTL DEF Spec

(* Every variable of the search keeps its type. *)
THEOREM TypeCorrect == Spec => []TypeOK
<1>1. IInv => TypeOK
  BY DEF IInv
<1> QED
  BY Inductive, <1>1, PTL

(* Whatever answers late or not at all, the search and the source close    *)
(* every connection that is not the capture's.                             *)
THEOREM ClosesConnections == Spec => []NoConnectionLeft
<1>1. IInv => NoConnectionLeft
  BY DEF IInv, ProbeInv, AttachInv, NoConnectionLeft
<1> QED
  BY Inductive, <1>1, PTL

(* SIGUSR1 ends a process only when its name could not be read, or its pid *)
(* changed hands after the name was read.                                  *)
THEOREM SignalIsDeliberate == Spec => []SignalsOnlyNode
<1>1. IInv => SignalsOnlyNode
  BY DEF IInv, SignalInv, SignalsOnlyNode
<1> QED
  BY Inductive, <1>1, PTL

(* The capture is attached to the requested process, however many          *)
(* inspectors the scan came across.                                        *)
THEOREM AttachesToRequested == Spec => []RightTarget
<1>1. IInv => RightTarget
  BY DEF IInv, AttachInv, RightTarget
<1> QED
  BY Inductive, <1>1, PTL
=============================================================================
