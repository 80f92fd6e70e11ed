----------------------------- MODULE Inspector -----------------------------
(***************************************************************************)
(* AttachSource.connect: how `lanterna attach` gets from a pid to a CDP    *)
(* connection.  openInspectorForPid scans the inspector ports, asks every  *)
(* target it finds for its pid over a short-lived connection, sends        *)
(* SIGUSR1 when none matches, and polls; the source then connects for good *)
(* and installs the hooks.  Processes come, go and give up their pid at    *)
(* any moment.  One port stands for an inspector, whose id is the process  *)
(* that listens; it may answer on both loopback hosts.                     *)
(***************************************************************************)
EXTENDS Naturals, Sequences

CONSTANTS Pids,        \* processes of the machine
          Requested,   \* the one `--pid` names
          Ports,       \* the scanned ports, 1 .. n in scanning order
          MaxRounds    \* polling rounds that fit into the discovery timeout

ASSUME InspectorAssumption ==
  /\ Requested \in Pids /\ {"nobody", "stuck", "none"} \cap Pids = {}
  /\ Ports = 1 .. 2 /\ MaxRounds \in Nat

VARIABLES
  exe,        \* what each process is: "node", "other", or "unreadable"
  gone,       \* processes that have ended
  listens,    \* [Ports -> the listening process, Nobody, or Stuck]
  dual,       \* ports that answer on both hosts
  posix,      \* the platform can open an inspector
  pc, slot, targets, round,
  conn,       \* the discovery connection being used
  answer,     \* the pid it was told
  late,       \* connection attempts that outlived their timer
  stray,      \* open connections nobody will close
  looked,     \* what readProcessExecutableName saw
  struck,     \* SIGUSR1 has ended a process
  reused,     \* the pid changed hands after the look
  chosen,     \* the endpoint to attach to, with the process that answered
  client,     \* the connection of the capture
  exits       \* exit notifications the capture has counted

os     == <<exe, gone, listens>>
fixed  == <<dual, posix>>
search == <<slot, targets, round, conn, answer, late, stray, looked, chosen>>
vars   == <<exe, gone, listens, dual, posix, pc, slot, targets, round, conn,
            answer, late, stray, looked, struck, reused, chosen, client, exits>>

Nobody == "nobody"
Stuck == "stuck"     \* a server that sends headers and never ends the body
None == "none"
NoTarget == [port |-> 0, id |-> None]

(* Hosts within ports, as readInspectorTargets nests its loops.            *)
Slots == [i \in 1 .. 4 |-> [port |-> (i + 1) \div 2, six |-> i % 2 = 0]]
Answers(s) == s.port \in dual \/ ~s.six

Scanning == {"scan", "body", "probe", "ask", "close", "decide", "signal", "pause"}

Init ==
  /\ exe \in [Pids -> {"node", "other", "unreadable"}]
  /\ gone = {}
  /\ listens \in [Ports -> {p \in Pids : exe[p] = "node"} \union {Nobody, Stuck}]
  /\ \A p \in Pids : \E q \in Ports : \A r \in Ports \ {q} : listens[r] # p
  /\ dual \in {{}, Ports} /\ posix \in BOOLEAN
  /\ pc = "scan" /\ slot = 1 /\ targets = <<>> /\ round = 0
  /\ conn = None /\ answer = None /\ late = 0 /\ stray = 0
  /\ looked = None /\ struck = FALSE /\ reused = FALSE
  /\ chosen = NoTarget /\ client = None /\ exits = 0

Seen(port) == \E i \in DOMAIN targets : targets[i].port = port
Goto(where) == pc' = where

(* One fetch of /json/list: a target already seen on the other host is     *)
(* skipped, by its id.                                                     *)
FetchSlot ==
  /\ pc = "scan" /\ slot <= 4
  /\ LET s == Slots[slot] IN
     \/ /\ listens[s.port] \notin {Nobody, Stuck} /\ Answers(s)
        /\ slot' = slot + 1
        /\ targets' = IF Seen(s.port) THEN targets
                      ELSE Append(targets, [port |-> s.port, id |-> listens[s.port]])
        /\ UNCHANGED pc
     \/ /\ listens[s.port] = Stuck /\ ~s.six
        /\ Goto("body") /\ UNCHANGED <<slot, targets>>
     \/ slot' = slot + 1 /\ UNCHANGED <<pc, targets>>      \* refused, or 250 ms
  /\ UNCHANGED <<round, conn, answer, late, stray, looked, struck, reused, chosen, client, exits>>
  /\ UNCHANGED os /\ UNCHANGED fixed

(* The timer covers the headers only; the body ends when the HTTP client   *)
(* gives it up.                                                            *)
BodyEnds ==
  /\ pc = "body" /\ Goto("scan") /\ slot' = slot + 1
  /\ UNCHANGED <<targets, round, conn, answer, late, stray, looked, struck, reused, chosen, client, exits>>
  /\ UNCHANGED os /\ UNCHANGED fixed

ScanDone ==
  /\ pc = "scan" /\ slot > 4 /\ Goto("probe")
  /\ UNCHANGED <<search, struck, reused, client, exits>>
  /\ UNCHANGED os /\ UNCHANGED fixed

Untried == targets # <<>>
Candidate == Head(targets)
Reachable(t) == listens[t.port] = t.id /\ t.id \notin gone

(* connectCdpWithTimeout: open, failed, or still connecting when the timer *)
(* fires; then the late connection is closed by whoever is left.           *)
ProbeOpens ==
  /\ pc = "probe" /\ Untried /\ Reachable(Candidate)
  /\ conn' = "open" /\ Goto("ask")
  /\ UNCHANGED <<slot, targets, round, answer, late, stray, looked, struck, reused, chosen, client, exits>>
  /\ UNCHANGED os /\ UNCHANGED fixed

ProbeFails ==
  /\ pc = "probe" /\ Untried
  /\ targets' = Tail(targets)
  /\ late' \in {late} \union (IF late = 0 /\ Reachable(Candidate) THEN {1} ELSE {})
  /\ UNCHANGED <<pc, slot, round, conn, answer, stray, looked, struck, reused, chosen, client, exits>>
  /\ UNCHANGED os /\ UNCHANGED fixed

(* The same without the handler.                                           *)
LateSettlesOpen ==
  /\ late > 0 /\ late' = late - 1
  /\ stray' = 1
  /\ UNCHANGED <<pc, slot, targets, round, conn, answer, looked, struck, reused, chosen, client, exits>>
  /\ UNCHANGED os /\ UNCHANGED fixed

(* The then-handler left behind by the timeout.                            *)
LateSettles ==
  /\ late > 0 /\ late' = late - 1
  /\ UNCHANGED <<pc, slot, targets, round, conn, answer, stray, looked, struck, reused, chosen, client, exits>>
  /\ UNCHANGED os /\ UNCHANGED fixed

(* fetchTargetInfo answers with the process's own pid, throws, or runs     *)
(* into its timer.                                                         *)
Ask ==
  /\ pc = "ask"
  /\ answer' \in {None} \union (IF Reachable(Candidate) THEN {Candidate.id} ELSE {})
  /\ Goto("close")
  /\ UNCHANGED <<slot, targets, round, conn, late, stray, looked, struck, reused, chosen, client, exits>>
  /\ UNCHANGED os /\ UNCHANGED fixed

(* The comparison left to the port that was asked.                         *)
MatchesAnything == answer # None

Matches == answer = Requested

(* The finally closes the connection, and only then the answer is used.    *)
ProbeCloses ==
  /\ pc = "close"
  /\ conn' = None /\ answer' = None
  /\ IF Matches
     THEN chosen' = Candidate /\ Goto("connect") /\ UNCHANGED targets
     ELSE targets' = Tail(targets) /\ Goto("probe") /\ UNCHANGED chosen
  /\ UNCHANGED <<slot, round, late, stray, looked, struck, reused, client, exits>>
  /\ UNCHANGED os /\ UNCHANGED fixed

NoMatch ==
  /\ pc = "probe" /\ ~Untried
  /\ Goto(IF round = 0 THEN "decide" ELSE "pause")
  /\ UNCHANGED <<search, struck, reused, client, exits>>
  /\ UNCHANGED os /\ UNCHANGED fixed

MaySignalAnything(seen) == TRUE

(* SIGUSR1 ends a process that does not handle it: only what looks like    *)
(* Node, or cannot be told, is signalled.                                  *)
MaySignal(seen) == seen \in {"node", "unreadable"}
Decide ==
  /\ pc = "decide"
  /\ looked' = IF Requested \in gone THEN "unreadable" ELSE exe[Requested]
  /\ Goto(IF posix /\ MaySignal(looked') THEN "signal" ELSE "failed")
  /\ UNCHANGED <<slot, targets, round, conn, answer, late, stray, struck, reused, chosen, client, exits>>
  /\ UNCHANGED os /\ UNCHANGED fixed

(* The same with the clock forgotten.                                      *)
NewRoundUncounted == slot' = 1 /\ targets' = <<>> /\ round' = 1

NewRound == slot' = 1 /\ targets' = <<>> /\ round' = round + 1

SignalTarget ==
  /\ pc = "signal"
  /\ IF Requested \in gone
     THEN Goto("failed") /\ UNCHANGED <<slot, targets, round, gone, struck, listens>>
     ELSE /\ Goto("scan") /\ NewRound
          /\ IF exe[Requested] = "other"
             THEN /\ gone' = gone \union {Requested} /\ struck' = TRUE
                  /\ UNCHANGED listens
             ELSE UNCHANGED <<gone, struck, listens>>
  /\ UNCHANGED <<exe, conn, answer, late, stray, looked, reused, chosen, client, exits>>
  /\ UNCHANGED fixed

(* Node answers the signal in its own time, on a free port.                *)
InspectorOpens ==
  /\ round > 0 /\ exe[Requested] # "other" /\ Requested \notin gone
  /\ \A p \in Ports : listens[p] # Requested
  /\ \E p \in Ports : listens[p] = Nobody /\ listens' = [listens EXCEPT ![p] = Requested]
  /\ UNCHANGED <<exe, gone, pc, struck, reused, client, exits>>
  /\ UNCHANGED search /\ UNCHANGED fixed

(* The loop looks at the clock between rounds only: the first round runs   *)
(* however long it takes.                                                  *)
Pause ==
  /\ pc = "pause"
  /\ \/ round < MaxRounds /\ NewRound /\ Goto("scan")
     \/ Goto("failed") /\ UNCHANGED <<slot, targets, round>>
  /\ UNCHANGED <<conn, answer, late, stray, looked, struck, reused, chosen, client, exits>>
  /\ UNCHANGED os /\ UNCHANGED fixed

(* connectCdp of the source: the URL carries the id of the inspector, so a *)
(* port that changed hands refuses it.                                     *)
Attach ==
  /\ pc = "connect"
  /\ \/ Reachable(chosen) /\ client' = "open" /\ Goto("install")
     \/ Goto("failed") /\ UNCHANGED client
  /\ UNCHANGED <<search, struck, reused, exits>>
  /\ UNCHANGED os /\ UNCHANGED fixed

(* installAttachRuntimeHook answers installed, or the source closes and    *)
(* rethrows: a reason, a drop, or its five-second timer.                   *)
Install ==
  /\ pc = "install"
  /\ \/ Reachable(chosen) /\ Goto("connected") /\ UNCHANGED client
     \/ Goto("failed") /\ client' = "closed"
  /\ UNCHANGED <<search, struck, reused, exits>>
  /\ UNCHANGED os /\ UNCHANGED fixed

(* The context is destroyed, the contexts are cleared, the socket drops:   *)
(* three listeners, one exit.                                              *)
SignalExit ==
  /\ pc = "connected" /\ Requested \in gone /\ exits = 0
  /\ exits' = 1 /\ client' = "closed"
  /\ UNCHANGED <<pc, search, struck, reused>>
  /\ UNCHANGED os /\ UNCHANGED fixed

ProcessEnds(p) ==
  /\ p \notin gone /\ gone' = gone \union {p}
  /\ listens' = [q \in Ports |-> IF listens[q] = p THEN Nobody ELSE listens[q]]
  /\ UNCHANGED <<exe, pc, struck, reused, client, exits>>
  /\ UNCHANGED search /\ UNCHANGED fixed

(* The pid is given to a new process between two steps of the search.      *)
PidReused ==
  /\ Requested \in gone /\ pc = "signal"
  /\ gone' = gone \ {Requested} /\ exe' = [exe EXCEPT ![Requested] = "other"]
  /\ reused' = TRUE
  /\ UNCHANGED <<listens, pc, struck, client, exits>>
  /\ UNCHANGED search /\ UNCHANGED fixed

Finished == pc \in {"failed", "connected"} /\ UNCHANGED vars

Search ==
  FetchSlot \/ BodyEnds \/ ScanDone \/ ProbeOpens \/ ProbeFails \/ Ask \/ ProbeCloses
  \/ NoMatch \/ Decide \/ SignalTarget \/ Pause
Next == Search \/ LateSettles \/ InspectorOpens \/ Attach \/ Install \/ SignalExit
        \/ (\E p \in Pids : ProcessEnds(p)) \/ PidReused \/ Finished

(* Every fetch, connection and question of the search has a timer, or the  *)
(* HTTP client's own for the body.                                         *)
Spec == Init /\ [][Next]_vars /\ WF_vars(Search) /\ WF_vars(LateSettles)

-----------------------------------------------------------------------------

Targets == [port : Ports, id : Pids]

(* Every variable keeps the values the code can give it.                   *)
TypeOK ==
  /\ exe \in [Pids -> {"node", "other", "unreadable"}] /\ gone \in SUBSET Pids
  /\ listens \in [Ports -> Pids \union {Nobody, Stuck}]
  /\ dual \in SUBSET Ports /\ posix \in BOOLEAN
  /\ pc \in Scanning \union {"connect", "install", "connected", "failed"}
  /\ slot \in 1 .. 5 /\ targets \in Seq(Targets) /\ round \in 0 .. MaxRounds + 1
  /\ conn \in {None, "open"} /\ answer \in Pids \union {None}
  /\ late \in 0 .. 1 /\ stray \in 0 .. 1
  /\ looked \in {None, "node", "other", "unreadable"}
  /\ struck \in BOOLEAN /\ reused \in BOOLEAN
  /\ chosen \in Targets \union {NoTarget} /\ client \in {None, "open", "closed"}
  /\ exits \in 0 .. 1

(* When the search has failed, or ended in a connected source, no          *)
(* connection of it is open: neither the one in use, nor one whose opening *)
(* outlived its timer, nor that of a source whose hooks were refused.      *)
NoConnectionLeft ==
  /\ pc \in {"failed", "connected", "connect"} => conn = None
  /\ pc = "failed" => client # "open"
  /\ stray = 0

(* A process ended by SIGUSR1 had looked like something that survives it:  *)
(* it could not be read, or the pid changed hands after the look.          *)
SignalsOnlyNode ==
  struck => looked = "unreadable" \/ reused

(* The endpoint that is attached to belongs to the requested process, and  *)
(* not to another inspector the scan came across.                          *)
RightTarget == client = "open" => chosen.id = Requested

(* The search ends, whatever answers late or not at all.                   *)
SearchEnds == (pc \in Scanning) ~> (pc \notin Scanning)
=============================================================================
