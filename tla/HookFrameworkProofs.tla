------------------------ MODULE HookFrameworkProofs ------------------------
(***************************************************************************)
(* For any number of profilers and installers: the framework observes the  *)
(* target once per installer, dispose() reaches everything that runs, and  *)
(* an undisturbed capture reads the hooks that run.                        *)
(***************************************************************************)
EXTENDS HookFramework, TLAPS

(* The framework's own books: what is installed runs, is under a dispose   *)
(* hook and is what its global reads, and nothing else managed runs.       *)
RegistryInv ==
  /\ ~published => installed = {} /\ disposeHooks = {}
  /\ \A id \in installed : <<id, reader[id]>> \in live \cap disposeHooks
  /\ \A i \in live \cap disposeHooks : i[1] \in installed /\ i[2] = reader[i[1]]
  /\ \A i \in live : i[2] # 0

(* What an undisturbed profiler has got so far. *)
CaptureInv ==
  \A p \in Profilers :
    /\ phase[p] # "idle" => RuntimeSignals \in wanted[p]
    /\ p \notin disturbed /\ phase[p] = "injected" => wanted[p] \subseteq installed
    /\ p \notin disturbed /\ phase[p] = "capturing" =>
         heartbeat /\ watchdog /\ wanted[p] \ disabled[p] \subseteq installed

IInv == TypeOK /\ RegistryInv /\ NothingEscapes /\ CaptureInv

------------------------------------------------------------------------------
LEMMA InitTypeOK == Init => TypeOK
<1> SUFFICES ASSUME Init PROVE TypeOK
  OBVIOUS
<1>1. age \in 0..StaleAfter
  BY InstallerAssumption DEF InstallerAssumption, Init
<1>2. /\ count \in [Installers -> Nat] /\ reader \in [Installers -> Nat]
      /\ phase \in [Profilers -> ProfilerPhases]
      /\ wanted \in [Profilers -> SUBSET Installers]
      /\ disabled \in [Profilers -> SUBSET Installers]
  BY DEF Init, ProfilerPhases
<1> QED
  BY <1>1, <1>2 DEF Init, TypeOK

(* Installing keeps the types of the framework's books. *)
LEMMA InstallTypes ==
  ASSUME TypeOK, NEW ids \in SUBSET Installers, Install(ids) \/ InstallUnpublished(ids)
  PROVE  /\ installed' \in SUBSET Installers
         /\ count' \in [Installers -> Nat]
         /\ live' \in SUBSET Instances
         /\ resetHooks' \in SUBSET Instances
         /\ disposeHooks' \in SUBSET Instances
         /\ reader' \in [Installers -> Nat]
         /\ awaitGlobal' \in {"none", "wrap", "passthrough"}
<1> DEFINE new == {<<id, count[id] + 1>> : id \in ids}
<1>1. new \in SUBSET Instances
  BY DEF TypeOK, Instances
<1>2. CASE Install(ids)
  BY <1>1, <1>2 DEF Install, TypeOK
<1>3. CASE InstallUnpublished(ids)
  BY <1>1, <1>3 DEF InstallUnpublished, TypeOK
<1> QED
  BY <1>2, <1>3

LEMMA DisposeTypes ==
  ASSUME TypeOK, Dispose
  PROVE  /\ installed' \in SUBSET Installers
         /\ live' \in SUBSET Instances
         /\ resetHooks' \in SUBSET Instances
         /\ disposeHooks' \in SUBSET Instances
         /\ reader' \in [Installers -> Nat]
         /\ attachGlobal' \in BOOLEAN
         /\ heartbeat' \in BOOLEAN /\ watchdog' \in BOOLEAN
         /\ awaitGlobal' \in {"none", "wrap", "passthrough"}
  BY DEF Dispose, TypeOK

LEMMA StartTypes ==
  ASSUME StartCapture
  PROVE  heartbeat' \in BOOLEAN /\ watchdog' \in BOOLEAN /\ age' \in 0..StaleAfter
  BY InstallerAssumption DEF InstallerAssumption, StartCapture

LEMMA TypeStep == TypeOK /\ [Next]_vars => TypeOK'
<1> SUFFICES ASSUME TypeOK, [Next]_vars PROVE TypeOK'
  OBVIOUS
<1> USE InstallerAssumption DEF InstallerAssumption
<1>1. ASSUME NEW p \in Profilers, Ask(p) PROVE TypeOK'
  BY <1>1 DEF Ask, TypeOK, ProfilerPhases, OthersAttached, hookVars, timerVars, awaitVars, loaderVars
<1>2. ASSUME NEW p \in Profilers, GiveUp(p) \/ ScriptDropped(p) \/ Abandon(p) PROVE TypeOK'
  BY <1>2 DEF GiveUp, ScriptDropped, Abandon, TypeOK, ProfilerPhases, hookVars, timerVars, awaitVars, loaderVars
<1>3. ASSUME NEW p \in Profilers, InjectFirst(p) PROVE TypeOK'
  <2>1. wanted[p] \in SUBSET Installers
    BY DEF TypeOK
  <2>2. Install(wanted[p]) /\ StartCapture
    BY <1>3 DEF InjectFirst
  <2>3. phase' \in [Profilers -> ProfilerPhases] /\ disturbed' \in SUBSET Profilers
    BY <1>3 DEF InjectFirst, Injected, TypeOK, ProfilerPhases, OthersAttached
  <2> HIDE DEF Install, StartCapture
  <2> QED
    BY <1>3, <2>1, <2>2, <2>3, InstallTypes, StartTypes DEF InjectFirst, TypeOK
<1>4. ASSUME NEW p \in Profilers, InjectFirstThrows(p) PROVE TypeOK'
  <2>1. Reached(wanted[p]) \in SUBSET Installers
    BY DEF TypeOK, Reached
  <2>2. InstallUnpublished(Reached(wanted[p]))
    BY <1>4 DEF InjectFirstThrows
  <2>3. phase' \in [Profilers -> ProfilerPhases] /\ disturbed' \in SUBSET Profilers
    BY <1>4 DEF InjectFirstThrows, TypeOK, ProfilerPhases, OthersAttached
  <2> QED
    BY <1>4, <2>1, <2>2, <2>3, InstallTypes DEF InjectFirstThrows, TypeOK, timerVars, loaderVars
<1>5. ASSUME NEW p \in Profilers, InjectAgain(p) PROVE TypeOK'
  <2>1. wanted[p] \ installed \in SUBSET Installers
    BY DEF TypeOK
  <2>2. Install(wanted[p] \ installed)
    BY <1>5 DEF InjectAgain
  <2>3. phase' \in [Profilers -> ProfilerPhases] /\ disturbed' \in SUBSET Profilers
    BY <1>5 DEF InjectAgain, Injected, TypeOK, ProfilerPhases, OthersAttached
  <2> QED
    BY <1>5, <2>1, <2>2, <2>3, InstallTypes DEF InjectAgain, TypeOK, loaderVars
<1>6. ASSUME NEW p \in Profilers, InjectAgainThrows(p) PROVE TypeOK'
  <2>1. Reached(wanted[p] \ installed) \in SUBSET Installers
    BY DEF TypeOK, Reached
  <2>2. Install(Reached(wanted[p] \ installed))
    BY <1>6 DEF InjectAgainThrows
  <2>3. phase' \in [Profilers -> ProfilerPhases] /\ disturbed' \in SUBSET Profilers
    BY <1>6 DEF InjectAgainThrows, TypeOK, ProfilerPhases, OthersAttached
  <2> QED
    BY <1>6, <2>1, <2>2, <2>3, InstallTypes DEF InjectAgainThrows, TypeOK, timerVars, loaderVars
<1>7. ASSUME NEW p \in Profilers, MarkCaptureStart(p) PROVE TypeOK'
  <2>1. heartbeat' \in BOOLEAN /\ watchdog' \in BOOLEAN /\ age' \in 0..StaleAfter
    BY <1>7, StartTypes DEF MarkCaptureStart, TypeOK
  <2>2. phase' \in [Profilers -> ProfilerPhases] /\ disturbed' \in SUBSET Profilers
    BY <1>7 DEF MarkCaptureStart, TypeOK, ProfilerPhases, OthersAttached
  <2> QED
    BY <1>7, <2>1, <2>2 DEF MarkCaptureStart, TypeOK, hookVars, awaitVars, loaderVars
<1>8. ASSUME NEW p \in Profilers, Keepalive(p) PROVE TypeOK'
  BY <1>8 DEF Keepalive, TypeOK, hookVars, awaitVars, loaderVars, profilerVars
<1>9. ASSUME NEW p \in Profilers, NEW id \in Installers, Disable(p, id) PROVE TypeOK'
  BY <1>9 DEF Disable, TypeOK, OthersAttached, timerVars, loaderVars
<1>10. ASSUME NEW p \in Profilers, DisposeRuntime(p) PROVE TypeOK'
  <2>1. phase' \in [Profilers -> ProfilerPhases] /\ disturbed' \in SUBSET Profilers
    BY <1>10 DEF DisposeRuntime, TypeOK, ProfilerPhases, OthersAttached
  <2>2. CASE attachGlobal
    BY <1>10, <2>1, <2>2, DisposeTypes DEF DisposeRuntime, TypeOK, loaderVars
  <2>3. CASE ~attachGlobal
    BY <1>10, <2>1, <2>3 DEF DisposeRuntime, TypeOK, loaderVars
  <2> QED
    BY <2>2, <2>3
<1>11. CASE TimePasses
  BY <1>11 DEF TimePasses, TypeOK, hookVars, awaitVars, loaderVars, profilerVars
<1>12. CASE WatchdogFires
  BY <1>12 DEF WatchdogFires, Dispose, TypeOK, loaderVars
<1>13. CASE LoadModule
  BY <1>13 DEF LoadModule, TypeOK, hookVars, timerVars, profilerVars
<1>14. CASE UNCHANGED vars
  BY <1>14 DEF vars, TypeOK, hookVars, timerVars, awaitVars, loaderVars, profilerVars
<1> QED
  BY <1>1, <1>2, <1>3, <1>4, <1>5, <1>6, <1>7, <1>8, <1>9, <1>10, <1>11, <1>12, <1>13, <1>14
     DEF Next, Clock

------------------------------------------------------------------------------
(* Installing what is not installed keeps the books, and adds it to them.  *)
LEMMA InstallKeepsBooks ==
  ASSUME TypeOK, RegistryInv, NEW ids \in SUBSET Installers,
         ids \cap installed = {}, Install(ids), published'
  PROVE  RegistryInv'
<1> DEFINE new == {<<id, count[id] + 1>> : id \in ids}
<1>1. \A id \in ids : reader'[id] = count[id] + 1 /\ <<id, reader'[id]>> \in new
  BY DEF Install
<1>2. \A id \in Installers \ ids : reader'[id] = reader[id]
  BY DEF Install
<1>3. live' = live \cup new /\ disposeHooks' = disposeHooks \cup new /\ installed' = installed \cup ids
  BY DEF Install
<1>4. \A i \in new : i[1] \in ids /\ i[2] = count[i[1]] + 1 /\ i[2] # 0
  BY DEF TypeOK
<1>5. \A id \in installed' : <<id, reader'[id]>> \in live' \cap disposeHooks'
  BY <1>1, <1>2, <1>3 DEF RegistryInv, TypeOK
<1>6. \A i \in live' \cap disposeHooks' : i[1] \in installed' /\ i[2] = reader'[i[1]]
  <2> TAKE i \in live' \cap disposeHooks'
  <2>1. CASE i \in new
    BY <2>1, <1>1, <1>3, <1>4
  <2>2. CASE i \notin new
    <3>1. i[1] \in installed /\ i[2] = reader[i[1]]
      BY <2>2, <1>3 DEF RegistryInv
    <3> QED
      BY <3>1, <1>2, <1>3 DEF TypeOK
  <2> QED
    BY <2>1, <2>2
<1>7. \A i \in live' : i[2] # 0
  BY <1>3, <1>4 DEF RegistryInv
<1> QED
  BY <1>5, <1>6, <1>7 DEF RegistryInv

(* Disposing closes the books. *)
LEMMA DisposeClosesBooks ==
  ASSUME TypeOK, RegistryInv, Dispose
  PROVE  RegistryInv'
  BY DEF Dispose, RegistryInv

LEMMA RegistryStep == TypeOK /\ RegistryInv /\ [Next]_vars => RegistryInv'
<1> SUFFICES ASSUME TypeOK, RegistryInv, [Next]_vars PROVE RegistryInv'
  OBVIOUS
<1>1. ASSUME UNCHANGED <<published, hookVars>> PROVE RegistryInv'
  BY <1>1 DEF RegistryInv, hookVars
<1>2. ASSUME NEW p \in Profilers, InjectFirst(p) PROVE RegistryInv'
  <2>1. wanted[p] \in SUBSET Installers /\ wanted[p] \cap installed = {}
    BY <1>2 DEF InjectFirst, TypeOK, RegistryInv
  <2> QED
    BY <1>2, <2>1, InstallKeepsBooks DEF InjectFirst
<1>3. ASSUME NEW p \in Profilers, InjectFirstThrows(p) PROVE RegistryInv'
  <2> DEFINE ids == Reached(wanted[p])
  <2>1. ~published' /\ installed' = {} /\ disposeHooks' = {}
    BY <1>3 DEF InjectFirstThrows, InstallUnpublished, RegistryInv
  <2>2. live' = live \cup {<<id, count[id] + 1>> : id \in ids}
    BY <1>3 DEF InjectFirstThrows, InstallUnpublished
  <2>3. \A i \in live' : i[2] # 0
    BY <2>2 DEF RegistryInv, TypeOK, Reached
  <2> QED
    BY <2>1, <2>3 DEF RegistryInv
<1>4. ASSUME NEW p \in Profilers, InjectAgain(p) PROVE RegistryInv'
  <2>1. wanted[p] \ installed \in SUBSET Installers
    BY DEF TypeOK
  <2>2. Install(wanted[p] \ installed) /\ published'
    BY <1>4 DEF InjectAgain
  <2> QED
    BY <2>1, <2>2, InstallKeepsBooks
<1>5. ASSUME NEW p \in Profilers, InjectAgainThrows(p) PROVE RegistryInv'
  <2>1. /\ Reached(wanted[p] \ installed) \in SUBSET Installers
        /\ Reached(wanted[p] \ installed) \cap installed = {}
    BY DEF TypeOK, Reached
  <2>2. Install(Reached(wanted[p] \ installed)) /\ published'
    BY <1>5 DEF InjectAgainThrows
  <2> QED
    BY <2>1, <2>2, InstallKeepsBooks
<1>6. ASSUME NEW p \in Profilers, NEW id \in Installers, Disable(p, id) PROVE RegistryInv'
  <2>1. /\ live' = live \ {<<id, reader[id]>>} /\ installed' = installed \ {id}
        /\ UNCHANGED <<published, disposeHooks, reader>>
    BY <1>6 DEF Disable
  <2>2. \A i \in live' \cap disposeHooks' : i[1] \in installed' /\ i[2] = reader'[i[1]]
    <3> TAKE i \in live' \cap disposeHooks'
    <3>1. i = <<i[1], i[2]>>
      BY <2>1 DEF TypeOK, Instances
    <3>2. i[1] \in installed /\ i[2] = reader[i[1]]
      BY <2>1 DEF RegistryInv
    <3>3. i[1] # id
      BY <2>1, <3>1, <3>2
    <3> QED
      BY <2>1, <3>2, <3>3
  <2> QED
    BY <2>1, <2>2 DEF RegistryInv
<1>7. ASSUME NEW p \in Profilers, DisposeRuntime(p) PROVE RegistryInv'
  <2>1. CASE attachGlobal
    BY <1>7, <2>1, DisposeClosesBooks DEF DisposeRuntime
  <2>2. CASE ~attachGlobal
    BY <1>7, <2>2 DEF DisposeRuntime, RegistryInv
  <2> QED
    BY <2>1, <2>2
<1>8. CASE WatchdogFires
  BY <1>8, DisposeClosesBooks DEF WatchdogFires
<1>9. ASSUME NEW p \in Profilers,
             \/ Ask(p) \/ GiveUp(p) \/ ScriptDropped(p)
             \/ MarkCaptureStart(p) \/ Keepalive(p) \/ Abandon(p)
      PROVE  RegistryInv'
  BY <1>1, <1>9 DEF Ask, GiveUp, ScriptDropped, MarkCaptureStart, Keepalive, Abandon
<1>10. CASE TimePasses \/ LoadModule \/ UNCHANGED vars
  BY <1>1, <1>10 DEF TimePasses, LoadModule, vars
<1> QED
  BY <1>2, <1>3, <1>4, <1>5, <1>6, <1>7, <1>8, <1>9, <1>10 DEF Next, Clock

------------------------------------------------------------------------------
LEMMA EscapeStep == TypeOK /\ NothingEscapes /\ [Next]_vars => NothingEscapes'
<1> SUFFICES ASSUME TypeOK, NothingEscapes, [Next]_vars PROVE NothingEscapes'
  OBVIOUS
<1>1. ASSUME UNCHANGED <<threw, live, disposeHooks>> PROVE NothingEscapes'
  BY <1>1 DEF NothingEscapes
<1>2. ASSUME NEW ids, Install(ids), UNCHANGED threw PROVE NothingEscapes'
  BY <1>2 DEF Install, NothingEscapes
<1>3. ASSUME Dispose, UNCHANGED threw PROVE NothingEscapes'
  BY <1>3 DEF Dispose, NothingEscapes
<1>4. ASSUME NEW p \in Profilers, InjectFirst(p) \/ InjectAgain(p) \/ InjectAgainThrows(p)
      PROVE  NothingEscapes'
  BY <1>2, <1>4 DEF InjectFirst, InjectAgain, InjectAgainThrows
<1>5. ASSUME NEW p \in Profilers, InjectFirstThrows(p) PROVE NothingEscapes'
  BY <1>5 DEF InjectFirstThrows, NothingEscapes
<1>6. ASSUME NEW p \in Profilers, NEW id \in Installers, Disable(p, id) PROVE NothingEscapes'
  BY <1>6 DEF Disable, NothingEscapes
<1>7. ASSUME NEW p \in Profilers, DisposeRuntime(p) PROVE NothingEscapes'
  BY <1>1, <1>3, <1>7 DEF DisposeRuntime
<1>8. CASE WatchdogFires
  BY <1>3, <1>8 DEF WatchdogFires
<1>9. ASSUME NEW p \in Profilers,
             \/ Ask(p) \/ GiveUp(p) \/ ScriptDropped(p)
             \/ MarkCaptureStart(p) \/ Keepalive(p) \/ Abandon(p)
      PROVE  NothingEscapes'
  BY <1>1, <1>9 DEF Ask, GiveUp, ScriptDropped, MarkCaptureStart, Keepalive, Abandon, hookVars
<1>10. CASE TimePasses \/ LoadModule \/ UNCHANGED vars
  BY <1>1, <1>10 DEF TimePasses, LoadModule, vars, hookVars
<1> QED
  BY <1>4, <1>5, <1>6, <1>7, <1>8, <1>9, <1>10 DEF Next, Clock

------------------------------------------------------------------------------
(* A step of p on the shared hooks leaves only p undisturbed among the     *)
(* attached, so CaptureInv is a matter of p alone.                         *)
LEMMA OthersAreDisturbed ==
  ASSUME TypeOK, CaptureInv, NEW p \in Profilers,
         disturbed' = disturbed \cup OthersAttached(p),
         UNCHANGED wanted,
         \A q \in Profilers \ {p} : phase'[q] = phase[q],
         phase[p] # "idle" \/ phase'[p] = "idle",
         p \notin disturbed' /\ phase'[p] = "injected" => wanted[p] \subseteq installed',
         p \notin disturbed' /\ phase'[p] = "capturing" =>
           heartbeat' /\ watchdog' /\ wanted[p] \ disabled'[p] \subseteq installed'
  PROVE  CaptureInv'
<1>1. ASSUME NEW q \in Profilers, q # p
      PROVE  ~(q \notin disturbed' /\ phase'[q] \in {"injected", "capturing"})
  BY <1>1 DEF OthersAttached, Attached
<1> QED
  BY <1>1 DEF CaptureInv

LEMMA CaptureStep == TypeOK /\ RegistryInv /\ CaptureInv /\ [Next]_vars => CaptureInv'
<1> SUFFICES ASSUME TypeOK, RegistryInv, CaptureInv, [Next]_vars PROVE CaptureInv'
  OBVIOUS
<1>1. ASSUME UNCHANGED <<profilerVars, installed, heartbeat, watchdog>> PROVE CaptureInv'
  BY <1>1 DEF CaptureInv, profilerVars
<1>2. ASSUME NEW p \in Profilers, Ask(p) PROVE CaptureInv'
  <2>1. PICK ids \in SUBSET Installers :
          RuntimeSignals \in ids /\ wanted' = [wanted EXCEPT ![p] = ids]
    BY <1>2 DEF Ask
  <2>2. /\ phase' = [phase EXCEPT ![p] = "asked"]
        /\ disturbed \subseteq disturbed'
        /\ UNCHANGED <<installed, heartbeat, watchdog, disabled>>
    BY <1>2 DEF Ask, hookVars, timerVars
  <2>3. ASSUME NEW q \in Profilers, q # p
        PROVE  phase'[q] = phase[q] /\ wanted'[q] = wanted[q]
    BY <2>1, <2>2, <2>3 DEF TypeOK
  <2>4. phase'[p] = "asked" /\ wanted'[p] = ids
    BY <2>1, <2>2 DEF TypeOK
  <2> QED
    BY <2>1, <2>2, <2>3, <2>4 DEF CaptureInv
<1>3. ASSUME NEW p \in Profilers, GiveUp(p) \/ ScriptDropped(p) \/ Abandon(p) PROVE CaptureInv'
  <2>1. /\ \A q \in Profilers \ {p} : phase'[q] = phase[q]
        /\ phase[p] # "idle" /\ phase'[p] \in {"orphaned", "gone"}
        /\ UNCHANGED <<wanted, disabled, disturbed, installed, heartbeat, watchdog>>
    BY <1>3 DEF GiveUp, ScriptDropped, Abandon, TypeOK, hookVars, timerVars
  <2> QED
    BY <2>1 DEF CaptureInv
<1>4. ASSUME NEW p \in Profilers, InjectFirst(p) PROVE CaptureInv'
  <2>1. /\ installed' = installed \cup wanted[p]
        /\ disturbed' = disturbed \cup OthersAttached(p)
        /\ UNCHANGED wanted
        /\ \A q \in Profilers \ {p} : phase'[q] = phase[q]
        /\ phase[p] # "idle" /\ phase'[p] # "capturing"
    BY <1>4 DEF InjectFirst, Install, Injected, TypeOK
  <2> QED
    BY <2>1, OthersAreDisturbed
<1>5. ASSUME NEW p \in Profilers, InjectAgain(p) PROVE CaptureInv'
  <2>1. /\ installed' = installed \cup (wanted[p] \ installed)
        /\ disturbed' = disturbed \cup OthersAttached(p)
        /\ UNCHANGED wanted
        /\ \A q \in Profilers \ {p} : phase'[q] = phase[q]
        /\ phase[p] # "idle" /\ phase'[p] # "capturing"
    BY <1>5 DEF InjectAgain, Install, Injected, TypeOK
  <2> QED
    BY <2>1, OthersAreDisturbed
<1>6. ASSUME NEW p \in Profilers,
             InjectFirstThrows(p) \/ InjectAgainThrows(p) \/ DisposeRuntime(p)
      PROVE  CaptureInv'
  <2>1. /\ disturbed' = disturbed \cup OthersAttached(p)
        /\ UNCHANGED wanted
        /\ \A q \in Profilers \ {p} : phase'[q] = phase[q]
        /\ phase[p] # "idle" /\ phase'[p] = "gone"
    BY <1>6 DEF InjectFirstThrows, InjectAgainThrows, DisposeRuntime, TypeOK
  <2> QED
    BY <2>1, OthersAreDisturbed
<1>7. ASSUME NEW p \in Profilers, MarkCaptureStart(p) PROVE CaptureInv'
  <2>1. /\ disturbed' = disturbed \cup OthersAttached(p)
        /\ UNCHANGED <<wanted, installed>>
        /\ \A q \in Profilers \ {p} : phase'[q] = phase[q]
        /\ phase[p] = "injected" /\ phase'[p] = "capturing"
    BY <1>7 DEF MarkCaptureStart, TypeOK, hookVars
  <2>2. ASSUME p \notin disturbed' PROVE heartbeat' /\ watchdog' /\ wanted[p] \subseteq installed'
    <3>1. wanted[p] \subseteq installed /\ RuntimeSignals \in wanted[p]
      BY <2>1, <2>2 DEF CaptureInv
    <3>2. reader[RuntimeSignals] # 0
      BY <3>1 DEF RegistryInv
    <3> QED
      BY <1>7, <2>1, <3>1, <3>2 DEF MarkCaptureStart, StartCapture
  <2> QED
    BY <2>1, <2>2, OthersAreDisturbed
<1>8. ASSUME NEW p \in Profilers, NEW id \in Installers, Disable(p, id) PROVE CaptureInv'
  <2>1. /\ disturbed' = disturbed \cup OthersAttached(p)
        /\ UNCHANGED <<wanted, phase, heartbeat, watchdog>>
        /\ installed' = installed \ {id}
        /\ disabled'[p] = disabled[p] \cup {id}
        /\ phase[p] = "capturing"
    BY <1>8 DEF Disable, TypeOK, timerVars
  <2>2. ASSUME p \notin disturbed'
        PROVE  heartbeat' /\ watchdog' /\ wanted[p] \ disabled'[p] \subseteq installed'
    BY <2>1, <2>2 DEF CaptureInv
  <2> QED
    BY <2>1, <2>2, OthersAreDisturbed
<1>9. CASE WatchdogFires
  BY <1>9 DEF WatchdogFires, CaptureInv, Attached
<1>10. ASSUME NEW p \in Profilers, Keepalive(p) PROVE CaptureInv'
  BY <1>1, <1>10 DEF Keepalive, hookVars
<1>11. CASE TimePasses \/ LoadModule \/ UNCHANGED vars
  BY <1>1, <1>11 DEF TimePasses, LoadModule, vars, hookVars, timerVars
<1> QED
  BY <1>2, <1>3, <1>4, <1>5, <1>6, <1>7, <1>8, <1>9, <1>10, <1>11 DEF Next, Clock

------------------------------------------------------------------------------
(* The inductive invariant holds in every reachable state.                 *)
THEOREM InvariantHolds == Spec => []IInv
<1>1. Init => IInv
  BY InitTypeOK DEF Init, IInv, RegistryInv, NothingEscapes, CaptureInv
<1>2. IInv /\ [Next]_vars => IInv'
  BY TypeStep, RegistryStep, EscapeStep, CaptureStep DEF IInv
<1> QED
  BY <1>1, <1>2, PTL DEF Spec

(* Every variable keeps the values the framework can give it, for any      *)
(* profilers and installers (framework.ts:173-573).                        *)
THEOREM TypeCorrect == Spec => []TypeOK
<1>1. IInv => TypeOK
  BY DEF IInv
<1> QED
  BY <1>1, InvariantHolds, PTL

(* At most one managed instance of an installer ever runs: re-injection,   *)
(* disabling and disposal never double the observers of a live target      *)
(* (framework.ts:335-343).                                                 *)
THEOREM ObservedOnce == Spec => []ObservesOnce
<1>1. IInv => ObservesOnce
  BY DEF IInv, TypeOK, RegistryInv, ObservesOnce, Managed, Instances
<1> QED
  BY <1>1, InvariantHolds, PTL

(* dispose() has a hook for everything that runs, except what a first      *)
(* injection whose installer threw left (framework.ts:444-495).            *)
THEOREM DisposeReachesAll == Spec => []NothingEscapes
<1>1. IInv => NothingEscapes
  BY DEF IInv
<1> QED
  BY <1>1, InvariantHolds, PTL

(* An undisturbed capture reads running hooks, whatever history of failed, *)
(* abandoned and disposed captures the target has (framework.ts:179-188,   *)
(* 427-480).                                                               *)
THEOREM CapturesReadRunningHooks == Spec => []CaptureHasItsHooks
<1>1. IInv => CaptureHasItsHooks
  BY DEF IInv, RegistryInv, CaptureInv, CaptureHasItsHooks
<1> QED
  BY <1>1, InvariantHolds, PTL
==============================================================================
