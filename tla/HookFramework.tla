--------------------------- MODULE HookFramework ---------------------------
(***************************************************************************)
(* The runtime-hook framework inside one target process, over the life of  *)
(* that process: profilers come one after the other or at once, inject the *)
(* framework with their installers, mark the capture start, ping, disable  *)
(* what their probes installed, dispose the rest, give up or die.          *)
(*                                                                         *)
(* The framework object outlives its own disposal: it stays published as   *)
(* __LANTERNA_FRAMEWORK__ and the next injection re-registers with it.     *)
(*                                                                         *)
(* One installation of an installer is an instance <<id, n>>: its timer or *)
(* observer, its buffer, its reset hook, its dispose hook, and the reader  *)
(* global bound to it.                                                     *)
(***************************************************************************)
EXTENDS FiniteSets, Integers

CONSTANTS
  Profilers,       \* captures of this target, each made once
  Installers,      \* installer ids
  RuntimeSignals,  \* the installer of every capture
  Releasing,       \* installers with a disable() that lets them run again
  Awaits,          \* the one that registers __LANTERNA_ASYNC_AWAIT__
  Faulty,          \* installers that throw
  Rank,            \* order of the installers in the composed script
  StaleAfter       \* bound: clock steps in KEEPALIVE_STALE_TIMEOUT_MS

ASSUME InstallerAssumption ==
  /\ RuntimeSignals \in Installers \ (Faulty \cup Releasing)
  /\ Releasing \subseteq Installers
  /\ Awaits \in Releasing
  /\ Faulty \subseteq Installers
  /\ Rank \in [Installers -> Nat]
  /\ StaleAfter \in Nat \ {0}

VARIABLES
  published,    \* __LANTERNA_FRAMEWORK__ is there
  installed,    \* installedInstallers
  count,        \* [Installers -> instances made so far]
  live,         \* instances whose timer or observer runs
  resetHooks,   \* instances with a reset hook in the framework
  disposeHooks, \* instances with a dispose hook in the framework
  reader,       \* [Installers -> instance number its global reads, 0 none]
  attachGlobal, \* __LANTERNA_ATTACH_RUNTIME__ is there
  heartbeat,    \* heartbeatTimer is armed
  watchdog,     \* watchdogTimer is armed
  age,          \* clock steps since the last keepalive
  awaitGlobal,  \* what __LANTERNA_ASYNC_AWAIT__ is
  spawned,      \* the process was started with the preload; never changes
  loader,       \* the preload registered the await transform
  transformed,  \* a module compiled with the await transform is loaded
  phase,        \* [Profilers -> progress of its capture]
  wanted,       \* [Profilers -> installers of its kinds]
  disabled,     \* [Profilers -> installers it disabled]
  disturbed,    \* profilers another profiler or the watchdog interfered with
  threw         \* an installer threw in a first injection

hookVars == <<installed, count, live, resetHooks, disposeHooks, reader>>
timerVars == <<attachGlobal, heartbeat, watchdog, age>>
loaderVars == <<spawned, loader, transformed>>
awaitVars == <<awaitGlobal, loaderVars>>
profilerVars == <<phase, wanted, disabled, disturbed>>
vars == <<published, threw, hookVars, timerVars, awaitVars, profilerVars>>

(* asked: the injection is on its way; orphaned: and its profiler is gone. *)
ProfilerPhases == {"idle", "asked", "orphaned", "injected", "capturing", "gone"}
Attached == {"asked", "injected", "capturing"}

Instances == Installers \X Nat

TypeOK ==
  /\ published \in BOOLEAN /\ threw \in BOOLEAN
  /\ installed \in SUBSET Installers
  /\ count \in [Installers -> Nat]
  /\ live \in SUBSET Instances
  /\ resetHooks \in SUBSET Instances
  /\ disposeHooks \in SUBSET Instances
  /\ reader \in [Installers -> Nat]
  /\ attachGlobal \in BOOLEAN
  /\ heartbeat \in BOOLEAN /\ watchdog \in BOOLEAN
  /\ age \in 0..StaleAfter
  /\ awaitGlobal \in {"none", "wrap", "passthrough"}
  /\ spawned \in BOOLEAN /\ loader \in BOOLEAN /\ transformed \in BOOLEAN
  /\ phase \in [Profilers -> ProfilerPhases]
  /\ wanted \in [Profilers -> SUBSET Installers]
  /\ disabled \in [Profilers -> SUBSET Installers]
  /\ disturbed \in SUBSET Profilers

Init ==
  /\ published = FALSE /\ threw = FALSE
  /\ installed = {}
  /\ count = [id \in Installers |-> 0]
  /\ live = {} /\ resetHooks = {} /\ disposeHooks = {}
  /\ reader = [id \in Installers |-> 0]
  /\ attachGlobal = FALSE /\ heartbeat = FALSE /\ watchdog = FALSE /\ age = 0
  /\ awaitGlobal = "none" /\ spawned \in BOOLEAN /\ loader = FALSE /\ transformed = FALSE
  /\ phase = [p \in Profilers |-> "idle"]
  /\ wanted = [p \in Profilers |-> {}]
  /\ disabled = [p \in Profilers |-> {}]
  /\ disturbed = {}

(* Whoever else is attached while p acts on the shared hooks.              *)
OthersAttached(p) == {q \in Profilers \ {p} : phase[q] \in Attached}

------------------------------------------------------------------------------
(* Helpers: what the injected script and dispose() do.                     *)

(* register() runs the installers in order; a throw ends it, so the ones   *)
(* after the first faulty one never run.                                   *)
Reached(ids) == {id \in ids : \A f \in ids \cap Faulty : Rank[id] < Rank[f]}

(* registerInstaller, once per id that is not installed.                   *)
Install(ids) ==
  LET new == {<<id, count[id] + 1>> : id \in ids}
  IN  /\ installed' = installed \cup ids
      /\ count' = [id \in Installers |-> IF id \in ids THEN count[id] + 1 ELSE count[id]]
      /\ live' = live \cup new
      /\ resetHooks' = resetHooks \cup new
      /\ disposeHooks' = disposeHooks \cup new
      /\ reader' = [id \in Installers |-> IF id \in ids THEN count[id] + 1 ELSE reader[id]]
      /\ awaitGlobal' = IF Awaits \in ids THEN "wrap" ELSE awaitGlobal

(* The same on a framework object that is never published.                 *)
InstallUnpublished(ids) ==
  /\ count' = [id \in Installers |-> IF id \in ids THEN count[id] + 1 ELSE count[id]]
  /\ live' = live \cup {<<id, count[id] + 1>> : id \in ids}
  /\ reader' = [id \in Installers |-> IF id \in ids THEN count[id] + 1 ELSE reader[id]]
  /\ awaitGlobal' = IF Awaits \in ids THEN "wrap" ELSE awaitGlobal
  /\ UNCHANGED <<installed, resetHooks, disposeHooks>>

(* startCapture: reset every installer, restart the heartbeat, count as a  *)
(* keepalive and arm the watchdog.                                         *)
StartCapture ==
  /\ heartbeat' = TRUE
  /\ watchdog' = TRUE
  /\ age' = 0

(* Mutant: disposing forgets the installers but not what they installed.   *)
DisposeWithoutHooks ==
  /\ heartbeat' = FALSE
  /\ watchdog' = FALSE
  /\ UNCHANGED live
  /\ disposeHooks' = {}
  /\ resetHooks' = {}
  /\ reader' = [id \in Installers |-> 0]
  /\ attachGlobal' = FALSE
  /\ awaitGlobal' = "none"
  /\ installed' = {}

(* dispose(): stop the timers, run the dispose hooks, delete every global  *)
(* but the framework's, and let every installer run again.                 *)
Dispose ==
  /\ heartbeat' = FALSE
  /\ watchdog' = FALSE
  /\ live' = live \ disposeHooks
  /\ disposeHooks' = {}
  /\ resetHooks' = {}
  /\ reader' = [id \in Installers |-> 0]
  /\ attachGlobal' = FALSE
  /\ awaitGlobal' = "none"
  /\ installed' = {}

------------------------------------------------------------------------------
(* Profilers.                                                              *)

(* A capture sends the composed attach script, with its kinds' installers. *)
Ask(p) ==
  /\ phase[p] = "idle"
  /\ \E ids \in SUBSET Installers :
       /\ RuntimeSignals \in ids
       /\ wanted' = [wanted EXCEPT ![p] = ids]
  /\ phase' = [phase EXCEPT ![p] = "asked"]
  /\ disturbed' = IF OthersAttached(p) = {} THEN disturbed ELSE disturbed \cup {p}
  /\ UNCHANGED <<published, threw, hookVars, timerVars, awaitVars, disabled>>

(* ATTACH_RUNTIME_HOOK_TIMEOUT_MS passes, or the profiler dies: the script *)
(* may still run.                                                          *)
GiveUp(p) ==
  /\ phase[p] = "asked"
  /\ phase' = [phase EXCEPT ![p] = "orphaned"]
  /\ UNCHANGED <<published, threw, hookVars, timerVars, awaitVars, wanted, disabled, disturbed>>

(* The queued script of a lost connection is dropped. *)
ScriptDropped(p) ==
  /\ phase[p] = "orphaned"
  /\ phase' = [phase EXCEPT ![p] = "gone"]
  /\ UNCHANGED <<published, threw, hookVars, timerVars, awaitVars, wanted, disabled, disturbed>>

Injected(p) == phase' = [phase EXCEPT ![p] = IF @ = "asked" THEN "injected" ELSE "gone"]

(* First injection into this process: install, publish, start the capture. *)
InjectFirst(p) ==
  /\ phase[p] \in {"asked", "orphaned"}
  /\ ~published
  /\ wanted[p] \cap Faulty = {}
  /\ Install(wanted[p])
  /\ StartCapture
  /\ published' = TRUE /\ attachGlobal' = TRUE
  /\ Injected(p)
  /\ disturbed' = disturbed \cup OthersAttached(p)
  /\ loader' = (spawned /\ Awaits \in wanted[p])
  /\ UNCHANGED <<threw, spawned, transformed, wanted, disabled>>

(* An installer throws: installed: false, and nothing is published. (The   *)
(* preload of a spawned target is taken not to throw.)                     *)
InjectFirstThrows(p) ==
  /\ phase[p] \in {"asked", "orphaned"}
  /\ ~published /\ ~spawned
  /\ wanted[p] \cap Faulty # {}
  /\ InstallUnpublished(Reached(wanted[p]))
  /\ threw' = TRUE
  /\ phase' = [phase EXCEPT ![p] = "gone"]
  /\ disturbed' = disturbed \cup OthersAttached(p)
  /\ UNCHANGED <<published, timerVars, loaderVars, wanted, disabled>>

(* Mutant: an existing framework is taken to have its installers.          *)
InjectAgainAsInstalled(p) ==
  /\ phase[p] \in {"asked", "orphaned"}
  /\ published
  /\ wanted[p] \cap Faulty = {}
  /\ attachGlobal' = TRUE
  /\ Injected(p)
  /\ disturbed' = disturbed \cup OthersAttached(p)
  /\ UNCHANGED <<published, threw, hookVars, heartbeat, watchdog, age, awaitVars, wanted, disabled>>

(* Mutant: registerInstaller does not look whether the id is installed. *)
InjectAgainOverAgain(p) ==
  /\ phase[p] \in {"asked", "orphaned"}
  /\ published
  /\ wanted[p] \cap Faulty = {}
  /\ Install(wanted[p])
  /\ attachGlobal' = TRUE
  /\ Injected(p)
  /\ disturbed' = disturbed \cup OthersAttached(p)
  /\ UNCHANGED <<published, threw, heartbeat, watchdog, age, loaderVars, wanted, disabled>>

(* The framework is there: register what is missing and reuse it.          *)
InjectAgain(p) ==
  LET missing == wanted[p] \ installed
  IN  /\ phase[p] \in {"asked", "orphaned"}
      /\ published
      /\ missing \cap Faulty = {}
      /\ Install(missing)
      /\ attachGlobal' = TRUE
      /\ Injected(p)
      /\ disturbed' = disturbed \cup OthersAttached(p)
      /\ UNCHANGED <<published, threw, heartbeat, watchdog, age, loaderVars, wanted, disabled>>

(* The throw reaches Runtime.evaluate, and the capture fails to connect.   *)
InjectAgainThrows(p) ==
  LET missing == wanted[p] \ installed
  IN  /\ phase[p] \in {"asked", "orphaned"}
      /\ published
      /\ missing \cap Faulty # {}
      /\ Install(Reached(missing))
      /\ phase' = [phase EXCEPT ![p] = "gone"]
      /\ disturbed' = disturbed \cup OthersAttached(p)
      /\ UNCHANGED <<published, threw, timerVars, loaderVars, wanted, disabled>>

(* markCaptureStart: nothing if its global is gone.                        *)
MarkCaptureStart(p) ==
  /\ phase[p] = "injected"
  /\ phase' = [phase EXCEPT ![p] = "capturing"]
  /\ IF reader[RuntimeSignals] # 0
       THEN StartCapture
       ELSE UNCHANGED <<heartbeat, watchdog, age>>
  /\ disturbed' = disturbed \cup OthersAttached(p)
  /\ UNCHANGED <<published, threw, hookVars, attachGlobal, awaitVars, wanted, disabled>>

(* keepalive(), every RUNTIME_HOOK_KEEPALIVE_INTERVAL_MS. *)
Keepalive(p) ==
  /\ phase[p] = "capturing" /\ published
  /\ age' = 0
  /\ UNCHANGED <<published, threw, hookVars, attachGlobal, heartbeat, watchdog,
                 awaitVars, profilerVars>>

(* A probe's dispose: the reader's disable() stops its instance, once, and *)
(* releases the installer. Its hooks and its global stay.                  *)
Disable(p, id) ==
  LET instance == <<id, reader[id]>>
  IN  /\ phase[p] = "capturing"
      /\ id \in wanted[p] \cap Releasing
      /\ instance \in live
      /\ live' = live \ {instance}
      /\ installed' = installed \ {id}
      /\ awaitGlobal' = IF id = Awaits THEN "passthrough" ELSE awaitGlobal
      /\ disabled' = [disabled EXCEPT ![p] = @ \cup {id}]
      /\ disturbed' = disturbed \cup OthersAttached(p)
      /\ UNCHANGED <<published, threw, count, resetHooks, disposeHooks, reader,
                     timerVars, loaderVars, phase, wanted>>

(* disposeRuntime: __LANTERNA_ATTACH_RUNTIME__?.dispose?.() *)
DisposeRuntime(p) ==
  /\ phase[p] = "capturing"
  /\ phase' = [phase EXCEPT ![p] = "gone"]
  /\ IF attachGlobal
       THEN Dispose
       ELSE UNCHANGED <<installed, live, resetHooks, disposeHooks, reader,
                        attachGlobal, heartbeat, watchdog, awaitGlobal>>
  /\ disturbed' = disturbed \cup OthersAttached(p)
  /\ UNCHANGED <<published, threw, count, age, loaderVars, wanted, disabled>>

(* The profiler is killed or loses its connection.                         *)
Abandon(p) ==
  /\ phase[p] \in {"injected", "capturing"}
  /\ phase' = [phase EXCEPT ![p] = "gone"]
  /\ UNCHANGED <<published, threw, hookVars, timerVars, awaitVars, wanted, disabled, disturbed>>

------------------------------------------------------------------------------
(* The target.                                                             *)

(* Time passes, with pings late or never: the profiler may be slow or      *)
(* gone, the target stopped in another debugger.                           *)
TimePasses ==
  /\ watchdog /\ age < StaleAfter
  /\ age' = age + 1
  /\ UNCHANGED <<published, threw, hookVars, attachGlobal, heartbeat, watchdog,
                 awaitVars, profilerVars>>

(* Mutant: the watchdog takes itself for a keepalive. *)
WatchdogPings ==
  /\ watchdog /\ age = StaleAfter
  /\ age' = 0
  /\ UNCHANGED <<published, threw, hookVars, attachGlobal, heartbeat, watchdog,
                 awaitVars, profilerVars>>

(* The watchdog finds the last keepalive stale. *)
WatchdogFires ==
  /\ watchdog /\ age = StaleAfter
  /\ Dispose
  /\ disturbed' = disturbed \cup {p \in Profilers : phase[p] \in Attached}
  /\ UNCHANGED <<published, threw, count, age, loaderVars, phase, wanted, disabled>>

(* User code is required or imported. The loader of the await transform    *)
(* needs the require of a preload, and cannot be unregistered.             *)
LoadModule ==
  /\ loader /\ ~transformed
  /\ transformed' = TRUE
  /\ UNCHANGED <<published, threw, hookVars, timerVars, awaitGlobal, spawned,
                 loader, profilerVars>>

Clock == TimePasses \/ WatchdogFires

Next ==
  \/ \E p \in Profilers :
       \/ Ask(p) \/ GiveUp(p) \/ ScriptDropped(p)
       \/ InjectFirst(p) \/ InjectFirstThrows(p)
       \/ InjectAgain(p) \/ InjectAgainThrows(p)
       \/ MarkCaptureStart(p) \/ Keepalive(p)
       \/ \E id \in Installers : Disable(p, id)
       \/ DisposeRuntime(p) \/ Abandon(p)
  \/ Clock
  \/ LoadModule

Spec == Init /\ [][Next]_vars

(* The timers of the target fire as long as the target runs. *)
FairSpec == Spec /\ WF_vars(Clock)

------------------------------------------------------------------------------
(* Properties                                                              *)

Managed == live \cap disposeHooks
NobodyHere == \A p \in Profilers : phase[p] \in {"idle", "gone"}

(* However profilers overlap, disable, dispose, die or find a half-finished *)
(* injection, an installer observes the target at most once through the    *)
(* framework (framework.ts:335-343, memory-usage.ts:93-101).               *)
ObservesOnce ==
  \A i, j \in Managed : i[1] = j[1] => i = j

(* Nothing runs that dispose() cannot stop, unless an installer threw in a *)
(* first injection (framework.ts:444-495).                                 *)
NothingEscapes == live \subseteq disposeHooks \/ threw

(* Whatever earlier captures left behind, a capture that nobody interferes *)
(* with reads the instance that is running, of each installer it asked for *)
(* and has not disabled itself (framework.ts:179-188, 427-480).            *)
CaptureHasItsHooks ==
  \A p \in Profilers \ disturbed :
    phase[p] = "capturing" =>
      /\ heartbeat /\ watchdog
      /\ \A id \in wanted[p] \ disabled[p] : <<id, reader[id]>> \in live

(* What a capture that started leaves behind ends by itself, unless another *)
(* capture comes (framework.ts:411-425).                                   *)
AbandonedAreDisposed ==
  NobodyHere /\ watchdog ~> ~NobodyHere \/ (~heartbeat /\ Managed = {})

(* security-and-privacy.md:40: the watchdog disposes the hooks once the    *)
(* pings stop, whoever left them and at what point.                        *)
HooksEndWithProfilers == NobodyHere ~> ~NobodyHere \/ Managed = {}

(* async-operations/source.ts:894-897: modules transformed earlier still   *)
(* call __LANTERNA_ASYNC_AWAIT__, so it is never taken away.               *)
AwaitStaysCallable == transformed => awaitGlobal # "none"
==============================================================================
