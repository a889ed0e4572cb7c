------------------------------ MODULE LiluBoot ------------------------------
(***************************************************************************)
(* Start-up of Lilu: kern_start and registerPolicy, the two hooks that may *)
(* trigger the second stage (the TrustedBSD policy handlers calling        *)
(* policyInit, and the routed PE_initialize_console calling initConsole),  *)
(* the plugins that register with LiluAPI meanwhile, and the second stage  *)
(* itself (performCommonInit), which runs the plugins' callbacks.          *)
(*                                                                         *)
(* Actors: the thread that loads Lilu; one thread per plugin, running the  *)
(* plugin's kern_start; a set of callers entering a hook again and again;  *)
(* and the thread_call that initConsole fires.                             *)
(***************************************************************************)
EXTENDS Naturals, Sequences, FiniteSets, SequencesExt

CONSTANTS
  Plugins,      \* Lilu plugins, each loaded at most once
  Callers,      \* kernel threads that enter a policy handler or PE_initialize_console
  Worker,       \* the thread_call allocated in initConsole
  NoOne,        \* a free lock
  Faults,       \* which calls may fail, a subset of FaultKinds
  MaxFailures   \* bound: how many init attempts may fail before they succeed

FaultKinds == {"disabled", "kernelPatcher", "console", "wrapper", "policy",
               "thread", "memory", "userPatcher", "listening", "plugin"}

ASSUME ActorsAssumption ==
  /\ Worker \notin Callers /\ NoOne \notin Callers /\ NoOne \notin Plugins
  /\ NoOne # Worker
ASSUME FaultsAssumption == Faults \subseteq FaultKinds
ASSUME MaxFailuresAssumption == MaxFailures \in Nat
ASSUME PluginsFinite == IsFiniteSet(Plugins)

VARIABLES
  bigSur,       \* getKernelVersion() >= KernelVersion::BigSur
  boot,         \* progress of Lilu's own kern_start
  path,         \* which hook registerPolicy installed
  startSuccess, \* Configuration::startSuccess
  initialised,  \* Configuration::initialised
  policyLock,   \* owner of Configuration::policyLock
  access,       \* owner of LiluAPI::access
  apiRequestsOver,
  stored,       \* the LiluAPI lists: which plugins' entries each one holds, in order
  kpatcher,     \* "up" between KernelPatcher::init and deinit, else "down"
  listening,    \* KernelPatcher::that is set
  routed,       \* the kext listener routes are in place
  kactivated,   \* KernelPatcher::activated
  uactivated,   \* UserPatcher::activated
  plugin,       \* progress of each plugin's kern_start
  phase,        \* progress of each hook caller and of the worker
  cursor,       \* index of the loop in processPatcherLoadCallbacks
  called,       \* how often each plugin's patcher callback ran
  failures      \* init attempts that failed so far

lockVars == <<policyLock, access>>
patcherVars == <<kpatcher, listening, routed, kactivated, uactivated>>
bootVars == <<bigSur, boot, path, startSuccess>>
apiVars == <<apiRequestsOver, stored>>
runVars == <<cursor, called, failures>>
vars == <<bootVars, initialised, lockVars, apiVars, patcherVars, plugin, phase, runVars>>

Threads == Callers \cup {Worker}

\* The steps of performCommonInit, in order.
CommonInit == {"callbacks", "listen", "userInit", "userLoad", "activateKernel", "activateUser"}
\* The steps a policy handler or initConsole takes with policyLock held.
Locked == {"recheck", "kernelInit", "finalise", "unlock"}
Phases == {"idle", "lock", "done"} \cup Locked \cup CommonInit

\* The vectors of LiluAPI that plugins append to.
Lists == {"patcherLoaded", "kextLoaded", "kexts", "binaryLoaded", "procs", "entitlement"}

PluginStates == {"unloaded", "starting", "registering", "refused", "started", "gone"}

Init ==
  /\ bigSur \in BOOLEAN
  /\ boot = "kern_start" /\ path = "none"
  /\ startSuccess = FALSE /\ initialised = FALSE
  /\ policyLock = NoOne /\ access = NoOne
  /\ apiRequestsOver = FALSE /\ stored = [l \in Lists |-> <<>>]
  /\ kpatcher = "down" /\ listening = FALSE /\ routed = FALSE
  /\ kactivated = FALSE /\ uactivated = FALSE
  /\ plugin = [p \in Plugins |-> "unloaded"]
  /\ phase = [t \in Threads |-> "idle"]
  /\ cursor = 1
  /\ called = [p \in Plugins |-> 0]
  /\ failures = 0

Fails(kind) == kind \in Faults /\ failures < MaxFailures

-----------------------------------------------------------------------------
(* Lilu's kern_start: registerPolicy, then startSuccess.                   *)

\* getBootArguments finds a disabling argument, or IOLockAlloc fails, or
\* neither hook can be installed: startSuccess stays FALSE.
RegisterNothing ==
  /\ boot = "kern_start"
  /\ {"disabled", "policy"} \cap Faults # {}
  /\ boot' = "finished"
  /\ UNCHANGED <<bigSur, path, startSuccess, initialised, lockVars, apiVars,
                 patcherVars, plugin, phase, runVars>>

\* performEarlyInit succeeds: the kernel patcher is up and
\* _PE_initialize_console is routed to initConsole.
PerformEarlyInit ==
  /\ boot = "kern_start" /\ bigSur
  /\ kpatcher' = "up"
  /\ path' = "console"
  /\ boot' = "registered"
  /\ UNCHANGED <<bigSur, startSuccess, initialised, lockVars, apiVars, listening,
                 routed, kactivated, uactivated, plugin, phase, runVars>>

\* routeFunctionInternal fails with EINVAL, which is not zero, and
\* routeMultipleInternal takes it for the address of a wrapper: performEarlyInit
\* reports success although no hook is installed.
PerformEarlyInitUnrouted ==
  /\ boot = "kern_start" /\ bigSur
  /\ "wrapper" \in Faults
  /\ kpatcher' = "up"
  /\ boot' = "registered"
  /\ UNCHANGED <<bigSur, path, startSuccess, initialised, lockVars, apiVars, listening,
                 routed, kactivated, uactivated, plugin, phase, runVars>>

\* Before Big Sur, or when performEarlyInit failed and rolled the kernel
\* patcher back (deinit, clearError), the MAC policy is registered.
RegisterPolicy ==
  /\ boot = "kern_start"
  /\ bigSur => {"kernelPatcher", "console"} \cap Faults # {}
  /\ kpatcher' = "down"
  /\ path' = "policy"
  /\ boot' = "registered"
  /\ UNCHANGED <<bigSur, startSuccess, initialised, lockVars, apiVars, listening,
                 routed, kactivated, uactivated, plugin, phase, runVars>>

\* The hook is live before startSuccess is set.
StartSuccess ==
  /\ boot = "registered"
  /\ startSuccess' = TRUE
  /\ boot' = "finished"
  /\ UNCHANGED <<bigSur, path, initialised, lockVars, apiVars, patcherVars,
                 plugin, phase, runVars>>

\* kern_stop: the kernel may try to unload Lilu once no plugin needs it.
KernStop ==
  /\ boot = "finished"
  /\ ~startSuccess
  /\ \A p \in Plugins : plugin[p] \in {"unloaded", "gone"}
  /\ boot' = "stopped"
  /\ UNCHANGED <<bigSur, path, startSuccess, initialised, lockVars, apiVars,
                 patcherVars, plugin, phase, runVars>>

-----------------------------------------------------------------------------
(* A plugin's kern_start, between requestAccess and releaseAccess.         *)

PluginUnchanged == UNCHANGED <<bootVars, initialised, policyLock, patcherVars, phase, runVars>>

\* The kernel starts a plugin only after Lilu, which it links against.
LoadPlugin(p) ==
  /\ plugin[p] = "unloaded" /\ boot = "finished"
  /\ plugin' = [plugin EXCEPT ![p] = "starting"]
  /\ UNCHANGED <<access, apiVars>> /\ PluginUnchanged

\* requestAccess returns Offline, UnsupportedFeature, LockError (when asked
\* not to block) or, with the lock taken and given back, TooLate; or
\* shouldLoad says no after access was granted and is released again.
RefusePlugin(p) ==
  /\ plugin[p] = "starting"
  /\ \/ ~startSuccess
     \/ access # NoOne
     \/ access = NoOne /\ apiRequestsOver
     \/ access = NoOne /\ "plugin" \in Faults
  /\ plugin' = [plugin EXCEPT ![p] = "refused"]
  /\ UNCHANGED <<access, apiVars>> /\ PluginUnchanged

\* requestAccess succeeds and shouldLoad agrees: startSuccess is set and
\* pluginStart runs with LiluAPI::access held.
RequestAccess(p) ==
  /\ plugin[p] = "starting"
  /\ startSuccess
  /\ access = NoOne
  /\ ~apiRequestsOver
  /\ access' = p
  /\ plugin' = [plugin EXCEPT ![p] = "registering"]
  /\ UNCHANGED apiVars /\ PluginUnchanged

Holds(l, p) == \E i \in DOMAIN stored[l] : stored[l][i] = p

\* A registration call stores the plugin's entry in the lists ls, in one
\* vector after the other; a vector that cannot grow ends the call with
\* MemoryError and leaves the earlier ones as they are.
Register(p, first, second) ==
  /\ plugin[p] = "registering"
  /\ ~Holds(first, p)
  /\ \E ls \in {{first, second}} \cup (IF "memory" \in Faults THEN {{first}} ELSE {}) :
       stored' = [l \in Lists |-> IF l \in ls THEN Append(stored[l], p) ELSE stored[l]]
  /\ UNCHANGED <<access, apiRequestsOver, plugin>> /\ PluginUnchanged

OnPatcherLoad(p) == Register(p, "patcherLoaded", "patcherLoaded")
OnKextLoad(p) == Register(p, "kextLoaded", "kexts")
OnProcLoad(p) == Register(p, "binaryLoaded", "procs")
OnEntitlementRequest(p) == Register(p, "entitlement", "entitlement")

\* pluginStart returns and kern_start calls releaseAccess.
ReleaseAccess(p) ==
  /\ plugin[p] = "registering"
  /\ access' = NoOne
  /\ plugin' = [plugin EXCEPT ![p] = "started"]
  /\ UNCHANGED apiVars /\ PluginUnchanged

\* Mutant of PluginStop: a started plugin reports that it can be unloaded.
PluginStop_Always(p) ==
  /\ plugin[p] \in {"refused", "started"}
  /\ plugin' = [plugin EXCEPT ![p] = "gone"]
  /\ UNCHANGED <<access, apiVars>> /\ PluginUnchanged

\* The plugin's kern_stop lets it be unloaded only if its startSuccess is
\* not set, that is if it was refused.
PluginStop(p) ==
  /\ plugin[p] = "refused"
  /\ plugin' = [plugin EXCEPT ![p] = "gone"]
  /\ UNCHANGED <<access, apiVars>> /\ PluginUnchanged

-----------------------------------------------------------------------------
(* The hooks: policyInit and initConsole, both a double-checked lock.      *)

Goto(t, from, to) ==
  /\ phase[t] = from
  /\ phase' = [phase EXCEPT ![t] = to]

\* The outer check of either hook.  An initialised Lilu lets the call pass.
EnterHook(t) ==
  /\ t \in Callers /\ path # "none"
  /\ ~initialised
  /\ Goto(t, "idle", "lock")
  /\ UNCHANGED <<bootVars, initialised, lockVars, apiVars, patcherVars, plugin, runVars>>

LockPolicy(t) ==
  /\ t \in Callers
  /\ policyLock = NoOne
  /\ policyLock' = t
  /\ Goto(t, "lock", "recheck")
  /\ UNCHANGED <<bootVars, initialised, access, apiVars, patcherVars, plugin, runVars>>

\* Mutant of Recheck: no second check under the lock.
Recheck_Dropped(t) ==
  /\ Goto(t, "recheck", IF path = "policy" THEN "kernelInit" ELSE "finalise")
  /\ UNCHANGED <<bootVars, initialised, lockVars, apiVars, patcherVars, plugin, runVars>>

\* The inner check; performInit starts with the kernel patcher, initConsole
\* has it up already.
Recheck(t) ==
  /\ Goto(t, "recheck", IF initialised THEN "unlock"
                        ELSE IF path = "policy" THEN "kernelInit" ELSE "finalise")
  /\ UNCHANGED <<bootVars, initialised, lockVars, apiVars, patcherVars, plugin, runVars>>

\* performInit: KernelPatcher::init; on an error it is rolled back.
KernelInit(t) ==
  /\ \/ /\ Goto(t, "kernelInit", "finalise")
        /\ kpatcher' = "up"
        /\ UNCHANGED failures
     \/ /\ Fails("kernelPatcher")
        /\ Goto(t, "kernelInit", "unlock")
        /\ kpatcher' = "down"
        /\ failures' = failures + 1
  /\ UNCHANGED <<bootVars, initialised, lockVars, apiVars, listening, routed,
                 kactivated, uactivated, plugin, cursor, called>>

\* Mutant of FinaliseRequests: the flag is set without the lock.
FinaliseRequests_Unlocked ==
  /\ apiRequestsOver' = TRUE
  /\ UNCHANGED <<access, stored>>

\* finaliseRequests, under LiluAPI::access.
FinaliseRequests ==
  /\ access = NoOne
  /\ apiRequestsOver' = TRUE
  /\ UNCHANGED <<access, stored>>

\* performInit finalises and goes on to performCommonInit itself.
FinalisePolicy(t) ==
  /\ path = "policy"
  /\ FinaliseRequests
  /\ Goto(t, "finalise", "callbacks")
  /\ cursor' = 1
  /\ UNCHANGED <<bootVars, initialised, policyLock, patcherVars, plugin, called, failures>>

\* Mutant of FinaliseConsole: the thread_call is never entered.
FinaliseConsole_NoThread(t) ==
  /\ path = "console"
  /\ FinaliseRequests
  /\ Goto(t, "finalise", "unlock")
  /\ initialised' = TRUE
  /\ cursor' = 1
  /\ UNCHANGED <<bootVars, policyLock, patcherVars, plugin, called, failures>>

\* initConsole finalises, sets initialised ahead of time and fires the
\* worker.  If the thread_call cannot be allocated, initialised stays set: the
\* attempt failed, and no later hook call repeats it.
FinaliseConsole(t) ==
  /\ path = "console"
  /\ FinaliseRequests
  /\ phase[t] = "finalise"
  /\ initialised' = TRUE
  /\ \/ /\ phase' = [phase EXCEPT ![t] = "unlock", ![Worker] = "callbacks"]
        /\ UNCHANGED failures
     \/ /\ Fails("thread")
        /\ phase' = [phase EXCEPT ![t] = "unlock"]
        /\ failures' = failures + 1
  /\ cursor' = 1
  /\ UNCHANGED <<bootVars, policyLock, patcherVars, plugin, called>>

\* Mutant of UnlockPolicy: an early return that forgets the unlock.
UnlockPolicy_Forgotten(t) ==
  /\ t \in Callers
  /\ Goto(t, "unlock", "idle")
  /\ UNCHANGED <<bootVars, initialised, lockVars, apiVars, patcherVars, plugin, runVars>>

UnlockPolicy(t) ==
  /\ t \in Callers
  /\ Goto(t, "unlock", "idle")
  /\ policyLock' = NoOne
  /\ UNCHANGED <<bootVars, initialised, access, apiVars, patcherVars, plugin, runVars>>

-----------------------------------------------------------------------------
(* performCommonInit, run by the policy caller or by the worker.           *)

\* Where performCommonInit returns to.
Return(t) == IF t = Worker THEN "done" ELSE "unlock"

\* One turn of the first loop of processPatcherLoadCallbacks.
PatcherLoadCallback(t) ==
  /\ cursor <= Len(stored["patcherLoaded"])
  /\ phase[t] = "callbacks"
  /\ LET p == stored["patcherLoaded"][cursor] IN
       called' = [called EXCEPT ![p] = @ + 1]
  /\ cursor' = cursor + 1
  /\ UNCHANGED <<bootVars, initialised, lockVars, apiVars, patcherVars, plugin,
                 phase, failures>>

\* Mutant of CallbacksDone: the loop stops before the last callback.
CallbacksDone_Early(t) ==
  /\ cursor >= Len(stored["patcherLoaded"])
  /\ Goto(t, "callbacks", "listen")
  /\ UNCHANGED <<bootVars, initialised, lockVars, apiVars, patcherVars, plugin, runVars>>

CallbacksDone(t) ==
  /\ cursor > Len(stored["patcherLoaded"])
  /\ Goto(t, "callbacks", "listen")
  /\ UNCHANGED <<bootVars, initialised, lockVars, apiVars, patcherVars, plugin, runVars>>

\* The second loop of processPatcherLoadCallbacks: the first stored kext
\* makes setupKextListening route the kext functions and set that, unless
\* that is set already; a failure abandons the kexts.
SetupKextListening(t) ==
  /\ Goto(t, "listen", "userInit")
  /\ IF stored["kexts"] = <<>> \/ listening
     THEN UNCHANGED <<listening, routed>>
     ELSE \/ listening' = TRUE /\ routed' = TRUE
          \/ "listening" \in Faults /\ UNCHANGED <<listening, routed>>
  /\ UNCHANGED <<bootVars, initialised, lockVars, apiVars, kpatcher, kactivated, uactivated,
                 plugin, runVars>>

\* Mutant of UserInit: the failure is rolled back but not returned.
UserInit_GoesOn(t) ==
  /\ \/ /\ initialised' = TRUE
        /\ UNCHANGED <<kpatcher, routed, failures>>
     \/ /\ Fails("userPatcher") /\ ~bigSur
        /\ kpatcher' = "down"
        /\ routed' = FALSE
        /\ failures' = failures + 1
        /\ UNCHANGED initialised
  /\ Goto(t, "userInit", "userLoad")
  /\ UNCHANGED <<bootVars, lockVars, apiVars, listening, kactivated, uactivated, plugin, cursor, called>>

\* UserPatcher::init; it is disabled from Big Sur on and then cannot fail.
\* A failure takes both patchers down again: the routes are restored, but
\* KernelPatcher::that is left as it is.
UserInit(t) ==
  /\ \/ /\ Goto(t, "userInit", "userLoad")
        /\ initialised' = TRUE
        /\ UNCHANGED <<kpatcher, routed, failures>>
     \/ /\ Fails("userPatcher") /\ ~bigSur
        /\ Goto(t, "userInit", Return(t))
        /\ kpatcher' = "down"
        /\ routed' = FALSE
        /\ failures' = failures + 1
        /\ UNCHANGED initialised
  /\ UNCHANGED <<bootVars, lockVars, apiVars, listening, kactivated, uactivated, plugin, cursor, called>>

\* processUserLoadCallbacks drops a process that its plugin has disabled since.
EraseDisabledProc(t) ==
  /\ phase[t] = "userLoad"
  /\ \E i \in DOMAIN stored["procs"] :
       stored' = [stored EXCEPT !["procs"] = RemoveAt(stored["procs"], i)]
  /\ UNCHANGED <<bootVars, initialised, lockVars, apiRequestsOver, patcherVars, plugin,
                 phase, runVars>>

\* The rest is handed to UserPatcher::registerPatches, whose failure is only
\* reported.
ProcessUserLoadCallbacks(t) ==
  /\ Goto(t, "userLoad", "activateKernel")
  /\ UNCHANGED <<bootVars, initialised, lockVars, apiVars, patcherVars, plugin, runVars>>

ActivateKernel(t) ==
  /\ Goto(t, "activateKernel", "activateUser")
  /\ kactivated' = TRUE
  /\ UNCHANGED <<uactivated, bootVars, initialised, lockVars, apiVars, kpatcher, listening,
                 routed, plugin, runVars>>

ActivateUser(t) ==
  /\ Goto(t, "activateUser", Return(t))
  /\ uactivated' = TRUE
  /\ UNCHANGED <<kactivated, bootVars, initialised, lockVars, apiVars, kpatcher, listening,
                 routed, plugin, runVars>>

-----------------------------------------------------------------------------
KernStart ==
  \/ RegisterNothing \/ PerformEarlyInit \/ PerformEarlyInitUnrouted
  \/ RegisterPolicy \/ StartSuccess \/ KernStop

PluginStep(p) ==
  \/ LoadPlugin(p) \/ RefusePlugin(p) \/ RequestAccess(p)
  \/ OnPatcherLoad(p) \/ OnKextLoad(p) \/ OnProcLoad(p) \/ OnEntitlementRequest(p)
  \/ ReleaseAccess(p) \/ PluginStop(p)

PerformCommonInit(t) ==
  \/ PatcherLoadCallback(t) \/ CallbacksDone(t) \/ SetupKextListening(t)
  \/ UserInit(t) \/ EraseDisabledProc(t) \/ ProcessUserLoadCallbacks(t)
  \/ ActivateKernel(t) \/ ActivateUser(t)

\* The steps of a hook call that was entered.
CallStep(t) ==
  \/ LockPolicy(t) \/ Recheck(t) \/ KernelInit(t)
  \/ FinalisePolicy(t) \/ FinaliseConsole(t) \/ UnlockPolicy(t)

HookStep(t) == EnterHook(t) \/ CallStep(t)

Next ==
  \/ KernStart
  \/ \E p \in Plugins : PluginStep(p)
  \/ \E t \in Threads : HookStep(t) \/ PerformCommonInit(t)

Spec == Init /\ [][Next]_vars

(* Fairness: a hook call that was entered, and a worker that was fired, are *)
(* eventually scheduled, and a plugin's pluginStart returns.  No hook has to*)
(* be entered, not even once more after a failed attempt (the remount check *)
(* need not recur), and no plugin has to be loaded.                        *)
Fairness ==
  /\ \A t \in Threads : WF_vars(CallStep(t) \/ PerformCommonInit(t))
  /\ \A p \in Plugins : WF_vars(ReleaseAccess(p))

FairSpec == Spec /\ Fairness

-----------------------------------------------------------------------------
(* Properties.                                                             *)

ConfigTypeOK ==
  /\ bigSur \in BOOLEAN
  /\ boot \in {"kern_start", "registered", "finished", "stopped"}
  /\ path \in {"none", "console", "policy"}
  /\ startSuccess \in BOOLEAN
  /\ initialised \in BOOLEAN
  /\ apiRequestsOver \in BOOLEAN
  /\ kpatcher \in {"up", "down"}
  /\ listening \in BOOLEAN
  /\ routed \in BOOLEAN
  /\ kactivated \in BOOLEAN
  /\ uactivated \in BOOLEAN

DataTypeOK ==
  /\ policyLock \in Callers \cup {NoOne}
  /\ access \in Plugins \cup {NoOne}
  /\ stored \in [Lists -> Seq(Plugins)]
  /\ cursor \in Nat \ {0}
  /\ called \in [Plugins -> Nat]
  /\ failures \in Nat

ThreadTypeOK ==
  /\ plugin \in [Plugins -> PluginStates]
  /\ phase \in [Threads -> Phases]

\* Every variable keeps its type; in particular the loop over the stored
\* callbacks never leaves the vector's index range on the low side.
TypeOK == ConfigTypeOK /\ DataTypeOK /\ ThreadTypeOK

\* The part of the start-up that must not run twice at a time.
Initialising == {"kernelInit", "finalise"} \cup CommonInit

\* However many threads enter policyInit or initConsole at once, and although
\* initConsole hands the work to a thread outside policyLock, at most one
\* thread initialises at a time.
OneInitialiser ==
  \A s, t \in Threads : phase[s] \in Initialising /\ phase[t] \in Initialising => s = t

\* While plugin callbacks run, and ever after (the entitlement, kext and
\* binary callbacks iterate without a lock), no plugin is inside the API: a
\* plugin that requestAccess admitted finished before finaliseRequests.
NoPluginInside ==
  apiRequestsOver => \A p \in Plugins : plugin[p] # "registering"

\* The LiluAPI vectors, which a push_back may reallocate and which the hooks
\* iterate over without a lock, never change again once finaliseRequests has
\* run; only the thread in processUserLoadCallbacks takes entries out of
\* storedProcs, before the user patcher is given its address.
FrozenOnceFinal ==
  [][apiRequestsOver =>
       /\ apiRequestsOver'
       /\ \A l \in Lists \ {"procs"} : stored'[l] = stored[l]
       /\ (\A t \in Threads : phase[t] # "userLoad") => UNCHANGED stored]_vars

\* performCommonInit runs plugin callbacks only with the kernel patcher up,
\* and an activated kernel patcher is up: a failed attempt that was rolled
\* back leaves nothing active.
PatcherUp ==
  /\ \A t \in Threads : phase[t] \in CommonInit => kpatcher = "up"
  /\ kactivated => kpatcher = "up"

\* Activation comes after every stored patcher callback; through the console
\* hook, which never retries, each callback runs exactly once by then.
ActivatedAfterCallbacks ==
  /\ kactivated \/ uactivated =>
       \A p \in Plugins : Holds("patcherLoaded", p) => called[p] > 0
  /\ path = "console" => \A p \in Plugins : called[p] <= 1

\* An initialisation that completed is neither repeated nor rolled back by a
\* caller that saw the old value of initialised.
NoReinit ==
  [][initialised /\ phase[Worker] \notin CommonInit => UNCHANGED <<called, kpatcher, routed>>]_vars

\* Neither Lilu nor a plugin can be unloaded while the kernel or Lilu holds a
\* pointer into it: an installed hook, a stored callback.
NothingDangling ==
  /\ boot = "stopped" => path = "none"
  /\ \A p \in Plugins : plugin[p] = "gone" => \A l \in Lists : ~Holds(l, p)

\* A hook call returns: policyLock and LiluAPI::access are always given back.
HookReturns == \A t \in Callers : phase[t] # "idle" ~> phase[t] = "idle"

\* Some hook call is past the outer check and Lilu is not initialised yet.
Underway == ~initialised /\ \E t \in Callers : phase[t] \in {"lock", "recheck"} \cup Initialising

\* A hook call that finds Lilu uninitialised leads to both patchers being
\* activated, by this call, by the thread it fires or by the call it waits for,
\* unless one more attempt fails.  What failed before does not matter: a later
\* call starts over.  A failed attempt is one that performInit or
\* performCommonInit gave up, or one whose thread_call could not be allocated;
\* on the console path, where initialised stays set, nothing repeats either.
EventuallyActive ==
  \A n \in 0..MaxFailures :
    Underway /\ failures = n ~> (kactivated /\ uactivated) \/ failures > n

\* A patcher callback stored by the time of such a hook call is eventually run,
\* also by an attempt that fails later, unless an attempt fails before it.
PluginServed ==
  \A p \in Plugins, n \in 0..MaxFailures :
    Holds("patcherLoaded", p) /\ Underway /\ failures = n ~> called[p] > 0 \/ failures > n

-----------------------------------------------------------------------------
(* The inductive invariant behind OneInitialiser, NoPluginInside, PatcherUp*)
(* and NoReinit: who holds which lock where, and which values initialised  *)
(* and path have there.                                                    *)

\* Phases of performInit before initialised is set by performCommonInit.
BeforeInitialised == {"kernelInit", "finalise", "callbacks", "listen", "userInit"}

LockInv ==
  /\ \A t \in Callers : phase[t] \in Locked \cup CommonInit => policyLock = t
  /\ \A p \in Plugins : plugin[p] = "registering" => access = p

HookInv ==
  /\ boot = "kern_start" => path = "none"
  /\ path = "none" => ~initialised /\ \A t \in Callers : phase[t] = "idle"
  /\ \A t \in Callers : /\ phase[t] \in CommonInit \cup {"kernelInit"} => path = "policy"
                        /\ phase[t] \in BeforeInitialised => ~initialised
                        /\ phase[t] \in CommonInit \ BeforeInitialised => initialised
                        /\ phase[t] # "done"

WorkerInv ==
  /\ phase[Worker] \in {"idle", "done"} \cup CommonInit
  /\ phase[Worker] # "idle" => path = "console" /\ initialised

PatcherInv ==
  /\ path = "console" => bigSur /\ kpatcher = "up"
  /\ \A t \in Callers : phase[t] \in CommonInit \cup {"finalise"} => kpatcher = "up"
  /\ kactivated => initialised /\ kpatcher = "up"

InitInv == TypeOK /\ LockInv /\ HookInv /\ WorkerInv /\ PatcherInv /\ NoPluginInside

=============================================================================
