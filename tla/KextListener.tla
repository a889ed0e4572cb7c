---------------------------- MODULE KextListener ----------------------------
(***************************************************************************)
(* How KernelPatcher learns of kexts: the kext part of                     *)
(* LiluAPI::processPatcherLoadCallbacks queues one KextHandler per         *)
(* requested kext, setupKextListening routes OSKext::unload and            *)
(* OSKext::saveLoadedKextPanicList, and from activate on every kext load   *)
(* walks the handlers.  The initialising thread runs concurrently with the *)
(* thread that loads and unloads kexts.                                    *)
(*                                                                         *)
(* The kernel's own side is external: it loads and unloads one kext at a   *)
(* time (under its recursive kext lock), puts a new kmod at the head of    *)
(* the kmod list, and calls saveLoadedKextPanicList at the end of both.    *)
(* Kexts are numbered in the order they were loaded, so the kmod list,     *)
(* newest first, is the set of the numbers that are still loaded.          *)
(***************************************************************************)
EXTENDS Naturals, Sequences, FiniteSets, SequencesExt

CONSTANTS
  Ids,          \* bundle identifiers
  RequestLists, \* what the plugins' onKextLoad calls may have stored
  Faults,       \* which calls may fail, a subset of KextFaults
  MaxLoads,     \* bound: kexts loaded in one behaviour
  MaxAttempts   \* bound: initialisations that UserPatcher::init fails

KextFaults == {"kinfo", "symbol", "route", "memory"}

\* KextInfo: info is the identity of the object, the rest its fields.
Requests == [info : Nat \ {0}, id : Ids, loaded : BOOLEAN, reloadable : BOOLEAN,
             disabled : BOOLEAN]

ASSUME RequestsAssumption == RequestLists \subseteq Seq(Requests)
\* The identifier is a field of the object.
ASSUME InfosAssumption ==
  \A l \in RequestLists : \A i, j \in DOMAIN l : l[i].info = l[j].info => l[i].id = l[j].id
ASSUME KextBoundsAssumption == MaxLoads \in Nat /\ MaxAttempts \in Nat
ASSUME KextFaultsAssumption == Faults \subseteq KextFaults

VARIABLES
  bigSur,       \* getKernelVersion() >= KernelVersion::BigSur
  storedKexts,  \* LiluAPI::storedKexts, flattened
  next,         \* index of the loop over storedKexts
  pc,           \* the initialising thread
  cursor,       \* kmod its processAlreadyLoadedKexts looks at, 0 at the end
  attempts,     \* initialisations that failed
  loadIndex,    \* KextInfo::loadIndex of each object, 0 for Unloaded
  kinfos,       \* KernelPatcher::kinfos after the kernel's own
  khandlers,    \* KernelPatcher::khandlers
  that,         \* KernelPatcher::that is set
  routed,       \* which of the two OSKext functions are routed
  waiting,      \* KernelPatcher::waitingForAlreadyLoadedKexts
  activated,    \* KernelPatcher::activated
  isKextUnloading,
  kexts,        \* every kext loaded so far
  live,         \* the kmod list
  lpc,          \* the thread that loads and unloads kexts
  lcursor,      \* kmod its processAlreadyLoadedKexts looks at
  panicked      \* freed memory or a vector's end was touched

queueVars == <<bigSur, storedKexts, next, attempts, loadIndex, kinfos>>
listenVars == <<that, routed>>
initVars == <<pc, cursor>>
kernelVars == <<live, lpc, lcursor, isKextUnloading>>
vars == <<queueVars, initVars, listenVars, khandlers, waiting, activated, kexts,
          kernelVars, panicked>>

Hooks == {"unload", "save"}
Handlers == [id : Ids, index : Nat, loaded : BOOLEAN, reloadable : BOOLEAN]
\* genuine: MachInfo::isCurrentBinary finds the UUID it read from the file;
\* when: loaded before activate looks at the kmods, while it does, or after;
\* told: how often a handler was invoked for it.
Kexts == [id : Ids, genuine : BOOLEAN, when : {"early", "gap", "late"}, told : Nat]

Infos == {storedKexts[i].info : i \in DOMAIN storedKexts}

Init ==
  /\ bigSur \in BOOLEAN
  /\ storedKexts \in RequestLists
  /\ next = 1 /\ pc = "queue" /\ cursor = 0 /\ attempts = 0
  /\ loadIndex = [i \in Infos |-> 0]
  /\ kinfos = <<>> /\ khandlers = <<>>
  /\ that = FALSE /\ routed = {} /\ waiting = FALSE /\ activated = FALSE
  /\ isKextUnloading = FALSE
  /\ kexts = <<>> /\ live = {} /\ lpc = "idle" /\ lcursor = 0
  /\ panicked = FALSE

-----------------------------------------------------------------------------
(* processPatcherLoadCallbacks: queueing the requested kexts.              *)

Request == storedKexts[next]
Queueing == pc = "queue" /\ next <= Len(storedKexts)

QueueUnchanged == UNCHANGED <<bigSur, storedKexts, attempts, cursor, activated, kexts,
                              kernelVars, panicked>>

\* A disabled request, or one whose MachInfo cannot be loaded, is skipped.
SkipRequest ==
  /\ Queueing
  /\ \/ Request.disabled
     \/ "kinfo" \in Faults /\ loadIndex[Request.info] = 0 /\ Request.id \notin Range(kinfos)
  /\ next' = next + 1
  /\ UNCHANGED <<pc, loadIndex, kinfos, khandlers, waiting, listenVars>> /\ QueueUnchanged

\* Mutant of LoadKinfo: the index is taken before the MachInfo is stored.
LoadKinfo_OffByOne ==
  /\ Queueing /\ ~Request.disabled
  /\ \/ loadIndex[Request.info] # 0 /\ UNCHANGED <<loadIndex, kinfos>>
     \/ /\ loadIndex[Request.info] = 0 /\ Request.id \notin Range(kinfos)
        /\ kinfos' = Append(kinfos, Request.id)
        /\ loadIndex' = [loadIndex EXCEPT ![Request.info] = Len(kinfos)]
  /\ pc' = "listen"
  /\ UNCHANGED <<next, khandlers, waiting, listenVars>> /\ QueueUnchanged

\* loadKinfo succeeds: the KextInfo object was loaded before (its loadIndex
\* is returned as it is), or its MachInfo is read and stored now.
LoadKinfo ==
  /\ Queueing /\ ~Request.disabled
  /\ \/ loadIndex[Request.info] # 0 /\ UNCHANGED <<loadIndex, kinfos>>
     \/ /\ loadIndex[Request.info] = 0 /\ Request.id \notin Range(kinfos)
        /\ kinfos' = Append(kinfos, Request.id)
        /\ loadIndex' = [loadIndex EXCEPT ![Request.info] = Len(kinfos) + 1]
  /\ pc' = "listen"
  /\ UNCHANGED <<next, khandlers, waiting, listenVars>> /\ QueueUnchanged

\* The features of the first handler for the request's kext are widened.
UpdateKextHandlerFeatures(r) ==
  LET same == {i \in DOMAIN khandlers : khandlers[i].id = r.id}
  IN  khandlers' = [i \in DOMAIN khandlers |->
        IF i \in same /\ \A j \in same : i <= j
        THEN [khandlers[i] EXCEPT !.loaded = @ \/ r.loaded, !.reloadable = @ \/ r.reloadable]
        ELSE khandlers[i]]

\* Another KextInfo of the same kext was loaded (AlreadyDone): no new handler.
AlreadyDone ==
  /\ Queueing /\ ~Request.disabled
  /\ loadIndex[Request.info] = 0
  /\ \E i \in DOMAIN kinfos :
       /\ kinfos[i] = Request.id
       /\ loadIndex' = [loadIndex EXCEPT ![Request.info] = i]
  /\ UpdateKextHandlerFeatures(Request)
  /\ next' = next + 1
  /\ UNCHANGED <<pc, kinfos, waiting, listenVars>> /\ QueueUnchanged

\* setupKextListening has been done before, or routes both functions.  A missing
\* symbol ends the queue (waitOnKext finds that unset), and so does a second
\* route that fails, which leaves the first in place or not.  If only the first
\* one, of OSKext::unload, fails, routeMultiple takes EINVAL for a wrapper and
\* the second one's createTrampoline clears the error: the listener is taken to
\* be set up without the hook that marks an unload.
SetupKextListening ==
  /\ pc = "listen"
  /\ \/ that /\ pc' = "wait" /\ UNCHANGED routed
     \/ ~that /\ pc' = "setThat" /\ routed' = Hooks
     \/ ~that /\ "symbol" \in Faults /\ pc' = "user" /\ UNCHANGED routed
     \/ ~that /\ "route" \in Faults /\ pc' = "user" /\ routed' \in {routed, {"unload"}}
     \/ ~that /\ "route" \in Faults /\ pc' = "setThat" /\ routed' = {"save"}
  /\ UNCHANGED <<next, loadIndex, kinfos, khandlers, waiting, that>> /\ QueueUnchanged

\* The routes are live before that is set; an error left in code keeps it unset.
SetThat ==
  /\ pc = "setThat"
  /\ that' = TRUE
  /\ pc' = "wait"
  /\ UNCHANGED <<next, loadIndex, kinfos, khandlers, waiting, routed>> /\ QueueUnchanged

\* KextHandler::create and waitOnKext.
WaitOnKext ==
  /\ pc = "wait"
  /\ waiting' = (waiting \/ Request.loaded)
  /\ khandlers' = Append(khandlers, [id |-> Request.id, index |-> loadIndex[Request.info],
                          loaded |-> Request.loaded, reloadable |-> Request.reloadable])
  /\ next' = next + 1
  /\ pc' = "queue"
  /\ UNCHANGED <<loadIndex, kinfos, listenVars>> /\ QueueUnchanged

\* The handler cannot be allocated, or khandlers cannot grow: the queue ends.
\* waitOnKext has noted the Loaded flag in the second case.
WaitOnKextFails ==
  /\ pc = "wait" /\ "memory" \in Faults
  /\ waiting' \in {waiting, waiting \/ Request.loaded}
  /\ pc' = "user"
  /\ UNCHANGED <<next, loadIndex, kinfos, khandlers, listenVars>> /\ QueueUnchanged

QueueDone ==
  /\ pc = "queue" /\ next > Len(storedKexts)
  /\ pc' = "user"
  /\ UNCHANGED <<next, loadIndex, kinfos, khandlers, waiting, listenVars>> /\ QueueUnchanged

\* UserPatcher::init fails (it cannot from Big Sur on): KernelPatcher::deinit
\* restores the routes and frees kinfos, and the next policy call starts over.
UserInitFails ==
  /\ pc = "user" /\ ~bigSur /\ attempts < MaxAttempts
  /\ attempts' = attempts + 1
  /\ kinfos' = <<>> /\ routed' = {}
  /\ next' = 1 /\ pc' = "queue"
  /\ UNCHANGED <<bigSur, storedKexts, loadIndex, khandlers, that, waiting, cursor,
                 activated, kexts, kernelVars, panicked>>

-----------------------------------------------------------------------------
(* processKext and the walk over the kmod list.                            *)

\* n is the head of the kmod list, or follows kmod m in it; 0 is the end.
First(n) == \/ n \in live /\ \A m \in live : m <= n
            \/ n = 0 /\ live = {}
Follows(n, m) ==
  \/ n \in live /\ n < m /\ \A o \in live : o < m => o <= n
  \/ n = 0 /\ \A o \in live : o >= m

\* Handlers that processKext compares with the UUID of kmod n.
Candidates(n, loaded) ==
  {i \in DOMAIN khandlers : /\ loaded => khandlers[i].loaded
                            /\ khandlers[i].id = kexts[n].id}

\* Mutant of ProcessKext: the handler is never erased.
ProcessKext_Kept(n, loaded) ==
  /\ panicked' = \E i \in Candidates(n, loaded) : khandlers[i].index \notin DOMAIN kinfos
  /\ UNCHANGED khandlers
  /\ \/ /\ kexts[n].genuine /\ Candidates(n, loaded) # {}
        /\ kexts' = [kexts EXCEPT ![n].told = @ + 1]
     \/ /\ ~(kexts[n].genuine /\ Candidates(n, loaded) # {})
        /\ UNCHANGED kexts

\* processKext(kmod n, loaded): the first handler that fits is invoked and,
\* unless reloadable, erased.  A handler whose index is beyond kinfos reads
\* past the vector's end.
ProcessKext(n, loaded) ==
  /\ panicked' = \E i \in Candidates(n, loaded) : khandlers[i].index \notin DOMAIN kinfos
  /\ \/ \E i \in Candidates(n, loaded) :
          /\ kexts[n].genuine
          /\ \A j \in Candidates(n, loaded) : i <= j
          /\ kexts' = [kexts EXCEPT ![n].told = @ + 1]
          /\ khandlers' = IF khandlers[i].reloadable THEN khandlers ELSE RemoveAt(khandlers, i)
     \/ /\ ~(kexts[n].genuine /\ Candidates(n, loaded) # {})
        /\ UNCHANGED <<kexts, khandlers>>

-----------------------------------------------------------------------------
(* KernelPatcher::activate.                                                *)

\* Mutant of StartScan: already loaded kexts are left for the first load.
StartScan_Never ==
  /\ pc = "user"
  /\ pc' = "activate"
  /\ UNCHANGED <<cursor, queueVars, listenVars, khandlers, waiting, activated, kexts,
                 kernelVars, panicked>>

\* From Big Sur on the already loaded kexts are processed before activation.
StartScan ==
  /\ pc = "user"
  /\ \/ /\ bigSur /\ waiting
        /\ First(cursor')
        /\ cursor' \in live \cup {0}
        /\ pc' = "scan"
     \/ /\ ~(bigSur /\ waiting)
        /\ pc' = "activate"
        /\ UNCHANGED cursor
  /\ UNCHANGED <<queueVars, listenVars, khandlers, waiting, activated, kexts, kernelVars,
                 panicked>>

\* One turn of processAlreadyLoadedKexts, without the kernel's kext lock.
Scan ==
  /\ pc = "scan" /\ cursor # 0
  /\ ProcessKext(cursor, TRUE)
  /\ cursor' \in live \cup {0} /\ Follows(cursor', cursor)
  /\ UNCHANGED <<pc, queueVars, listenVars, waiting, activated, kernelVars>>

\* The kmod the walk stands on has been unloaded and its memory unmapped.
ScanFaults ==
  /\ pc = "scan" /\ cursor # 0 /\ cursor \notin live
  /\ panicked' = TRUE
  /\ UNCHANGED <<initVars, queueVars, listenVars, khandlers, waiting, activated, kexts,
                 kernelVars>>

ScanDone ==
  /\ pc = "scan" /\ cursor = 0
  /\ waiting' = FALSE
  /\ pc' = "activate"
  /\ UNCHANGED <<cursor, queueVars, listenVars, khandlers, activated, kexts, kernelVars,
                 panicked>>

SetActivated ==
  /\ pc = "activate"
  /\ activated' = TRUE
  /\ pc' = "done"
  /\ UNCHANGED <<cursor, queueVars, listenVars, khandlers, waiting, kexts, kernelVars,
                 panicked>>

-----------------------------------------------------------------------------
(* The kernel loads and unloads kexts (external), calling Lilu's hooks.    *)

When == IF activated THEN "late" ELSE IF pc \in {"scan", "activate"} THEN "gap" ELSE "early"

KernelUnchanged == UNCHANGED <<initVars, queueVars, listenVars, activated>>

\* A kext is linked and put at the head of the kmod list.
LoadKext(id, genuine) ==
  /\ lpc = "idle" /\ Len(kexts) < MaxLoads
  /\ \A n \in live : kexts[n].id # id
  /\ kexts' = Append(kexts, [id |-> id, genuine |-> genuine, when |-> When, told |-> 0])
  /\ live' = live \cup {Len(kexts) + 1}
  /\ lpc' = "loading"
  /\ UNCHANGED <<lcursor, isKextUnloading, khandlers, waiting, panicked>> /\ KernelUnchanged

\* onOSKextUnload: nothing is unloaded while that is not set.
OnOSKextUnload(n) ==
  /\ lpc = "idle" /\ n \in live
  /\ "unload" \in routed => that
  /\ isKextUnloading' = ("unload" \in routed)
  /\ live' = live \ {n}
  /\ lpc' = "unloading"
  /\ UNCHANGED <<lcursor, khandlers, waiting, kexts, panicked>> /\ KernelUnchanged

\* Mutant of PassPanicList: the hook does not wait for activate.
PassPanicList_Eager == "save" \notin routed \/ ~that \/ isKextUnloading

\* The hook is not installed, not ready, or called at the end of an unload.
PassPanicList == "save" \notin routed \/ ~that \/ ~activated \/ isKextUnloading

\* Mutant of Ignored: the unloading flag is not cleared.
Ignored_FlagStays ==
  /\ lpc \in {"loading", "unloading"}
  /\ PassPanicList
  /\ lpc' = "idle"
  /\ UNCHANGED <<live, lcursor, isKextUnloading, khandlers, waiting, kexts, panicked>>
  /\ KernelUnchanged

\* onOSKextSaveLoadedKextPanicList does nothing; the call that loads or
\* unloads a kext ends, and onOSKextUnload clears its flag.
Ignored ==
  /\ lpc \in {"loading", "unloading"}
  /\ PassPanicList
  /\ lpc' = "idle"
  /\ isKextUnloading' = FALSE
  /\ UNCHANGED <<live, lcursor, khandlers, waiting, kexts, panicked>> /\ KernelUnchanged

\* onOSKextSaveLoadedKextPanicList handles the kext at the head of the list.
NewKext ==
  /\ lpc \in {"loading", "unloading"}
  /\ ~PassPanicList /\ ~waiting
  /\ \/ \E n \in live : First(n) /\ ProcessKext(n, FALSE)
     \/ live = {} /\ UNCHANGED <<khandlers, kexts, panicked>>
  /\ lpc' = "idle"
  /\ UNCHANGED <<live, lcursor, isKextUnloading, waiting>> /\ KernelUnchanged

\* onOSKextSaveLoadedKextPanicList starts the walk that activate left out.
StartLateScan ==
  /\ lpc \in {"loading", "unloading"}
  /\ ~PassPanicList /\ waiting
  /\ lcursor' \in live \cup {0} /\ First(lcursor')
  /\ lpc' = "scan"
  /\ UNCHANGED <<live, isKextUnloading, khandlers, waiting, kexts, panicked>> /\ KernelUnchanged

LateScan ==
  /\ lpc = "scan" /\ lcursor # 0
  /\ ProcessKext(lcursor, TRUE)
  /\ lcursor' \in live \cup {0} /\ Follows(lcursor', lcursor)
  /\ UNCHANGED <<live, lpc, isKextUnloading, waiting>> /\ KernelUnchanged

LateScanDone ==
  /\ lpc = "scan" /\ lcursor = 0
  /\ waiting' = FALSE
  /\ lpc' = "idle"
  /\ UNCHANGED <<live, lcursor, isKextUnloading, khandlers, kexts, panicked>> /\ KernelUnchanged

-----------------------------------------------------------------------------
InitThread ==
  \/ SkipRequest \/ LoadKinfo \/ AlreadyDone \/ SetupKextListening \/ SetThat
  \/ WaitOnKext \/ WaitOnKextFails \/ QueueDone \/ UserInitFails
  \/ StartScan \/ Scan \/ ScanFaults \/ ScanDone \/ SetActivated

Loader ==
  \/ \E id \in Ids, genuine \in BOOLEAN : LoadKext(id, genuine)
  \/ \E n \in live : OnOSKextUnload(n)
  \/ Ignored \/ NewKext \/ StartLateScan \/ LateScan \/ LateScanDone

Next == ~panicked /\ (InitThread \/ Loader)

Spec == Init /\ [][Next]_vars

-----------------------------------------------------------------------------
(* Properties.                                                             *)

InitPhases == {"queue", "listen", "setThat", "wait", "user", "scan", "activate", "done"}
LoaderPhases == {"idle", "loading", "unloading", "scan"}

FlagsOK ==
  /\ bigSur \in BOOLEAN /\ that \in BOOLEAN /\ waiting \in BOOLEAN
  /\ activated \in BOOLEAN /\ isKextUnloading \in BOOLEAN /\ panicked \in BOOLEAN
  /\ routed \subseteq Hooks
  /\ pc \in InitPhases /\ lpc \in LoaderPhases

ListsOK ==
  /\ storedKexts \in Seq(Requests)
  /\ next \in 1..(Len(storedKexts) + 1)
  /\ pc \in {"listen", "setThat", "wait"} => next <= Len(storedKexts)
  /\ loadIndex \in [Infos -> Nat]
  /\ kinfos \in Seq(Ids)
  /\ khandlers \in Seq(Handlers)
  /\ attempts \in Nat

KmodsOK ==
  /\ kexts \in Seq(Kexts)
  /\ live \subseteq DOMAIN kexts
  /\ cursor \in DOMAIN kexts \cup {0}
  /\ lcursor \in DOMAIN kexts \cup {0}

\* Every variable keeps its type, the queue index its range and the two walks
\* stay within the kmods there ever were.
TypeOK == FlagsOK /\ ListsOK /\ KmodsOK

\* khandlers has no lock: while the initialising thread queues handlers or
\* walks the kmods itself, no kext load is processed by the hook.
HandlersExclusive == lpc = "scan" \/ activated => pc = "done"

\* A handler's index names the MachInfo of its kext, on systems where an
\* initialisation is never repeated.
HandlersIndexed(h) == h.index \in DOMAIN kinfos /\ kinfos[h.index] = h.id
BigSurHandlersIndexed ==
  bigSur => \A i \in DOMAIN khandlers : HandlersIndexed(khandlers[i])

Watched(n) == kexts[n].genuine /\ \E i \in DOMAIN khandlers : khandlers[i].id = kexts[n].id

\* From Big Sur on no kext loaded after activation is missed: when the load
\* is over, a handler that is still waiting for that kext has been told.
LateKextsServed ==
  bigSur /\ lpc = "idle" =>
    \A n \in live : kexts[n].when = "late" /\ Watched(n) => kexts[n].told > 0

\* Nobody asked for id to be reloadable, or passed a KextInfo object of it twice.
AskedOnceOnly(id) ==
  \A i, j \in DOMAIN storedKexts : storedKexts[i].id = id =>
    /\ storedKexts[i].disabled \/ ~storedKexts[i].reloadable
    /\ storedKexts[i].info = storedKexts[j].info => i = j

\* Such a kext is handled for one load only, however often it is loaded and
\* unloaded, by whichever of the two walks, and although several plugins asked
\* for it, if the initialisation was not repeated.
HandledOnce ==
  attempts = 0 => \A n, m \in DOMAIN kexts :
    kexts[n].id = kexts[m].id /\ AskedOnceOnly(kexts[n].id) =>
      /\ kexts[n].told <= 1
      /\ kexts[n].told > 0 /\ kexts[m].told > 0 => n = m

LoadedWatched(n) ==
  /\ kexts[n].genuine
  /\ \E i \in DOMAIN khandlers : khandlers[i].id = kexts[n].id /\ khandlers[i].loaded

\* No two requests of different plugins are for the kext n.
RequestedOnce(n) ==
  \A i, j \in DOMAIN storedKexts :
    storedKexts[i].id = kexts[n].id /\ storedKexts[j].id = kexts[n].id => i = j

\* From Big Sur on every kext that was there before activate, and still is,
\* has been handled for a handler that asked for loaded kexts, unless a second
\* plugin's request for it was merged into the first.
EarlyKextsServed ==
  bigSur /\ that /\ pc = "done" =>
    \A n \in live :
      kexts[n].when = "early" /\ LoadedWatched(n) /\ RequestedOnce(n) => kexts[n].told > 0

\* What "Loaded, // invoke for kext if it is already loaded" and onKextLoad's
\* "later invocation on kext load" say together: with Loaded a kext is handled
\* whenever it came.
NoLoadedKextMissed ==
  pc = "done" /\ bigSur /\ lpc = "idle" =>
    \A n \in live : LoadedWatched(n) => kexts[n].told > 0

=============================================================================
