--------------------------- MODULE LiluBootProofs ---------------------------
(***************************************************************************)
(* Proofs about LiluBoot for any number of plugins and hook callers, any   *)
(* combination of faults and any number of failed attempts.                *)
(***************************************************************************)
EXTENDS LiluBoot, SequenceTheorems, TLAPS

USE ActorsAssumption

\* evector::erase leaves a vector of the same element type.
LEMMA RemoveAtIsSeq ==
  ASSUME NEW S, NEW s \in Seq(S), NEW i \in DOMAIN s
  PROVE  RemoveAt(s, i) \in Seq(S)
<1>1. i \in 1..Len(s) /\ Len(s) \in Nat
  BY LenProperties
<1>2. SubSeq(s, 1, i - 1) \in Seq(S) /\ SubSeq(s, i + 1, Len(s)) \in Seq(S)
  BY <1>1, SubSeqProperties
<1> QED
  BY <1>2, ConcatProperties DEF RemoveAt

\* The initial state satisfies the inductive invariant.
LEMMA InitEstablishes == Init => InitInv
<1> SUFFICES ASSUME Init PROVE InitInv
  OBVIOUS
<1>1. ConfigTypeOK
  BY DEF Init, ConfigTypeOK
<1>2. DataTypeOK
  <2>1. stored \in [Lists -> Seq(Plugins)]
    BY DEF Init
  <2> QED
    BY <2>1 DEF Init, DataTypeOK
<1>3. ThreadTypeOK
  BY DEF Init, ThreadTypeOK, Phases, PluginStates
<1>4. LockInv
  BY DEF Init, LockInv, Locked, CommonInit, Threads
<1>5. HookInv /\ WorkerInv
  BY DEF Init, HookInv, WorkerInv, CommonInit, BeforeInitialised, Threads
<1>6. PatcherInv /\ NoPluginInside
  BY DEF Init, PatcherInv, NoPluginInside, CommonInit, Threads
<1> QED
  BY <1>1, <1>2, <1>3, <1>4, <1>5, <1>6 DEF InitInv, TypeOK


\* Lilu's own kern_start and kern_stop preserve the invariant.
LEMMA KernStartInv ==
  ASSUME InitInv, KernStart
  PROVE  InitInv'
<1> USE DEF InitInv, TypeOK, bootVars, lockVars, apiVars, patcherVars, runVars
<1>1. CASE RegisterNothing
  <2> USE <1>1 DEF RegisterNothing
  <2>1. ConfigTypeOK'
    BY DEF ConfigTypeOK
  <2>2. DataTypeOK' /\ ThreadTypeOK' /\ LockInv' /\ HookInv' /\ WorkerInv' /\ PatcherInv' /\ NoPluginInside'
    BY DEF DataTypeOK, ThreadTypeOK, LockInv, HookInv, WorkerInv, PatcherInv, NoPluginInside
  <2> QED
    BY <2>1, <2>2
<1>2. CASE PerformEarlyInitUnrouted
  <2> USE <1>2 DEF PerformEarlyInitUnrouted
  <2>1. ConfigTypeOK'
    BY DEF ConfigTypeOK
  <2>2. HookInv'
    BY DEF HookInv, CommonInit, BeforeInitialised
  <2>3. PatcherInv'
    BY DEF PatcherInv, HookInv, CommonInit
  <2>4. DataTypeOK' /\ ThreadTypeOK' /\ LockInv' /\ WorkerInv' /\ NoPluginInside'
    BY DEF DataTypeOK, ThreadTypeOK, LockInv, WorkerInv, NoPluginInside
  <2> QED
    BY <2>1, <2>2, <2>3, <2>4
<1>3. CASE PerformEarlyInit
  <2> USE <1>3 DEF PerformEarlyInit
  <2>1. ConfigTypeOK'
    BY DEF ConfigTypeOK
  <2>2. HookInv'
    BY DEF HookInv, CommonInit, BeforeInitialised
  <2>3. PatcherInv'
    BY DEF PatcherInv, HookInv, CommonInit
  <2>4. DataTypeOK' /\ ThreadTypeOK' /\ LockInv' /\ WorkerInv' /\ NoPluginInside'
    BY DEF DataTypeOK, ThreadTypeOK, LockInv, WorkerInv, NoPluginInside
  <2> QED
    BY <2>1, <2>2, <2>3, <2>4
<1>4. CASE RegisterPolicy
  <2> USE <1>4 DEF RegisterPolicy
  <2>1. ConfigTypeOK'
    BY DEF ConfigTypeOK
  <2>2. HookInv'
    BY DEF HookInv, CommonInit, BeforeInitialised
  <2>3. WorkerInv'
    BY DEF WorkerInv, HookInv
  <2>4. PatcherInv'
    BY DEF PatcherInv, HookInv, CommonInit
  <2>5. DataTypeOK' /\ ThreadTypeOK' /\ LockInv' /\ NoPluginInside'
    BY DEF DataTypeOK, ThreadTypeOK, LockInv, NoPluginInside
  <2> QED
    BY <2>1, <2>2, <2>3, <2>4, <2>5
<1>5. CASE StartSuccess
  <2> USE <1>5 DEF StartSuccess
  <2>1. ConfigTypeOK'
    BY DEF ConfigTypeOK
  <2>2. DataTypeOK' /\ ThreadTypeOK' /\ LockInv' /\ HookInv' /\ WorkerInv' /\ PatcherInv' /\ NoPluginInside'
    BY DEF DataTypeOK, ThreadTypeOK, LockInv, HookInv, WorkerInv, PatcherInv, NoPluginInside
  <2> QED
    BY <2>1, <2>2
<1>6. CASE KernStop
  <2> USE <1>6 DEF KernStop
  <2>1. ConfigTypeOK'
    BY DEF ConfigTypeOK
  <2>2. DataTypeOK' /\ ThreadTypeOK' /\ LockInv' /\ HookInv' /\ WorkerInv' /\ PatcherInv' /\ NoPluginInside'
    BY DEF DataTypeOK, ThreadTypeOK, LockInv, HookInv, WorkerInv, PatcherInv, NoPluginInside
  <2> QED
    BY <2>1, <2>2
<1> QED
  BY <1>1, <1>2, <1>3, <1>4, <1>5, <1>6 DEF KernStart

\* A registration call appends to lists and leaves everything else alone.
LEMMA RegisterInv ==
  ASSUME InitInv, NEW p \in Plugins, NEW first, NEW second, Register(p, first, second)
  PROVE  InitInv'
<1> USE DEF Register, InitInv, TypeOK, PluginUnchanged, bootVars, patcherVars, runVars
<1>1. ConfigTypeOK'
  BY DEF ConfigTypeOK
<1>2. DataTypeOK'
  <2>1. stored' \in [Lists -> Seq(Plugins)]
    BY DEF DataTypeOK
  <2> QED
    BY <2>1 DEF DataTypeOK
<1>3. ThreadTypeOK' /\ LockInv' /\ HookInv' /\ WorkerInv' /\ PatcherInv' /\ NoPluginInside'
  BY DEF ThreadTypeOK, LockInv, HookInv, WorkerInv, PatcherInv, NoPluginInside
<1> QED
  BY <1>1, <1>2, <1>3

\* A plugin's kern_start and kern_stop preserve the invariant.
LEMMA PluginInv ==
  ASSUME InitInv, NEW p \in Plugins, PluginStep(p)
  PROVE  InitInv'
<1> USE DEF InitInv, TypeOK, bootVars, lockVars, apiVars, patcherVars, runVars
<1>1. CASE LoadPlugin(p)
  <2> USE <1>1 DEF LoadPlugin, PluginUnchanged
  <2>1. ConfigTypeOK'
    BY DEF ConfigTypeOK
  <2>2. ThreadTypeOK'
    BY DEF ThreadTypeOK, PluginStates
  <2>3. LockInv'
    BY DEF LockInv, ThreadTypeOK
  <2>4. NoPluginInside'
    BY DEF NoPluginInside, LockInv, ThreadTypeOK
  <2>5. DataTypeOK' /\ HookInv' /\ WorkerInv' /\ PatcherInv'
    BY DEF DataTypeOK, HookInv, WorkerInv, PatcherInv
  <2> QED
    BY <2>1, <2>2, <2>3, <2>4, <2>5
<1>2. CASE RefusePlugin(p)
  <2> USE <1>2 DEF RefusePlugin, PluginUnchanged
  <2>1. ConfigTypeOK'
    BY DEF ConfigTypeOK
  <2>2. ThreadTypeOK'
    BY DEF ThreadTypeOK, PluginStates
  <2>3. LockInv'
    BY DEF LockInv, ThreadTypeOK
  <2>4. NoPluginInside'
    BY DEF NoPluginInside, LockInv, ThreadTypeOK
  <2>5. DataTypeOK' /\ HookInv' /\ WorkerInv' /\ PatcherInv'
    BY DEF DataTypeOK, HookInv, WorkerInv, PatcherInv
  <2> QED
    BY <2>1, <2>2, <2>3, <2>4, <2>5
<1>3. CASE RequestAccess(p)
  <2> USE <1>3 DEF RequestAccess, PluginUnchanged
  <2>1. ConfigTypeOK'
    BY DEF ConfigTypeOK
  <2>2. ThreadTypeOK'
    BY DEF ThreadTypeOK, PluginStates
  <2>3. LockInv'
    BY DEF LockInv, ThreadTypeOK
  <2>4. NoPluginInside'
    BY DEF NoPluginInside, LockInv, ThreadTypeOK
  <2>5. DataTypeOK' /\ HookInv' /\ WorkerInv' /\ PatcherInv'
    BY DEF DataTypeOK, HookInv, WorkerInv, PatcherInv
  <2> QED
    BY <2>1, <2>2, <2>3, <2>4, <2>5
<1>4. CASE ReleaseAccess(p)
  <2> USE <1>4 DEF ReleaseAccess, PluginUnchanged
  <2>1. ConfigTypeOK'
    BY DEF ConfigTypeOK
  <2>2. ThreadTypeOK'
    BY DEF ThreadTypeOK, PluginStates
  <2>3. LockInv'
    BY DEF LockInv, ThreadTypeOK
  <2>4. NoPluginInside'
    BY DEF NoPluginInside, LockInv, ThreadTypeOK
  <2>5. DataTypeOK' /\ HookInv' /\ WorkerInv' /\ PatcherInv'
    BY DEF DataTypeOK, HookInv, WorkerInv, PatcherInv
  <2> QED
    BY <2>1, <2>2, <2>3, <2>4, <2>5
<1>5. CASE PluginStop(p)
  <2> USE <1>5 DEF PluginStop, PluginUnchanged
  <2>1. ConfigTypeOK'
    BY DEF ConfigTypeOK
  <2>2. ThreadTypeOK'
    BY DEF ThreadTypeOK, PluginStates
  <2>3. LockInv'
    BY DEF LockInv, ThreadTypeOK
  <2>4. NoPluginInside'
    BY DEF NoPluginInside, LockInv, ThreadTypeOK
  <2>5. DataTypeOK' /\ HookInv' /\ WorkerInv' /\ PatcherInv'
    BY DEF DataTypeOK, HookInv, WorkerInv, PatcherInv
  <2> QED
    BY <2>1, <2>2, <2>3, <2>4, <2>5
<1>6. CASE OnPatcherLoad(p) \/ OnKextLoad(p) \/ OnProcLoad(p) \/ OnEntitlementRequest(p)
  BY <1>6, RegisterInv DEF OnPatcherLoad, OnKextLoad, OnProcLoad, OnEntitlementRequest
<1> QED
  BY <1>1, <1>2, <1>3, <1>4, <1>5, <1>6 DEF PluginStep

\* The double-checked lock of the two hooks preserves the invariant.
LEMMA HookInvStep ==
  ASSUME InitInv, NEW t \in Threads, HookStep(t)
  PROVE  InitInv'
<1> USE DEF InitInv, TypeOK, bootVars, lockVars, apiVars, patcherVars, runVars
<1>1. CASE EnterHook(t)
  <2> USE <1>1 DEF EnterHook, Goto
  <2>1. ConfigTypeOK'
    BY DEF ConfigTypeOK
  <2>2. ThreadTypeOK'
    BY DEF ThreadTypeOK, Phases, Locked, CommonInit
  <2>3. LockInv'
    BY DEF LockInv, ThreadTypeOK, Threads, Locked, CommonInit
  <2>4. HookInv'
    BY DEF HookInv, LockInv, ThreadTypeOK, WorkerInv, Threads, Locked, CommonInit, BeforeInitialised
  <2>5. WorkerInv'
    BY DEF WorkerInv, HookInv, ThreadTypeOK, Threads, CommonInit
  <2>6. PatcherInv'
    BY DEF PatcherInv, ConfigTypeOK, HookInv, WorkerInv, LockInv, ThreadTypeOK, Threads, Locked, CommonInit, BeforeInitialised
  <2>7. NoPluginInside'
    BY DEF NoPluginInside, LockInv, DataTypeOK
  <2>8. DataTypeOK'
    BY DEF DataTypeOK
  <2> QED
    BY <2>1, <2>2, <2>3, <2>4, <2>5, <2>6, <2>7, <2>8
<1>2. CASE LockPolicy(t)
  <2> USE <1>2 DEF LockPolicy, Goto
  <2>1. ConfigTypeOK'
    BY DEF ConfigTypeOK
  <2>2. ThreadTypeOK'
    BY DEF ThreadTypeOK, Phases, Locked, CommonInit
  <2>3. LockInv'
    BY DEF LockInv, ThreadTypeOK, Threads, Locked, CommonInit
  <2>4. HookInv'
    BY DEF HookInv, LockInv, ThreadTypeOK, WorkerInv, Threads, Locked, CommonInit, BeforeInitialised
  <2>5. WorkerInv'
    BY DEF WorkerInv, HookInv, ThreadTypeOK, Threads, CommonInit
  <2>6. PatcherInv'
    BY DEF PatcherInv, ConfigTypeOK, HookInv, WorkerInv, LockInv, ThreadTypeOK, Threads, Locked, CommonInit, BeforeInitialised
  <2>7. NoPluginInside'
    BY DEF NoPluginInside, LockInv, DataTypeOK
  <2>8. DataTypeOK'
    BY DEF DataTypeOK
  <2> QED
    BY <2>1, <2>2, <2>3, <2>4, <2>5, <2>6, <2>7, <2>8
<1>3. CASE Recheck(t)
  <2> USE <1>3 DEF Recheck, Goto
  <2>1. ConfigTypeOK'
    BY DEF ConfigTypeOK
  <2>2. ThreadTypeOK'
    BY DEF ThreadTypeOK, Phases, Locked, CommonInit
  <2>3. LockInv'
    BY DEF LockInv, ThreadTypeOK, Threads, Locked, CommonInit
  <2>4. HookInv'
    BY DEF HookInv, LockInv, ThreadTypeOK, WorkerInv, Threads, Locked, CommonInit, BeforeInitialised
  <2>5. WorkerInv'
    BY DEF WorkerInv, HookInv, ThreadTypeOK, Threads, CommonInit
  <2>6. PatcherInv'
    BY DEF PatcherInv, ConfigTypeOK, HookInv, WorkerInv, LockInv, ThreadTypeOK, Threads, Locked, CommonInit, BeforeInitialised
  <2>7. NoPluginInside'
    BY DEF NoPluginInside, LockInv, DataTypeOK
  <2>8. DataTypeOK'
    BY DEF DataTypeOK
  <2> QED
    BY <2>1, <2>2, <2>3, <2>4, <2>5, <2>6, <2>7, <2>8
<1>4. CASE KernelInit(t)
  <2> USE <1>4 DEF KernelInit, Goto
  <2>1. ConfigTypeOK'
    BY DEF ConfigTypeOK
  <2>2. ThreadTypeOK'
    BY DEF ThreadTypeOK, Phases, Locked, CommonInit
  <2>3. LockInv'
    BY DEF LockInv, ThreadTypeOK, Threads, Locked, CommonInit
  <2>4. HookInv'
    BY DEF HookInv, LockInv, ThreadTypeOK, WorkerInv, Threads, Locked, CommonInit, BeforeInitialised
  <2>5. WorkerInv'
    BY DEF WorkerInv, HookInv, ThreadTypeOK, Threads, CommonInit
  <2>6. PatcherInv'
    BY DEF PatcherInv, ConfigTypeOK, HookInv, WorkerInv, LockInv, ThreadTypeOK, Threads, Locked, CommonInit, BeforeInitialised
  <2>7. NoPluginInside'
    BY DEF NoPluginInside, LockInv, DataTypeOK
  <2>8. DataTypeOK'
    BY DEF DataTypeOK
  <2> QED
    BY <2>1, <2>2, <2>3, <2>4, <2>5, <2>6, <2>7, <2>8
<1>5. CASE FinalisePolicy(t)
  <2> USE <1>5 DEF FinalisePolicy, FinaliseRequests, Goto
  <2>1. ConfigTypeOK'
    BY DEF ConfigTypeOK
  <2>2. ThreadTypeOK'
    BY DEF ThreadTypeOK, Phases, Locked, CommonInit
  <2>3. LockInv'
    BY DEF LockInv, ThreadTypeOK, Threads, Locked, CommonInit
  <2>4. HookInv'
    BY DEF HookInv, LockInv, ThreadTypeOK, WorkerInv, Threads, Locked, CommonInit, BeforeInitialised
  <2>5. WorkerInv'
    BY DEF WorkerInv, HookInv, ThreadTypeOK, Threads, CommonInit
  <2>6. PatcherInv'
    BY DEF PatcherInv, ConfigTypeOK, HookInv, WorkerInv, LockInv, ThreadTypeOK, Threads, Locked, CommonInit, BeforeInitialised
  <2>7. NoPluginInside'
    BY DEF NoPluginInside, LockInv, DataTypeOK
  <2>8. DataTypeOK'
    BY DEF DataTypeOK
  <2> QED
    BY <2>1, <2>2, <2>3, <2>4, <2>5, <2>6, <2>7, <2>8
<1>6. CASE FinaliseConsole(t)
  <2> USE <1>6 DEF FinaliseConsole, FinaliseRequests
  <2>1. ConfigTypeOK'
    BY DEF ConfigTypeOK
  <2>2. ThreadTypeOK'
    BY DEF ThreadTypeOK, Phases, Locked, CommonInit
  <2>3. LockInv'
    BY DEF LockInv, ThreadTypeOK, Threads, Locked, CommonInit
  <2>4. HookInv'
    BY DEF HookInv, LockInv, ThreadTypeOK, WorkerInv, Threads, Locked, CommonInit, BeforeInitialised
  <2>5. WorkerInv'
    BY DEF WorkerInv, HookInv, ThreadTypeOK, Threads, CommonInit
  <2>6. PatcherInv'
    BY DEF PatcherInv, ConfigTypeOK, HookInv, WorkerInv, LockInv, ThreadTypeOK, Threads, Locked, CommonInit, BeforeInitialised
  <2>7. NoPluginInside'
    BY DEF NoPluginInside, LockInv, DataTypeOK
  <2>8. DataTypeOK'
    BY DEF DataTypeOK
  <2> QED
    BY <2>1, <2>2, <2>3, <2>4, <2>5, <2>6, <2>7, <2>8
<1>7. CASE UnlockPolicy(t)
  <2> USE <1>7 DEF UnlockPolicy, Goto
  <2>1. ConfigTypeOK'
    BY DEF ConfigTypeOK
  <2>2. ThreadTypeOK'
    BY DEF ThreadTypeOK, Phases, Locked, CommonInit
  <2>3. LockInv'
    BY DEF LockInv, ThreadTypeOK, Threads, Locked, CommonInit
  <2>4. HookInv'
    BY DEF HookInv, LockInv, ThreadTypeOK, WorkerInv, Threads, Locked, CommonInit, BeforeInitialised
  <2>5. WorkerInv'
    BY DEF WorkerInv, HookInv, ThreadTypeOK, Threads, CommonInit
  <2>6. PatcherInv'
    BY DEF PatcherInv, ConfigTypeOK, HookInv, WorkerInv, LockInv, ThreadTypeOK, Threads, Locked, CommonInit, BeforeInitialised
  <2>7. NoPluginInside'
    BY DEF NoPluginInside, LockInv, DataTypeOK
  <2>8. DataTypeOK'
    BY DEF DataTypeOK
  <2> QED
    BY <2>1, <2>2, <2>3, <2>4, <2>5, <2>6, <2>7, <2>8
<1> QED
  BY <1>1, <1>2, <1>3, <1>4, <1>5, <1>6, <1>7 DEF HookStep, CallStep

\* performCommonInit preserves the invariant, on whichever thread it runs.
LEMMA CommonInitInv ==
  ASSUME InitInv, NEW t \in Threads, PerformCommonInit(t)
  PROVE  InitInv'
<1> USE DEF InitInv, TypeOK, bootVars, lockVars, apiVars, patcherVars, runVars
<1>1. CASE PatcherLoadCallback(t)
  <2> USE <1>1 DEF PatcherLoadCallback
  <2>1. ConfigTypeOK'
    BY DEF ConfigTypeOK
  <2>2. DataTypeOK'
    BY DEF DataTypeOK, Lists
  <2>3. ThreadTypeOK' /\ LockInv' /\ HookInv' /\ WorkerInv' /\ PatcherInv' /\ NoPluginInside'
    BY DEF ThreadTypeOK, LockInv, HookInv, WorkerInv, PatcherInv, NoPluginInside
  <2> QED
    BY <2>1, <2>2, <2>3
<1>2. CASE CallbacksDone(t)
  <2> USE <1>2 DEF CallbacksDone, Goto
  <2>1. ConfigTypeOK'
    BY DEF ConfigTypeOK
  <2>2. ThreadTypeOK'
    BY DEF ThreadTypeOK, Phases, Locked, CommonInit
  <2>3. LockInv'
    BY DEF LockInv, ThreadTypeOK, Threads, Locked, CommonInit
  <2>4. HookInv'
    BY DEF HookInv, LockInv, ThreadTypeOK, WorkerInv, Threads, Locked, CommonInit, BeforeInitialised
  <2>5. WorkerInv'
    BY DEF WorkerInv, HookInv, ThreadTypeOK, Threads, CommonInit
  <2>6. PatcherInv'
    BY DEF PatcherInv, ConfigTypeOK, HookInv, WorkerInv, LockInv, ThreadTypeOK, Threads, Locked, CommonInit, BeforeInitialised
  <2>7. DataTypeOK' /\ NoPluginInside'
    BY DEF DataTypeOK, NoPluginInside
  <2> QED
    BY <2>1, <2>2, <2>3, <2>4, <2>5, <2>6, <2>7
<1>3. CASE SetupKextListening(t)
  <2> USE <1>3 DEF SetupKextListening, Goto
  <2>1. ConfigTypeOK'
    BY ZenonT(60) DEF ConfigTypeOK
  <2>2. ThreadTypeOK'
    BY DEF ThreadTypeOK, Phases, Locked, CommonInit
  <2>3. LockInv'
    BY DEF LockInv, ThreadTypeOK, Threads, Locked, CommonInit
  <2>4. HookInv'
    BY DEF HookInv, LockInv, ThreadTypeOK, WorkerInv, Threads, Locked, CommonInit, BeforeInitialised
  <2>5. WorkerInv'
    BY DEF WorkerInv, HookInv, ThreadTypeOK, Threads, CommonInit
  <2>6. PatcherInv'
    BY DEF PatcherInv, ConfigTypeOK, HookInv, WorkerInv, LockInv, ThreadTypeOK, Threads, Locked, CommonInit, BeforeInitialised
  <2>7. DataTypeOK' /\ NoPluginInside'
    BY DEF DataTypeOK, NoPluginInside
  <2> QED
    BY <2>1, <2>2, <2>3, <2>4, <2>5, <2>6, <2>7
<1>4. CASE UserInit(t)
  <2> USE <1>4 DEF UserInit, Goto, Return
  <2>1. ConfigTypeOK'
    BY ZenonT(60) DEF ConfigTypeOK
  <2>2. ThreadTypeOK'
    BY DEF ThreadTypeOK, Phases, Locked, CommonInit
  <2>3. LockInv'
    BY DEF LockInv, ThreadTypeOK, Threads, Locked, CommonInit
  <2>4. HookInv'
    BY DEF HookInv, LockInv, ThreadTypeOK, WorkerInv, Threads, Locked, CommonInit, BeforeInitialised
  <2>5. WorkerInv'
    BY DEF WorkerInv, HookInv, ThreadTypeOK, Threads, CommonInit
  <2>6. PatcherInv'
    BY DEF PatcherInv, ConfigTypeOK, HookInv, WorkerInv, LockInv, ThreadTypeOK, Threads, Locked, CommonInit, BeforeInitialised
  <2>7. DataTypeOK' /\ NoPluginInside'
    BY DEF DataTypeOK, NoPluginInside
  <2> QED
    BY <2>1, <2>2, <2>3, <2>4, <2>5, <2>6, <2>7
<1>5. CASE EraseDisabledProc(t)
  <2> USE <1>5 DEF EraseDisabledProc
  <2>1. ConfigTypeOK'
    BY DEF ConfigTypeOK
  <2>2. DataTypeOK'
    <3>1. \A i \in DOMAIN stored["procs"] : RemoveAt(stored["procs"], i) \in Seq(Plugins)
      BY RemoveAtIsSeq DEF DataTypeOK, Lists
    <3> QED
      BY <3>1 DEF DataTypeOK, Lists
  <2>3. ThreadTypeOK' /\ LockInv' /\ HookInv' /\ WorkerInv' /\ PatcherInv' /\ NoPluginInside'
    BY DEF ThreadTypeOK, LockInv, HookInv, WorkerInv, PatcherInv, NoPluginInside
  <2> QED
    BY <2>1, <2>2, <2>3
<1>6. CASE ProcessUserLoadCallbacks(t)
  <2> USE <1>6 DEF ProcessUserLoadCallbacks, Goto
  <2>1. ConfigTypeOK'
    BY DEF ConfigTypeOK
  <2>2. ThreadTypeOK'
    BY DEF ThreadTypeOK, Phases, Locked, CommonInit
  <2>3. LockInv'
    BY DEF LockInv, ThreadTypeOK, Threads, Locked, CommonInit
  <2>4. HookInv'
    BY DEF HookInv, LockInv, ThreadTypeOK, WorkerInv, Threads, Locked, CommonInit, BeforeInitialised
  <2>5. WorkerInv'
    BY DEF WorkerInv, HookInv, ThreadTypeOK, Threads, CommonInit
  <2>6. PatcherInv'
    BY DEF PatcherInv, ConfigTypeOK, HookInv, WorkerInv, LockInv, ThreadTypeOK, Threads, Locked, CommonInit, BeforeInitialised
  <2>7. DataTypeOK' /\ NoPluginInside'
    BY DEF DataTypeOK, NoPluginInside
  <2> QED
    BY <2>1, <2>2, <2>3, <2>4, <2>5, <2>6, <2>7
<1>7. CASE ActivateKernel(t)
  <2> USE <1>7 DEF ActivateKernel, Goto
  <2>1. ConfigTypeOK'
    BY DEF ConfigTypeOK
  <2>2. ThreadTypeOK'
    BY DEF ThreadTypeOK, Phases, Locked, CommonInit
  <2>3. LockInv'
    BY DEF LockInv, ThreadTypeOK, Threads, Locked, CommonInit
  <2>4. HookInv'
    BY DEF HookInv, LockInv, ThreadTypeOK, WorkerInv, Threads, Locked, CommonInit, BeforeInitialised
  <2>5. WorkerInv'
    BY DEF WorkerInv, HookInv, ThreadTypeOK, Threads, CommonInit
  <2>6. PatcherInv'
    BY DEF PatcherInv, ConfigTypeOK, HookInv, WorkerInv, LockInv, ThreadTypeOK, Threads, Locked, CommonInit, BeforeInitialised
  <2>7. DataTypeOK' /\ NoPluginInside'
    BY DEF DataTypeOK, NoPluginInside
  <2> QED
    BY <2>1, <2>2, <2>3, <2>4, <2>5, <2>6, <2>7
<1>8. CASE ActivateUser(t)
  <2> USE <1>8 DEF ActivateUser, Goto, Return
  <2>1. ConfigTypeOK'
    BY DEF ConfigTypeOK
  <2>2. ThreadTypeOK'
    BY DEF ThreadTypeOK, Phases, Locked, CommonInit
  <2>3. LockInv'
    BY DEF LockInv, ThreadTypeOK, Threads, Locked, CommonInit
  <2>4. HookInv'
    BY DEF HookInv, LockInv, ThreadTypeOK, WorkerInv, Threads, Locked, CommonInit, BeforeInitialised
  <2>5. WorkerInv'
    BY DEF WorkerInv, HookInv, ThreadTypeOK, Threads, CommonInit
  <2>6. PatcherInv'
    BY DEF PatcherInv, ConfigTypeOK, HookInv, WorkerInv, LockInv, ThreadTypeOK, Threads, Locked, CommonInit, BeforeInitialised
  <2>7. DataTypeOK' /\ NoPluginInside'
    BY DEF DataTypeOK, NoPluginInside
  <2> QED
    BY <2>1, <2>2, <2>3, <2>4, <2>5, <2>6, <2>7
<1> QED
  BY <1>1, <1>2, <1>3, <1>4, <1>5, <1>6, <1>7, <1>8 DEF PerformCommonInit

-----------------------------------------------------------------------------
\* InitInv is inductive: every reachable state of the start-up satisfies it.
THEOREM Inductive == Spec => []InitInv
<1>1. InitInv /\ [Next]_vars => InitInv'
  <2> SUFFICES ASSUME InitInv, [Next]_vars PROVE InitInv'
    OBVIOUS
  <2>1. CASE UNCHANGED vars
    <3> USE <2>1 DEF vars, bootVars, lockVars, apiVars, patcherVars, runVars, InitInv, TypeOK
    <3>1. ConfigTypeOK'
      BY DEF ConfigTypeOK
    <3>2. DataTypeOK' /\ ThreadTypeOK'
      BY DEF DataTypeOK, ThreadTypeOK
    <3>3. LockInv' /\ HookInv' /\ WorkerInv' /\ PatcherInv' /\ NoPluginInside'
      BY DEF LockInv, HookInv, WorkerInv, PatcherInv, NoPluginInside
    <3> QED
      BY <3>1, <3>2, <3>3
  <2>2. CASE KernStart
    BY <2>2, KernStartInv
  <2>3. CASE \E p \in Plugins : PluginStep(p)
    BY <2>3, PluginInv
  <2>4. CASE \E t \in Threads : HookStep(t) \/ PerformCommonInit(t)
    BY <2>4, HookInvStep, CommonInitInv
  <2> QED
    BY <2>1, <2>2, <2>3, <2>4 DEF Next
<1> QED
  BY <1>1, InitEstablishes, PTL DEF Spec

\* Every variable of the start-up keeps its type.
THEOREM Typing == Spec => []TypeOK
<1>1. InitInv => TypeOK
  BY DEF InitInv
<1> QED
  BY <1>1, Inductive, PTL

\* At most one thread initialises at a time, however many enter policyInit or
\* initConsole and whether or not the work is handed to the thread_call.
THEOREM MutualExclusion == Spec => []OneInitialiser
<1>1. InitInv => OneInitialiser
  <2> SUFFICES ASSUME InitInv, NEW s \in Threads, NEW t \in Threads,
                      phase[s] \in Initialising, phase[t] \in Initialising
               PROVE  s = t
    BY DEF OneInitialiser
  <2> USE DEF InitInv, Initialising
  <2>1. CASE s \in Callers /\ t \in Callers
    BY <2>1 DEF LockInv, Locked
  <2>2. ASSUME NEW c \in Callers, phase[c] \in Initialising
        PROVE  phase[Worker] \notin Initialising
    <3>1. path = "policy" \/ ~initialised
      BY <2>2 DEF HookInv, BeforeInitialised, CommonInit
    <3> QED
      BY <3>1 DEF WorkerInv, CommonInit
  <2> QED
    BY <2>1, <2>2 DEF Threads
<1> QED
  BY <1>1, Inductive, PTL

\* No plugin is inside the API once finaliseRequests has run.
THEOREM NoRegistrationRace == Spec => []NoPluginInside
<1>1. InitInv => NoPluginInside
  BY DEF InitInv
<1> QED
  BY <1>1, Inductive, PTL

\* Plugin callbacks find the kernel patcher up, and activation implies it.
THEOREM CallbacksFindPatcher == Spec => []PatcherUp
<1>1. InitInv => PatcherUp
  <2> SUFFICES ASSUME InitInv PROVE PatcherUp
    OBVIOUS
  <2>1. ASSUME NEW t \in Threads, phase[t] \in CommonInit PROVE kpatcher = "up"
    <3>1. CASE t \in Callers
      BY <2>1, <3>1 DEF InitInv, PatcherInv
    <3>2. CASE t = Worker
      BY <2>1, <3>2 DEF InitInv, PatcherInv, WorkerInv, CommonInit
    <3> QED
      BY <3>1, <3>2 DEF Threads
  <2> QED
    BY <2>1 DEF PatcherUp, InitInv, PatcherInv
<1> QED
  BY <1>1, Inductive, PTL

\* Once finaliseRequests has run, no step changes a LiluAPI vector, but for the
\* erasures of processUserLoadCallbacks.
THEOREM ListsFrozen == Spec => FrozenOnceFinal
<1> DEFINE Frozen == /\ apiRequestsOver'
                     /\ \A l \in Lists \ {"procs"} : stored'[l] = stored[l]
                     /\ (\A t \in Threads : phase[t] # "userLoad") => UNCHANGED stored
<1>1. InitInv /\ [Next]_vars => [apiRequestsOver => Frozen]_vars
  <2> SUFFICES ASSUME InitInv, Next, apiRequestsOver
               PROVE  Frozen
    OBVIOUS
  <2> USE DEF apiVars
  <2>1. CASE KernStart
    BY <2>1 DEF KernStart, RegisterNothing, PerformEarlyInit, PerformEarlyInitUnrouted, RegisterPolicy, StartSuccess, KernStop
  <2>2. ASSUME NEW p \in Plugins, PluginStep(p)
        PROVE  Frozen
    <3>1. plugin[p] # "registering"
      BY DEF InitInv, NoPluginInside
    <3> QED
      BY <2>2, <3>1 DEF PluginStep, LoadPlugin, RefusePlugin, RequestAccess, ReleaseAccess,
         PluginStop, OnPatcherLoad, OnKextLoad, OnProcLoad, OnEntitlementRequest, Register
  <2>3. ASSUME NEW t \in Threads, HookStep(t)
        PROVE  Frozen
    BY <2>3 DEF HookStep, CallStep, EnterHook, LockPolicy, Recheck, KernelInit, FinalisePolicy,
       FinaliseConsole, FinaliseRequests, UnlockPolicy
  <2>4. ASSUME NEW t \in Threads, PerformCommonInit(t)
        PROVE  Frozen
    <3>1. CASE EraseDisabledProc(t)
      BY <3>1 DEF EraseDisabledProc, InitInv, TypeOK, DataTypeOK
    <3> QED
      BY <2>4, <3>1 DEF PerformCommonInit, PatcherLoadCallback, CallbacksDone, SetupKextListening,
         UserInit, ProcessUserLoadCallbacks, ActivateKernel, ActivateUser
  <2> QED
    BY <2>1, <2>2, <2>3, <2>4 DEF Next
<1> QED
  BY <1>1, Inductive, PTL DEF Spec, FrozenOnceFinal

\* A completed initialisation is neither repeated nor rolled back: a caller
\* that passed the outer check too early stops at the inner one.
THEOREM InitialisedOnce == Spec => NoReinit
<1> DEFINE Quiet == initialised /\ phase[Worker] \notin CommonInit
           Kept == UNCHANGED <<called, kpatcher, routed>>
<1>1. InitInv /\ [Next]_vars => [Quiet => Kept]_vars
  <2> SUFFICES ASSUME InitInv, Next, Quiet PROVE Kept
    OBVIOUS
  <2> USE DEF patcherVars, runVars, InitInv
  <2>1. CASE KernStart
    <3>1. boot # "kern_start"
      BY DEF HookInv
    <3> QED
      BY <2>1, <3>1 DEF KernStart, RegisterNothing, PerformEarlyInit, PerformEarlyInitUnrouted, RegisterPolicy,
         StartSuccess, KernStop
  <2>2. ASSUME NEW p \in Plugins, PluginStep(p) PROVE Kept
    BY <2>2 DEF PluginStep, LoadPlugin, RefusePlugin, RequestAccess, ReleaseAccess, PluginStop,
       OnPatcherLoad, OnKextLoad, OnProcLoad, OnEntitlementRequest, Register, PluginUnchanged
  <2>3. ASSUME NEW t \in Threads PROVE phase[t] \notin BeforeInitialised
    BY DEF HookInv, WorkerInv, BeforeInitialised, CommonInit, Threads
  <2>4. ASSUME NEW t \in Threads, HookStep(t) PROVE Kept
    <3>1. ~KernelInit(t)
      BY <2>3 DEF KernelInit, Goto, BeforeInitialised
    <3> QED
      BY <2>4, <3>1 DEF HookStep, CallStep, EnterHook, LockPolicy, Recheck, FinalisePolicy,
         FinaliseConsole, UnlockPolicy
  <2>5. ASSUME NEW t \in Threads, PerformCommonInit(t) PROVE Kept
    <3>1. ~PatcherLoadCallback(t) /\ ~SetupKextListening(t) /\ ~UserInit(t)
      BY <2>3 DEF PatcherLoadCallback, SetupKextListening, UserInit, Goto, BeforeInitialised
    <3> QED
      BY <2>5, <3>1 DEF PerformCommonInit, CallbacksDone, EraseDisabledProc, ProcessUserLoadCallbacks,
         ActivateKernel, ActivateUser
  <2> QED
    BY <2>1, <2>2, <2>4, <2>5 DEF Next
<1> QED
  BY <1>1, Inductive, PTL DEF Spec, NoReinit

-----------------------------------------------------------------------------
(* Modules that stay, callbacks that were run *)

\* What is left of a vector after an erasure was in it before.
LEMMA RemoveAtKeeps ==
  ASSUME NEW S, NEW s \in Seq(S), NEW j \in DOMAIN s, NEW i \in DOMAIN RemoveAt(s, j)
  PROVE  \E k \in DOMAIN s : RemoveAt(s, j)[i] = s[k]
<1> DEFINE a == SubSeq(s, 1, j - 1)
           b == SubSeq(s, j + 1, Len(s))
<1>1. j \in 1..Len(s) /\ Len(s) \in Nat
  BY LenProperties
<1>2. a \in Seq(S) /\ b \in Seq(S) /\ Len(a) = j - 1 /\ Len(b) = Len(s) - j
  BY <1>1, SubSeqProperties
<1>3. (\A k \in 1..(j - 1) : a[k] = s[k]) /\ (\A k \in 1..(Len(s) - j) : b[k] = s[j + k])
  BY <1>1, SubSeqProperties
<1> HIDE DEF a, b
<1>4. RemoveAt(s, j) = a \o b
  BY DEF RemoveAt, a, b
<1>5. Len(a \o b) = Len(a) + Len(b) /\ i \in 1..Len(a \o b)
  BY <1>2, <1>4, ConcatProperties, LenProperties
<1>6. (a \o b)[i] = IF i <= Len(a) THEN a[i] ELSE b[i - Len(a)]
  BY <1>2, <1>5, ConcatProperties
<1>7. CASE i <= j - 1
  <2>1. i \in DOMAIN s /\ RemoveAt(s, j)[i] = s[i]
    BY <1>1, <1>2, <1>3, <1>4, <1>5, <1>6, <1>7, LenProperties, SMTT(30)
  <2> QED
    BY <2>1
<1>8. CASE ~(i <= j - 1)
  <2>1. i + 1 \in DOMAIN s /\ RemoveAt(s, j)[i] = s[i + 1]
    <3>1. i - (j - 1) \in 1..(Len(s) - j) /\ j + (i - (j - 1)) = i + 1 /\ i + 1 \in 1..Len(s)
      <4>1. Len(a \o b) = Len(s) - 1
        BY <1>1, <1>2, <1>5
      <4>2. i \in 1..(Len(s) - 1) /\ j \in 1..Len(s) /\ Len(s) \in Nat /\ i > j - 1
        BY <1>1, <1>5, <1>8, <4>1
      <4> QED
        BY <4>2
    <3> QED
      BY <1>1, <1>2, <1>3, <1>4, <1>6, <1>8, <3>1, LenProperties
  <2> QED
    BY <2>1
<1> QED
  BY <1>7, <1>8

\* Lilu is only stopped when its start failed before it installed a hook, and a
\* plugin has entries only from the moment it is let into the API.
Outside == {"unloaded", "starting", "refused", "gone"}

StayInv ==
  /\ boot \in {"finished", "stopped"} /\ startSuccess = FALSE => path = "none"
  /\ boot = "stopped" => startSuccess = FALSE
  /\ \A p \in Plugins : plugin[p] \in Outside => \A l \in Lists : ~Holds(l, p)

\* Every step keeps what is referenced.
LEMMA StepStay == InitInv /\ StayInv /\ [Next]_vars => StayInv'
<1> SUFFICES ASSUME InitInv, StayInv, [Next]_vars PROVE StayInv'
  OBVIOUS
<1> USE DEF StayInv, bootVars, lockVars, apiVars, patcherVars, runVars
<1>0. /\ stored \in [Lists -> Seq(Plugins)] /\ plugin \in [Plugins -> PluginStates]
      /\ boot = "kern_start" => path = "none"
  BY DEF InitInv, TypeOK, DataTypeOK, ThreadTypeOK, HookInv
<1>1. CASE UNCHANGED vars
  BY <1>1 DEF vars, Holds
<1>2. CASE KernStart
  BY <1>0, <1>2 DEF KernStart, RegisterNothing, PerformEarlyInit, PerformEarlyInitUnrouted,
     RegisterPolicy, StartSuccess, KernStop, Holds
<1>3. ASSUME NEW p \in Plugins, PluginStep(p) PROVE StayInv'
  <2>1. UNCHANGED bootVars
    BY <1>3 DEF PluginStep, LoadPlugin, RefusePlugin, RequestAccess, ReleaseAccess, PluginStop,
       OnPatcherLoad, OnKextLoad, OnProcLoad, OnEntitlementRequest, Register, PluginUnchanged
  <2>2. CASE stored' = stored
    <3>1. \A q \in Plugins : plugin'[q] \in Outside => plugin[q] \in Outside
      <4>1. CASE UNCHANGED plugin
        BY <4>1
      <4>2. CASE LoadPlugin(p) \/ RefusePlugin(p) \/ RequestAccess(p) \/ PluginStop(p)
        BY <1>0, <4>2 DEF LoadPlugin, RefusePlugin, RequestAccess, PluginStop, Outside
      <4>3. CASE ReleaseAccess(p)
        BY <1>0, <4>3 DEF ReleaseAccess, Outside
      <4>4. CASE OnPatcherLoad(p) \/ OnKextLoad(p) \/ OnProcLoad(p) \/ OnEntitlementRequest(p)
        BY <4>4 DEF OnPatcherLoad, OnKextLoad, OnProcLoad, OnEntitlementRequest, Register
      <4> QED
        BY <1>3, <4>1, <4>2, <4>3, <4>4 DEF PluginStep
    <3> QED
      BY <2>1, <2>2, <3>1 DEF Holds
  <2>3. ASSUME NEW first \in Lists, NEW second \in Lists, Register(p, first, second) PROVE StayInv'
    <3>1. PICK ls : stored' = [l \in Lists |-> IF l \in ls THEN Append(stored[l], p) ELSE stored[l]]
      BY <2>3 DEF Register
    <3>2. plugin' = plugin /\ plugin[p] = "registering"
      BY <2>3 DEF Register
    <3>3. ASSUME NEW q \in Plugins, plugin[q] \in Outside, NEW l \in Lists, NEW i \in DOMAIN stored'[l]
          PROVE  stored'[l][i] # q
      <4>1. q # p
        BY <3>2, <3>3 DEF Outside
      <4>2. stored[l] \in Seq(Plugins) /\ \A k \in DOMAIN stored[l] : stored[l][k] # q
        BY <1>0, <3>3 DEF Holds
      <4>3. CASE stored'[l] = stored[l]
        BY <3>3, <4>2, <4>3
      <4>4. CASE stored'[l] = Append(stored[l], p)
        BY <3>3, <4>1, <4>2, <4>4, AppendProperties
      <4> QED
        BY <3>1, <4>3, <4>4
    <3> QED
      BY <2>1, <3>2, <3>3 DEF Holds
  <2> QED
    BY <1>3, <2>2, <2>3 DEF PluginStep, LoadPlugin, RefusePlugin, RequestAccess, ReleaseAccess,
       PluginStop, OnPatcherLoad, OnKextLoad, OnProcLoad, OnEntitlementRequest, Lists
<1>4. ASSUME NEW t \in Threads, HookStep(t) PROVE StayInv'
  BY <1>4 DEF HookStep, CallStep, EnterHook, LockPolicy, Recheck, KernelInit, FinalisePolicy,
     FinaliseConsole, FinaliseRequests, UnlockPolicy, Holds
<1>5. ASSUME NEW t \in Threads, PerformCommonInit(t) PROVE StayInv'
  <2>1. UNCHANGED <<bootVars, plugin>>
    BY <1>5 DEF PerformCommonInit, PatcherLoadCallback, CallbacksDone, SetupKextListening,
       UserInit, EraseDisabledProc, ProcessUserLoadCallbacks, ActivateKernel, ActivateUser
  <2>2. CASE UNCHANGED stored
    BY <2>1, <2>2 DEF Holds
  <2>3. CASE EraseDisabledProc(t)
    <3>1. PICK j \in DOMAIN stored["procs"] :
            stored' = [stored EXCEPT !["procs"] = RemoveAt(stored["procs"], j)]
      BY <2>3 DEF EraseDisabledProc
    <3>2. stored["procs"] \in Seq(Plugins)
      BY <1>0 DEF Lists
    <3>3. ASSUME NEW l \in Lists, NEW i \in DOMAIN stored'[l]
          PROVE  \E k \in DOMAIN stored[l] : stored'[l][i] = stored[l][k]
      <4>1. CASE l # "procs"
        BY <1>0, <3>1, <3>3, <4>1
      <4>2. CASE l = "procs"
        <5>1. stored'[l] = RemoveAt(stored["procs"], j)
          BY <1>0, <3>1, <4>2
        <5> QED
          BY <3>2, <3>3, <4>2, <5>1, RemoveAtKeeps
      <4> QED
        BY <4>1, <4>2
    <3> QED
      BY <2>1, <3>3 DEF Holds
  <2> QED
    BY <1>5, <2>2, <2>3 DEF PerformCommonInit, PatcherLoadCallback, CallbacksDone,
       SetupKextListening, UserInit, ProcessUserLoadCallbacks, ActivateKernel, ActivateUser
<1> QED
  BY <1>1, <1>2, <1>3, <1>4, <1>5 DEF Next

\* Neither Lilu nor a plugin goes away while somebody holds a pointer into it.
THEOREM NothingDangles == Spec => []NothingDangling
<1>1. Init => StayInv
  BY DEF Init, StayInv, Holds
<1>2. InitInv /\ StayInv => NothingDangling
  BY DEF InitInv, TypeOK, ConfigTypeOK, StayInv, NothingDangling, Outside
<1> QED
  BY <1>1, <1>2, StepStay, Inductive, PTL DEF Spec

-----------------------------------------------------------------------------

Loaded == stored["patcherLoaded"]
After == CommonInit \ {"callbacks"}
AllRan == \A i \in DOMAIN Loaded : called[Loaded[i]] > 0

\* The callbacks before cursor have run, all of them behind the loop; the vector has
\* no callback twice and is complete when the loop starts.  On the console path the
\* worker is the only thread that calls, so the callbacks from cursor on have not run.
EndedInv ==
  /\ kactivated \/ uactivated => apiRequestsOver
  /\ phase[Worker] # "idle" => apiRequestsOver
  /\ \A t \in Threads : phase[t] \in CommonInit => apiRequestsOver

DistinctInv == \A i, j \in DOMAIN Loaded : Loaded[i] = Loaded[j] => i = j

RanInv ==
  /\ kactivated \/ uactivated => AllRan
  /\ \A t \in Threads : phase[t] \in After => AllRan
  /\ \A t \in Threads : phase[t] = "callbacks" =>
       \A i \in DOMAIN Loaded : i < cursor => called[Loaded[i]] > 0

OnceInv ==
  path # "policy" =>
    /\ phase[Worker] = "idle" => \A p \in Plugins : called[p] = 0
    /\ \A p \in Plugins : called[p] <= 1
    /\ phase[Worker] = "callbacks" =>
         \A i \in DOMAIN Loaded : i >= cursor => called[Loaded[i]] = 0

CallInv == EndedInv /\ DistinctInv /\ RanInv /\ OnceInv

\* Initially no callback is known.
LEMMA InitCalls == Init => CallInv
<1> SUFFICES ASSUME Init PROVE CallInv
  OBVIOUS
<1>1. Loaded = <<>> /\ DOMAIN Loaded = {}
  BY DEF Init, Loaded, Lists
<1>2. EndedInv /\ DistinctInv
  BY <1>1 DEF Init, EndedInv, DistinctInv, CommonInit, Threads
<1>3. RanInv
  BY <1>1 DEF Init, RanInv, AllRan
<1>4. OnceInv
  BY <1>1 DEF Init, OnceInv, Threads
<1> QED
  BY <1>2, <1>3, <1>4 DEF CallInv

\* A step that leaves the calls, the loop and the vector alone.
LEMMA CallKept ==
  ASSUME CallInv, Loaded' = Loaded, UNCHANGED <<called, cursor>>,
         path' # "policy" => path # "policy",
         apiRequestsOver => apiRequestsOver',
         \A t \in Threads : phase'[t] \in CommonInit =>
           phase'[t] = phase[t] \/ (phase[t] \in After /\ phase'[t] \in After),
         phase'[Worker] = "idle" <=> phase[Worker] = "idle",
         kactivated' \/ uactivated' =>
           kactivated \/ uactivated \/ \E t \in Threads : phase[t] \in After
  PROVE  CallInv'
<1>1. EndedInv'
  BY DEF CallInv, EndedInv, After
<1>2. DistinctInv'
  BY DEF CallInv, DistinctInv
<1>3. AllRan <=> AllRan'
  BY DEF AllRan
<1>4. RanInv'
  BY <1>3 DEF CallInv, RanInv, After, CommonInit
<1>5. OnceInv'
  BY DEF CallInv, OnceInv, Threads, After, CommonInit
<1> QED
  BY <1>1, <1>2, <1>4, <1>5 DEF CallInv

\* finaliseRequests ends registrations, and the loop starts at its beginning.
LEMMA FinaliseCalls ==
  ASSUME InitInv, CallInv, NEW t \in Threads, FinalisePolicy(t) \/ FinaliseConsole(t)
  PROVE  CallInv'
<1> USE DEF apiVars, patcherVars, bootVars
<1>1. /\ Loaded' = Loaded /\ cursor' = 1 /\ apiRequestsOver'
      /\ UNCHANGED <<called, path, kactivated, uactivated>> /\ phase[t] = "finalise"
      /\ \A s \in Threads : phase'[s] \in {phase[s], "callbacks", "unlock"}
  BY DEF FinalisePolicy, FinaliseConsole, FinaliseRequests, Loaded, Goto, InitInv, TypeOK, ThreadTypeOK
<1>2. EndedInv' /\ DistinctInv'
  BY <1>1 DEF CallInv, EndedInv, DistinctInv
<1>3. AllRan <=> AllRan'
  BY <1>1 DEF AllRan
<1>4. \A i \in DOMAIN Loaded : ~(i < 1)
  <2>1. Loaded \in Seq(Plugins)
    BY DEF InitInv, TypeOK, DataTypeOK, Loaded, Lists
  <2> QED
    BY <2>1, LenProperties
<1>5. RanInv'
  BY <1>1, <1>3, <1>4 DEF CallInv, RanInv, After, CommonInit
<1>6. OnceInv'
  <2>1. SUFFICES ASSUME path # "policy" PROVE OnceInv'
    BY <1>1 DEF OnceInv
  <2>2. FinaliseConsole(t) /\ t \in Callers
    BY <1>1, <2>1 DEF FinalisePolicy, InitInv, WorkerInv, Threads, CommonInit
  <2>3. phase[Worker] = "idle"
    BY <1>1, <2>2 DEF InitInv, HookInv, WorkerInv, BeforeInitialised
  <2>4. \A p \in Plugins : called[p] = 0
    BY <2>1, <2>3 DEF CallInv, OnceInv
  <2>5. \A i \in DOMAIN Loaded : Loaded[i] \in Plugins
    <3>1. Loaded \in Seq(Plugins)
      BY DEF InitInv, TypeOK, DataTypeOK, Loaded, Lists
    <3> QED
      BY <3>1, LenProperties, ElementOfSeq
  <2> QED
    BY <1>1, <2>4, <2>5 DEF OnceInv
<1> QED
  BY <1>2, <1>5, <1>6 DEF CallInv

\* One turn of the loop.
LEMMA CallbackCalls ==
  ASSUME InitInv, CallInv, NEW t \in Threads, PatcherLoadCallback(t)
  PROVE  CallInv'
<1> USE DEF apiVars, patcherVars, bootVars
<1> DEFINE p0 == Loaded[cursor]
<1>1. /\ Loaded' = Loaded /\ cursor' = cursor + 1 /\ phase[t] = "callbacks"
      /\ called' = [called EXCEPT ![p0] = @ + 1]
      /\ UNCHANGED <<path, kactivated, uactivated, phase, apiRequestsOver>>
  BY DEF PatcherLoadCallback, Loaded
<1>2. Loaded \in Seq(Plugins) /\ cursor \in DOMAIN Loaded /\ cursor \in Nat
      /\ called \in [Plugins -> Nat]
  <2>1. Loaded \in Seq(Plugins) /\ cursor \in Nat \ {0} /\ called \in [Plugins -> Nat]
    BY DEF InitInv, TypeOK, DataTypeOK, Loaded, Lists
  <2>2. cursor <= Len(Loaded)
    BY DEF PatcherLoadCallback, Loaded
  <2> QED
    BY <2>1, <2>2, LenProperties
<1>3. \A i \in DOMAIN Loaded : i \in Nat /\ Loaded[i] \in Plugins
  BY <1>2, LenProperties, ElementOfSeq
<1> HIDE DEF p0
<1>4. p0 = Loaded[cursor] /\ p0 \in Plugins
  BY <1>2, <1>3 DEF p0
<1>5. /\ \A p \in Plugins : called'[p] = IF p = p0 THEN called[p] + 1 ELSE called[p]
      /\ \A p \in Plugins : called[p] \in Nat
  BY <1>1, <1>2, <1>4
<1>6. EndedInv' /\ DistinctInv'
  BY <1>1 DEF CallInv, EndedInv, DistinctInv
<1>7. AllRan => AllRan'
  BY <1>1, <1>3, <1>5 DEF AllRan
<1>8. (\A i \in DOMAIN Loaded : i < cursor => called[Loaded[i]] > 0)
        => \A i \in DOMAIN Loaded' : i < cursor' => called'[Loaded'[i]] > 0
  BY <1>1, <1>2, <1>3, <1>4, <1>5
<1>9. RanInv'
  BY <1>1, <1>7, <1>8 DEF CallInv, RanInv
<1>10. OnceInv'
  <2>1. SUFFICES ASSUME path # "policy" PROVE OnceInv'
    BY <1>1 DEF OnceInv
  <2>2. phase[Worker] = "callbacks"
    BY <1>1, <2>1 DEF InitInv, HookInv, CommonInit, Threads
  <2>3. called[p0] = 0
    BY <1>2, <1>4, <2>1, <2>2 DEF CallInv, OnceInv
  <2>4. \A i \in DOMAIN Loaded : i >= cursor + 1 => Loaded[i] # p0
    BY <1>2, <1>3, <1>4 DEF CallInv, DistinctInv
  <2>5. \A p \in Plugins : called'[p] <= 1
    BY <1>5, <2>1, <2>3 DEF CallInv, OnceInv
  <2>6. \A i \in DOMAIN Loaded : i >= cursor + 1 => called'[Loaded[i]] = 0
    BY <1>2, <1>3, <1>5, <2>1, <2>2, <2>4 DEF CallInv, OnceInv
  <2> QED
    BY <1>1, <2>2, <2>5, <2>6 DEF OnceInv
<1> QED
  BY <1>6, <1>9, <1>10 DEF CallInv

\* The loop ends behind the last callback.
LEMMA DoneCalls ==
  ASSUME InitInv, CallInv, NEW t \in Threads, CallbacksDone(t)
  PROVE  CallInv'
<1> USE DEF apiVars, patcherVars, bootVars, runVars
<1>1. /\ Loaded' = Loaded /\ phase[t] = "callbacks" /\ cursor > Len(Loaded)
      /\ UNCHANGED <<path, kactivated, uactivated, apiRequestsOver, called, cursor>>
      /\ \A s \in Threads : phase'[s] = IF s = t THEN "listen" ELSE phase[s]
  BY DEF CallbacksDone, Loaded, Goto, InitInv, TypeOK, ThreadTypeOK
<1>2. AllRan
  <2>1. Loaded \in Seq(Plugins) /\ cursor \in Nat
    BY DEF InitInv, TypeOK, DataTypeOK, Loaded, Lists
  <2>2. \A i \in DOMAIN Loaded : i < cursor
    BY <1>1, <2>1, LenProperties
  <2> QED
    BY <1>1, <2>2 DEF CallInv, RanInv, AllRan
<1>3. AllRan'
  BY <1>1, <1>2 DEF AllRan
<1>4. EndedInv' /\ DistinctInv'
  BY <1>1 DEF CallInv, EndedInv, DistinctInv, CommonInit, Threads
<1>5. RanInv'
  BY <1>1, <1>3 DEF CallInv, RanInv
<1>6. OnceInv'
  BY <1>1 DEF CallInv, OnceInv, Threads
<1> QED
  BY <1>4, <1>5, <1>6 DEF CallInv

\* A plugin that registers does so before any callback runs, and once.
LEMMA RegisterCalls ==
  ASSUME InitInv, CallInv, NEW p \in Plugins, OnPatcherLoad(p)
  PROVE  CallInv'
<1> USE DEF patcherVars, bootVars, runVars, PluginUnchanged
<1>1. /\ plugin[p] = "registering" /\ ~Holds("patcherLoaded", p)
      /\ UNCHANGED <<path, kactivated, uactivated, apiRequestsOver, called, cursor, phase>>
      /\ Loaded' = Append(Loaded, p)
  BY DEF OnPatcherLoad, Register, Loaded, Lists
<1>2. ~apiRequestsOver
  BY <1>1 DEF InitInv, NoPluginInside
<1>3. /\ ~kactivated /\ ~uactivated /\ phase[Worker] = "idle"
      /\ \A t \in Threads : phase[t] \notin CommonInit
  BY <1>2 DEF CallInv, EndedInv
<1>4. EndedInv'
  BY <1>1, <1>3 DEF EndedInv
<1>5. DistinctInv'
  <2>1. Loaded \in Seq(Plugins) /\ Len(Loaded) \in Nat /\ DOMAIN Loaded = 1..Len(Loaded)
    BY LenProperties DEF InitInv, TypeOK, DataTypeOK, Loaded, Lists
  <2>2. /\ DOMAIN Loaded' = 1..(Len(Loaded) + 1)
        /\ \A i \in 1..Len(Loaded) : Loaded'[i] = Loaded[i]
        /\ Loaded'[Len(Loaded) + 1] = p
    BY <1>1, <2>1, AppendProperties
  <2>3. \A i \in 1..Len(Loaded) : Loaded[i] # p
    BY <1>1, <2>1 DEF Holds, Loaded
  <2>4. \A i, j \in 1..Len(Loaded) : Loaded[i] = Loaded[j] => i = j
    BY <2>1 DEF CallInv, DistinctInv
  <2> QED
    BY <2>1, <2>2, <2>3, <2>4 DEF DistinctInv
<1>6. RanInv'
  BY <1>1, <1>3 DEF RanInv, After, CommonInit
<1>7. OnceInv'
  BY <1>1, <1>3 DEF CallInv, OnceInv
<1> QED
  BY <1>4, <1>5, <1>6, <1>7 DEF CallInv

\* Every step keeps the account of the callbacks.
LEMMA StepCalls == InitInv /\ CallInv /\ [Next]_vars => CallInv'
<1> SUFFICES ASSUME InitInv, CallInv, [Next]_vars PROVE CallInv'
  OBVIOUS
<1> USE DEF bootVars, lockVars, apiVars, patcherVars, runVars
<1>0. /\ phase \in [Threads -> Phases] /\ Worker \in Threads
      /\ stored \in [Lists -> Seq(Plugins)]
  BY DEF InitInv, TypeOK, ThreadTypeOK, DataTypeOK, Threads
<1>1. CASE UNCHANGED vars
  BY <1>1, CallKept DEF vars, Loaded
<1>2. CASE KernStart
  <2>1. /\ UNCHANGED <<stored, called, cursor, apiRequestsOver, phase, kactivated, uactivated>>
        /\ path' = path \/ path = "none"
    BY <1>2 DEF KernStart, RegisterNothing, PerformEarlyInit, PerformEarlyInitUnrouted,
       RegisterPolicy, StartSuccess, KernStop, InitInv, HookInv
  <2> QED
    BY <2>1, CallKept DEF Loaded
<1>3. ASSUME NEW p \in Plugins, PluginStep(p) PROVE CallInv'
  <2>1. CASE OnPatcherLoad(p)
    BY <2>1, RegisterCalls
  <2>2. CASE ~OnPatcherLoad(p)
    <3>1. UNCHANGED <<called, cursor, path, apiRequestsOver, phase, kactivated, uactivated>>
      BY <1>3, <2>2 DEF PluginStep, LoadPlugin, RefusePlugin, RequestAccess, ReleaseAccess,
         PluginStop, OnKextLoad, OnProcLoad, OnEntitlementRequest, Register, PluginUnchanged
    <3>2. Loaded' = Loaded
      BY <1>0, <1>3, <2>2 DEF PluginStep, LoadPlugin, RefusePlugin, RequestAccess, ReleaseAccess,
         PluginStop, OnKextLoad, OnProcLoad, OnEntitlementRequest, Register, Loaded, Lists
    <3> QED
      BY <3>1, <3>2, CallKept
  <2> QED
    BY <2>1, <2>2
<1>4. ASSUME NEW t \in Threads, HookStep(t) PROVE CallInv'
  <2>1. CASE FinalisePolicy(t) \/ FinaliseConsole(t)
    BY <2>1, FinaliseCalls
  <2>2. CASE EnterHook(t) \/ LockPolicy(t) \/ Recheck(t) \/ KernelInit(t) \/ UnlockPolicy(t)
    <3>1. /\ UNCHANGED <<stored, called, cursor, path, apiRequestsOver, kactivated, uactivated>>
          /\ \A s \in Threads : phase'[s] = phase[s] \/
               (s = t /\ phase'[s] \in {"idle", "lock", "recheck", "kernelInit", "finalise", "unlock"})
      BY <1>0, <2>2 DEF EnterHook, LockPolicy, Recheck, KernelInit, UnlockPolicy, Goto
    <3>2. t # Worker \/ phase[Worker] \in Locked
      BY <2>2 DEF EnterHook, LockPolicy, Recheck, KernelInit, UnlockPolicy, Goto, Locked,
         ActorsAssumption
    <3>3. t # Worker
      BY <3>2 DEF InitInv, WorkerInv, Locked, CommonInit
    <3>4. phase'[Worker] = phase[Worker]
      BY <1>0, <3>1, <3>3
    <3>5. \A s \in Threads : phase'[s] \in CommonInit => phase'[s] = phase[s]
      BY <3>1 DEF CommonInit
    <3> QED
      BY <3>1, <3>4, <3>5, CallKept DEF Loaded
  <2> QED
    BY <1>4, <2>1, <2>2 DEF HookStep, CallStep
<1>5. ASSUME NEW t \in Threads, PerformCommonInit(t) PROVE CallInv'
  <2>1. CASE PatcherLoadCallback(t)
    BY <2>1, CallbackCalls
  <2>2. CASE CallbacksDone(t)
    BY <2>2, DoneCalls
  <2>3. CASE EraseDisabledProc(t)
    <3>1. UNCHANGED <<called, cursor, path, apiRequestsOver, phase, kactivated, uactivated>>
      BY <2>3 DEF EraseDisabledProc
    <3>2. Loaded' = Loaded
      BY <1>0, <2>3 DEF EraseDisabledProc, Loaded, Lists
    <3> QED
      BY <3>1, <3>2, CallKept
  <2>4. CASE \/ SetupKextListening(t) \/ UserInit(t) \/ ProcessUserLoadCallbacks(t)
             \/ ActivateKernel(t) \/ ActivateUser(t)
    <3>1. UNCHANGED <<stored, called, cursor, path, apiRequestsOver>> /\ phase[t] \in After
      BY <2>4 DEF SetupKextListening, UserInit, ProcessUserLoadCallbacks, ActivateKernel,
         ActivateUser, Goto, After, CommonInit
    <3>2. \A s \in Threads : phase'[s] = phase[s] \/
            (s = t /\ phase'[s] \in {"userInit", "userLoad", "activateKernel", "activateUser",
                                    "done", "unlock"})
      BY <1>0, <2>4 DEF SetupKextListening, UserInit, ProcessUserLoadCallbacks, ActivateKernel,
         ActivateUser, Goto, Return
    <3>3. \A s \in Threads : phase'[s] \in CommonInit =>
            phase'[s] = phase[s] \/ (phase[s] \in After /\ phase'[s] \in After)
      BY <3>1, <3>2 DEF After, CommonInit
    <3>4. phase'[Worker] = "idle" <=> phase[Worker] = "idle"
      BY <1>0, <3>1, <3>2 DEF After, CommonInit
    <3> QED
      BY <3>1, <3>3, <3>4, CallKept DEF Loaded
  <2> QED
    BY <1>5, <2>1, <2>2, <2>3, <2>4 DEF PerformCommonInit
<1> QED
  BY <1>1, <1>2, <1>3, <1>4, <1>5 DEF Next

\* The patchers are activated only after every stored callback has run, and through
\* the console hook no callback runs twice.
THEOREM ActivatedInOrder == Spec => []ActivatedAfterCallbacks
<1>1. InitInv /\ CallInv => ActivatedAfterCallbacks
  BY DEF CallInv, RanInv, OnceInv, AllRan, Loaded, ActivatedAfterCallbacks, Holds
<1> QED
  BY <1>1, InitCalls, StepCalls, Inductive, PTL DEF Spec

=============================================================================
