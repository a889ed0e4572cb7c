------------------------- MODULE UserPendingProofs --------------------------
(***************************************************************************)
(* Proofs about UserPending for any number of threads, slots and           *)
(* executions: races for slots, and the refinement of ThreadMap.           *)
(***************************************************************************)
EXTENDS UserPending, TLAPS

USE NAssumption, ThreadsAssumption, MaxExecsAssumption

\* The empty container satisfies the inductive invariant.
LEMMA InitPending == Init => PendingInv
<1> SUFFICES ASSUME Init PROVE PendingInv
  OBVIOUS
<1>1. TypeOK
  BY DEF Init, TypeOK, ArrayOK, DataOK, Slots, None, Phases, Holding, Owning
<1>2. SlotsExclusive /\ SlotlessInv
  BY DEF Init, SlotsExclusive, SlotlessInv, Slots, Owning, Slotless
<1> QED
  BY <1>1, <1>2 DEF PendingInv

\* Every step of a thread preserves the invariant.
LEMMA StepPending ==
  ASSUME PendingInv, NEW t \in Threads, OnPath(t) \/ Qos(t)
  PROVE  PendingInv'
<1> USE DEF PendingInv, TypeOK, slotVars, Slots, Owning
<1>1. CASE OnPathUnmatched(t)
  <2> USE <1>1 DEF OnPathUnmatched, Execute
  <2>1. ArrayOK'
    BY DEF ArrayOK, Phases, Holding
  <2>2. DataOK' /\ UNCHANGED hooked
    BY DEF ArrayOK, DataOK, None, Holding
  <2>3. SlotsExclusive'
    BY DEF ArrayOK, SlotsExclusive, SlotlessInv, Slotless
  <2>4. SlotlessInv'
    BY DEF ArrayOK, SlotsExclusive, SlotlessInv, Slotless
  <2> QED
    BY <2>1, <2>2, <2>3, <2>4
<1>2. CASE OnPathDirect(t)
  <2> USE <1>2 DEF OnPathDirect, Execute
  <2>1. ArrayOK'
    BY DEF ArrayOK, Phases, Holding
  <2>2. DataOK' /\ UNCHANGED hooked
    BY DEF ArrayOK, DataOK, None, Holding
  <2>3. SlotsExclusive'
    BY DEF ArrayOK, SlotsExclusive, SlotlessInv, Slotless
  <2>4. SlotlessInv'
    BY DEF ArrayOK, SlotsExclusive, SlotlessInv, Slotless
  <2> QED
    BY <2>1, <2>2, <2>3, <2>4
<1>3. CASE OnPathDelayed(t)
  <2> USE <1>3 DEF OnPathDelayed, Execute
  <2>1. ArrayOK'
    BY DEF ArrayOK, Phases, Holding
  <2>2. DataOK' /\ UNCHANGED hooked
    BY DEF ArrayOK, DataOK, None, Holding
  <2>3. SlotsExclusive'
    BY DEF ArrayOK, SlotsExclusive, SlotlessInv, Slotless
  <2>4. SlotlessInv'
    BY DEF ArrayOK, SlotsExclusive, SlotlessInv, Slotless
  <2> QED
    BY <2>1, <2>2, <2>3, <2>4
<1>4. CASE GetPrevious(t)
  <2> USE <1>4 DEF GetPrevious, Goto, Own
  <2>1. ArrayOK'
    <3>1. CASE Own(t) = {}
      BY <3>1 DEF ArrayOK, Phases, Holding
    <3>2. CASE Own(t) # {}
      <4>1. PICK i \in Slots : slot' = [slot EXCEPT ![t] = i]
        BY <3>2
      <4>2. pc' = [pc EXCEPT ![t] = "clear"]
        BY <3>2
      <4> QED
        BY <4>1, <4>2 DEF ArrayOK, Phases, Holding
    <3> QED
      BY <3>1, <3>2
  <2>2. DataOK' /\ UNCHANGED hooked
    BY DEF ArrayOK, DataOK, None, Holding
  <2>3. SlotsExclusive'
    BY DEF ArrayOK, SlotsExclusive, SlotlessInv, Slotless
  <2>4. SlotlessInv'
    BY DEF ArrayOK, SlotsExclusive, SlotlessInv, Slotless
  <2> QED
    BY <2>1, <2>2, <2>3, <2>4
<1>5. CASE ClearPrevious(t)
  <2> USE <1>5 DEF ClearPrevious, Goto, Clear
  <2>1. ArrayOK'
    BY DEF ArrayOK, Phases, Holding
  <2>2. DataOK' /\ UNCHANGED hooked
    BY DEF ArrayOK, DataOK, None, Holding
  <2>3. SlotsExclusive'
    BY DEF ArrayOK, SlotsExclusive, SlotlessInv, Slotless
  <2>4. SlotlessInv'
    BY DEF ArrayOK, SlotsExclusive, SlotlessInv, Slotless
  <2> QED
    BY <2>1, <2>2, <2>3, <2>4
<1>6. CASE ReleasePrevious(t)
  <2> USE <1>6 DEF ReleasePrevious, Goto, Release
  <2>1. ArrayOK'
    BY DEF ArrayOK, Phases, Holding
  <2>2. DataOK' /\ UNCHANGED hooked
    BY DEF ArrayOK, DataOK, None, Holding
  <2>3. SlotsExclusive'
    BY DEF ArrayOK, SlotsExclusive, SlotlessInv, Slotless
  <2>4. SlotlessInv'
    <3>1. slot[t] \in Slots /\ threads[slot[t]] = t /\ NoThread # t
      BY DEF ArrayOK, SlotsExclusive, Holding
    <3>2. \A i \in Slots : i # slot[t] => threads[i] # t
      BY <3>1 DEF SlotsExclusive
    <3>3. \A i \in Slots : threads'[i] # t
      BY <3>1, <3>2 DEF ArrayOK
    <3> QED
      BY <3>3 DEF ArrayOK, SlotlessInv, Slotless
  <2> QED
    BY <2>1, <2>2, <2>3, <2>4
<1>7. CASE DeletePrevious(t)
  <2> USE <1>7 DEF DeletePrevious, Goto
  <2>1. ArrayOK'
    BY DEF ArrayOK, Phases, Holding
  <2>2. DataOK' /\ UNCHANGED hooked
    BY DEF ArrayOK, DataOK, None, Holding
  <2>3. SlotsExclusive'
    BY DEF ArrayOK, SlotsExclusive, SlotlessInv, Slotless
  <2>4. SlotlessInv'
    BY DEF ArrayOK, SlotsExclusive, SlotlessInv, Slotless
  <2> QED
    BY <2>1, <2>2, <2>3, <2>4
<1>8. CASE NewPending(t)
  <2> USE <1>8 DEF NewPending, Goto, Own
  <2>1. ArrayOK'
    BY DEF ArrayOK, Phases, Holding
  <2>2. DataOK' /\ UNCHANGED hooked
    <3>1. exec[t] \in Nat /\ UNCHANGED hooked
      BY DEF DataOK
    <3>2. heap' \subseteq Nat /\ pend' \in [Threads -> Nat]
      BY <3>1 DEF DataOK
    <3> QED
      BY <3>1, <3>2 DEF DataOK
  <2>3. SlotsExclusive'
    BY DEF ArrayOK, SlotsExclusive, SlotlessInv, Slotless
  <2>4. SlotlessInv'
    BY DEF ArrayOK, SlotsExclusive, SlotlessInv, Slotless
  <2> QED
    BY <2>1, <2>2, <2>3, <2>4
<1>9. CASE NewFails(t)
  <2> USE <1>9 DEF NewFails, Goto
  <2>1. ArrayOK'
    BY DEF ArrayOK, Phases, Holding
  <2>2. DataOK' /\ UNCHANGED hooked
    BY DEF ArrayOK, DataOK, None, Holding
  <2>3. SlotsExclusive'
    BY DEF ArrayOK, SlotsExclusive, SlotlessInv, Slotless
  <2>4. SlotlessInv'
    BY DEF ArrayOK, SlotsExclusive, SlotlessInv, Slotless
  <2> QED
    BY <2>1, <2>2, <2>3, <2>4
<1>10. CASE ClaimSlot(t)
  <2> USE <1>10 DEF ClaimSlot
  <2>1. CASE threads[slot[t]] = NoThread
    <3>1. /\ threads' = [threads EXCEPT ![slot[t]] = t]
          /\ pc' = [pc EXCEPT ![t] = "store"]
          /\ UNCHANGED slot /\ slot[t] \in Slots
      BY <2>1
    <3>2. ArrayOK'
      BY <3>1 DEF ArrayOK, Phases, Holding
    <3>3. SlotsExclusive'
      BY <2>1, <3>1 DEF ArrayOK, SlotsExclusive, SlotlessInv, Slotless
    <3>4. SlotlessInv'
      BY <2>1, <3>1 DEF ArrayOK, SlotlessInv, Slotless
    <3> QED
      BY <3>2, <3>3, <3>4 DEF DataOK
  <2>2. CASE threads[slot[t]] # NoThread
    <3>1. slot' = [slot EXCEPT ![t] = @ + 1] /\ UNCHANGED <<threads, pc>>
      BY <2>2
    <3>2. slot[t] \in 1..N /\ pc[t] = "claim"
      OBVIOUS
    <3>3. ArrayOK'
      BY <3>1, <3>2 DEF ArrayOK, Holding
    <3>4. SlotsExclusive' /\ SlotlessInv'
      BY <3>1, <3>2 DEF ArrayOK, SlotsExclusive, SlotlessInv
    <3> QED
      BY <3>3, <3>4 DEF DataOK
  <2> QED
    BY <2>1, <2>2
<1>11. CASE SetFails(t)
  <2> USE <1>11 DEF SetFails, Goto
  <2>1. ArrayOK'
    BY DEF ArrayOK, Phases, Holding
  <2>2. DataOK' /\ UNCHANGED hooked
    BY DEF ArrayOK, DataOK, None, Holding
  <2>3. SlotsExclusive'
    BY DEF ArrayOK, SlotsExclusive, SlotlessInv, Slotless
  <2>4. SlotlessInv'
    BY DEF ArrayOK, SlotsExclusive, SlotlessInv, Slotless
  <2> QED
    BY <2>1, <2>2, <2>3, <2>4
<1>12. CASE StorePending(t)
  <2> USE <1>12 DEF StorePending, Goto
  <2>1. ArrayOK'
    BY DEF ArrayOK, Phases, Holding
  <2>2. DataOK' /\ UNCHANGED hooked
    BY DEF ArrayOK, DataOK, None, Holding
  <2>3. SlotsExclusive'
    BY DEF ArrayOK, SlotsExclusive, SlotlessInv, Slotless
  <2>4. SlotlessInv'
    BY DEF ArrayOK, SlotsExclusive, SlotlessInv, Slotless
  <2> QED
    BY <2>1, <2>2, <2>3, <2>4
<1>13. CASE ExecFails(t)
  <2> USE <1>13 DEF ExecFails, Goto
  <2>1. ArrayOK'
    BY DEF ArrayOK, Phases, Holding
  <2>2. DataOK' /\ UNCHANGED hooked
    BY DEF ArrayOK, DataOK, None, Holding
  <2>3. SlotsExclusive'
    BY DEF ArrayOK, SlotsExclusive, SlotlessInv, Slotless
  <2>4. SlotlessInv'
    BY DEF ArrayOK, SlotsExclusive, SlotlessInv, Slotless
  <2> QED
    BY <2>1, <2>2, <2>3, <2>4
<1>14. CASE TaskSetMainThreadQos(t)
  <2> USE <1>14 DEF TaskSetMainThreadQos, Goto, Own
  <2>1. ArrayOK'
    <3>1. CASE Own(t) = {} /\ pc[t] = "exec" /\ pc' = [pc EXCEPT ![t] = "run"] /\ UNCHANGED slot
      BY <3>1 DEF ArrayOK, Phases, Holding, slotVars
    <3>2. ASSUME NEW i \in Own(t), pc[t] = "exec", pc' = [pc EXCEPT ![t] = "patch"],
                 slot' = [slot EXCEPT ![t] = i]
          PROVE  ArrayOK'
      <4>1. i \in Slots /\ Slots \subseteq 1..(N + 1)
        BY NAssumption DEF Slots
      <4> QED
        BY <3>2, <4>1 DEF ArrayOK, Phases, Holding, slotVars
    <3> QED
      BY <3>1, <3>2
  <2>2. DataOK' /\ UNCHANGED hooked
    BY DEF ArrayOK, DataOK, None, Holding
  <2>3. SlotsExclusive'
    BY DEF ArrayOK, SlotsExclusive, SlotlessInv, Slotless
  <2>4. SlotlessInv'
    BY DEF ArrayOK, SlotsExclusive, SlotlessInv, Slotless
  <2> QED
    BY <2>1, <2>2, <2>3, <2>4
<1>15. CASE PatchBinary(t)
  <2> USE <1>15 DEF PatchBinary, Goto
  <2>1. ArrayOK'
    BY DEF ArrayOK, Phases, Holding
  <2>2. DataOK' /\ UNCHANGED hooked
    BY DEF ArrayOK, DataOK, None, Holding
  <2>3. SlotsExclusive'
    BY DEF ArrayOK, SlotsExclusive, SlotlessInv, Slotless
  <2>4. SlotlessInv'
    BY DEF ArrayOK, SlotsExclusive, SlotlessInv, Slotless
  <2> QED
    BY <2>1, <2>2, <2>3, <2>4
<1>16. CASE ClearPending(t)
  <2> USE <1>16 DEF ClearPending, Goto, Clear
  <2>1. ArrayOK'
    BY DEF ArrayOK, Phases, Holding
  <2>2. DataOK' /\ UNCHANGED hooked
    BY DEF ArrayOK, DataOK, None, Holding
  <2>3. SlotsExclusive'
    BY DEF ArrayOK, SlotsExclusive, SlotlessInv, Slotless
  <2>4. SlotlessInv'
    BY DEF ArrayOK, SlotsExclusive, SlotlessInv, Slotless
  <2> QED
    BY <2>1, <2>2, <2>3, <2>4
<1>17. CASE ReleasePending(t)
  <2> USE <1>17 DEF ReleasePending, Goto, Release
  <2>1. ArrayOK'
    BY DEF ArrayOK, Phases, Holding
  <2>2. DataOK' /\ UNCHANGED hooked
    BY DEF ArrayOK, DataOK, None, Holding
  <2>3. SlotsExclusive'
    BY DEF ArrayOK, SlotsExclusive, SlotlessInv, Slotless
  <2>4. SlotlessInv'
    <3>1. slot[t] \in Slots /\ threads[slot[t]] = t /\ NoThread # t
      BY DEF ArrayOK, SlotsExclusive, Holding
    <3>2. \A i \in Slots : i # slot[t] => threads[i] # t
      BY <3>1 DEF SlotsExclusive
    <3>3. \A i \in Slots : threads'[i] # t
      BY <3>1, <3>2 DEF ArrayOK
    <3> QED
      BY <3>3 DEF ArrayOK, SlotlessInv, Slotless
  <2> QED
    BY <2>1, <2>2, <2>3, <2>4
<1>18. CASE DeletePending(t)
  <2> USE <1>18 DEF DeletePending, Goto
  <2>1. ArrayOK'
    BY DEF ArrayOK, Phases, Holding
  <2>2. DataOK' /\ UNCHANGED hooked
    BY DEF ArrayOK, DataOK, None, Holding
  <2>3. SlotsExclusive'
    BY DEF ArrayOK, SlotsExclusive, SlotlessInv, Slotless
  <2>4. SlotlessInv'
    BY DEF ArrayOK, SlotsExclusive, SlotlessInv, Slotless
  <2> QED
    BY <2>1, <2>2, <2>3, <2>4
<1> QED
  BY <1>1, <1>2, <1>3, <1>4, <1>5, <1>6, <1>7, <1>8, <1>9, <1>10, <1>11, <1>12, <1>13, <1>14, <1>15, <1>16, <1>17, <1>18 DEF OnPath, Qos

\* PendingInv is inductive.
THEOREM PendingInductive == Spec => []PendingInv
<1>1. PendingInv /\ [Next]_vars => PendingInv'
  <2> SUFFICES ASSUME PendingInv, [Next]_vars PROVE PendingInv'
    OBVIOUS
  <2>1. CASE UNCHANGED vars
    BY <2>1 DEF vars, slotVars, PendingInv, TypeOK, ArrayOK, DataOK, SlotsExclusive, SlotlessInv
  <2>2. CASE Next
    BY <2>2, StepPending DEF Next
  <2> QED
    BY <2>1, <2>2
<1> QED
  BY <1>1, InitPending, PTL DEF Spec

\* Whatever happens to the slots, every variable keeps its type.
THEOREM SlotTypes == Spec => []TypeOK
<1>1. PendingInv => TypeOK
  BY DEF PendingInv
<1> QED
  BY <1>1, PendingInductive, PTL

\* Races for slots: no thread has two, no two threads share one.
THEOREM SlotsAreExclusive == Spec => [](TypeOK /\ SlotsExclusive)
<1>1. PendingInv => TypeOK /\ SlotsExclusive
  BY DEF PendingInv
<1> QED
  BY <1>1, PendingInductive, PTL

-----------------------------------------------------------------------------
(* The refinement of ThreadMap.                                            *)

\* Phases in which a thread's slot does not hold the value it stands for.
Between == {"store", "release", "qosRelease"}

\* What get returns: the value in the thread's slot, or nothing.
LEMMA VisibleValue ==
  ASSUME SlotsExclusive, NEW t \in Threads
  PROVE  /\ \A i \in Slots : threads[i] = t /\ pc[t] \notin Between => Visible(t) = values[i]
         /\ (pc[t] \in Between \/ \A i \in Slots : threads[i] # t) => Visible(t) = None
<1>1. ASSUME NEW i \in Slots, threads[i] = t, pc[t] \notin Between
      PROVE  Visible(t) = values[i]
  <2>1. Own(t) # {}
    BY <1>1 DEF Own
  <2>2. t # NoThread
    OBVIOUS
  <2>3. (CHOOSE j \in Slots : threads[j] = t) = i
    BY <1>1, <2>2 DEF SlotsExclusive
  <2> QED
    BY <1>1, <2>1, <2>3 DEF Visible, Between
<1>2. ASSUME pc[t] \in Between \/ \A i \in Slots : threads[i] # t
      PROVE  Visible(t) = None
  BY <1>2 DEF Visible, Own, Between
<1> QED
  BY <1>1, <1>2

\* The same in the next state.
LEMMA VisibleValueNext ==
  ASSUME SlotsExclusive', NEW t \in Threads
  PROVE  /\ \A i \in Slots : threads'[i] = t /\ pc'[t] \notin Between => Visible(t)' = values'[i]
         /\ (pc'[t] \in Between \/ \A i \in Slots : threads'[i] # t) => Visible(t)' = None
<1>1. ASSUME NEW i \in Slots, threads'[i] = t, pc'[t] \notin Between
      PROVE  Visible(t)' = values'[i]
  <2>1. Own(t)' # {}
    BY <1>1 DEF Own
  <2>2. t # NoThread
    OBVIOUS
  <2>3. (CHOOSE j \in Slots : threads'[j] = t) = i
    BY <1>1, <2>2 DEF SlotsExclusive
  <2> QED
    BY <1>1, <2>1, <2>3 DEF Visible, Between
<1>2. ASSUME pc'[t] \in Between \/ \A i \in Slots : threads'[i] # t
      PROVE  Visible(t)' = None
  BY <1>2 DEF Visible, Own, Between
<1> QED
  BY <1>1, <1>2

\* A step that leaves a thread's slot and phase alone leaves its value alone.
LEMMA VisibleUnchanged ==
  ASSUME SlotsExclusive, SlotsExclusive', NEW u \in Threads,
         \A i \in Slots : threads'[i] = u <=> threads[i] = u,
         \A i \in Slots : threads[i] = u => values'[i] = values[i],
         pc'[u] \in Between <=> pc[u] \in Between
  PROVE  Visible(u)' = Visible(u)
<1>1. CASE pc[u] \in Between \/ \A i \in Slots : threads[i] # u
  BY <1>1, VisibleValue, VisibleValueNext
<1>2. CASE pc[u] \notin Between /\ \E i \in Slots : threads[i] = u
  <2>1. PICK i \in Slots : threads[i] = u
    BY <1>2
  <2>2. Visible(u) = values[i]
    BY <1>2, <2>1, VisibleValue
  <2>3. Visible(u)' = values'[i]
    BY <1>2, <2>1, VisibleValueNext
  <2> QED
    BY <2>1, <2>2, <2>3
<1> QED
  BY <1>1, <1>2

\* What a step of thread t does to the slots of another thread u: nothing.
LEMMA OthersUntouched ==
  ASSUME PendingInv, NEW t \in Threads, OnPath(t) \/ Qos(t), NEW u \in Threads, u # t
  PROVE  /\ pc'[u] = pc[u] /\ pend'[u] = pend[u]
         /\ \A i \in Slots : threads'[i] = u <=> threads[i] = u
         /\ \A i \in Slots : threads[i] = u => values'[i] = values[i]
<1> USE DEF PendingInv, TypeOK, ArrayOK, DataOK, slotVars, Holding, Owning
<1>1. CASE OnPathUnmatched(t)
  BY <1>1 DEF OnPathUnmatched, Execute
<1>2. CASE OnPathDirect(t)
  BY <1>2 DEF OnPathDirect, Execute
<1>3. CASE OnPathDelayed(t)
  BY <1>3 DEF OnPathDelayed, Execute
<1>4. CASE GetPrevious(t)
  BY <1>4 DEF GetPrevious, Goto
<1>5. CASE ClearPrevious(t)
  BY <1>5 DEF ClearPrevious, Goto, Clear, SlotsExclusive
<1>6. CASE ReleasePrevious(t)
  BY <1>6 DEF ReleasePrevious, Goto, Release, SlotsExclusive
<1>7. CASE DeletePrevious(t)
  BY <1>7 DEF DeletePrevious, Goto
<1>8. CASE NewPending(t)
  BY <1>8 DEF NewPending, Goto
<1>9. CASE NewFails(t)
  BY <1>9 DEF NewFails, Goto
<1>10. CASE ClaimSlot(t)
  BY <1>10 DEF ClaimSlot
<1>11. CASE SetFails(t)
  BY <1>11 DEF SetFails, Goto
<1>12. CASE StorePending(t)
  BY <1>12 DEF StorePending, Goto, SlotsExclusive
<1>13. CASE ExecFails(t)
  BY <1>13 DEF ExecFails, Goto
<1>14. CASE TaskSetMainThreadQos(t)
  BY <1>14 DEF TaskSetMainThreadQos, Goto
<1>15. CASE PatchBinary(t)
  BY <1>15 DEF PatchBinary, Goto
<1>16. CASE ClearPending(t)
  BY <1>16 DEF ClearPending, Goto, Clear, SlotsExclusive
<1>17. CASE ReleasePending(t)
  BY <1>17 DEF ReleasePending, Goto, Release, SlotsExclusive
<1>18. CASE DeletePending(t)
  BY <1>18 DEF DeletePending, Goto
<1> QED
  BY <1>1, <1>2, <1>3, <1>4, <1>5, <1>6, <1>7, <1>8, <1>9, <1>10, <1>11, <1>12, <1>13, <1>14, <1>15, <1>16, <1>17, <1>18 DEF OnPath, Qos

\* What a step of thread t does to its own value: nothing, set or erase.
LEMMA OwnValue ==
  ASSUME PendingInv, PendingInv', NEW t \in Threads, OnPath(t) \/ Qos(t)
  PROVE  Visible(t)' \in {Visible(t), pend[t], None}
<1> USE DEF PendingInv, slotVars
<1> DEFINE Quiet == /\ UNCHANGED slotVars
                    /\ pc'[t] \in Between <=> pc[t] \in Between
<1>1. CASE Quiet
  BY <1>1, VisibleUnchanged
<1>2. CASE pc'[t] \in Between \/ \A i \in Slots : threads'[i] # t
  BY <1>2, VisibleValueNext
<1>3. CASE OnPathUnmatched(t)
  BY <1>3, <1>1 DEF OnPathUnmatched, Execute, TypeOK, ArrayOK, Between
<1>4. CASE OnPathDirect(t)
  BY <1>4, <1>1 DEF OnPathDirect, Execute, TypeOK, ArrayOK, Between
<1>5. CASE OnPathDelayed(t)
  BY <1>5, <1>1 DEF OnPathDelayed, Execute, TypeOK, ArrayOK, Between
<1>6. CASE GetPrevious(t)
  BY <1>6, <1>1 DEF GetPrevious, Goto, TypeOK, ArrayOK, Between
<1>7. CASE DeletePrevious(t)
  BY <1>7, <1>1 DEF DeletePrevious, Goto, TypeOK, ArrayOK, Between
<1>8. CASE NewFails(t)
  BY <1>8, <1>1 DEF NewFails, Goto, TypeOK, ArrayOK, Between
<1>9. CASE SetFails(t)
  BY <1>9, <1>1 DEF SetFails, Goto, TypeOK, ArrayOK, Between
<1>10. CASE ExecFails(t)
  BY <1>10, <1>1 DEF ExecFails, Goto, TypeOK, ArrayOK, Between
<1>11. CASE TaskSetMainThreadQos(t)
  BY <1>11, <1>1 DEF TaskSetMainThreadQos, Goto, TypeOK, ArrayOK, Between
<1>12. CASE PatchBinary(t)
  BY <1>12, <1>1 DEF PatchBinary, Goto, TypeOK, ArrayOK, Between
<1>13. CASE DeletePending(t)
  BY <1>13, <1>1 DEF DeletePending, Goto, TypeOK, ArrayOK, Between
<1>14. CASE ClearPrevious(t)
  BY <1>14, <1>2 DEF ClearPrevious, Goto, TypeOK, ArrayOK, Between
<1>15. CASE ClearPending(t)
  BY <1>15, <1>2 DEF ClearPending, Goto, TypeOK, ArrayOK, Between
<1>16. CASE ReleasePrevious(t)
  <2>1. \A i \in Slots : threads'[i] # t
    BY <1>16 DEF ReleasePrevious, Goto, TypeOK, ArrayOK, SlotlessInv, Slotless
  <2> QED
    BY <2>1, <1>2
<1>17. CASE ReleasePending(t)
  <2>1. \A i \in Slots : threads'[i] # t
    BY <1>17 DEF ReleasePending, Goto, TypeOK, ArrayOK, SlotlessInv, Slotless
  <2> QED
    BY <2>1, <1>2
<1>18. CASE NewPending(t)
  <2>1. \A i \in Slots : threads'[i] # t
    BY <1>18 DEF NewPending, Goto, SlotlessInv, Slotless
  <2> QED
    BY <2>1, <1>2
<1>19. CASE ClaimSlot(t)
  <2>1. CASE threads[slot[t]] = NoThread
    BY <1>19, <2>1, <1>2 DEF ClaimSlot, TypeOK, ArrayOK, Between
  <2>2. CASE threads[slot[t]] # NoThread
    BY <1>19, <2>2, <1>1 DEF ClaimSlot
  <2> QED
    BY <2>1, <2>2
<1>20. CASE StorePending(t)
  <2>1. /\ slot[t] \in Slots /\ threads'[slot[t]] = t
        /\ pc'[t] = "exec" /\ values'[slot[t]] = pend[t]
    BY <1>20 DEF StorePending, Goto, SlotsExclusive, Owning, Holding, TypeOK, ArrayOK, DataOK
  <2>2. Visible(t)' = values'[slot[t]]
    BY <2>1, VisibleValueNext DEF Between
  <2> QED
    BY <2>1, <2>2
<1> QED
  BY <1>3, <1>4, <1>5, <1>6, <1>7, <1>8, <1>9, <1>10, <1>11, <1>12, <1>13, <1>14, <1>15, <1>16, <1>17, <1>18, <1>19, <1>20 DEF OnPath, Qos

\* The container implements the map from threads to values.
THEOREM Refinement == Spec => ImplementsThreadMap
<1>1. Init => Abstract!Init
  <2> SUFFICES ASSUME Init PROVE \A t \in Threads : Visible(t) = None
    BY DEF Abstract!Init
  <2>1. \A i \in Slots, t \in Threads : threads[i] # t
    BY DEF Init
  <2> QED
    BY <2>1 DEF Visible, Own
<1>2. ASSUME PendingInv, PendingInv', NEW t \in Threads, OnPath(t) \/ Qos(t)
      PROVE  Abstract!Step(t)
  <2>1. Visible(t)' \in {Visible(t), pend[t], None}
    BY <1>2, OwnValue
  <2>2. ASSUME NEW u \in Threads \ {t}
        PROVE  Visible(u)' = Visible(u) /\ pend'[u] = pend[u] /\ pc'[u] = pc[u]
    <3>1. /\ pc'[u] = pc[u] /\ pend'[u] = pend[u]
          /\ \A i \in Slots : threads'[i] = u <=> threads[i] = u
          /\ \A i \in Slots : threads[i] = u => values'[i] = values[i]
      BY <1>2, OthersUntouched
    <3>2. SlotsExclusive /\ SlotsExclusive'
      BY <1>2 DEF PendingInv
    <3>3. Visible(u)' = Visible(u)
      BY <3>1, <3>2, VisibleUnchanged
    <3> QED
      BY <3>1, <3>3
  <2> QED
    BY <2>1, <2>2 DEF Abstract!Step
<1>3. PendingInv /\ PendingInv' /\ [Next]_vars
      => [Abstract!Next]_<<[t \in Threads |-> Visible(t)], pend, pc>>
  <2> SUFFICES ASSUME PendingInv, PendingInv', [Next]_vars
               PROVE  [Abstract!Next]_<<[t \in Threads |-> Visible(t)], pend, pc>>
    OBVIOUS
  <2>1. CASE Next
    BY <2>1, <1>2 DEF Next, Abstract!Next
  <2>2. CASE UNCHANGED vars
    BY <2>2 DEF vars, slotVars, Visible, Own
  <2> QED
    BY <2>1, <2>2
<1> QED
  BY <1>1, <1>3, PendingInductive, PTL DEF Spec, ImplementsThreadMap, Abstract!Spec

=============================================================================
