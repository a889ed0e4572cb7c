---------------------------- MODULE UserPending -----------------------------
(***************************************************************************)
(* The delayed patch requests of UserPatcher: execListener calls onPath    *)
(* when a thread executes a binary, onPath leaves a PendingUser in the     *)
(* ThreadLocal container pending, and the routed task_set_main_thread_qos  *)
(* patches the new image and removes it.  ThreadLocal is a lock-free array *)
(* of N slots, modelled at the grain of its atomic operations.             *)
(*                                                                         *)
(* Looking up the own slot is one step: only the thread itself ever writes *)
(* its identity into a slot or takes it out, so no step of another thread  *)
(* changes what the loop finds.                                            *)
(***************************************************************************)
EXTENDS Naturals, FiniteSets

CONSTANTS
  Threads,      \* kernel threads that execute binaries
  NoThread,     \* an unused slot
  N,            \* slots of the container
  MaxExecs      \* bound: executions in one behaviour

ASSUME NAssumption == N \in Nat \ {0}
ASSUME ThreadsAssumption == NoThread \notin Threads /\ IsFiniteSet(Threads)
ASSUME MaxExecsAssumption == MaxExecs \in Nat

Slots == 1..N
\* A PendingUser is known by the execution that allocated it; 0 is nullptr.
None == 0

VARIABLES
  hooked,       \* orgTaskSetMainThreadQos is set
  threads,      \* ThreadLocal::threads
  values,       \* ThreadLocal::values
  heap,         \* PendingUsers that are allocated
  pc,           \* what each thread is doing
  slot,         \* the slot each thread looks at
  pend,         \* the PendingUser each thread is about to store
  execs,        \* executions so far
  exec          \* the execution each thread is in

slotVars == <<threads, values>>
vars == <<hooked, slotVars, heap, pc, slot, pend, execs, exec>>

Phases == {"run", "exec", "get", "clear", "release", "delete", "new", "claim", "store",
           "patch", "qosClear", "qosRelease", "qosDelete"}

Init ==
  /\ hooked \in BOOLEAN
  /\ threads = [i \in Slots |-> NoThread]
  /\ values = [i \in Slots |-> None]
  /\ heap = {}
  /\ pc = [t \in Threads |-> "run"]
  /\ slot = [t \in Threads |-> 1]
  /\ pend = [t \in Threads |-> None]
  /\ execs = 0
  /\ exec = [t \in Threads |-> None]

Goto(t, from, to) == pc[t] = from /\ pc' = [pc EXCEPT ![t] = to]

-----------------------------------------------------------------------------
(* ThreadLocal.                                                            *)

\* get: the thread's own slot, if it has one.
Own(t) == {i \in Slots : threads[i] = t}

\* erase, first half: the value is reset.
Clear(t) ==
  /\ values' = [values EXCEPT ![slot[t]] = None]
  /\ UNCHANGED threads

\* erase, second half: the slot is given back.
Release(t) ==
  /\ threads' = [threads EXCEPT ![slot[t]] = NoThread]
  /\ UNCHANGED values

-----------------------------------------------------------------------------
(* execListener and onPath.                                                *)

Execute(t) ==
  /\ pc[t] = "run" /\ execs < MaxExecs
  /\ execs' = execs + 1
  /\ exec' = [exec EXCEPT ![t] = execs + 1]

\* No ProcInfo matches the path: onPath returns.
OnPathUnmatched(t) ==
  /\ Execute(t)
  /\ pc' = [pc EXCEPT ![t] = "exec"]
  /\ UNCHANGED <<hooked, slotVars, heap, slot, pend>>

\* The path matches, and there is no hook to wait for: patchBinary is called.
OnPathDirect(t) ==
  /\ ~hooked
  /\ Execute(t)
  /\ pc' = [pc EXCEPT ![t] = "exec"]
  /\ UNCHANGED <<hooked, slotVars, heap, slot, pend>>

OnPathDelayed(t) ==
  /\ hooked
  /\ Execute(t)
  /\ pc' = [pc EXCEPT ![t] = "get"]
  /\ UNCHANGED <<hooked, slotVars, heap, slot, pend>>

\* pending.get: a dangling request is erased first.
GetPrevious(t) ==
  /\ \/ \E i \in Own(t) : slot' = [slot EXCEPT ![t] = i] /\ Goto(t, "get", "clear")
     \/ Own(t) = {} /\ Goto(t, "get", "new") /\ UNCHANGED slot
  /\ UNCHANGED <<hooked, slotVars, heap, pend, execs, exec>>

ClearPrevious(t) ==
  /\ Goto(t, "clear", "release")
  /\ Clear(t)
  /\ UNCHANGED <<hooked, heap, slot, pend, execs, exec>>

ReleasePrevious(t) ==
  /\ Goto(t, "release", "delete")
  /\ Release(t)
  /\ UNCHANGED <<hooked, heap, slot, pend, execs, exec>>

\* delete *previous reads the slot again.
DeletePrevious(t) ==
  /\ Goto(t, "delete", "new")
  /\ heap' = heap \ {values[slot[t]]}
  /\ UNCHANGED <<hooked, slotVars, slot, pend, execs, exec>>

\* new PendingUser; set overwrites the own value, or looks for a free slot.
NewPending(t) ==
  /\ Goto(t, "new", IF Own(t) # {} THEN "store" ELSE "claim")
  /\ heap' = heap \cup {exec[t]}
  /\ pend' = [pend EXCEPT ![t] = exec[t]]
  /\ slot' = [slot EXCEPT ![t] = IF Own(t) # {} THEN CHOOSE i \in Own(t) : TRUE ELSE 1]
  /\ UNCHANGED <<hooked, slotVars, execs, exec>>

NewFails(t) ==
  /\ Goto(t, "new", "exec")
  /\ UNCHANGED <<hooked, slotVars, heap, slot, pend, execs, exec>>

\* Mutant of ClaimSlot: the slot is read and written, not compared and swapped.
ClaimSlot_NotAtomic(t) ==
  /\ pc[t] = "claim" /\ slot[t] \in Slots
  /\ \E seen \in {threads[slot[t]], NoThread} :
       IF seen = NoThread
       THEN /\ threads' = [threads EXCEPT ![slot[t]] = t]
            /\ pc' = [pc EXCEPT ![t] = "store"]
            /\ UNCHANGED slot
       ELSE /\ slot' = [slot EXCEPT ![t] = @ + 1]
            /\ UNCHANGED <<threads, pc>>
  /\ UNCHANGED <<hooked, values, heap, pend, execs, exec>>

\* One compare-and-swap of the second loop of set.
ClaimSlot(t) ==
  /\ pc[t] = "claim" /\ slot[t] \in Slots
  /\ IF threads[slot[t]] = NoThread
     THEN /\ threads' = [threads EXCEPT ![slot[t]] = t]
          /\ pc' = [pc EXCEPT ![t] = "store"]
          /\ UNCHANGED slot
     ELSE /\ slot' = [slot EXCEPT ![t] = @ + 1]
          /\ UNCHANGED <<threads, pc>>
  /\ UNCHANGED <<hooked, values, heap, pend, execs, exec>>

\* Mutant of SetFails: the result of the loop is not looked at.
SetFails_StoresAnyway(t) ==
  /\ slot[t] \notin Slots
  /\ Goto(t, "claim", "store")
  /\ UNCHANGED <<hooked, slotVars, heap, slot, pend, execs, exec>>

\* Every slot was taken when it was tried: set fails, the request is dropped.
SetFails(t) ==
  /\ slot[t] \notin Slots
  /\ Goto(t, "claim", "exec")
  /\ heap' = heap \ {pend[t]}
  /\ UNCHANGED <<hooked, slotVars, slot, pend, execs, exec>>

StorePending(t) ==
  /\ Goto(t, "store", "exec")
  /\ values' = [values EXCEPT ![slot[t]] = pend[t]]
  /\ UNCHANGED <<hooked, threads, heap, slot, pend, execs, exec>>

-----------------------------------------------------------------------------
(* The execution goes on to task_set_main_thread_qos, or does not happen.  *)

ExecFails(t) ==
  /\ Goto(t, "exec", "run")
  /\ UNCHANGED <<hooked, slotVars, heap, slot, pend, execs, exec>>

TaskSetMainThreadQos(t) ==
  /\ hooked
  /\ \/ \E i \in Own(t) : slot' = [slot EXCEPT ![t] = i] /\ Goto(t, "exec", "patch")
     \/ Own(t) = {} /\ Goto(t, "exec", "run") /\ UNCHANGED slot
  /\ UNCHANGED <<hooked, slotVars, heap, pend, execs, exec>>

\* patchBinary with the path of the request in the slot.
PatchBinary(t) ==
  /\ Goto(t, "patch", "qosClear")
  /\ UNCHANGED <<hooked, slotVars, heap, slot, pend, execs, exec>>

ClearPending(t) ==
  /\ Goto(t, "qosClear", "qosRelease")
  /\ Clear(t)
  /\ UNCHANGED <<hooked, heap, slot, pend, execs, exec>>

ReleasePending(t) ==
  /\ Goto(t, "qosRelease", "qosDelete")
  /\ Release(t)
  /\ UNCHANGED <<hooked, heap, slot, pend, execs, exec>>

\* Mutant of DeletePending: the value is reset once the slot was given back.
DeletePending_Resets(t) ==
  /\ Goto(t, "qosDelete", "run")
  /\ heap' = heap \ {values[slot[t]]}
  /\ values' = [values EXCEPT ![slot[t]] = None]
  /\ UNCHANGED <<hooked, threads, slot, pend, execs, exec>>

\* delete *entry reads the slot again.
DeletePending(t) ==
  /\ Goto(t, "qosDelete", "run")
  /\ heap' = heap \ {values[slot[t]]}
  /\ UNCHANGED <<hooked, slotVars, slot, pend, execs, exec>>

-----------------------------------------------------------------------------
OnPath(t) ==
  \/ OnPathUnmatched(t) \/ OnPathDirect(t) \/ OnPathDelayed(t)
  \/ GetPrevious(t) \/ ClearPrevious(t) \/ ReleasePrevious(t) \/ DeletePrevious(t)
  \/ NewPending(t) \/ NewFails(t) \/ ClaimSlot(t) \/ SetFails(t) \/ StorePending(t)

Qos(t) ==
  \/ ExecFails(t) \/ TaskSetMainThreadQos(t) \/ PatchBinary(t)
  \/ ClearPending(t) \/ ReleasePending(t) \/ DeletePending(t)

Next == \E t \in Threads : OnPath(t) \/ Qos(t)

Spec == Init /\ [][Next]_vars

-----------------------------------------------------------------------------
(* Properties.                                                             *)

\* Phases in which a thread uses the slot it has at hand.
Owning == {"clear", "release", "store", "patch", "qosClear", "qosRelease"}
Holding == Owning \cup {"delete", "qosDelete"}

ArrayOK ==
  /\ threads \in [Slots -> Threads \cup {NoThread}]
  /\ pc \in [Threads -> Phases]
  /\ slot \in [Threads -> 1..(N + 1)]
  /\ \A t \in Threads : pc[t] \in Holding => slot[t] \in Slots

DataOK ==
  /\ values \in [Slots -> Nat]
  /\ heap \subseteq Nat
  /\ pend \in [Threads -> Nat]
  /\ execs \in Nat
  /\ exec \in [Threads -> Nat]

\* Every variable keeps its type; a thread that erases, deletes, stores or
\* patches has a slot of the array at hand.
TypeOK == hooked \in BOOLEAN /\ ArrayOK /\ DataOK

\* Threads that race for slots never end up with two, and never share one: a
\* thread in the middle of an operation is alone with its slot.
SlotsExclusive ==
  /\ \A i, j \in Slots : threads[i] = threads[j] /\ threads[i] # NoThread => i = j
  /\ \A t \in Threads : pc[t] \in Owning => threads[slot[t]] = t

\* The value get would return to each thread.
Visible(t) ==
  IF Own(t) # {} /\ pc[t] \notin {"store", "release", "qosRelease"}
  THEN values[CHOOSE i \in Slots : threads[i] = t]
  ELSE None

\* The lock-free array implements the map from threads to values: no step of
\* one thread changes what another one would read, and a thread reads what it
\* stored last.
Abstract == INSTANCE ThreadMap WITH
  NoValue <- None, map <- [t \in Threads |-> Visible(t)], wanted <- pend, client <- pc
ImplementsThreadMap == Abstract!Spec

\* What "Thread specific container" says of the pointers in it: a request
\* that a thread has stored is not freed by another one.
StoredNotFreed == \A i \in Slots : values[i] # None => values[i] \in heap

-----------------------------------------------------------------------------
(* The inductive invariant behind SlotsExclusive and the refinement.       *)

\* A thread that has released its slot, or looks for one, has none.
Slotless == {"new", "claim", "delete", "qosDelete"}
SlotlessInv == \A t \in Threads : pc[t] \in Slotless => \A i \in Slots : threads[i] # t

PendingInv == TypeOK /\ SlotsExclusive /\ SlotlessInv

=============================================================================
