--------------------------- MODULE KernelWriting ---------------------------
(***************************************************************************)
(* MachInfo::setKernelWriting: before it writes to kernel text, Lilu takes *)
(* kernelWriteLock, turns the interrupts of its CPU off and clears the     *)
(* write-protect bit of its CR0; afterwards it puts both back as they were *)
(* found.  The two registers belong to the CPU, but what was found is kept *)
(* in two static variables shared by all of them.                          *)
(*                                                                         *)
(* A CPU stands for the thread that runs on it: the spin lock disables     *)
(* preemption, so the thread stays there until it releases the lock.       *)
(***************************************************************************)
CONSTANTS
  Cpus,
  None,       \* the lock is free
  Stubborn    \* CPUs whose CR0 a hypervisor may refuse to change

ASSUME NoneAssumption == None \notin Cpus
ASSUME StubbornAssumption == Stubborn \subseteq Cpus

VARIABLES
  pc,                       \* where each CPU is in setKernelWriting
  lock,                     \* the holder of kernelWriteLock
  interrupts,               \* EFLAGS.IF of each CPU
  protect,                  \* CR0.WP of each CPU
  interruptsDisabled,       \* static of setKernelWriting
  writeProtectionDisabled,  \* static of setWPBit
  found,                    \* the registers each CPU called with, for the properties
  unset                     \* CPUs that could not set CR0.WP again at their last call

history == <<found, unset>>
statics == <<interruptsDisabled, writeProtectionDisabled>>
registers == <<interrupts, protect>>
vars == <<pc, lock, registers, statics, history>>

Steps == {"run", "cli", "clear", "write", "set", "sti", "unlock"}

Init ==
  /\ pc = [c \in Cpus |-> "run"]
  /\ lock = None
  /\ interrupts \in [Cpus -> BOOLEAN]
  /\ protect \in [Cpus -> BOOLEAN]
  /\ interruptsDisabled = FALSE /\ writeProtectionDisabled = FALSE
  /\ found = [c \in Cpus |-> <<interrupts[c], protect[c]>>]
  /\ unset = {}

To(c, step) == pc' = [pc EXCEPT ![c] = step]

-----------------------------------------------------------------------------
\* A call starts with the registers as they are.
Called(c) ==
  /\ found' = [found EXCEPT ![c] = <<interrupts[c], protect[c]>>]
  /\ unset' = unset \ {c}

\* Mutant of Lock: no lock is passed.
Lock_Absent(c) ==
  /\ pc[c] = "run"
  /\ lock' = c /\ To(c, "cli") /\ Called(c)
  /\ UNCHANGED <<registers, statics>>

\* setKernelWriting(true): IOSimpleLockLock spins until the lock is free.
Lock(c) ==
  /\ pc[c] = "run" /\ lock = None
  /\ lock' = c /\ To(c, "cli") /\ Called(c)
  /\ UNCHANGED <<registers, statics>>

\* Mutant of DisableInterrupts: the answer of setInterrupts is not negated.
DisableInterrupts_Negated(c) ==
  /\ pc[c] = "cli"
  /\ interruptsDisabled' = interrupts[c]
  /\ interrupts' = [interrupts EXCEPT ![c] = FALSE]
  /\ To(c, "clear")
  /\ UNCHANGED <<lock, protect, writeProtectionDisabled, history>>

\* setInterrupts(false) answers whether it changed the flag.
DisableInterrupts(c) ==
  /\ pc[c] = "cli"
  /\ interruptsDisabled' = ~interrupts[c]
  /\ interrupts' = [interrupts EXCEPT ![c] = FALSE]
  /\ To(c, "clear")
  /\ UNCHANGED <<lock, protect, writeProtectionDisabled, history>>

\* setWPBit(false) clears the bit, or finds it clear.
ClearProtection(c) ==
  /\ pc[c] = "clear"
  /\ writeProtectionDisabled' = ~protect[c]
  /\ protect' = [protect EXCEPT ![c] = FALSE]
  /\ To(c, "write")
  /\ UNCHANGED <<lock, interrupts, interruptsDisabled, history>>

\* Mutant of ClearFails: the error is returned at once.
ClearFails_Returns(c) ==
  /\ pc[c] = "clear" /\ c \in Stubborn /\ protect[c]
  /\ writeProtectionDisabled' = FALSE
  /\ To(c, "run")
  /\ UNCHANGED <<lock, registers, interruptsDisabled, history>>

\* The bit reads as set after it was cleared: setKernelWriting goes on as if it
\* had been asked to disable writing, and returns KERN_FAILURE.
ClearFails(c) ==
  /\ pc[c] = "clear" /\ c \in Stubborn /\ protect[c]
  /\ writeProtectionDisabled' = FALSE
  /\ To(c, "sti")
  /\ UNCHANGED <<lock, registers, interruptsDisabled, history>>

\* The caller writes, then calls setKernelWriting(false).
Write(c) ==
  /\ pc[c] = "write"
  /\ To(c, "set")
  /\ UNCHANGED <<lock, registers, statics, history>>

\* setWPBit(true) leaves the bit clear if that is how it was found.
SetProtection(c) ==
  /\ pc[c] = "set"
  /\ protect' = [protect EXCEPT ![c] = @ \/ ~writeProtectionDisabled]
  /\ To(c, "sti")
  /\ UNCHANGED <<lock, interrupts, statics, history>>

\* The bit reads as clear after it was set: KERN_FAILURE, which the callers report.
\* The CPU goes on unprotected.
SetFails(c) ==
  /\ pc[c] = "set" /\ c \in Stubborn /\ ~writeProtectionDisabled
  /\ unset' = unset \cup {c}
  /\ To(c, "sti")
  /\ UNCHANGED <<lock, registers, statics, found>>

EnableInterrupts(c) ==
  /\ pc[c] = "sti"
  /\ interrupts' = [interrupts EXCEPT ![c] = @ \/ ~interruptsDisabled]
  /\ To(c, "unlock")
  /\ UNCHANGED <<lock, protect, statics, history>>

Unlock(c) ==
  /\ pc[c] = "unlock"
  /\ lock' = None /\ To(c, "run")
  /\ UNCHANGED <<registers, statics, history>>

\* Other kernel code turns the interrupts of its own CPU on and off.
Toggle(c) ==
  /\ pc[c] = "run"
  /\ interrupts' = [interrupts EXCEPT ![c] = ~@]
  /\ found' = [found EXCEPT ![c] = <<~interrupts[c], protect[c]>>]
  /\ UNCHANGED <<pc, lock, protect, statics, unset>>

SetKernelWriting(c) ==
  \/ DisableInterrupts(c) \/ ClearProtection(c) \/ ClearFails(c) \/ Write(c)
  \/ SetProtection(c) \/ SetFails(c) \/ EnableInterrupts(c) \/ Unlock(c)

Next == \E c \in Cpus : Lock(c) \/ SetKernelWriting(c) \/ Toggle(c)

Spec == Init /\ [][Next]_vars

\* With its interrupts off and preemption disabled a CPU keeps running the call
\* it is in.
FairSpec == Spec /\ \A c \in Cpus : WF_vars(SetKernelWriting(c))

-----------------------------------------------------------------------------
(* Properties.                                                             *)

\* Every variable keeps its type, and the lock is never held by a CPU that has
\* returned from setKernelWriting.
TypeOK ==
  /\ pc \in [Cpus -> Steps]
  /\ lock \in Cpus \cup {None}
  /\ interrupts \in [Cpus -> BOOLEAN]
  /\ protect \in [Cpus -> BOOLEAN]
  /\ interruptsDisabled \in BOOLEAN /\ writeProtectionDisabled \in BOOLEAN
  /\ found \in [Cpus -> BOOLEAN \X BOOLEAN]
  /\ unset \subseteq Cpus
  /\ \A c \in Cpus : lock = c => pc[c] # "run"

\* A CPU that is outside setKernelWriting(true)..setKernelWriting(false) has the
\* interrupt flag and the write protection it came with, whatever other CPUs
\* stored in the shared statics in the meantime, and whatever failed on the way but
\* its own CR0, which may refuse to take the protection back.
RegistersRestored ==
  \A c \in Cpus : pc[c] = "run" =>
    /\ interrupts[c] = found[c][1]
    /\ protect[c] = found[c][2] \/ c \in unset

\* While a CPU writes to kernel text it has its interrupts off, its write
\* protection off, and no other CPU writes.
WriterPrepared ==
  \A c \in Cpus : pc[c] = "write" =>
    /\ ~interrupts[c] /\ ~protect[c]
    /\ \A d \in Cpus : pc[d] = "write" => d = c

\* kernelWriteLock is always given back, also when the bit cannot be cleared.
LockReleased == \A c \in Cpus : lock = c ~> lock # c
=============================================================================
