------------------------ MODULE KernelWritingProofs ------------------------
(***************************************************************************)
(* For any number of CPUs, any code and any calls: the registers are put   *)
(* back as they were found, a writer is alone and prepared, the binary     *)
(* patches write only then, and they write over what they were asked to.   *)
(***************************************************************************)
EXTENDS FindReplace, FiniteSetTheorems, NaturalsInduction, WellFoundedInduction, TLAPS

-----------------------------------------------------------------------------
(* setKernelWriting *)

\* The types of the variables, without the Boolean registers.
PlaceOK ==
  /\ pc \in [Cpus -> Steps]
  /\ lock \in Cpus \cup {None}

RegistersOK ==
  /\ interrupts \in [Cpus -> BOOLEAN]
  /\ protect \in [Cpus -> BOOLEAN]
  /\ interruptsDisabled \in BOOLEAN /\ writeProtectionDisabled \in BOOLEAN
  /\ found \in [Cpus -> BOOLEAN \X BOOLEAN]
  /\ unset \subseteq Cpus

\* A CPU is inside setKernelWriting exactly while it holds the lock.
Held == \A c \in Cpus : pc[c] # "run" <=> lock = c

\* What a CPU knows at each step of the two registers and of the statics, which
\* are its own while it holds the lock.
InterruptsKnown ==
  \A c \in Cpus :
    /\ pc[c] \in {"run", "cli", "unlock"} => interrupts[c] = found[c][1]
    /\ pc[c] \in {"clear", "write", "set", "sti"} =>
         interrupts[c] = FALSE /\ interruptsDisabled = ~found[c][1]

ProtectionKnown ==
  \A c \in Cpus :
    /\ pc[c] \in {"cli", "clear"} => protect[c] = found[c][2]
    /\ pc[c] \in {"run", "sti", "unlock"} /\ c \notin unset => protect[c] = found[c][2]
    /\ pc[c] \in {"cli", "clear", "write", "set"} => c \notin unset
    /\ pc[c] \in {"write", "set"} =>
         protect[c] = FALSE /\ writeProtectionDisabled = ~found[c][2]

KInv == PlaceOK /\ RegistersOK /\ Held /\ InterruptsKnown /\ ProtectionKnown

\* Initially nothing is changed: the invariant holds.
LEMMA InitKernel == Init => KInv
<1> SUFFICES ASSUME Init PROVE KInv
    OBVIOUS
<1> USE DEF Init
<1>1. PlaceOK
  BY DEF PlaceOK, Steps
<1>2. RegistersOK
  BY DEF RegistersOK
<1>3. Held
  BY NoneAssumption DEF Held
<1>4. InterruptsKnown
  BY DEF InterruptsKnown
<1>5. ProtectionKnown
  BY DEF ProtectionKnown
<1> QED
  BY <1>1, <1>2, <1>3, <1>4, <1>5 DEF KInv

\* Every step of every CPU keeps the invariant.
LEMMA StepKernel == KInv /\ [Next]_vars => KInv'
<1> SUFFICES ASSUME KInv, [Next]_vars PROVE KInv'
    OBVIOUS
<1> USE DEF KInv, statics, registers, history, To
<1>1. CASE UNCHANGED vars
  BY <1>1 DEF vars, PlaceOK, RegistersOK, Held, InterruptsKnown, ProtectionKnown
<1>2. ASSUME NEW c \in Cpus, Lock(c) PROVE KInv'
  <2> USE <1>2 DEF Lock, Called
  <2>1. PlaceOK'
    BY DEF PlaceOK, Steps
  <2>2. RegistersOK'
    BY DEF RegistersOK
  <2>3. Held'
    BY NoneAssumption DEF Held, PlaceOK, Steps
  <2>4. InterruptsKnown'
    BY DEF InterruptsKnown, RegistersOK, PlaceOK, Held
  <2>5. ProtectionKnown'
    BY DEF ProtectionKnown, RegistersOK, PlaceOK, Held
  <2> QED
    BY <2>1, <2>2, <2>3, <2>4, <2>5
<1>3. ASSUME NEW c \in Cpus, DisableInterrupts(c) PROVE KInv'
  <2> USE <1>3 DEF DisableInterrupts
  <2>1. PlaceOK'
    BY DEF PlaceOK, Steps
  <2>2. RegistersOK'
    BY DEF RegistersOK
  <2>3. Held'
    BY NoneAssumption DEF Held, PlaceOK, Steps
  <2>4. InterruptsKnown'
    BY DEF InterruptsKnown, RegistersOK, PlaceOK, Held
  <2>5. ProtectionKnown'
    BY DEF ProtectionKnown, RegistersOK, PlaceOK, Held
  <2> QED
    BY <2>1, <2>2, <2>3, <2>4, <2>5
<1>4. ASSUME NEW c \in Cpus, ClearProtection(c) PROVE KInv'
  <2> USE <1>4 DEF ClearProtection
  <2>1. PlaceOK'
    BY DEF PlaceOK, Steps
  <2>2. RegistersOK'
    BY DEF RegistersOK
  <2>3. Held'
    BY NoneAssumption DEF Held, PlaceOK, Steps
  <2>4. InterruptsKnown'
    BY DEF InterruptsKnown, RegistersOK, PlaceOK, Held
  <2>5. ProtectionKnown'
    BY DEF ProtectionKnown, RegistersOK, PlaceOK, Held
  <2> QED
    BY <2>1, <2>2, <2>3, <2>4, <2>5
<1>5. ASSUME NEW c \in Cpus, ClearFails(c) PROVE KInv'
  <2> USE <1>5 DEF ClearFails
  <2>1. PlaceOK'
    BY DEF PlaceOK, Steps
  <2>2. RegistersOK'
    BY DEF RegistersOK
  <2>3. Held'
    BY NoneAssumption DEF Held, PlaceOK, Steps
  <2>4. InterruptsKnown'
    BY DEF InterruptsKnown, RegistersOK, PlaceOK, Held
  <2>5. ProtectionKnown'
    BY DEF ProtectionKnown, RegistersOK, PlaceOK, Held
  <2> QED
    BY <2>1, <2>2, <2>3, <2>4, <2>5
<1>6. ASSUME NEW c \in Cpus, Write(c) PROVE KInv'
  <2> USE <1>6 DEF Write
  <2>1. PlaceOK'
    BY DEF PlaceOK, Steps
  <2>2. RegistersOK'
    BY DEF RegistersOK
  <2>3. Held'
    BY NoneAssumption DEF Held, PlaceOK, Steps
  <2>4. InterruptsKnown'
    BY DEF InterruptsKnown, RegistersOK, PlaceOK, Held
  <2>5. ProtectionKnown'
    BY DEF ProtectionKnown, RegistersOK, PlaceOK, Held
  <2> QED
    BY <2>1, <2>2, <2>3, <2>4, <2>5
<1>7. ASSUME NEW c \in Cpus, SetProtection(c) PROVE KInv'
  <2> USE <1>7 DEF SetProtection
  <2>1. PlaceOK'
    BY DEF PlaceOK, Steps
  <2>2. RegistersOK'
    BY DEF RegistersOK
  <2>3. Held'
    BY NoneAssumption DEF Held, PlaceOK, Steps
  <2>4. InterruptsKnown'
    BY DEF InterruptsKnown, RegistersOK, PlaceOK, Held
  <2>5. ProtectionKnown'
    BY DEF ProtectionKnown, RegistersOK, PlaceOK, Held
  <2> QED
    BY <2>1, <2>2, <2>3, <2>4, <2>5
<1>8. ASSUME NEW c \in Cpus, EnableInterrupts(c) PROVE KInv'
  <2> USE <1>8 DEF EnableInterrupts
  <2>1. PlaceOK'
    BY DEF PlaceOK, Steps
  <2>2. RegistersOK'
    BY DEF RegistersOK
  <2>3. Held'
    BY NoneAssumption DEF Held, PlaceOK, Steps
  <2>4. InterruptsKnown'
    BY DEF InterruptsKnown, RegistersOK, PlaceOK, Held
  <2>5. ProtectionKnown'
    BY DEF ProtectionKnown, RegistersOK, PlaceOK, Held
  <2> QED
    BY <2>1, <2>2, <2>3, <2>4, <2>5
<1>9. ASSUME NEW c \in Cpus, Unlock(c) PROVE KInv'
  <2> USE <1>9 DEF Unlock
  <2>1. PlaceOK'
    BY DEF PlaceOK, Steps
  <2>2. RegistersOK'
    BY DEF RegistersOK
  <2>3. Held'
    BY NoneAssumption DEF Held, PlaceOK, Steps
  <2>4. InterruptsKnown'
    BY DEF InterruptsKnown, RegistersOK, PlaceOK, Held
  <2>5. ProtectionKnown'
    BY DEF ProtectionKnown, RegistersOK, PlaceOK, Held
  <2> QED
    BY <2>1, <2>2, <2>3, <2>4, <2>5
<1>10. ASSUME NEW c \in Cpus, Toggle(c) PROVE KInv'
  <2> USE <1>10 DEF Toggle
  <2>1. PlaceOK'
    BY DEF PlaceOK, Steps
  <2>2. RegistersOK'
    BY DEF RegistersOK
  <2>3. Held'
    BY NoneAssumption DEF Held, PlaceOK, Steps
  <2>4. InterruptsKnown'
    BY DEF InterruptsKnown, RegistersOK, PlaceOK, Held
  <2>5. ProtectionKnown'
    BY DEF ProtectionKnown, RegistersOK, PlaceOK, Held
  <2> QED
    BY <2>1, <2>2, <2>3, <2>4, <2>5
<1>11. ASSUME NEW c \in Cpus, SetFails(c) PROVE KInv'
  <2> USE <1>11 DEF SetFails
  <2>1. PlaceOK'
    BY DEF PlaceOK, Steps
  <2>2. RegistersOK'
    BY DEF RegistersOK
  <2>3. Held'
    BY NoneAssumption DEF Held, PlaceOK, Steps
  <2>4. InterruptsKnown'
    BY DEF InterruptsKnown, RegistersOK, PlaceOK, Held
  <2>5. ProtectionKnown'
    BY DEF ProtectionKnown, RegistersOK, PlaceOK, Held
  <2> QED
    BY <2>1, <2>2, <2>3, <2>4, <2>5
<1> QED
  BY <1>1, <1>2, <1>3, <1>4, <1>5, <1>6, <1>7, <1>8, <1>9, <1>10, <1>11 DEF Next, SetKernelWriting

-----------------------------------------------------------------------------
(* Counting occurrences *)

\* Every set of numbers that is not empty has a least one.
LEMMA LeastNat ==
  ASSUME NEW T \in SUBSET Nat, T # {}
  PROVE  \E n \in T : \A m \in T : n <= m
<1>1. PICK x \in T : \A y \in T : ~(<<y, x>> \in OpToRel(<, Nat))
  BY NatLessThanWellFounded, WFMin
<1>2. \A y \in T : ~(y < x)
  BY <1>1 DEF OpToRel
<1> QED
  BY <1>2

\* Induction over the numbers in a set.
LEMMA NatSetInduction ==
  ASSUME NEW S, 0 \in S, \A n \in Nat : n \in S => n + 1 \in S
  PROVE  Nat \subseteq S
<1>1. SUFFICES ASSUME Nat \ S # {} PROVE FALSE
  OBVIOUS
<1>2. PICK n \in Nat \ S : \A m \in Nat \ S : n <= m
  BY <1>1, LeastNat
<1>3. n # 0 /\ n - 1 \in Nat /\ n - 1 \notin Nat \ S
  BY <1>2
<1>4. (n - 1) + 1 \in S
  BY <1>3
<1> QED
  BY <1>2, <1>4

\* S has an element of O whenever the ones before it are m away.
Spaced(S, O, m) == \A o \in O : o \in S <=> \A q \in S : q < o => q + m <= o

\* From the first to the last, the occurrences that do not overlap one taken
\* before can be taken.
LEMMA SpacedExists ==
  ASSUME NEW n \in Nat, NEW O \in SUBSET (0..n), NEW m \in Nat
  PROVE  \E S \in SUBSET O : Spaced(S, O, m)
<1> DEFINE Below(a) == {o \in O : o < a}
           G == {a \in Nat : \E S \in SUBSET Below(a) : Spaced(S, Below(a), m)}
<1>0. \A o \in O : o \in Nat /\ o <= n
  OBVIOUS
<1>1. 0 \in G
  <2>1. \A o \in Below(0) : FALSE
    BY <1>0
  <2>2. {} \in SUBSET Below(0) /\ Spaced({}, Below(0), m)
    <3> HIDE DEF Below
    <3> QED
      BY <2>1 DEF Spaced
  <2> QED
    BY <2>2
<1>2. \A a \in Nat : a \in G => a + 1 \in G
  <2> SUFFICES ASSUME NEW a \in Nat, a \in G PROVE a + 1 \in G
    OBVIOUS
  <2>1. PICK S \in SUBSET Below(a) : Spaced(S, Below(a), m)
    OBVIOUS
  <2>2. \A o \in Below(a + 1) : o \in Below(a) \/ o = a
    BY <1>0
  <2>3. \A o \in Below(a) : o \in Below(a + 1)
    BY <1>0
  <2>4. \A q \in S : q \in Nat /\ q < a
    BY <1>0
  <2>5. CASE a \in O /\ \A q \in S : q + m <= a
    <3>1. a \in Below(a + 1)
      BY <2>5
    <3>2. Spaced(S \cup {a}, Below(a + 1), m)
      BY <2>1, <2>2, <2>4, <2>5 DEF Spaced
    <3> QED
      BY <2>3, <3>1, <3>2
  <2>6. CASE ~(a \in O /\ \A q \in S : q + m <= a)
    <3>1. Spaced(S, Below(a + 1), m)
      BY <2>1, <2>2, <2>4, <2>6 DEF Spaced
    <3> QED
      BY <2>3, <3>1
  <2> QED
    BY <2>5, <2>6
<1>3. n + 1 \in G
  <2> HIDE DEF G
  <2> QED
    BY <1>1, <1>2, NatSetInduction
<1>4. Below(n + 1) = O
  <2>1. (\A o \in O : o \in Below(n + 1)) /\ \A o \in Below(n + 1) : o \in O
    BY <1>0
  <2> HIDE DEF Below
  <2> QED
    BY <2>1
<1> QED
  BY <1>3, <1>4

\* What is used of the calls.
LEMMA CallIs ==
  ASSUME NEW k \in Calls
  PROVE  /\ Len(k.find) \in Nat \ {0} /\ Len(k.repl) = Len(k.find)
         /\ DOMAIN k.find = 1..Len(k.find) /\ DOMAIN k.repl = 1..Len(k.find)
         /\ k.by \in {"replace", "lookup"} /\ k.count \in Nat /\ k.skip \in Nat
         /\ k.from \in Nat /\ k.max \in Nat /\ k.loaded \in BOOLEAN
         /\ k.by = "replace" => k.from = 0
         /\ k.repl \in Seq({0, 1})
<1>1. k \in Call /\ k.find # <<>> /\ Len(k.find) = Len(k.repl) /\ (k.by = "replace" => k.from = 0)
  BY CallsAssumption
<1>2. k.find \in Seq({0, 1}) /\ k.repl \in Seq({0, 1})
  BY <1>1 DEF Call
<1>3. Len(k.find) \in Nat \ {0}
  BY <1>1, <1>2
<1> QED
  BY <1>1, <1>2, <1>3 DEF Call

\* Counted is a set of occurrences, each one whenever it overlaps no earlier one.
LEMMA CountedIs ==
  ASSUME NEW t \in Seq({0, 1}), NEW k \in Calls
  PROVE  /\ Occurrences(t, k) \subseteq 0..Len(t)
         /\ Counted(t, k) \subseteq Occurrences(t, k)
         /\ Spaced(Counted(t, k), Occurrences(t, k), Len(k.find))
         /\ IsFiniteSet(Counted(t, k))
<1> DEFINE O == Occurrences(t, k)
<1>1. Len(t) \in Nat /\ Len(k.find) \in Nat
  BY CallIs
<1>2. O \subseteq 0..Len(t)
  BY <1>1 DEF Occurrences
<1>3. \E S \in SUBSET O : Spaced(S, O, Len(k.find))
  <2> HIDE DEF O
  <2> QED
    BY <1>1, <1>2, SpacedExists
<1>4. Counted(t, k) = CHOOSE S \in SUBSET O : Spaced(S, O, Len(k.find))
  BY DEF Counted, Spaced
<1>5. Counted(t, k) \in SUBSET O /\ Spaced(Counted(t, k), O, Len(k.find))
  <2> HIDE DEF O
  <2> QED
    BY <1>3, <1>4
<1>6. IsFiniteSet(Counted(t, k))
  <2>1. IsFiniteSet(0..Len(t))
    BY <1>1, FS_Interval
  <2> QED
    BY <1>2, <1>5, <2>1, FS_Subset
<1> QED
  BY <1>2, <1>5, <1>6

\* The elements of C before a.
Before(C, a) == {q \in C : q < a}

\* Their number grows by one past an element.
LEMMA CountGrows ==
  ASSUME NEW C \in SUBSET Nat, IsFiniteSet(C), NEW a \in C, NEW b \in Nat, a < b,
         \A q \in C : q < b => q <= a
  PROVE  /\ Cardinality(Before(C, b)) = Cardinality(Before(C, a)) + 1
         /\ Cardinality(Before(C, a)) \in Nat
<1>0. \A q \in C : q \in Nat
  OBVIOUS
<1>1. Before(C, b) = Before(C, a) \cup {a}
  <2>1. \A q \in Before(C, b) : q \in Before(C, a) \cup {a}
    BY <1>0 DEF Before
  <2>2. \A q \in Before(C, a) \cup {a} : q \in Before(C, b)
    BY <1>0 DEF Before
  <2> QED
    BY <2>1, <2>2
<1>2. IsFiniteSet(Before(C, a)) /\ a \notin Before(C, a)
  BY FS_Subset DEF Before
<1> QED
  BY <1>1, <1>2, FS_AddElement, FS_CardinalityType

\* It never shrinks, and is larger past an element.
LEMMA CountOrdered ==
  ASSUME NEW C \in SUBSET Nat, IsFiniteSet(C), NEW a \in Nat, NEW o \in C
  PROVE  /\ Cardinality(Before(C, a)) \in Nat /\ Cardinality(Before(C, o)) \in Nat
         /\ a <= o => Cardinality(Before(C, a)) <= Cardinality(Before(C, o))
         /\ o < a => Cardinality(Before(C, o)) < Cardinality(Before(C, a))
<1>0. \A q \in C : q \in Nat
  OBVIOUS
<1>1. IsFiniteSet(Before(C, a)) /\ IsFiniteSet(Before(C, o))
  BY FS_Subset DEF Before
<1>2. Cardinality(Before(C, a)) \in Nat /\ Cardinality(Before(C, o)) \in Nat
  BY <1>1, FS_CardinalityType
<1>3. CASE a <= o
  <2>1. \A q \in Before(C, a) : q \in Before(C, o)
    BY <1>0, <1>3 DEF Before
  <2> QED
    BY <1>1, <1>2, <1>3, <2>1, FS_Subset
<1>4. CASE o < a
  <2>1. (\A q \in Before(C, o) \cup {o} : q \in Before(C, a)) /\ o \notin Before(C, o)
    BY <1>0, <1>4 DEF Before
  <2>2. Cardinality(Before(C, o) \cup {o}) = Cardinality(Before(C, o)) + 1
    BY <1>1, <2>1, FS_AddElement
  <2>3. Cardinality(Before(C, o) \cup {o}) <= Cardinality(Before(C, a))
    BY <1>1, <2>1, FS_Subset
  <2> QED
    BY <1>2, <1>4, <2>2, <2>3
<1> QED
  BY <1>2, <1>3, <1>4

\* An occurrence is wanted by its number.
LEMMA WantedIs ==
  ASSUME NEW t, NEW k
  PROVE  \A o : o \in Wanted(t, k) <=>
           /\ o \in Counted(t, k)
           /\ Cardinality(Before(Counted(t, k), o)) >= k.skip
           /\ k.count > 0 => Cardinality(Before(Counted(t, k), o)) < k.skip + k.count
BY DEF Wanted, Before

-----------------------------------------------------------------------------
(* The invariant of the patches *)

Job == [stage : {"search", "write", "last", "done"}, call : Calls, at : Nat, left : Nat,
        skip : Nat, made : Nat, refused : BOOLEAN, ok : BOOLEAN, before : Seq({0, 1}),
        alone : BOOLEAN, places : SUBSET Nat]

PatchTypes ==
  /\ text \in Seq({0, 1})
  /\ job \in [Cpus -> {Idle} \cup Job]

\* Where a CPU is in a call, by where it is in setKernelWriting.
StageOK(c) ==
  /\ pc[c] # "run" => job[c] # Idle /\ job[c].stage # "done"
  /\ pc[c] \in {"cli", "clear", "write"} => job[c].stage = "write"
  /\ job[c] # Idle /\ job[c].call.by = "lookup" => job[c].stage \in {"write", "done"}

\* What call k is to change before address a is changed in u, and nothing else.
PartDone(t, u, k, a) ==
  \A i \in DOMAIN t :
    /\ \A o \in Wanted(t, k) : o < a /\ i - o \in DOMAIN k.repl => u[i] = Replaced(t, o, k)[i]
    /\ (\A o \in Wanted(t, k) : o < a => i - o \notin DOMAIN k.repl) => u[i] = t[i]

\* The occurrences a search has passed, and how many of them it has skipped and
\* written over.
Numbers(j) ==
  LET C == Counted(j.before, j.call) IN
  /\ \A q \in C : q < j.at => q + Len(j.call.find) <= j.at
  /\ j.skip + Cardinality(Before(C, j.at)) = j.call.skip + j.made
  /\ j.skip > 0 => j.made = 0
  /\ j.left = IF j.call.count > 0 THEN j.call.count - j.made ELSE 0
  /\ j.call.count > 0 => (j.left = 0 <=> j.stage = "last")
  /\ j.stage = "last" => j.call.count > 0
  /\ j.made = 0 <=> \A o \in Wanted(j.before, j.call) : j.at <= o

\* What has been found is still there.
AtOccurrence(j) ==
  /\ j.skip = 0 /\ j.at <= Len(text) - Len(j.call.find)
  /\ Matches(text, j.at, j.call)

ReplaceOK(j) ==
  IF j.stage = "done"
  THEN ~j.refused => /\ j.ok <=> Wanted(j.before, j.call) # {}
                     /\ Overwritten(j.before, text, j.call)
  ELSE /\ Numbers(j) /\ PartDone(j.before, text, j.call, j.at)
       /\ j.stage = "write" => AtOccurrence(j)

\* An occurrence that has been passed has a replacement in it.
PassedHit(j) ==
  \A o \in Occurrences(text, j.call) : j.call.from <= o /\ o < j.at =>
    \E p \in j.places : o < p /\ p < o + Len(j.call.find)

LookupOK(c, j) ==
  /\ j.call.from <= j.at
  /\ \A i \in DOMAIN text : text[i] # j.before[i] =>
       i > j.call.from /\ i < Ending(j.call) + Len(j.call.find) /\ j.call.loaded
  /\ j.call.count > 0 => j.made <= j.call.count
  /\ PassedHit(j)
  /\ ~j.call.loaded => j.stage = "done"
  /\ j.call.loaded /\ ~j.refused /\ (j.stage = "done" \/ pc[c] \in {"set", "sti", "unlock"}) => ~More(j)

\* A call that is alone with the code.
AloneOK(c) ==
  job[c] # Idle /\ job[c].alone =>
    /\ Len(text) = Len(job[c].before)
    /\ job[c].call.by = "replace" => ReplaceOK(job[c])
    /\ job[c].call.by = "lookup" => LookupOK(c, job[c])

Patches == PatchTypes /\ \A c \in Cpus : StageOK(c) /\ AloneOK(c)

-----------------------------------------------------------------------------
(* What a step does to one call *)

\* A function on the first numbers is a sequence.
LEMMA FunctionIsSeq ==
  ASSUME NEW S, NEW n \in Nat, NEW f \in [1..n -> S]
  PROVE  f \in Seq(S) /\ Len(f) = n
OBVIOUS

\* Writing over an occurrence keeps the length of the code and what is outside.
LEMMA ReplacedIs ==
  ASSUME NEW t \in Seq({0, 1}), NEW o \in Nat, NEW k \in Calls
  PROVE  /\ Replaced(t, o, k) \in Seq({0, 1}) /\ Len(Replaced(t, o, k)) = Len(t)
         /\ DOMAIN t = 1..Len(t)
         /\ \A i \in 1..Len(t) :
              Replaced(t, o, k)[i] = IF i - o \in 1..Len(k.find) /\ (k.keep # <<>> => k.keep[i - o] = 1)
                                     THEN k.repl[i - o] ELSE t[i]
<1>1. DOMAIN t = 1..Len(t) /\ Len(t) \in Nat
  OBVIOUS
<1>2. DOMAIN k.repl = 1..Len(k.find) /\ k.repl \in Seq({0, 1})
  BY CallIs
<1>3. \A i \in 1..Len(t) :
        Replaced(t, o, k)[i] = IF i - o \in 1..Len(k.find) /\ (k.keep # <<>> => k.keep[i - o] = 1)
                               THEN k.repl[i - o] ELSE t[i]
  BY <1>1, <1>2 DEF Replaced
<1>4. \A i \in 1..Len(t) : Replaced(t, o, k)[i] \in {0, 1}
  <2> SUFFICES ASSUME NEW i \in 1..Len(t) PROVE Replaced(t, o, k)[i] \in {0, 1}
    OBVIOUS
  <2>1. t[i] \in {0, 1}
    BY <1>1
  <2>2. i - o \in 1..Len(k.find) => k.repl[i - o] \in {0, 1}
    BY <1>2
  <2> QED
    BY <1>3, <2>1, <2>2
<1>5. DOMAIN Replaced(t, o, k) = 1..Len(t)
  BY <1>1 DEF Replaced
<1>6. Replaced(t, o, k) = [i \in 1..Len(t) |-> Replaced(t, o, k)[i]]
  BY <1>1 DEF Replaced
<1>7. Replaced(t, o, k) \in Seq({0, 1})
  <2> DEFINE r == Replaced(t, o, k)
             n == Len(t)
  <2>1. r \in [1..n -> {0, 1}] /\ n \in Nat
    BY <1>1, <1>4, <1>6
  <2> HIDE DEF r, n
  <2>2. r \in Seq({0, 1})
    BY <2>1, FunctionIsSeq
  <2> QED
    BY <2>2 DEF r
<1>8. Len(Replaced(t, o, k)) = Len(t)
  BY <1>1, <1>5, <1>7
<1> QED
  BY <1>1, <1>3, <1>7, <1>8

\* Whether a place matches depends on the bits there.
LEMMA MatchesThere ==
  ASSUME NEW t, NEW u, NEW a \in Nat, NEW k \in Calls,
         \A i \in Nat : a < i /\ i <= a + Len(k.find) => t[i] = u[i]
  PROVE  Matches(t, a, k) = Matches(u, a, k)
<1>1. DOMAIN k.find = 1..Len(k.find) /\ Len(k.find) \in Nat
  BY CallIs
<1>2. \A i \in DOMAIN k.find : a + i \in Nat /\ a < a + i /\ a + i <= a + Len(k.find)
  BY <1>1
<1>3. \A i \in DOMAIN k.find : t[a + i] = u[a + i]
  BY <1>2
<1> QED
  BY <1>3 DEF Matches

\* A call of findAndReplaceWithMask that goes on, and is alone with the code.
Going(j) ==
  /\ j \in Job /\ j.call.by = "replace" /\ j.stage # "done"
  /\ Len(text) = Len(j.before) /\ text \in Seq({0, 1})
  /\ Numbers(j) /\ PartDone(j.before, text, j.call, j.at)

\* What is ahead of the search is as it was.
LEMMA AheadSame ==
  ASSUME NEW j, Going(j)
  PROVE  \A i \in 1..Len(text) : i > j.at => text[i] = j.before[i]
<1> SUFFICES ASSUME NEW i \in 1..Len(text), i > j.at PROVE text[i] = j.before[i]
  OBVIOUS
<1>1. j \in Job /\ Len(text) = Len(j.before) /\ j.before \in Seq({0, 1}) /\ j.call \in Calls /\ j.at \in Nat
  BY DEF Going, Job
<1>2. DOMAIN j.call.repl = 1..Len(j.call.find) /\ Len(j.call.find) \in Nat
  BY <1>1, CallIs
<1>3. i \in DOMAIN j.before
  BY <1>1
<1>4. ASSUME NEW o \in Wanted(j.before, j.call), o < j.at PROVE i - o \notin DOMAIN j.call.repl
  <2>1. o \in Counted(j.before, j.call)
    BY WantedIs
  <2>2. o + Len(j.call.find) <= j.at
    BY <1>4, <2>1 DEF Going, Numbers
  <2>3. o \in Nat
    BY <1>1, <2>1, CountedIs
  <2> QED
    BY <1>1, <1>2, <2>2, <2>3
<1> QED
  BY <1>3, <1>4 DEF Going, PartDone

\* A place the search is at counts if it matches.
LEMMA AtCounted ==
  ASSUME NEW j, Going(j), j.at <= Len(text) - Len(j.call.find)
  PROVE  Matches(text, j.at, j.call) <=> j.at \in Counted(j.before, j.call)
<1> DEFINE C == Counted(j.before, j.call)
           O == Occurrences(j.before, j.call)
<1>1. Len(text) = Len(j.before) /\ j.before \in Seq({0, 1}) /\ text \in Seq({0, 1}) /\ j.call \in Calls /\ j.at \in Nat
  BY DEF Going, Job
<1>2. Len(j.call.find) \in Nat
  BY <1>1, CallIs
<1>9. Len(text) \in Nat /\ j.at + Len(j.call.find) <= Len(text)
  <2> DEFINE n == Len(text)
             m == Len(j.call.find)
             a == j.at
  <2>1. n \in Nat
    BY <1>1
  <2>2. m \in Nat /\ a \in Nat
    BY <1>1, <1>2
  <2>3. a <= n - m
    OBVIOUS
  <2> HIDE DEF n, m, a
  <2>4. n \in Nat /\ a + m <= n
    BY <2>1, <2>2, <2>3
  <2> QED
    BY <2>4 DEF n, m, a
<1>3. Matches(text, j.at, j.call) = Matches(j.before, j.at, j.call)
  <2>1. \A i \in Nat : j.at < i /\ i <= j.at + Len(j.call.find) => i \in 1..Len(text)
    BY <1>1, <1>2, <1>9
  <2>2. \A i \in Nat : j.at < i /\ i <= j.at + Len(j.call.find) => text[i] = j.before[i]
    BY <1>1, <2>1, AheadSame
  <2> QED
    BY <1>1, <2>2, MatchesThere
<1>4. Matches(j.before, j.at, j.call) <=> j.at \in O
  <2> DEFINE n == Len(text)
             m == Len(j.call.find)
             a == j.at
  <2>1. n \in Nat /\ m \in Nat /\ a \in Nat /\ a + m <= n
    BY <1>1, <1>2, <1>9
  <2> HIDE DEF n, m, a
  <2>2. a \in 0..(n - m)
    BY <2>1
  <2>3. j.at \in 0..(Len(j.before) - Len(j.call.find))
    BY <1>1, <2>2 DEF n, m, a
  <2> QED
    BY <2>3 DEF Occurrences
<1>5. j.at \in O => (j.at \in C <=> \A q \in C : q < j.at => q + Len(j.call.find) <= j.at)
  BY <1>1, CountedIs DEF Spaced
<1>6. \A q \in C : q < j.at => q + Len(j.call.find) <= j.at
  BY DEF Going, Numbers
<1>7. C \subseteq O
  BY <1>1, CountedIs
<1> QED
  BY <1>3, <1>4, <1>5, <1>6, <1>7

\* The search begins.
LEMMA BeginsOK ==
  ASSUME NEW k \in Calls, k.by = "replace", text \in Seq({0, 1})
  PROVE  ReplaceOK(NewJob(k))
<1> DEFINE C == Counted(text, k)
<1>1. k.from = 0 /\ k.count \in Nat /\ k.skip \in Nat /\ Len(k.find) \in Nat
  BY CallIs
<1>2. \A q \in C : q \in Nat
  BY CountedIs
<1>3. Before(C, 0) = {}
  <2>1. \A q \in Before(C, 0) : FALSE
    BY <1>2 DEF Before
  <2> QED
    BY <2>1
<1>4. Cardinality(Before(C, 0)) = 0
  BY <1>3, FS_EmptySet
<1>5. \A o \in Wanted(text, k) : 0 <= o
  BY <1>2, WantedIs
<1>6. Numbers(NewJob(k))
  BY <1>1, <1>2, <1>4, <1>5 DEF Numbers, NewJob
<1>7. PartDone(text, text, k, 0)
  BY <1>2, WantedIs DEF PartDone
<1> QED
  BY <1>1, <1>6, <1>7 DEF ReplaceOK, NewJob

\* The search passes a place that does not match.
LEMMA PassesOK ==
  ASSUME NEW j, Going(j), j.stage = "search", j.at <= Len(text) - Len(j.call.find),
         ~Matches(text, j.at, j.call)
  PROVE  ReplaceOK([j EXCEPT !.at = @ + 1])
<1> DEFINE C == Counted(j.before, j.call)
           n == [j EXCEPT !.at = @ + 1]
<1>1. j \in Job /\ j.before \in Seq({0, 1}) /\ j.call \in Calls /\ j.at \in Nat
  BY DEF Going, Job
<1>2. j.at \notin C
  BY AtCounted
<1>3. \A q \in C : q \in Nat
  BY <1>1, CountedIs
<1>4. \A q \in C : q < j.at + 1 <=> q < j.at
  BY <1>1, <1>2, <1>3
<1>5. Before(C, j.at + 1) = Before(C, j.at)
  BY <1>4 DEF Before
<1>6. \A o \in Wanted(j.before, j.call) : o \in C /\ o \in Nat
  BY <1>3, WantedIs
<1>7. \A o \in Wanted(j.before, j.call) : (o < j.at + 1 <=> o < j.at) /\ (j.at + 1 <= o <=> j.at <= o)
  BY <1>1, <1>2, <1>6
<1>8. /\ n.at = j.at + 1 /\ n.before = j.before /\ n.call = j.call /\ n.skip = j.skip
      /\ n.made = j.made /\ n.left = j.left /\ n.stage = j.stage
  BY <1>1 DEF Job
<1>9. Len(j.call.find) \in Nat
  BY <1>1, CallIs
<1>10. Numbers(n)
  <2> HIDE DEF n
  <2>1. \A q \in C : q < j.at + 1 => q + Len(j.call.find) <= j.at + 1
    BY <1>1, <1>3, <1>4, <1>9 DEF Going, Numbers
  <2> QED
    BY <1>5, <1>7, <1>8, <2>1 DEF Going, Numbers
<1>11. PartDone(j.before, text, j.call, j.at + 1)
  BY <1>7 DEF Going, PartDone
<1> HIDE DEF n
<1>12. ReplaceOK(n)
  BY <1>8, <1>10, <1>11 DEF ReplaceOK
<1> QED
  BY <1>12 DEF n

\* The counted occurrences around one of them.
LEMMA PastCounted ==
  ASSUME NEW j, Going(j), j.at \in Counted(j.before, j.call)
  PROVE  LET C == Counted(j.before, j.call)
             b == j.at + Len(j.call.find)
         IN  /\ \A q \in C : q \in Nat /\ (q < b <=> q <= j.at)
             /\ Cardinality(Before(C, b)) = Cardinality(Before(C, j.at)) + 1
             /\ Cardinality(Before(C, j.at)) \in Nat
             /\ b \in Nat /\ j.at < b
             /\ \A q \in C : q < b => q + Len(j.call.find) <= b
<1> DEFINE C == Counted(j.before, j.call)
           b == j.at + Len(j.call.find)
<1>1. j \in Job /\ j.before \in Seq({0, 1}) /\ j.call \in Calls /\ j.at \in Nat
  BY DEF Going, Job
<1>2. Len(j.call.find) \in Nat \ {0}
  BY <1>1, CallIs
<1>3. \A q \in C : q \in Nat /\ q \in Occurrences(j.before, j.call)
  BY <1>1, CountedIs
<1>4. IsFiniteSet(C) /\ C \in SUBSET Nat
  BY <1>1, CountedIs
<1>5. \A q \in C : j.at < q => b <= q
  BY <1>1, <1>3, CountedIs DEF Spaced
<1>6. \A q \in C : q < b <=> q <= j.at
  BY <1>1, <1>2, <1>3, <1>5
<1>7. b \in Nat /\ j.at < b
  BY <1>1, <1>2
<1>8. Cardinality(Before(C, b)) = Cardinality(Before(C, j.at)) + 1 /\ Cardinality(Before(C, j.at)) \in Nat
  <2> HIDE DEF b, C
  <2> QED
    BY <1>4, <1>6, <1>7, CountGrows DEF C
<1>9. \A q \in C : q < b => q + Len(j.call.find) <= b
  BY <1>1, <1>2, <1>3, <1>6
<1> QED
  BY <1>3, <1>6, <1>7, <1>8, <1>9

\* An occurrence is passed over.
LEMMA SkipsOK ==
  ASSUME NEW j, Going(j), j.stage = "search", j.at \in Counted(j.before, j.call), j.skip > 0
  PROVE  ReplaceOK([j EXCEPT !.at = @ + Len(j.call.find), !.skip = @ - 1])
<1> DEFINE C == Counted(j.before, j.call)
           W == Wanted(j.before, j.call)
           b == j.at + Len(j.call.find)
           n == [j EXCEPT !.at = b, !.skip = @ - 1]
<1>1. j \in Job /\ j.call \in Calls /\ j.at \in Nat /\ j.skip \in Nat /\ j.made \in Nat
  BY DEF Going, Job
<1>2. j.call.skip \in Nat
  BY <1>1, CallIs
<1>3. /\ \A q \in C : q \in Nat /\ (q < b <=> q <= j.at)
      /\ Cardinality(Before(C, b)) = Cardinality(Before(C, j.at)) + 1
      /\ Cardinality(Before(C, j.at)) \in Nat
      /\ b \in Nat /\ j.at < b
      /\ \A q \in C : q < b => q + Len(j.call.find) <= b
  BY PastCounted
<1>4. j.made = 0 /\ j.skip + Cardinality(Before(C, j.at)) = j.call.skip + j.made
  BY DEF Going, Numbers
<1>5. j.at \notin W
  BY <1>1, <1>2, <1>3, <1>4, WantedIs
<1>6. \A o \in W : o \in C
  BY WantedIs
<1>7. \A o \in W : j.at <= o
  BY <1>4 DEF Going, Numbers
<1>8. \A o \in W : ~(o < b) /\ b <= o /\ ~(o < j.at)
  BY <1>1, <1>3, <1>5, <1>6, <1>7
<1>9. /\ n.at = b /\ n.before = j.before /\ n.call = j.call /\ n.skip = j.skip - 1
      /\ n.made = j.made /\ n.left = j.left /\ n.stage = j.stage
  BY <1>1 DEF Job
<1>10. Numbers(n)
  <2> HIDE DEF n, b, W, C
  <2>1. n.skip + Cardinality(Before(C, n.at)) = n.call.skip + n.made
    BY <1>1, <1>2, <1>3, <1>4, <1>9
  <2> QED
    BY <1>3, <1>4, <1>8, <1>9, <2>1 DEF Going, Numbers, C, W
<1>11. PartDone(n.before, text, n.call, n.at)
  <2> HIDE DEF n, b
  <2> QED
    BY <1>8, <1>9 DEF Going, PartDone
<1> HIDE DEF n
<1>12. ReplaceOK(n)
  BY <1>9, <1>10, <1>11 DEF ReplaceOK
<1> QED
  BY <1>12 DEF n

\* An occurrence is written over.
LEMMA WritesOK ==
  ASSUME NEW j, Going(j), j.stage = "write", j.skip = 0, j.at \in Counted(j.before, j.call),
         NEW n \in Job,
         n.at = j.at + Len(j.call.find), n.made = j.made + 1, n.before = j.before,
         n.call = j.call, n.skip = j.skip, n.left = IF j.left > 0 THEN j.left - 1 ELSE 0,
         n.stage = IF j.left = 1 THEN "last" ELSE "search"
  PROVE  Numbers(n) /\ PartDone(n.before, Replaced(text, j.at, j.call), n.call, n.at)
<1> DEFINE C == Counted(j.before, j.call)
           W == Wanted(j.before, j.call)
           b == j.at + Len(j.call.find)
           new == Replaced(text, j.at, j.call)
<1>1. /\ j \in Job /\ j.call \in Calls /\ j.at \in Nat /\ j.made \in Nat /\ j.left \in Nat
      /\ j.before \in Seq({0, 1}) /\ text \in Seq({0, 1}) /\ Len(text) = Len(j.before)
  BY DEF Going, Job
<1>2. j.call.skip \in Nat /\ j.call.count \in Nat /\ Len(j.call.find) \in Nat \ {0}
      /\ DOMAIN j.call.repl = 1..Len(j.call.find)
  BY <1>1, CallIs
<1>3. /\ \A q \in C : q \in Nat /\ (q < b <=> q <= j.at)
      /\ Cardinality(Before(C, b)) = Cardinality(Before(C, j.at)) + 1
      /\ Cardinality(Before(C, j.at)) \in Nat
      /\ b \in Nat /\ j.at < b
      /\ \A q \in C : q < b => q + Len(j.call.find) <= b
  BY PastCounted
<1>4. /\ Cardinality(Before(C, j.at)) = j.call.skip + j.made
      /\ j.left = IF j.call.count > 0 THEN j.call.count - j.made ELSE 0
      /\ j.call.count > 0 => j.left # 0
      /\ \A q \in C : q < j.at => q + Len(j.call.find) <= j.at
  <2>1. j.skip + Cardinality(Before(C, j.at)) = j.call.skip + j.made
    BY DEF Going, Numbers
  <2>2. Cardinality(Before(C, j.at)) = j.call.skip + j.made
    BY <1>1, <1>2, <1>3, <2>1
  <2> QED
    BY <2>2 DEF Going, Numbers
<1>5. j.at \in W
  <2> HIDE DEF C, W
  <2> QED
    BY <1>1, <1>2, <1>4, WantedIs, SMTT(30) DEF C, W
<1>6. \A o \in W : o \in C
  BY WantedIs
<1>7. Numbers(n)
  <2>1. n.skip + Cardinality(Before(C, n.at)) = n.call.skip + n.made
    <3>1. Cardinality(Before(C, b)) = j.call.skip + j.made + 1
      BY <1>3, <1>4
    <3>2. n.at = b /\ n.skip = 0 /\ n.made = j.made + 1 /\ n.call = j.call
      OBVIOUS
    <3> HIDE DEF b, C
    <3> QED
      BY <1>1, <1>2, <3>1, <3>2, SMTT(30)
  <2>2. n.left = IF n.call.count > 0 THEN n.call.count - n.made ELSE 0
    BY <1>1, <1>2, <1>4
  <2>3. n.call.count > 0 => (n.left = 0 <=> n.stage = "last")
    BY <1>1, <1>2, <1>4
  <2>4. n.stage = "last" => n.call.count > 0
    BY <1>1, <1>2, <1>4
  <2>5. n.made # 0 /\ ~(b <= j.at)
    BY <1>1, <1>3
  <2> QED
    BY <1>3, <1>5, <2>1, <2>2, <2>3, <2>4, <2>5 DEF Numbers
<1>8. /\ DOMAIN text = 1..Len(text) /\ DOMAIN j.before = 1..Len(text)
      /\ \A i \in 1..Len(text) :
           new[i] = IF i - j.at \in 1..Len(j.call.find) /\ (j.call.keep # <<>> => j.call.keep[i - j.at] = 1)
                    THEN j.call.repl[i - j.at] ELSE text[i]
      /\ \A i \in 1..Len(text) :
           Replaced(j.before, j.at, j.call)[i] =
             IF i - j.at \in 1..Len(j.call.find) /\ (j.call.keep # <<>> => j.call.keep[i - j.at] = 1)
             THEN j.call.repl[i - j.at] ELSE j.before[i]
  <2>1. DOMAIN text = 1..Len(text) /\ DOMAIN j.before = 1..Len(text)
    BY <1>1
  <2>2. \A i \in 1..Len(text) :
          new[i] = IF i - j.at \in 1..Len(j.call.find) /\ (j.call.keep # <<>> => j.call.keep[i - j.at] = 1)
                   THEN j.call.repl[i - j.at] ELSE text[i]
    BY <1>1, ReplacedIs, ZenonT(60)
  <2>3. \A i \in 1..Len(j.before) :
          Replaced(j.before, j.at, j.call)[i] =
            IF i - j.at \in 1..Len(j.call.find) /\ (j.call.keep # <<>> => j.call.keep[i - j.at] = 1)
            THEN j.call.repl[i - j.at] ELSE j.before[i]
    BY <1>1, ReplacedIs, ZenonT(60)
  <2>4. 1..Len(j.before) = 1..Len(text)
    BY <1>1
  <2> HIDE DEF new
  <2> QED
    BY <2>1, <2>2, <2>3, <2>4
<1>9. PartDone(j.before, new, j.call, b)
  <2> SUFFICES ASSUME NEW i \in 1..Len(text)
               PROVE  /\ \A o \in W : o < b /\ i - o \in 1..Len(j.call.find) => new[i] = Replaced(j.before, o, j.call)[i]
                      /\ (\A o \in W : o < b => i - o \notin 1..Len(j.call.find)) => new[i] = j.before[i]
    BY <1>2, <1>8 DEF PartDone
  <2>1. /\ \A o \in W : o < j.at /\ i - o \in 1..Len(j.call.find) => text[i] = Replaced(j.before, o, j.call)[i]
        /\ (\A o \in W : o < j.at => i - o \notin 1..Len(j.call.find)) => text[i] = j.before[i]
    BY <1>2, <1>8 DEF Going, PartDone
  <2>2. \A o \in W : o < b => o = j.at \/ (o < j.at /\ o + Len(j.call.find) <= j.at)
    BY <1>1, <1>3, <1>4, <1>6
  <2>3. CASE i - j.at \in 1..Len(j.call.find)
    <3>1. i > j.at
      BY <1>1, <1>2, <2>3
    <3>2. text[i] = j.before[i]
      BY <3>1, AheadSame
    <3>3. \A o \in W : o < j.at /\ o + Len(j.call.find) <= j.at => i - o \notin 1..Len(j.call.find)
      BY <1>1, <1>2, <1>3, <1>6, <3>1, SMTT(30)
    <3>4. new[i] = Replaced(j.before, j.at, j.call)[i]
      BY <1>8, <2>3, <3>2
    <3> QED
      BY <1>3, <1>5, <2>2, <2>3, <3>3, <3>4
  <2>4. CASE i - j.at \notin 1..Len(j.call.find)
    <3>1. new[i] = text[i]
      BY <1>8, <2>4
    <3>2. \A o \in W : o < j.at => o < b
      BY <1>1, <1>2, <1>3, <1>6
    <3> HIDE DEF new, b, W
    <3> QED
      BY <2>1, <2>2, <2>4, <3>1, <3>2
  <2> QED
    BY <2>3, <2>4
<1> QED
  BY <1>7, <1>9

\* The search has come to the end of the code.
LEMMA EndsOK ==
  ASSUME NEW j, Going(j), j.stage = "search", j.at > Len(text) - Len(j.call.find)
  PROVE  ReplaceOK([j EXCEPT !.stage = "done", !.ok = j.made > 0])
<1> DEFINE W == Wanted(j.before, j.call)
           n == [j EXCEPT !.stage = "done", !.ok = j.made > 0]
<1>1. /\ j \in Job /\ j.call \in Calls /\ j.at \in Nat /\ j.made \in Nat
      /\ j.before \in Seq({0, 1}) /\ Len(text) = Len(j.before)
  BY DEF Going, Job
<1>2. Len(j.call.find) \in Nat
  BY <1>1, CallIs
<1>3. \A o \in W : o \in 0..(Len(j.before) - Len(j.call.find))
  <2>1. \A o \in W : o \in Occurrences(j.before, j.call)
    BY <1>1, WantedIs, CountedIs
  <2> QED
    BY <2>1 DEF Occurrences
<1>4. \A o \in W : o < j.at /\ ~(j.at <= o)
  <2> DEFINE l == Len(j.before)
             m == Len(j.call.find)
             a == j.at
  <2>1. l \in Nat
    BY <1>1
  <2>2. m \in Nat /\ a \in Nat
    BY <1>1, <1>2
  <2>3. a > l - m
    BY <1>1
  <2>4. \A o \in W : o \in 0..(l - m)
    BY <1>3
  <2> HIDE DEF l, m, a, W
  <2>5. \A o \in W : o < a /\ ~(a <= o)
    BY <2>1, <2>2, <2>3, <2>4
  <2> QED
    BY <2>5 DEF a
<1>5. j.made = 0 <=> \A o \in W : j.at <= o
  BY DEF Going, Numbers
<1>6. j.made > 0 <=> W # {}
  BY <1>1, <1>4, <1>5
<1>7. Overwritten(j.before, text, j.call)
  BY <1>4 DEF Going, PartDone, Overwritten
<1>8. n.stage = "done" /\ n.ok = (j.made > 0) /\ n.before = j.before /\ n.call = j.call
  BY <1>1 DEF Job
<1> HIDE DEF n
<1>9. ReplaceOK(n)
  BY <1>6, <1>7, <1>8 DEF ReplaceOK
<1> QED
  BY <1>9 DEF n

\* The last replacement has been made.
LEMMA LastOK ==
  ASSUME NEW j, Going(j), j.stage = "last"
  PROVE  ReplaceOK([j EXCEPT !.stage = "done", !.ok = TRUE])
<1> DEFINE C == Counted(j.before, j.call)
           W == Wanted(j.before, j.call)
           n == [j EXCEPT !.stage = "done", !.ok = TRUE]
<1>1. /\ j \in Job /\ j.call \in Calls /\ j.at \in Nat /\ j.made \in Nat /\ j.skip \in Nat
      /\ j.before \in Seq({0, 1})
  BY DEF Going, Job
<1>2. j.call.skip \in Nat /\ j.call.count \in Nat
  BY <1>1, CallIs
<1>3. j.call.count > 0 /\ j.made = j.call.count /\ j.skip = 0
  <2>1. j.call.count > 0 /\ j.left = 0 /\ j.left = j.call.count - j.made
    BY DEF Going, Numbers
  <2>2. j.made = j.call.count
    BY <1>1, <1>2, <2>1
  <2>3. j.skip = 0
    BY <1>1, <2>1, <2>2 DEF Going, Numbers
  <2> QED
    BY <2>1, <2>2, <2>3
<1>4. IsFiniteSet(C) /\ C \in SUBSET Nat
  BY <1>1, CountedIs
<1>5. \A o \in W : o < j.at /\ ~(j.at <= o)
  <2> SUFFICES ASSUME NEW o \in W PROVE ~(j.at <= o)
    BY <1>1, <1>4, WantedIs
  <2>1. o \in C /\ Cardinality(Before(C, o)) < j.call.skip + j.call.count
    BY <1>3, WantedIs
  <2>2. j.skip + Cardinality(Before(C, j.at)) = j.call.skip + j.made
    BY DEF Going, Numbers
  <2>3. /\ Cardinality(Before(C, j.at)) \in Nat /\ Cardinality(Before(C, o)) \in Nat
        /\ j.at <= o => Cardinality(Before(C, j.at)) <= Cardinality(Before(C, o))
    <3> HIDE DEF C
    <3> QED
      BY <1>1, <1>4, <2>1, CountOrdered
  <2> HIDE DEF C
  <2> QED
    BY <1>1, <1>2, <1>3, <2>1, <2>2, <2>3
<1>6. W # {}
  BY <1>2, <1>3 DEF Going, Numbers
<1>7. Overwritten(j.before, text, j.call)
  BY <1>5 DEF Going, PartDone, Overwritten
<1>8. n.stage = "done" /\ n.ok = TRUE /\ n.before = j.before /\ n.call = j.call
  BY <1>1 DEF Job
<1> HIDE DEF n
<1>9. ReplaceOK(n)
  BY <1>6, <1>7, <1>8 DEF ReplaceOK
<1> QED
  BY <1>9 DEF n

-----------------------------------------------------------------------------
(* The steps keep the invariant *)

\* A CPU that is idle has made no call.
LEMMA JobNotIdle ==
  ASSUME NEW j \in Job
  PROVE  j # Idle /\ j.stage # "idle" /\ Idle.stage = "idle"
BY DEF Job, Idle

\* What is used of the CPU that moves.
LEMMA Mover ==
  ASSUME Patches, NEW c \in Cpus, job[c] # Idle
  PROVE  /\ job[c] \in Job /\ text \in Seq({0, 1}) /\ DOMAIN job = Cpus
         /\ StageOK(c) /\ AloneOK(c)
         /\ job[c].alone /\ job[c].call.by = "replace" /\ job[c].stage # "done" => Going(job[c])
         /\ job[c].alone /\ job[c].call.by = "replace" => Len(text) = Len(job[c].before) /\ ReplaceOK(job[c])
         /\ job[c].alone /\ job[c].call.by = "lookup" => Len(text) = Len(job[c].before) /\ LookupOK(c, job[c])
<1>1. job[c] \in Job /\ text \in Seq({0, 1}) /\ DOMAIN job = Cpus /\ StageOK(c) /\ AloneOK(c)
  BY DEF Patches, PatchTypes
<1>2. job[c].alone /\ job[c].call.by = "replace" => Len(text) = Len(job[c].before) /\ ReplaceOK(job[c])
  BY <1>1 DEF AloneOK
<1>3. job[c].alone /\ job[c].call.by = "lookup" => Len(text) = Len(job[c].before) /\ LookupOK(c, job[c])
  BY <1>1 DEF AloneOK
<1>4. job[c].alone /\ job[c].call.by = "replace" /\ job[c].stage # "done" => Going(job[c])
  BY <1>1, <1>2 DEF ReplaceOK, Going
<1> QED
  BY <1>1, <1>2, <1>3, <1>4

\* A step of CPU c that leaves the code alone.
LEMMA TextKept ==
  ASSUME Patches, NEW c \in Cpus, text' = text, NEW n \in Job, job' = [job EXCEPT ![c] = n],
         \A d \in Cpus : d # c => pc'[d] = pc[d], StageOK(c)',
         n.alone => Len(text) = Len(n.before),
         n.alone /\ n.call.by = "replace" => ReplaceOK(n),
         n.alone /\ n.call.by = "lookup" => LookupOK(c, n)'
  PROVE  Patches'
<1>1. text' \in Seq({0, 1}) /\ job' \in [Cpus -> {Idle} \cup Job]
  BY DEF Patches, PatchTypes
<1>2. job'[c] = n /\ \A d \in Cpus : d # c => job'[d] = job[d]
  BY DEF Patches, PatchTypes
<1>3. AloneOK(c)'
  <2>1. n.alone => Len(text') = Len(n.before)
    OBVIOUS
  <2>2. n.alone /\ n.call.by = "replace" => ReplaceOK(n)'
    BY DEF ReplaceOK, AtOccurrence
  <2> QED
    BY <1>2, <2>1, <2>2 DEF AloneOK, ReplaceOK, LookupOK, AtOccurrence, PassedHit, Ending, Size, More
<1>4. ASSUME NEW d \in Cpus, d # c PROVE StageOK(d)' /\ AloneOK(d)'
  <2>1. StageOK(d) /\ AloneOK(d)
    BY DEF Patches
  <2>2. job'[d] = job[d] /\ pc'[d] = pc[d]
    BY <1>2, <1>4
  <2>3. StageOK(d)'
    BY <2>1, <2>2 DEF StageOK
  <2>4. AloneOK(d)'
    BY <2>1, <2>2 DEF AloneOK, ReplaceOK, LookupOK, AtOccurrence, PassedHit, Ending, Size, More
  <2> QED
    BY <2>3, <2>4
<1> QED
  BY <1>1, <1>3, <1>4 DEF Patches, PatchTypes

\* A step of CPU c that leaves the code and the calls alone.
LEMMA CallsKept ==
  ASSUME Patches, NEW c \in Cpus, UNCHANGED patching, \A d \in Cpus : d # c => pc'[d] = pc[d],
         StageOK(c)', AloneOK(c)'
  PROVE  Patches'
<1>1. PatchTypes'
  BY DEF Patches, PatchTypes, patching
<1>2. ASSUME NEW d \in Cpus, d # c PROVE StageOK(d)' /\ AloneOK(d)'
  <2>1. StageOK(d) /\ AloneOK(d) /\ pc'[d] = pc[d]
    BY <1>2 DEF Patches
  <2>2. StageOK(d)'
    BY <2>1 DEF StageOK, patching
  <2>3. AloneOK(d)'
    BY <2>1 DEF AloneOK, ReplaceOK, LookupOK, AtOccurrence, PassedHit, Ending, Size, More, patching
  <2> QED
    BY <2>2, <2>3
<1> QED
  BY <1>1, <1>2 DEF Patches

\* A step of CPU c that writes to the code.
LEMMA TextWritten ==
  ASSUME Patches, NEW c \in Cpus, job[c] # Idle, NEW n \in Job, Overwrite(c, n),
         \A d \in Cpus : d # c => pc'[d] = pc[d], StageOK(c)',
         n.alone => Len(text) = Len(n.before),
         n.alone /\ n.call.by = "replace" => ReplaceOK(n)',
         n.alone /\ n.call.by = "lookup" => LookupOK(c, n)'
  PROVE  Patches'
<1>1. job[c] \in Job /\ text \in Seq({0, 1})
  BY Mover
<1>2. job[c].at \in Nat /\ job[c].call \in Calls
  BY <1>1 DEF Job
<1>3. text' \in Seq({0, 1}) /\ Len(text') = Len(text)
  BY <1>1, <1>2, ReplacedIs DEF Overwrite
<1>4. \A d \in Cpus : job[d] # Idle => job[d] \in Job /\ [job[d] EXCEPT !.alone = FALSE] \in Job
  BY DEF Patches, PatchTypes, Job
<1>5. job'[c] = n /\ \A d \in Cpus :
        d # c => job'[d] = IF job[d] = Idle THEN Idle ELSE [job[d] EXCEPT !.alone = FALSE]
  BY DEF Overwrite
<1>6. PatchTypes'
  <2>1. job' = [d \in Cpus |-> job'[d]]
    BY DEF Overwrite
  <2>2. \A d \in Cpus : job'[d] \in {Idle} \cup Job
    BY <1>4, <1>5
  <2>3. job' \in [Cpus -> {Idle} \cup Job]
    BY <2>1, <2>2
  <2> QED
    BY <1>3, <2>3 DEF PatchTypes
<1>7. AloneOK(c)'
  BY <1>3, <1>5 DEF AloneOK
<1>8. ASSUME NEW d \in Cpus, d # c PROVE StageOK(d)' /\ AloneOK(d)'
  <2>1. StageOK(d) /\ pc'[d] = pc[d]
    BY <1>8 DEF Patches
  <2>2. CASE job[d] = Idle
    <3>1. job'[d] = Idle
      BY <1>5, <1>8, <2>2
    <3> QED
      BY <2>1, <2>2, <3>1 DEF StageOK, AloneOK
  <2>3. CASE job[d] # Idle
    <3>1. job'[d] = [job[d] EXCEPT !.alone = FALSE] /\ job[d] \in Job /\ job'[d] \in Job
      BY <1>4, <1>5, <1>8, <2>3
    <3>2. job'[d].stage = job[d].stage /\ job'[d].call = job[d].call /\ ~job'[d].alone /\ job'[d] # Idle
      BY <3>1, JobNotIdle DEF Job
    <3> QED
      BY <2>1, <2>3, <3>2 DEF StageOK, AloneOK
  <2> QED
    BY <2>2, <2>3
<1> QED
  BY <1>6, <1>7, <1>8 DEF Patches

\* findAndReplaceWithMask is called.
LEMMA ReplaceKeeps ==
  ASSUME Patches, NEW c \in Cpus, NEW k \in Calls, Replace(c, k)
  PROVE  Patches'
<1>1. text \in Seq({0, 1}) /\ text' = text /\ pc' = pc /\ pc[c] = "run" /\ k.by = "replace"
  BY DEF Patches, PatchTypes, Replace, CanCall, vars
<1>2. PICK n : n = NewJob(k)
  OBVIOUS
<1>3. n \in Job
  BY <1>1, <1>2, CallIs DEF NewJob, Job
<1>4. /\ job' = [job EXCEPT ![c] = n] /\ n.stage = "search" /\ n.call = k /\ n.before = text
      /\ job'[c] = n
  BY <1>2 DEF Replace, Set, NewJob, Patches, PatchTypes
<1>5. ReplaceOK(n)
  BY <1>1, <1>2, BeginsOK
<1>6. StageOK(c)'
  BY <1>1, <1>4 DEF StageOK
<1>7. n.alone => Len(text) = Len(n.before)
  BY <1>4
<1>8. n.alone /\ n.call.by = "lookup" => LookupOK(c, n)'
  BY <1>1, <1>4
<1> QED
  BY <1>1, <1>3, <1>4, <1>5, <1>6, <1>7, <1>8, TextKept

\* applyLookupPatch is called.
LEMMA LookupKeeps ==
  ASSUME Patches, NEW c \in Cpus, NEW k \in Calls, Lookup(c, k)
  PROVE  Patches'
<1>1. text \in Seq({0, 1}) /\ text' = text /\ pc' = pc /\ pc[c] = "run" /\ k.by = "lookup"
  BY DEF Patches, PatchTypes, Lookup, CanCall, vars
<1>2. PICK n : n = IF k.loaded THEN [NewJob(k) EXCEPT !.stage = "write"]
                   ELSE [NewJob(k) EXCEPT !.stage = "done"]
  OBVIOUS
<1>3. n \in Job
  BY <1>1, <1>2, CallIs DEF NewJob, Job
<1>4. /\ n.call = k /\ n.before = text /\ n.at = k.from /\ n.made = 0 /\ n.places = {}
      /\ n.stage = IF k.loaded THEN "write" ELSE "done"
  BY <1>2 DEF NewJob
<1>5. job' = [job EXCEPT ![c] = n] /\ job'[c] = n
  BY <1>2 DEF Lookup, Set, Patches, PatchTypes
<1>6. k.from \in Nat /\ k.count \in Nat
  BY CallIs
<1>7. StageOK(c)'
  BY <1>1, <1>4, <1>5 DEF StageOK
<1>8. LookupOK(c, n)'
  <2>1. PassedHit(n)'
    <3>1. \A o \in Occurrences(text, k) : o \in Nat
      BY <1>1, CountedIs
    <3> QED
      BY <1>1, <1>4, <1>6, <3>1 DEF PassedHit
  <2>2. \A i \in DOMAIN text' : text'[i] = n.before[i]
    BY <1>1, <1>4
  <2>3. n.call.from <= n.at
    BY <1>4, <1>6
  <2>4. n.call.count > 0 => n.made <= n.call.count
    BY <1>4, <1>6
  <2>5. ~n.call.loaded => n.stage = "done"
    BY <1>4
  <2>6. ~(n.call.loaded /\ (n.stage = "done" \/ pc'[c] \in {"set", "sti", "unlock"}))
    BY <1>1, <1>4
  <2> QED
    BY <2>1, <2>2, <2>3, <2>4, <2>5, <2>6 DEF LookupOK
<1>9. n.alone => Len(text) = Len(n.before)
  BY <1>4
<1>10. n.alone /\ n.call.by = "replace" => ReplaceOK(n)
  BY <1>1, <1>4
<1> QED
  BY <1>1, <1>3, <1>5, <1>7, <1>8, <1>9, <1>10, TextKept

\* A search is at a place of the code, or past its end.
LEMMA SearchingIs ==
  ASSUME Patches, NEW c \in Cpus, Searching(c)
  PROVE  /\ job[c] # Idle /\ job[c] \in Job /\ job[c].stage = "search" /\ job[c].call.by = "replace"
         /\ pc[c] = "run" /\ job[c].call \in Calls /\ job[c].at \in Nat /\ job[c].skip \in Nat
         /\ job[c].made \in Nat /\ Len(job[c].call.find) \in Nat
         /\ job[c].alone => Going(job[c]) /\ Len(text) = Len(job[c].before)
<1>1. job[c].stage = "search" /\ job[c].call.by = "replace" /\ pc[c] = "run"
  BY DEF Searching
<1>2. job[c] # Idle
  BY <1>1 DEF Idle
<1>3. job[c] \in Job /\ (job[c].alone => Going(job[c]) /\ Len(text) = Len(job[c].before))
  BY <1>1, <1>2, Mover
<1>4. job[c].call \in Calls /\ job[c].at \in Nat /\ job[c].skip \in Nat /\ job[c].made \in Nat
  BY <1>3 DEF Job
<1> QED
  BY <1>1, <1>2, <1>3, <1>4, CallIs

\* A step of a search, if the call is still what it should be.
LEMMA SearchKeeps ==
  ASSUME Patches, NEW c \in Cpus, Searching(c), UNCHANGED <<vars, text>>,
         NEW n \in Job, job' = [job EXCEPT ![c] = n],
         n.call = job[c].call, n.before = job[c].before, n.alone = job[c].alone,
         n.alone => ReplaceOK(n)
  PROVE  Patches'
<1>1. /\ job[c].call.by = "replace" /\ pc[c] = "run" /\ n # Idle
      /\ job[c].alone => Len(text) = Len(job[c].before)
  BY SearchingIs, JobNotIdle
<1>2. pc' = pc /\ text' = text
  BY DEF vars
<1>3. job'[c] = n
  BY DEF Patches, PatchTypes
<1>4. StageOK(c)'
  BY <1>1, <1>2, <1>3 DEF StageOK
<1>5. n.alone /\ n.call.by = "lookup" => LookupOK(c, n)'
  BY <1>1
<1> QED
  BY <1>1, <1>2, <1>4, <1>5, TextKept

LEMMA NotFoundKeeps ==
  ASSUME Patches, NEW c \in Cpus, NotFound(c)
  PROVE  Patches'
<1>1. Searching(c) /\ job[c].at > Len(text) - Len(job[c].call.find) /\ UNCHANGED <<vars, text>>
  BY DEF NotFound, LastOffset, Size
<1>2. /\ job[c] \in Job /\ job[c].stage = "search" /\ job[c].made \in Nat
      /\ job[c].alone => Going(job[c])
  BY <1>1, SearchingIs
<1>3. PICK n : n = [job[c] EXCEPT !.stage = "done", !.ok = job[c].made > 0]
  OBVIOUS
<1>4. /\ n \in Job /\ n.call = job[c].call /\ n.before = job[c].before /\ n.alone = job[c].alone
      /\ job' = [job EXCEPT ![c] = n]
  <2>1. (job[c].made > 0) \in BOOLEAN
    OBVIOUS
  <2>2. n \in Job /\ n.call = job[c].call /\ n.before = job[c].before /\ n.alone = job[c].alone
    BY <1>2, <1>3, <2>1 DEF Job
  <2>3. job' = [job EXCEPT ![c] = n]
    BY <1>3 DEF NotFound, Set
  <2> QED
    BY <2>2, <2>3
<1>5. n.alone => ReplaceOK(n)
  BY <1>1, <1>2, <1>3, <1>4, EndsOK
<1> QED
  BY <1>1, <1>4, <1>5, SearchKeeps

LEMMA NextOffsetKeeps ==
  ASSUME Patches, NEW c \in Cpus, NextOffset(c)
  PROVE  Patches'
<1>1. /\ Searching(c) /\ job[c].at <= Len(text) - Len(job[c].call.find)
      /\ ~Matches(text, job[c].at, job[c].call) /\ UNCHANGED <<vars, text>>
  BY DEF NextOffset, LastOffset, Size, Found
<1>2. /\ job[c] \in Job /\ job[c].stage = "search" /\ job[c].at \in Nat
      /\ job[c].alone => Going(job[c])
  BY <1>1, SearchingIs
<1>3. PICK n : n = [job[c] EXCEPT !.at = @ + 1]
  OBVIOUS
<1>4. /\ n \in Job /\ n.call = job[c].call /\ n.before = job[c].before /\ n.alone = job[c].alone
      /\ job' = [job EXCEPT ![c] = n]
  BY <1>2, <1>3 DEF Job, NextOffset, Set
<1>5. n.alone => ReplaceOK(n)
  BY <1>1, <1>2, <1>3, <1>4, PassesOK
<1> QED
  BY <1>1, <1>4, <1>5, SearchKeeps

LEMMA SkipFoundKeeps ==
  ASSUME Patches, NEW c \in Cpus, SkipFound(c)
  PROVE  Patches'
<1>1. /\ Searching(c) /\ job[c].at <= Len(text) - Len(job[c].call.find)
      /\ Matches(text, job[c].at, job[c].call) /\ UNCHANGED <<vars, text>> /\ job[c].skip > 0
  BY DEF SkipFound, LastOffset, Size, Found
<1>2. /\ job[c] \in Job /\ job[c].stage = "search" /\ job[c].at \in Nat /\ job[c].skip \in Nat
      /\ Len(job[c].call.find) \in Nat
      /\ job[c].alone => Going(job[c])
  BY <1>1, SearchingIs
<1>3. PICK n : n = [job[c] EXCEPT !.at = @ + Len(job[c].call.find), !.skip = @ - 1]
  OBVIOUS
<1>4. n \in Job
  <2>1. job[c].at + Len(job[c].call.find) \in Nat /\ job[c].skip - 1 \in Nat
    BY <1>1, <1>2, SMTT(30)
  <2> QED
    BY <1>2, <1>3, <2>1 DEF Job
<1>5. /\ n.call = job[c].call /\ n.before = job[c].before /\ n.alone = job[c].alone
      /\ job' = [job EXCEPT ![c] = n]
  BY <1>2, <1>3 DEF Job, SkipFound, Set
<1>6. n.alone => job[c].at \in Counted(job[c].before, job[c].call)
  BY <1>1, <1>2, <1>5, AtCounted
<1>7. n.alone => ReplaceOK(n)
  BY <1>1, <1>2, <1>3, <1>5, <1>6, SkipsOK
<1> QED
  BY <1>1, <1>4, <1>5, <1>7, SearchKeeps

LEMMA FoundOneKeeps ==
  ASSUME Patches, NEW c \in Cpus, FoundOne(c)
  PROVE  Patches'
<1>1. /\ Searching(c) /\ job[c].at <= Len(text) - Len(job[c].call.find)
      /\ Matches(text, job[c].at, job[c].call) /\ UNCHANGED <<vars, text>> /\ job[c].skip = 0
  BY DEF FoundOne, LastOffset, Size, Found
<1>2. /\ job[c] \in Job /\ job[c].stage = "search"
      /\ job[c].alone => Going(job[c])
  BY <1>1, SearchingIs
<1>3. PICK n : n = [job[c] EXCEPT !.stage = "write"]
  OBVIOUS
<1>4. /\ n \in Job /\ n.call = job[c].call /\ n.before = job[c].before /\ n.alone = job[c].alone
      /\ n.at = job[c].at /\ n.skip = job[c].skip /\ n.made = job[c].made /\ n.left = job[c].left
      /\ n.stage = "write" /\ job' = [job EXCEPT ![c] = n]
  BY <1>2, <1>3 DEF Job, FoundOne, Set
<1>5. n.alone => Numbers(n) /\ PartDone(n.before, text, n.call, n.at)
  BY <1>2, <1>4 DEF Going, Numbers
<1>6. AtOccurrence(n)
  BY <1>1, <1>4 DEF AtOccurrence
<1>7. n.alone => ReplaceOK(n)
  BY <1>4, <1>5, <1>6 DEF ReplaceOK
<1> QED
  BY <1>1, <1>4, <1>7, SearchKeeps

\* findAndReplaceWithMask writes over an occurrence.
LEMMA ReplaceFoundKeeps ==
  ASSUME Patches, pc \in [Cpus -> Steps], NEW c \in Cpus, ReplaceFound(c)
  PROVE  Patches'
<1>1. job[c].stage = "write" /\ job[c].call.by = "replace" /\ pc[c] = "write" /\ pc' = [pc EXCEPT ![c] = "set"]
  BY DEF ReplaceFound, Write, To
<1>2. job[c] # Idle
  BY <1>1 DEF Idle
<1>3. /\ job[c] \in Job /\ text \in Seq({0, 1})
      /\ job[c].alone => Going(job[c]) /\ ReplaceOK(job[c]) /\ Len(text) = Len(job[c].before)
  BY <1>1, <1>2, Mover
<1>4. /\ job[c].at \in Nat /\ job[c].made \in Nat /\ job[c].left \in Nat /\ job[c].call \in Calls
      /\ Len(job[c].call.find) \in Nat /\ Len(job[c].call.repl) = Len(job[c].call.find)
  BY <1>3, CallIs DEF Job
<1>5. PICK n : n = [job[c] EXCEPT !.at = @ + Len(job[c].call.repl), !.made = @ + 1,
                      !.left = IF @ > 0 THEN @ - 1 ELSE 0,
                      !.stage = IF job[c].left = 1 THEN "last" ELSE "search"]
  OBVIOUS
<1>6. n \in Job
  <2>1. /\ job[c].at + Len(job[c].call.repl) \in Nat /\ job[c].made + 1 \in Nat
        /\ (IF job[c].left > 0 THEN job[c].left - 1 ELSE 0) \in Nat
        /\ (IF job[c].left = 1 THEN "last" ELSE "search") \in {"search", "write", "last", "done"}
    BY <1>4, SMTT(30)
  <2> QED
    BY <1>3, <1>5, <2>1 DEF Job
<1>7. /\ n.at = job[c].at + Len(job[c].call.find) /\ n.made = job[c].made + 1 /\ n.before = job[c].before
      /\ n.call = job[c].call /\ n.skip = job[c].skip /\ n.alone = job[c].alone
      /\ n.left = IF job[c].left > 0 THEN job[c].left - 1 ELSE 0
      /\ n.stage = IF job[c].left = 1 THEN "last" ELSE "search"
  BY <1>3, <1>4, <1>5 DEF Job
<1>8. Overwrite(c, n)
  BY <1>5 DEF ReplaceFound
<1>9. text' = Replaced(text, job[c].at, job[c].call) /\ job'[c] = n
  BY <1>8 DEF Overwrite
<1>10. n.alone => ReplaceOK(n)'
  <2> SUFFICES ASSUME n.alone PROVE ReplaceOK(n)'
    OBVIOUS
  <2>1. Going(job[c]) /\ AtOccurrence(job[c])
    BY <1>1, <1>3, <1>7 DEF ReplaceOK
  <2>2. job[c].skip = 0 /\ job[c].at \in Counted(job[c].before, job[c].call)
    BY <2>1, AtCounted DEF AtOccurrence
  <2>3. Numbers(n) /\ PartDone(n.before, Replaced(text, job[c].at, job[c].call), n.call, n.at)
    BY <1>1, <1>6, <1>7, <2>1, <2>2, WritesOK
  <2>4. n.stage # "done" /\ n.stage # "write"
    BY <1>7
  <2> QED
    BY <1>9, <2>3, <2>4 DEF ReplaceOK
<1>11. StageOK(c)'
  <2>1. n # Idle /\ pc'[c] = "set" /\ n.stage # "done"
    BY <1>1, <1>6, <1>7, JobNotIdle
  <2> QED
    BY <1>1, <1>7, <1>9, <2>1 DEF StageOK
<1>12. n.alone => Len(text) = Len(n.before)
  BY <1>3, <1>7
<1>13. n.alone /\ n.call.by = "lookup" => LookupOK(c, n)'
  BY <1>1, <1>7
<1>14. \A d \in Cpus : d # c => pc'[d] = pc[d]
  BY <1>1
<1> QED
  BY <1>2, <1>6, <1>8, <1>10, <1>11, <1>12, <1>13, <1>14, TextWritten

\* Where applyLookupPatch stops.
LEMMA EndingIs ==
  ASSUME NEW k \in Calls, text \in Seq({0, 1})
  PROVE  Ending(k) \in Int
<1>1. k.from \in Nat /\ k.max \in Nat
  BY CallIs
<1> DEFINE l == Len(text)
           m == Len(k.find)
<1>2. l \in Nat /\ m \in Nat
  BY CallIs
<1>3. Ending(k) = (IF k.max > 0 /\ l > k.from + k.max THEN k.from + k.max ELSE l) - m
  BY DEF Ending, Size
<1> HIDE DEF l, m
<1> QED
  BY <1>1, <1>2, <1>3

\* A call of applyLookupPatch that searches.
LEMMA LookingIs ==
  ASSUME Patches, NEW c \in Cpus, LookingUp(c)
  PROVE  /\ job[c] # Idle /\ job[c] \in Job /\ job[c].stage = "write" /\ job[c].call.by = "lookup"
         /\ pc[c] = "write" /\ job[c].call \in Calls /\ job[c].at \in Nat /\ job[c].made \in Nat
         /\ job[c].call.from \in Nat /\ job[c].call.count \in Nat
         /\ Len(job[c].call.find) \in Nat \ {0}
         /\ job[c].places \subseteq Nat /\ text \in Seq({0, 1})
         /\ job[c].alone => LookupOK(c, job[c]) /\ Len(text) = Len(job[c].before)
<1>1. job[c].stage = "write" /\ job[c].call.by = "lookup" /\ pc[c] = "write"
  BY DEF LookingUp
<1>2. job[c] # Idle
  BY <1>1 DEF Idle
<1>3. /\ job[c] \in Job /\ text \in Seq({0, 1})
      /\ job[c].alone => LookupOK(c, job[c]) /\ Len(text) = Len(job[c].before)
  BY <1>1, <1>2, Mover
<1>4. job[c].call \in Calls /\ job[c].at \in Nat /\ job[c].made \in Nat /\ job[c].places \subseteq Nat
  BY <1>3 DEF Job
<1> QED
  BY <1>1, <1>2, <1>3, <1>4, CallIs

LEMMA LookupNextKeeps ==
  ASSUME Patches, NEW c \in Cpus, LookupNext(c)
  PROVE  Patches'
<1>1. /\ LookingUp(c) /\ More(job[c]) /\ ~Matches(text, job[c].at, job[c].call)
      /\ text' = text /\ pc' = pc
  BY DEF LookupNext, Found, vars
<1>2. /\ job[c] \in Job /\ job[c].stage = "write" /\ job[c].call.by = "lookup" /\ pc[c] = "write"
      /\ job[c].at \in Nat /\ job[c].call.from \in Nat /\ text \in Seq({0, 1}) /\ job[c].call \in Calls
      /\ job[c].alone => LookupOK(c, job[c]) /\ Len(text) = Len(job[c].before)
  BY <1>1, LookingIs
<1>3. PICK n : n = [job[c] EXCEPT !.at = @ + 1]
  OBVIOUS
<1>4. /\ n \in Job /\ n.call = job[c].call /\ n.before = job[c].before /\ n.alone = job[c].alone
      /\ n.stage = job[c].stage /\ n.made = job[c].made /\ n.places = job[c].places
      /\ n.refused = job[c].refused /\ n.at = job[c].at + 1
  <2>1. job[c] \in Job /\ job[c].at + 1 \in Nat
    BY <1>2
  <2> QED
    BY <1>3, <2>1 DEF Job
<1>5. job' = [job EXCEPT ![c] = n] /\ job'[c] = n
  BY <1>3 DEF LookupNext, Set, Patches, PatchTypes
<1>6. StageOK(c)'
  BY <1>1, <1>2, <1>4, <1>5, JobNotIdle DEF StageOK
<1>7. n.alone => LookupOK(c, n)'
  <2> SUFFICES ASSUME n.alone PROVE LookupOK(c, n)'
    OBVIOUS
  <2>1. LookupOK(c, job[c])
    BY <1>2, <1>4
  <2>2. PassedHit(n)'
    <3>1. \A o \in Occurrences(text, job[c].call) : o \in Nat /\ (o < job[c].at + 1 => o < job[c].at)
      <4>1. \A o \in Occurrences(text, job[c].call) : o \in Nat
        BY <1>2, CountedIs
      <4>2. job[c].at \notin Occurrences(text, job[c].call)
        BY <1>1 DEF Occurrences
      <4> QED
        BY <1>2, <4>1, <4>2
    <3>2. PassedHit(job[c])
      BY <2>1 DEF LookupOK
    <3> QED
      BY <1>1, <1>4, <3>1, <3>2 DEF PassedHit
  <2>3. n.call.from <= n.at
    BY <1>2, <1>4, <2>1 DEF LookupOK
  <2> QED
    BY <1>1, <1>2, <1>4, <2>1, <2>2, <2>3 DEF LookupOK, Ending, Size
<1>8. n.alone => Len(text) = Len(n.before)
  BY <1>2, <1>4
<1>9. n.alone /\ n.call.by = "replace" => ReplaceOK(n)
  BY <1>2, <1>4
<1> QED
  BY <1>1, <1>4, <1>5, <1>6, <1>7, <1>8, <1>9, TextKept

\* applyLookupPatch writes over an occurrence.
LEMMA LookupFoundKeeps ==
  ASSUME Patches, NEW c \in Cpus, LookupFound(c)
  PROVE  Patches'
<1>1. LookingUp(c) /\ More(job[c]) /\ pc' = pc
  BY DEF LookupFound, vars
<1>2. /\ job[c] \in Job /\ job[c].stage = "write" /\ job[c].call.by = "lookup" /\ pc[c] = "write"
      /\ job[c] # Idle /\ job[c].made \in Nat /\ job[c].call.count \in Nat
      /\ job[c].at \in Nat /\ job[c].call.from \in Nat /\ text \in Seq({0, 1}) /\ job[c].call \in Calls
      /\ Len(job[c].call.find) \in Nat \ {0} /\ job[c].places \subseteq Nat
      /\ job[c].alone => LookupOK(c, job[c]) /\ Len(text) = Len(job[c].before)
  BY <1>1, LookingIs
<1>3. PICK n : n = [job[c] EXCEPT !.made = @ + 1, !.places = @ \cup {job[c].at}]
  OBVIOUS
<1>4. /\ n \in Job /\ n.call = job[c].call /\ n.before = job[c].before /\ n.alone = job[c].alone
      /\ n.stage = job[c].stage /\ n.made = job[c].made + 1 /\ n.places = job[c].places \cup {job[c].at}
      /\ n.refused = job[c].refused /\ n.at = job[c].at
  <2>1. job[c] \in Job /\ job[c].made + 1 \in Nat /\ job[c].places \cup {job[c].at} \subseteq Nat
    BY <1>2
  <2> QED
    BY <1>3, <2>1 DEF Job
<1>5. Overwrite(c, n)
  BY <1>3 DEF LookupFound
<1>6. text' = Replaced(text, job[c].at, job[c].call) /\ job'[c] = n
  BY <1>5 DEF Overwrite
<1>7. StageOK(c)'
  BY <1>1, <1>2, <1>4, <1>6, JobNotIdle DEF StageOK
<1>8. /\ text' \in Seq({0, 1}) /\ Len(text') = Len(text) /\ DOMAIN text = 1..Len(text)
      /\ DOMAIN text' = 1..Len(text) /\ Len(text) \in Nat
      /\ \A i \in 1..Len(text) : i - job[c].at \notin 1..Len(job[c].call.find) => text'[i] = text[i]
  <2> DEFINE u == Replaced(text, job[c].at, job[c].call)
  <2>1. u \in Seq({0, 1}) /\ Len(u) = Len(text) /\ DOMAIN text = 1..Len(text)
    BY <1>2, ReplacedIs
  <2>2. \A i \in 1..Len(text) : i - job[c].at \notin 1..Len(job[c].call.find) => u[i] = text[i]
    <3>1. job[c].at \in Nat /\ job[c].call \in Calls /\ text \in Seq({0, 1})
      BY <1>2
    <3>2. \A i \in 1..Len(text) :
            u[i] = IF i - job[c].at \in 1..Len(job[c].call.find)
                      /\ (job[c].call.keep # <<>> => job[c].call.keep[i - job[c].at] = 1)
                   THEN job[c].call.repl[i - job[c].at] ELSE text[i]
      BY <3>1, ReplacedIs
    <3> HIDE DEF u
    <3> QED
      BY <3>2
  <2>3. text' = u
    BY <1>6
  <2>4. Len(text) \in Nat
    BY <1>2
  <2> HIDE DEF u
  <2>5. DOMAIN u = 1..Len(u)
    BY <2>1
  <2> QED
    BY <2>1, <2>2, <2>3, <2>4, <2>5
<1>9. n.alone => LookupOK(c, n)'
  <2> SUFFICES ASSUME n.alone PROVE LookupOK(c, n)'
    OBVIOUS
  <2>1. LookupOK(c, job[c])
    BY <1>2, <1>4
  <2>2. Ending(n.call)' = Ending(job[c].call) /\ job[c].at < Ending(job[c].call)
    BY <1>1, <1>4, <1>8 DEF Ending, Size, More
  <2>3. PassedHit(n)'
    <3> SUFFICES ASSUME NEW o \in Occurrences(text', job[c].call), job[c].call.from <= o, o < job[c].at
                 PROVE  \E p \in n.places : o < p /\ p < o + Len(job[c].call.find)
      BY <1>4 DEF PassedHit
    <3>1. o \in Nat
      BY <1>2, <1>8, CountedIs
    <3>2. CASE o + Len(job[c].call.find) > job[c].at
      BY <1>4, <3>1, <3>2
    <3>3. CASE ~(o + Len(job[c].call.find) > job[c].at)
      <4>1. /\ o \in 0..(Len(text') - Len(job[c].call.find)) /\ Matches(text', o, job[c].call)
        BY DEF Occurrences
      <4>2. \A i \in Nat : o < i /\ i <= o + Len(job[c].call.find) =>
              i \in 1..Len(text) /\ i - job[c].at \notin 1..Len(job[c].call.find)
        <5> DEFINE l == Len(text)
                   m == Len(job[c].call.find)
                   a == job[c].at
        <5>1. l \in Nat /\ m \in Nat /\ a \in Nat /\ ~(o + m > a)
          BY <1>2, <1>8, <3>3
        <5>2. o \in 0..(l - m)
          BY <1>8, <4>1
        <5> HIDE DEF l, m, a
        <5>3. \A i \in Nat : o < i /\ i <= o + m => i \in 1..l /\ i - a \notin 1..m
          BY <5>1, <5>2
        <5> QED
          BY <5>3 DEF l, m, a
      <4>3. \A i \in Nat : o < i /\ i <= o + Len(job[c].call.find) => text'[i] = text[i]
        BY <1>8, <4>2
      <4>4. Matches(text, o, job[c].call)
        BY <1>2, <3>1, <4>1, <4>3, MatchesThere
      <4>5. o \in Occurrences(text, job[c].call)
        BY <1>8, <4>1, <4>4 DEF Occurrences
      <4>6. PassedHit(job[c])
        BY <2>1 DEF LookupOK
      <4> QED
        BY <1>4, <4>5, <4>6 DEF PassedHit
    <3> QED
      BY <3>2, <3>3
  <2>4. \A i \in DOMAIN text' : text'[i] # n.before[i] =>
          i > n.call.from /\ i < Ending(n.call)' + Len(n.call.find) /\ n.call.loaded
    <3> SUFFICES ASSUME NEW i \in 1..Len(text), text'[i] # n.before[i]
                 PROVE  i > n.call.from /\ i < Ending(job[c].call) + Len(n.call.find) /\ n.call.loaded
      BY <1>8, <2>2
    <3>1. CASE text'[i] = text[i]
      BY <1>4, <1>8, <2>1, <3>1 DEF LookupOK
    <3>2. CASE text'[i] # text[i]
      <4>1. i - job[c].at \in 1..Len(job[c].call.find)
        BY <1>8, <3>2
      <4>2. job[c].call.loaded /\ job[c].call.from <= job[c].at
        BY <1>2, <2>1 DEF LookupOK
      <4>3. Ending(job[c].call) \in Int
        BY <1>2, EndingIs
      <4>4. i > job[c].call.from
        BY <1>2, <4>1, <4>2
      <4>5. i < Ending(job[c].call) + Len(job[c].call.find)
        <5> DEFINE e == Ending(job[c].call)
                   m == Len(job[c].call.find)
                   a == job[c].at
        <5>1. e \in Int /\ m \in Nat /\ a \in Nat /\ a < e /\ i - a \in 1..m
          BY <1>2, <2>2, <4>1, <4>3
        <5> HIDE DEF e, m, a
        <5>2. i < e + m
          BY <5>1
        <5> QED
          BY <5>2 DEF e, m
      <4> QED
        BY <1>4, <4>2, <4>4, <4>5
    <3> QED
      BY <3>1, <3>2
  <2>5. n.call.from <= n.at
    BY <1>4, <2>1 DEF LookupOK
  <2>6. n.call.count > 0 => n.made <= n.call.count
    BY <1>1, <1>2, <1>4 DEF More
  <2>7. n.stage # "done" /\ pc'[c] \notin {"set", "sti", "unlock"}
    BY <1>1, <1>2, <1>4
  <2>8. ~n.call.loaded => n.stage = "done"
    BY <1>2, <1>4, <2>1 DEF LookupOK
  <2> QED
    BY <2>3, <2>4, <2>5, <2>6, <2>7, <2>8 DEF LookupOK
<1>10. n.alone => Len(text) = Len(n.before)
  BY <1>2, <1>4
<1>11. n.alone /\ n.call.by = "replace" => ReplaceOK(n)'
  BY <1>2, <1>4
<1> QED
  BY <1>1, <1>2, <1>4, <1>5, <1>7, <1>9, <1>10, <1>11, TextWritten

\* A step of setKernelWriting that leaves the code and the calls alone.
LEMMA PlaceKeeps ==
  ASSUME Patches, pc \in [Cpus -> Steps], NEW c \in Cpus, NEW step, pc' = [pc EXCEPT ![c] = step],
         UNCHANGED patching, job[c] # Idle, job[c].stage # "done",
         step \in {"cli", "clear", "write"} => job[c].stage = "write",
         (job[c].call.by = "lookup" /\ step \in {"set", "sti", "unlock"}
            /\ ~job[c].refused /\ pc[c] \notin {"set", "sti", "unlock"}) => ~More(job[c])
  PROVE  Patches'
<1>1. pc'[c] = step /\ \A d \in Cpus : d # c => pc'[d] = pc[d]
  OBVIOUS
<1>2. StageOK(c) /\ AloneOK(c)
  BY DEF Patches
<1>3. StageOK(c)'
  BY <1>1, <1>2 DEF StageOK, patching
<1>4. AloneOK(c)'
  BY <1>1, <1>2 DEF AloneOK, ReplaceOK, LookupOK, AtOccurrence, PassedHit, Ending, Size, More, patching
<1> QED
  BY <1>1, <1>3, <1>4, CallsKept

\* applyLookupPatch has nothing more to look for.
LEMMA LookupEndsKeeps ==
  ASSUME Patches, pc \in [Cpus -> Steps], NEW c \in Cpus, LookupEnds(c)
  PROVE  Patches'
<1>1. LookingUp(c) /\ ~More(job[c]) /\ pc' = [pc EXCEPT ![c] = "set"] /\ UNCHANGED patching
  BY DEF LookupEnds, Write, To
<1>2. job[c] # Idle /\ job[c].stage = "write"
  BY <1>1, LookingIs
<1> QED
  BY <1>1, <1>2, PlaceKeeps

\* kernelWriteLock is taken.
LEMMA AcquireKeeps ==
  ASSUME Patches, pc \in [Cpus -> Steps], NEW c \in Cpus, Acquire(c)
  PROVE  Patches'
<1>1. job[c].stage = "write" /\ pc' = [pc EXCEPT ![c] = "cli"] /\ UNCHANGED patching
  BY DEF Acquire, Lock, To
<1>2. job[c] # Idle
  BY <1>1 DEF Idle
<1> QED
  BY <1>1, <1>2, PlaceKeeps

\* Interrupts are turned off, then the write protection.
LEMMA PrepareKeeps ==
  ASSUME Patches, pc \in [Cpus -> Steps], NEW c \in Cpus, Prepare(c)
  PROVE  Patches'
<1>1. PICK step \in {"clear", "write"} : pc' = [pc EXCEPT ![c] = step]
  BY DEF Prepare, DisableInterrupts, ClearProtection, To
<1>2. UNCHANGED patching /\ pc[c] \in {"cli", "clear"}
  BY DEF Prepare, DisableInterrupts, ClearProtection
<1>3. job[c] # Idle /\ job[c].stage = "write"
  BY <1>2 DEF Patches, StageOK
<1> QED
  BY <1>1, <1>2, <1>3, PlaceKeeps

\* The write protection is turned on again, then interrupts.
LEMMA RestoreKeeps ==
  ASSUME Patches, pc \in [Cpus -> Steps], NEW c \in Cpus, Restore(c)
  PROVE  Patches'
<1>1. PICK step \in {"sti", "unlock"} : pc' = [pc EXCEPT ![c] = step]
  BY DEF Restore, SetProtection, SetFails, EnableInterrupts, To
<1>2. UNCHANGED patching /\ pc[c] \in {"set", "sti"}
  BY DEF Restore, SetProtection, SetFails, EnableInterrupts
<1>3. job[c] # Idle /\ job[c].stage # "done"
  BY <1>2 DEF Patches, StageOK
<1> QED
  BY <1>1, <1>2, <1>3, PlaceKeeps

\* The write protection cannot be turned off.
LEMMA RefusedKeeps ==
  ASSUME Patches, pc \in [Cpus -> Steps], NEW c \in Cpus, Refused(c)
  PROVE  Patches'
<1>1. pc[c] = "clear" /\ pc' = [pc EXCEPT ![c] = "sti"] /\ text' = text
  BY DEF Refused, ClearFails, To
<1>2. job[c] # Idle /\ job[c].stage = "write"
  BY <1>1 DEF Patches, StageOK
<1>3. /\ job[c] \in Job
      /\ job[c].alone /\ job[c].call.by = "replace" => ReplaceOK(job[c])
      /\ job[c].alone /\ job[c].call.by = "lookup" => LookupOK(c, job[c])
      /\ job[c].alone => Len(text) = Len(job[c].before)
      /\ job[c].call \in Calls
  <2>1. job[c] \in Job /\ AloneOK(c)
    BY <1>2, Mover
  <2>2. job[c].call \in Calls
    BY <2>1 DEF Job
  <2> QED
    BY <1>2, <2>1, <2>2 DEF AloneOK
<1>4. PICK n : n = [job[c] EXCEPT !.refused = TRUE]
  OBVIOUS
<1>5. /\ n \in Job /\ n.call = job[c].call /\ n.before = job[c].before /\ n.alone = job[c].alone
      /\ n.stage = job[c].stage /\ n.made = job[c].made /\ n.places = job[c].places /\ n.refused
      /\ n.at = job[c].at /\ n.left = job[c].left /\ n.skip = job[c].skip
  BY <1>3, <1>4 DEF Job
<1>6. job' = [job EXCEPT ![c] = n] /\ job'[c] = n
  BY <1>4 DEF Refused, Set, Patches, PatchTypes
<1>7. StageOK(c)'
  BY <1>1, <1>2, <1>5, <1>6, JobNotIdle DEF StageOK, Patches
<1>8. n.alone /\ n.call.by = "replace" => ReplaceOK(n)
  BY <1>2, <1>3, <1>5 DEF ReplaceOK, Numbers, AtOccurrence
<1>9. n.alone /\ n.call.by = "lookup" => LookupOK(c, n)'
  BY <1>1, <1>2, <1>3, <1>5 DEF LookupOK, PassedHit, Ending, Size
<1>10. \A d \in Cpus : d # c => pc'[d] = pc[d]
  BY <1>1
<1> QED
  BY <1>1, <1>3, <1>5, <1>6, <1>7, <1>8, <1>9, <1>10, TextKept

\* What a call is when it has given the lock back.
Released(j, reset) ==
  IF j.refused THEN [j EXCEPT !.stage = "done"]
  ELSE IF j.call.by = "lookup" THEN [j EXCEPT !.stage = "done", !.ok = j.made = j.call.count /\ reset]
  ELSE IF j.stage = "last" THEN [j EXCEPT !.stage = "done", !.ok = TRUE]
  ELSE j

\* kernelWriteLock is given back.
LEMMA ReleaseKeeps ==
  ASSUME Patches, pc \in [Cpus -> Steps], NEW c \in Cpus, Release(c)
  PROVE  Patches'
<1>1. pc[c] = "unlock" /\ pc' = [pc EXCEPT ![c] = "run"] /\ text' = text
  BY DEF Release, Unlock, To
<1>2. job[c] # Idle /\ job[c].stage # "done" /\ StageOK(c)
  BY <1>1 DEF Patches, StageOK
<1>3. /\ job[c] \in Job
      /\ job[c].alone /\ job[c].call.by = "replace" => ReplaceOK(job[c]) /\ Going(job[c])
      /\ job[c].alone /\ job[c].call.by = "lookup" => LookupOK(c, job[c])
      /\ job[c].alone => Len(text) = Len(job[c].before)
      /\ job[c].call \in Calls /\ job[c].call.by \in {"replace", "lookup"}
  <2>1. job[c] \in Job /\ AloneOK(c) /\ (job[c].alone /\ job[c].call.by = "replace" => Going(job[c]))
    BY <1>2, Mover
  <2>2. job[c].call \in Calls
    BY <2>1 DEF Job
  <2>3. job[c].call.by \in {"replace", "lookup"}
    BY <2>2, CallIs
  <2> QED
    BY <1>2, <2>1, <2>2, <2>3 DEF AloneOK
<1>4. PICK n : n = Released(job[c], c \notin unset)
  OBVIOUS
<1>5. job' = [job EXCEPT ![c] = n] /\ job'[c] = n
  <2>1. job' = [job EXCEPT ![c] = n]
    BY <1>4 DEF Release, Set, Released
  <2> QED
    BY <2>1 DEF Patches, PatchTypes
<1>6. n \in Job
  BY <1>3, <1>4 DEF Released, Job
<1>7. /\ n.call = job[c].call /\ n.before = job[c].before /\ n.alone = job[c].alone
      /\ n.made = job[c].made /\ n.places = job[c].places /\ n.refused = job[c].refused
      /\ n.at = job[c].at
      /\ job[c].refused \/ job[c].call.by = "lookup" => n.stage = "done"
  BY <1>3, <1>4 DEF Released, Job
<1>8. StageOK(c)'
  BY <1>1, <1>3, <1>5, <1>6, <1>7, JobNotIdle DEF StageOK
<1>9. n.alone /\ n.call.by = "replace" => ReplaceOK(n)
  <2> SUFFICES ASSUME n.alone, n.call.by = "replace" PROVE ReplaceOK(n)
    OBVIOUS
  <2>1. Going(job[c]) /\ ReplaceOK(job[c])
    BY <1>3, <1>7
  <2>2. CASE job[c].refused
    BY <1>7, <2>2 DEF ReplaceOK
  <2>3. CASE ~job[c].refused /\ job[c].stage = "last"
    <3>1. n = [job[c] EXCEPT !.stage = "done", !.ok = TRUE]
      BY <1>4, <1>7, <2>3 DEF Released
    <3> QED
      BY <2>1, <2>3, <3>1, LastOK
  <2>4. CASE ~job[c].refused /\ job[c].stage # "last"
    <3>1. n = job[c]
      BY <1>4, <1>7, <2>4 DEF Released
    <3> QED
      BY <2>1, <3>1
  <2> QED
    BY <2>2, <2>3, <2>4
<1>10. n.alone /\ n.call.by = "lookup" => LookupOK(c, n)'
  BY <1>1, <1>3, <1>7 DEF LookupOK, PassedHit, Ending, Size, More
<1>11. \A d \in Cpus : d # c => pc'[d] = pc[d]
  BY <1>1
<1>12. n.alone => Len(text) = Len(n.before)
  BY <1>3, <1>7
<1> QED
  BY <1>1, <1>5, <1>6, <1>8, <1>9, <1>10, <1>11, <1>12, TextKept

-----------------------------------------------------------------------------
(* The theorems *)

\* The invariant holds in every behaviour.
THEOREM KernelInductive == Spec => []KInv
BY InitKernel, StepKernel, PTL DEF Spec

\* Every variable keeps its type, and no CPU returns with the lock held.
THEOREM KernelTypes == Spec => []TypeOK
<1>1. KInv => TypeOK
  <2> SUFFICES ASSUME KInv PROVE TypeOK
      OBVIOUS
  <2>1. \A c \in Cpus : lock = c => pc[c] # "run"
    BY DEF KInv, Held
  <2> QED
    BY <2>1 DEF KInv, TypeOK, PlaceOK, RegistersOK
<1> QED
  BY <1>1, KernelInductive, PTL

\* Whatever the other CPUs do, a CPU gets its interrupt flag and its write
\* protection back.
THEOREM RegistersAreRestored == Spec => []RegistersRestored
<1>1. KInv => RegistersRestored
  BY DEF KInv, RegistersRestored, InterruptsKnown, ProtectionKnown, RegistersOK
<1> QED
  BY <1>1, KernelInductive, PTL

\* A CPU that writes to kernel text is alone, uninterrupted and unprotected.
THEOREM WriterIsPrepared == Spec => []WriterPrepared
<1>1. KInv => WriterPrepared
  BY DEF KInv, WriterPrepared, InterruptsKnown, ProtectionKnown, Held, PlaceOK
<1> QED
  BY <1>1, KernelInductive, PTL

\* Every step of a patch is a step of setKernelWriting, or leaves it alone.
LEMMA PatchingSteps == [FRNext]_allVars => [Next]_vars
<1> SUFFICES ASSUME [FRNext]_allVars PROVE [Next]_vars
  OBVIOUS
<1>1. CASE UNCHANGED allVars
  BY <1>1 DEF allVars
<1>2. ASSUME NEW c \in Cpus, NEW k \in Calls, Replace(c, k) \/ Lookup(c, k) PROVE [Next]_vars
  BY <1>2 DEF Replace, Lookup
<1>3. ASSUME NEW c \in Cpus, Acquire(c) PROVE [Next]_vars
  BY <1>3 DEF Acquire, Next
<1>4. ASSUME NEW c \in Cpus, Work(c) PROVE [Next]_vars
  BY <1>4 DEF Work, NotFound, NextOffset, SkipFound, FoundOne, ReplaceFound, LookupNext, LookupFound,
              LookupEnds, Prepare, Refused, Restore, Release, Next, SetKernelWriting
<1>5. ASSUME NEW c \in Cpus, Toggle(c) PROVE [Next]_vars
  BY <1>5 DEF Next
<1> QED
  BY <1>1, <1>2, <1>3, <1>4, <1>5 DEF FRNext

\* A step of none of the calls.
LEMMA NoCallKeeps ==
  ASSUME Patches, UNCHANGED <<pc, text, job>>
  PROVE  Patches'
<1>1. PatchTypes'
  BY DEF Patches, PatchTypes
<1>2. ASSUME NEW d \in Cpus PROVE StageOK(d)' /\ AloneOK(d)'
  <2>1. StageOK(d) /\ AloneOK(d)
    BY DEF Patches
  <2>2. StageOK(d)'
    BY <2>1 DEF StageOK
  <2>3. AloneOK(d)'
    BY <2>1 DEF AloneOK, ReplaceOK, LookupOK, AtOccurrence, PassedHit, Ending, Size, More
  <2> QED
    BY <2>2, <2>3
<1> QED
  BY <1>1, <1>2 DEF Patches

\* Initially no call has been made.
LEMMA InitPatches == FRInit => Patches
<1> SUFFICES ASSUME FRInit PROVE Patches
  OBVIOUS
<1>1. text \in Seq({0, 1}) /\ job \in [Cpus -> {Idle} \cup Job]
  BY TextsAssumption DEF FRInit
<1>2. \A c \in Cpus : pc[c] = "run" /\ job[c] = Idle
  BY DEF FRInit, Init
<1> QED
  BY <1>1, <1>2 DEF Patches, PatchTypes, StageOK, AloneOK

\* Every step of every patch keeps the invariant.
LEMMA StepPatches == Patches /\ pc \in [Cpus -> Steps] /\ [FRNext]_allVars => Patches'
<1> SUFFICES ASSUME Patches, pc \in [Cpus -> Steps], [FRNext]_allVars PROVE Patches'
  OBVIOUS
<1>1. CASE UNCHANGED allVars
  BY <1>1, NoCallKeeps DEF allVars, vars, patching
<1>2. ASSUME NEW c \in Cpus, NEW k \in Calls, Replace(c, k) \/ Lookup(c, k) PROVE Patches'
  BY <1>2, ReplaceKeeps, LookupKeeps
<1>3. ASSUME NEW c \in Cpus, Acquire(c) PROVE Patches'
  BY <1>3, AcquireKeeps
<1>4. ASSUME NEW c \in Cpus, Work(c) PROVE Patches'
  BY <1>4, NotFoundKeeps, NextOffsetKeeps, SkipFoundKeeps, FoundOneKeeps, ReplaceFoundKeeps,
     LookupNextKeeps, LookupFoundKeeps, LookupEndsKeeps, PrepareKeeps, RefusedKeeps, RestoreKeeps,
     ReleaseKeeps DEF Work
<1>5. ASSUME NEW c \in Cpus, Toggle(c), UNCHANGED patching PROVE Patches'
  BY <1>5, NoCallKeeps DEF Toggle, patching
<1> QED
  BY <1>1, <1>2, <1>3, <1>4, <1>5 DEF FRNext

\* Every patch is done under the protection of setKernelWriting: the patches of
\* FindReplace are writers of KernelWriting.
THEOREM PatchingIsWriting == FRSpec => Spec
<1>1. FRInit => Init
  BY DEF FRInit
<1> QED
  BY <1>1, PatchingSteps, PTL DEF FRSpec, Spec

\* The invariant of the patches holds in every behaviour.
LEMMA PatchesInductive == FRSpec => [](KInv /\ Patches)
<1>1. FRInit => KInv /\ Patches
  BY InitKernel, InitPatches DEF FRInit
<1>2. KInv /\ Patches /\ [FRNext]_allVars => KInv' /\ Patches'
  BY PatchingSteps, StepKernel, StepPatches DEF KInv, PlaceOK
<1> QED
  BY <1>1, <1>2, PTL DEF FRSpec

\* A call that has had the code for itself has done what it is for: of any code,
\* pattern, masks, count and skip, and whatever the other CPUs do.
THEOREM CodeIsReplacedAsAsked == FRSpec => []ReplacedAsAsked
<1>1. Patches => ReplacedAsAsked
  <2> SUFFICES ASSUME Patches, NEW c \in Cpus, job[c] # Idle, job[c].stage = "done", job[c].alone,
                      ~job[c].refused
               PROVE  \/ /\ job[c].call.by = "replace"
                         /\ job[c].ok <=> Wanted(job[c].before, job[c].call) # {}
                         /\ Overwritten(job[c].before, text, job[c].call)
                      \/ /\ job[c].call.by = "lookup"
                         /\ \A i \in DOMAIN text : text[i] # job[c].before[i] =>
                              i > job[c].call.from /\ i < Ending(job[c].call) + Len(job[c].call.find) /\ job[c].call.loaded
                         /\ job[c].call.loaded /\ ~(job[c].call.count > 0 /\ job[c].made = job[c].call.count) =>
                              \A o \in Occurrences(text, job[c].call) \cap job[c].call.from..(Ending(job[c].call) - 1) :
                                \E p \in job[c].places : o < p /\ p < o + Len(job[c].call.find)
    BY DEF ReplacedAsAsked
  <2>1. /\ job[c] \in Job /\ text \in Seq({0, 1}) /\ job[c].call \in Calls
        /\ job[c].call.by = "replace" => ReplaceOK(job[c])
        /\ job[c].call.by = "lookup" => LookupOK(c, job[c])
    BY Mover DEF Job
  <2>2. /\ job[c].call.by \in {"replace", "lookup"} /\ job[c].call.from \in Nat /\ job[c].call.max \in Nat
        /\ job[c].call.count \in Nat /\ Len(job[c].call.find) \in Nat
        /\ job[c].at \in Nat /\ job[c].made \in Nat
    BY <2>1, CallIs DEF Job
  <2>3. CASE job[c].call.by = "replace"
    BY <2>1, <2>3 DEF ReplaceOK
  <2>4. CASE job[c].call.by = "lookup"
    <3>1. LookupOK(c, job[c])
      BY <2>1, <2>4
    <3>2. ASSUME job[c].call.loaded, ~(job[c].call.count > 0 /\ job[c].made = job[c].call.count),
                 NEW o \in Occurrences(text, job[c].call) \cap job[c].call.from..(Ending(job[c].call) - 1)
          PROVE  \E p \in job[c].places : o < p /\ p < o + Len(job[c].call.find)
      <4>1. ~More(job[c])
        BY <3>1, <3>2 DEF LookupOK
      <4>2. Ending(job[c].call) <= job[c].at
        <5>1. Ending(job[c].call) \in Int
          BY <2>1, EndingIs
        <5>2. ~(job[c].at < Ending(job[c].call))
          BY <2>2, <3>1, <3>2, <4>1 DEF More, LookupOK
        <5> QED
          BY <2>2, <5>1, <5>2
      <4>3. o \in Nat /\ job[c].call.from <= o /\ o < job[c].at
        <5>1. Ending(job[c].call) \in Int
          BY <2>1, EndingIs
        <5>2. o \in Nat
          BY <2>1, CountedIs
        <5> QED
          BY <2>2, <4>2, <5>1, <5>2
      <4> QED
        BY <3>1, <4>3 DEF LookupOK, PassedHit
    <3> QED
      BY <2>4, <3>1, <3>2 DEF LookupOK
  <2> QED
    BY <2>2, <2>3, <2>4
<1> QED
  BY <1>1, PatchesInductive, PTL

\* Only a CPU that holds the lock, with its interrupts and its write protection
\* off, ever changes a byte of the code.
WrittenPrepared ==
  [][text' # text => \E c \in Cpus : lock = c /\ ~interrupts[c] /\ ~protect[c]]_allVars

\* The binary patches change code only between setKernelWriting(true) and (false).
THEOREM CodeIsWrittenPrepared == FRSpec => WrittenPrepared
<1>1. KInv /\ [FRNext]_allVars =>
        [text' # text => \E c \in Cpus : lock = c /\ ~interrupts[c] /\ ~protect[c]]_allVars
  <2> SUFFICES ASSUME KInv, [FRNext]_allVars, text' # text
               PROVE  \E c \in Cpus : lock = c /\ ~interrupts[c] /\ ~protect[c]
    OBVIOUS
  <2>1. PICK c \in Cpus : pc[c] = "write"
    BY DEF allVars, patching, FRNext, Work, Replace, Lookup, Acquire, Prepare, Refused, Restore, Release,
           NotFound, NextOffset, SkipFound, FoundOne, ReplaceFound, Write, LookupNext, LookupFound,
           LookingUp, LookupEnds
  <2>2. lock = c
    BY <2>1 DEF KInv, Held
  <2>3. ~interrupts[c] /\ ~protect[c]
    BY <2>1 DEF KInv, InterruptsKnown, ProtectionKnown
  <2> QED
    BY <2>2, <2>3
<1> QED
  BY <1>1, PatchesInductive, PTL DEF FRSpec, WrittenPrepared
=============================================================================
