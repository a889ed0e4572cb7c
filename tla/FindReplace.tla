----------------------------- MODULE FindReplace ----------------------------
(***************************************************************************)
(* KernelPatcher's binary patches: findAndReplaceWithMask and              *)
(* applyLookupPatch search code for a pattern and write over it, with the  *)
(* protection of module KernelWriting.  The first searches without the     *)
(* lock and takes it for each replacement; the second takes it once, and   *)
(* searches with interrupts off.                                           *)
(*                                                                         *)
(* A byte is a bit, so a mask takes it or leaves it.  Several CPUs patch   *)
(* the same code; the search reads it one place at a time.                 *)
(***************************************************************************)
EXTENDS KernelWriting, Integers, FiniteSets, Sequences

CONSTANTS
  Texts,   \* what the code may be at first, sequences of bits of one length
  Calls    \* the calls made, see Call

(* by: the function that is called.  find, repl: the pattern and its        *)
(* replacement.  mask, keep: findMask and replaceMask, <<>> for nullptr.    *)
(* count: replacements asked for, 0 for all.  skip: occurrences to pass.    *)
(* from, max: startingAddress and maxSize of applyLookupPatch, 0 for none.  *)
(* loaded: its kext is.                                                     *)
Call == [by : {"replace", "lookup"}, find : Seq({0, 1}), mask : Seq({0, 1}),
         repl : Seq({0, 1}), keep : Seq({0, 1}), count : Nat, skip : Nat,
         from : Nat, max : Nat, loaded : BOOLEAN]

ASSUME TextsAssumption == \A t \in Texts : t \in Seq({0, 1})

\* Nothing is looked for with an empty pattern (findPattern).
ASSUME CallsAssumption ==
  \A k \in Calls : /\ k \in Call /\ Len(k.find) = Len(k.repl) /\ k.find # <<>>
                   /\ k.by = "replace" => k.from = 0
                   /\ k.mask # <<>> => Len(k.mask) = Len(k.find)
                   /\ k.keep # <<>> => Len(k.keep) = Len(k.find)

VARIABLES
  text,     \* the code being patched
  job       \* the call each CPU is making

patching == <<text, job>>
allVars == <<vars, patching>>

\* at: dataOffset or currentAddress; left, skip: what is left of count and skip;
\* made: replacements; refused: setKernelWriting(true) failed; ok: true is
\* returned, or no error set.  before, alone and places are for the properties: the
\* code at the time of the call, whether no other CPU has changed it since, and
\* where a call of applyLookupPatch has written.
Idle == [stage |-> "idle"]

NewJob(k) ==
  [stage |-> "search", call |-> k, at |-> k.from, left |-> k.count, skip |-> k.skip, made |-> 0,
   refused |-> FALSE, ok |-> FALSE, before |-> text, alone |-> TRUE, places |-> {}]

FRInit ==
  /\ Init
  /\ text \in Texts
  /\ job = [c \in Cpus |-> Idle]

Size == Len(text)

\* The bytes of t at offset o are what call k looks for.
Matches(t, o, k) ==
  \A i \in DOMAIN k.find :
    (IF k.mask = <<>> THEN t[o + i] ELSE t[o + i] * k.mask[i]) = k.find[i]

Replaced(t, o, k) ==
  [i \in DOMAIN t |->
     IF i - o \in DOMAIN k.repl /\ (k.keep # <<>> => k.keep[i - o] = 1) THEN k.repl[i - o] ELSE t[i]]

\* The occurrence that CPU c is at is written over, its job becomes j; other CPUs
\* that have made a call see the code change.
Overwrite(c, j) ==
  /\ text' = Replaced(text, job[c].at, job[c].call)
  /\ job' = [d \in Cpus |-> IF d = c THEN j
                           ELSE IF job[d] = Idle THEN Idle ELSE [job[d] EXCEPT !.alone = FALSE]]

Set(c, j) == job' = [job EXCEPT ![c] = j]

CanCall(c) == pc[c] = "run" /\ job[c] = Idle
Searching(c) == pc[c] = "run" /\ job[c].stage = "search" /\ job[c].call.by = "replace"
Found(c) == Matches(text, job[c].at, job[c].call)
LastOffset(c) == Size - Len(job[c].call.find)

-----------------------------------------------------------------------------
(* findAndReplaceWithMask, findPattern                                     *)

Replace(c, k) ==
  /\ CanCall(c) /\ k.by = "replace"
  /\ Set(c, NewJob(k))
  /\ UNCHANGED <<vars, text>>

NotFound(c) ==
  /\ Searching(c) /\ job[c].at > LastOffset(c)
  /\ Set(c, [job[c] EXCEPT !.stage = "done", !.ok = job[c].made > 0])
  /\ UNCHANGED <<vars, text>>

NextOffset(c) ==
  /\ Searching(c) /\ job[c].at <= LastOffset(c) /\ ~Found(c)
  /\ Set(c, [job[c] EXCEPT !.at = @ + 1])
  /\ UNCHANGED <<vars, text>>

\* Mutant of SkipFound: only the first byte of the occurrence is passed.
SkipFound_ByOne(c) ==
  /\ Searching(c) /\ job[c].at <= LastOffset(c) /\ Found(c) /\ job[c].skip > 0
  /\ Set(c, [job[c] EXCEPT !.at = @ + 1, !.skip = @ - 1])
  /\ UNCHANGED <<vars, text>>

SkipFound(c) ==
  /\ Searching(c) /\ job[c].at <= LastOffset(c) /\ Found(c) /\ job[c].skip > 0
  /\ Set(c, [job[c] EXCEPT !.at = @ + Len(job[c].call.find), !.skip = @ - 1])
  /\ UNCHANGED <<vars, text>>

\* What was found is not looked at again when the lock has been taken.
FoundOne(c) ==
  /\ Searching(c) /\ job[c].at <= LastOffset(c) /\ Found(c) /\ job[c].skip = 0
  /\ Set(c, [job[c] EXCEPT !.stage = "write"])
  /\ UNCHANGED <<vars, text>>

\* One occurrence is written over.
ReplaceFound(c) ==
  /\ job[c].stage = "write" /\ job[c].call.by = "replace"
  /\ Write(c)
  /\ Overwrite(c, [job[c] EXCEPT !.at = @ + Len(job[c].call.repl), !.made = @ + 1,
                     !.left = IF @ > 0 THEN @ - 1 ELSE 0,
                     !.stage = IF job[c].left = 1 THEN "last" ELSE "search"])

-----------------------------------------------------------------------------
(* applyLookupPatch                                                        *)

Lookup(c, k) ==
  /\ CanCall(c) /\ k.by = "lookup"
  /\ Set(c, IF k.loaded THEN [NewJob(k) EXCEPT !.stage = "write"]
            ELSE [NewJob(k) EXCEPT !.stage = "done"])
  /\ UNCHANGED <<vars, text>>

\* endingAddress
Ending(k) == (IF k.max > 0 /\ Size > k.from + k.max THEN k.from + k.max ELSE Size) - Len(k.find)

LookingUp(c) == pc[c] = "write" /\ job[c].stage = "write" /\ job[c].call.by = "lookup"
More(j) == j.at < Ending(j.call) /\ (j.made < j.call.count \/ j.call.count = 0)

LookupNext(c) ==
  /\ LookingUp(c) /\ More(job[c]) /\ ~Found(c)
  /\ Set(c, [job[c] EXCEPT !.at = @ + 1])
  /\ UNCHANGED <<vars, text>>

\* The search goes on at the same address.
LookupFound(c) ==
  /\ LookingUp(c) /\ More(job[c]) /\ Found(c)
  /\ Overwrite(c, [job[c] EXCEPT !.made = @ + 1, !.places = @ \cup {job[c].at}])
  /\ UNCHANGED vars

LookupEnds(c) ==
  /\ LookingUp(c) /\ ~More(job[c])
  /\ Write(c)
  /\ UNCHANGED patching

-----------------------------------------------------------------------------
(* setKernelWriting, called by both                                        *)

Acquire(c) ==
  /\ job[c].stage = "write" /\ Lock(c)
  /\ UNCHANGED patching

Prepare(c) ==
  /\ DisableInterrupts(c) \/ ClearProtection(c)
  /\ UNCHANGED patching

Refused(c) ==
  /\ ClearFails(c)
  /\ Set(c, [job[c] EXCEPT !.refused = TRUE])
  /\ UNCHANGED text

Restore(c) ==
  /\ SetProtection(c) \/ SetFails(c) \/ EnableInterrupts(c)
  /\ UNCHANGED patching

\* A search without its lock goes on, unless it is complete or was refused, also if
\* the protection could not be set again; for applyLookupPatch that is an error.
Release(c) ==
  /\ Unlock(c)
  /\ LET j == job[c] IN
       Set(c, IF j.refused THEN [j EXCEPT !.stage = "done"]
              ELSE IF j.call.by = "lookup"
              THEN [j EXCEPT !.stage = "done", !.ok = j.made = j.call.count /\ c \notin unset]
              ELSE IF j.stage = "last" THEN [j EXCEPT !.stage = "done", !.ok = TRUE]
              ELSE j)
  /\ UNCHANGED text

\* The patching of CPU c once it has made a call.
Work(c) ==
  \/ NotFound(c) \/ NextOffset(c) \/ SkipFound(c) \/ FoundOne(c) \/ ReplaceFound(c)
  \/ LookupNext(c) \/ LookupFound(c) \/ LookupEnds(c)
  \/ Prepare(c) \/ Refused(c) \/ Restore(c) \/ Release(c)

FRNext ==
  \E c \in Cpus :
    \/ \E k \in Calls : Replace(c, k) \/ Lookup(c, k)
    \/ Acquire(c) \/ Work(c)
    \/ Toggle(c) /\ UNCHANGED patching

\* A thread is scheduled until its call is done; the lock may be lost to others.
Scheduling == \A c \in Cpus : WF_allVars(Work(c))

FRSpec == FRInit /\ [][FRNext]_allVars /\ Scheduling

-----------------------------------------------------------------------------
(* Properties.                                                             *)

Occurrences(t, k) == {o \in 0..(Len(t) - Len(k.find)) : Matches(t, o, k)}

\* Of overlapping occurrences the first counts.
Counted(t, k) ==
  CHOOSE S \in SUBSET Occurrences(t, k) :
    \A o \in Occurrences(t, k) :
      o \in S <=> \A q \in S : q < o => q + Len(k.find) <= o

\* The occurrences a call of findAndReplaceWithMask is for.
Wanted(t, k) ==
  {o \in Counted(t, k) :
     LET n == Cardinality({q \in Counted(t, k) : q < o})
     IN  n >= k.skip /\ (k.count > 0 => n < k.skip + k.count)}

\* The bits in which call k is to change t are changed, and no others.
Overwritten(t, u, k) ==
  \A i \in DOMAIN t :
    LET over == {o \in Wanted(t, k) : i - o \in DOMAIN k.repl}
    IN  /\ \A o \in over : u[i] = Replaced(t, o, k)[i]
        /\ over = {} => u[i] = t[i]

\* A call during which no other CPU changed the code has done what it is for.
\* findAndReplaceWithMask: the occurrences asked for are written over, in the bits
\* asked for, nothing else is, and the answer tells whether there was one.
\* applyLookupPatch: nothing outside the given addresses has changed, and unless
\* count is exhausted every occurrence that its search can reach and that is left
\* was completed by a replacement that starts inside it.  (The search has passed
\* its address by then.)
ReplacedAsAsked ==
  \A c \in Cpus : LET j == job[c] IN
    j # Idle /\ j.stage = "done" /\ j.alone /\ ~j.refused =>
      \/ /\ j.call.by = "replace"
         /\ j.ok <=> Wanted(j.before, j.call) # {}
         /\ Overwritten(j.before, text, j.call)
      \/ /\ j.call.by = "lookup"
         /\ \A i \in DOMAIN text : text[i] # j.before[i] =>
              i > j.call.from /\ i < Ending(j.call) + Len(j.call.find) /\ j.call.loaded
         /\ j.call.loaded /\ ~(j.call.count > 0 /\ j.made = j.call.count) =>
              \A o \in Occurrences(text, j.call) \cap j.call.from..(Ending(j.call) - 1) :
                \E p \in j.places : o < p /\ p < o + Len(j.call.find)
=============================================================================
