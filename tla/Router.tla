------------------------------- MODULE Router -------------------------------
(***************************************************************************)
(* KernelPatcher's function routing: functions are redirected by a jump    *)
(* written over their first bytes, several requests may be chained on one  *)
(* function, and deinit restores what was stored in kpatches.              *)
(*                                                                         *)
(* Requests are served one at a time: Lilu runs the plugins' callbacks     *)
(* from one thread at a time (see LiluBoot and KextListener).  Callers of  *)
(* a function run at any moment, so what a call finds is looked at in      *)
(* every state.  A jump is short (5 bytes, target within 2 GB), medium (6  *)
(* bytes through an address slot of the image) or long (14 bytes).         *)
(***************************************************************************)
EXTENDS Naturals, FiniteSets, Sequences, SequencesExt

CONSTANTS
  Routables,    \* functions of one image
  RouteIds,     \* requests, each with its own replacement function
  Original,     \* the function's own body, reached directly or by a trampoline
  Null,         \* no address
  MaxSlots,     \* address slots of the image (MachInfo::getAddressSlot)
  RouteFaults   \* which calls may fail, a subset of RouteFaultKinds

RouteFaultKinds == {"trampoline", "writing", "patches"}

ASSUME RouteAssumption ==
  /\ Original # Null /\ Original \notin RouteIds /\ Null \notin RouteIds
  /\ IsFiniteSet(RouteIds)
ASSUME SlotsAssumption == MaxSlots \in Nat
ASSUME RouteFaultsAssumption == RouteFaults \subseteq RouteFaultKinds

(* What a caller asks for.  reach: "near" is an automatic jump whose target *)
(* fits 32 bits, "far" an automatic one that does not or a long one,        *)
(* "short" a short one that fits and "unreachable" one that does not.       *)
(* via: routeMultiple passes the image and the place of the original        *)
(* pointer; routeFunction does not, and may be told not to revert           *)
(* ("permanent").  wrapper: the original is wanted.                         *)
Options == [fn : Routables, reach : {"near", "far", "short", "unreachable"},
            via : {"multiple", "function", "permanent"}, wrapper : BOOLEAN]

ASSUME NullAssumption == Null \notin Options

VARIABLES
  jump,         \* the jump at each function
  target,       \* where that jump leads
  prior,        \* the jump and its target that each request found and saved
  org,          \* what each request's original pointer holds
  asked,        \* the options of each request that was made
  status,       \* progress of each request
  succeeded,    \* requests that routeMultiple counts as no error
  form,         \* the jump the request in progress is about to write
  chained,      \* it found an earlier jump and loses its revertibility
  trampoline,   \* what it will return
  slots,        \* address slots taken
  kpatches,     \* the stored patches <<request, part>>
  rsvd,         \* places allocated for kpatches
  freed,        \* patches that were deleted
  deinited,     \* "no" until KernelPatcher::deinit has run: "restored", or
                \* "skipped" if the kernel could not be made writable
  stopped       \* "panic", or "undefined" once the code left the language

request == <<asked, status, succeeded, form, chained, trampoline>>
stored == <<kpatches, rsvd, freed>>
vars == <<jump, target, prior, org, request, slots, stored, deinited, stopped>>

JumpForms == {"none", "short", "medium", "long"}
Size == [none |-> 0, short |-> 5, medium |-> 6, long |-> 14]
Parts(f) == IF f = "short" THEN <<"opcode", "argument">> ELSE <<"opcode", "argument", "disp">>

Init ==
  /\ jump = [f \in Routables |-> "none"]
  /\ target = [f \in Routables |-> Original]
  /\ prior = [r \in RouteIds |-> <<"none", Original>>]
  /\ org = [r \in RouteIds |-> Null]
  /\ asked = [r \in RouteIds |-> Null]
  /\ status = [r \in RouteIds |-> "new"]
  /\ succeeded = {}
  /\ form = "none" /\ chained = FALSE /\ trampoline = Null
  /\ slots = 0
  /\ kpatches = <<>> /\ rsvd = 0 /\ freed = {}
  /\ deinited = "no" /\ stopped = "no"

CanStart(r) ==
  /\ stopped = "no" /\ deinited = "no" /\ status[r] = "new"
  /\ \A q \in RouteIds : status[q] \notin {"write", "store"}

-----------------------------------------------------------------------------
\* routeFunctionInternal returns EINVAL, a number other than 0: routeMultiple
\* takes it for an error only where no wrapper was asked for.
ReturnEinval(r, o) ==
  /\ status' = [status EXCEPT ![r] = "failed"]
  /\ succeeded' = IF o.via = "multiple" /\ o.wrapper THEN succeeded \cup {r} ELSE succeeded

\* A short jump that does not reach its target.
RouteRefused(r, o) ==
  /\ CanStart(r) /\ o.reach = "unreachable"
  /\ ReturnEinval(r, o)
  /\ asked' = [asked EXCEPT ![r] = o]
  /\ UNCHANGED <<jump, target, prior, org, form, chained, trampoline, slots, stored, deinited, stopped>>

\* Combinations that routeFunctionInternal panics on.
ChainPanics(r, o) ==
  /\ CanStart(r) /\ o.reach # "unreachable"
  /\ jump[o.fn] # "none"
  /\ \/ jump[o.fn] = "short" \/ o.reach = "short"
     \/ jump[o.fn] = "medium" /\ (o.via # "multiple" \/ slots = MaxSlots)
  /\ stopped' = "panic"
  /\ UNCHANGED <<jump, target, prior, org, request, slots, stored, deinited>>

\* Mutant of Accepted: the original is stored by the caller afterwards.
Accepted_OrgLater(r, o, x, t) ==
  /\ form' = x /\ trampoline' = t
  /\ status' = [status EXCEPT ![r] = "write"]
  /\ asked' = [asked EXCEPT ![r] = o]
  /\ UNCHANGED <<jump, target, prior, org, succeeded, stored, deinited, stopped>>

\* The request is accepted with the jump form x and the original t, which
\* routeMultiple has stored before the route is made.
Accepted(r, o, x, t) ==
  /\ form' = x /\ trampoline' = t
  /\ org' = IF o.via = "multiple" THEN [org EXCEPT ![r] = t] ELSE org
  /\ status' = [status EXCEPT ![r] = "write"]
  /\ asked' = [asked EXCEPT ![r] = o]
  /\ UNCHANGED <<jump, target, prior, succeeded, stored, deinited, stopped>>

Direct(o) == IF o.reach = "far" THEN "long" ELSE "short"

\* Mutant of RouteOnTop: a medium jump is followed by whatever was asked for.
RouteOnTop_Resized(r, o) ==
  /\ CanStart(r) /\ o.reach \in {"near", "far"}
  /\ jump[o.fn] \in {"medium", "long"}
  /\ chained' = TRUE
  /\ Accepted(r, o, Direct(o), IF o.wrapper THEN target[o.fn] ELSE Null)
  /\ UNCHANGED slots

\* The function is routed already: its replacement becomes the original of
\* this request, and a medium jump is followed by another one.
RouteOnTop(r, o) ==
  /\ CanStart(r) /\ o.reach \in {"near", "far"}
  /\ jump[o.fn] \in {"medium", "long"}
  /\ chained' = TRUE
  /\ LET slotted == jump[o.fn] = "medium" IN
       /\ slotted => o.via = "multiple" /\ slots < MaxSlots
       /\ slots' = IF slotted THEN slots + 1 ELSE slots
       /\ Accepted(r, o, IF slotted THEN "medium" ELSE Direct(o),
                         IF o.wrapper THEN target[o.fn] ELSE Null)

\* Mutant of Slotted: an address slot is taken past the end of the page.
Slotted_PastEnd(o) == o.wrapper /\ o.via = "multiple" /\ o.reach = "far"

Slotted(o) == o.wrapper /\ o.via = "multiple" /\ o.reach = "far" /\ slots < MaxSlots

\* The first route of a function: with a wrapper its prologue is moved to a
\* trampoline that jumps back into the body.
RouteFirst(r, o) ==
  /\ CanStart(r) /\ o.reach # "unreachable"
  /\ jump[o.fn] = "none"
  /\ chained' = FALSE
  /\ slots' = IF Slotted(o) THEN slots + 1 ELSE slots
  /\ Accepted(r, o, IF Slotted(o) THEN "medium" ELSE Direct(o),
                    IF o.wrapper THEN Original ELSE Null)

\* createTrampoline fails: the prologue cannot be moved, the kernel made
\* writable, or tempExecutableMemory is used up.
TrampolineFails(r, o) ==
  /\ "trampoline" \in RouteFaults
  /\ CanStart(r) /\ o.reach # "unreachable"
  /\ jump[o.fn] = "none" /\ o.wrapper
  /\ slots' = IF Slotted(o) THEN slots + 1 ELSE slots
  /\ ReturnEinval(r, o)
  /\ asked' = [asked EXCEPT ![r] = o]
  /\ UNCHANGED <<jump, target, prior, org, form, chained, trampoline, stored, deinited, stopped>>

\* The patches cannot be created, or the kernel cannot be made writable.
WriteFails(r) ==
  /\ status[r] = "write" /\ "writing" \in RouteFaults
  /\ ReturnEinval(r, asked[r])
  /\ UNCHANGED <<jump, target, prior, org, asked, form, chained, trampoline, slots, stored, deinited, stopped>>

\* The jump is written, in one atomic store where the address allows it.
WriteJump(r) ==
  /\ status[r] = "write"
  /\ prior' = [prior EXCEPT ![r] = <<jump[asked[r].fn], target[asked[r].fn]>>]
  /\ jump' = [jump EXCEPT ![asked[r].fn] = form]
  /\ target' = [target EXCEPT ![asked[r].fn] = r]
  /\ status' = [status EXCEPT ![r] = "store"]
  /\ UNCHANGED <<org, asked, succeeded, form, chained, trampoline, slots, stored, deinited, stopped>>

-----------------------------------------------------------------------------
(* kpatches.push_back<4> of the parts ps, each answering whether it stored. *)
(* The k-th answer of ok is taken when the vector has to grow.              *)
Grow(v, p, ok) ==
  IF Len(v.list) < v.rsvd THEN [v EXCEPT !.list = Append(@, p), !.pushed = Append(@, TRUE)]
  ELSE IF ok THEN [list |-> Append(v.list, p), rsvd |-> 4 * (Len(v.list) + 1),
                   pushed |-> Append(v.pushed, TRUE)]
  ELSE [v EXCEPT !.pushed = Append(@, FALSE)]

PushAll(r, ok) ==
  LET push(v, k) == Grow(v, <<r, Parts(form)[k]>>, ok[k])
      two == push(push([list |-> kpatches, rsvd |-> rsvd, pushed |-> <<>>], 1), 2)
  IN  IF Len(Parts(form)) = 2 THEN two ELSE push(two, 3)

\* What the caller of routeFunctionInternal does with the trampoline.  s tells
\* a route with all its patches kept or dropped ("done") from one that lost
\* some for lack of memory ("unstored").
Returned(r, s) ==
  /\ status' = [status EXCEPT ![r] = s]
  /\ succeeded' = IF asked[r].via = "multiple" THEN succeeded \cup {r} ELSE succeeded
  /\ org' = IF asked[r].via = "multiple" THEN org ELSE [org EXCEPT ![r] = trampoline]
  /\ UNCHANGED <<jump, target, prior, asked, form, chained, trampoline, slots, deinited>>

\* Mutant of Revertible: a route on top stores its patches as well.
Revertible_OnTop(r) == asked[r].via # "permanent"

Revertible(r) == asked[r].via # "permanent" /\ ~chained

\* The patches of a revertible first route are kept for deinit.
StorePatches(r) ==
  /\ status[r] = "store" /\ Revertible(r)
  /\ LET v == PushAll(r, [k \in 1..3 |-> TRUE]) IN kpatches' = v.list /\ rsvd' = v.rsvd
  /\ UNCHANGED <<freed, stopped>>
  /\ Returned(r, "done")

\* They are dropped if the route is not to be reverted.
DropPatches(r) ==
  /\ status[r] = "store" /\ ~Revertible(r)
  /\ freed' = freed \cup {<<r, Parts(form)[k]>> : k \in DOMAIN Parts(form)}
  /\ UNCHANGED <<kpatches, rsvd, stopped>>
  /\ Returned(r, "done")

\* kpatches could not grow for every part.  For each part that was stored the
\* element at the index push_back returned is erased: push_back returns TRUE,
\* so that is the second element, whatever it is.  Then the parts are deleted.
StoreFails(r) ==
  /\ status[r] = "store" /\ Revertible(r) /\ "patches" \in RouteFaults
  /\ \E ok \in [1..3 -> BOOLEAN] :
       LET v == PushAll(r, ok)
           n == Cardinality({k \in DOMAIN v.pushed : v.pushed[k]})   \* calls of erase(1)
       IN  /\ n < Len(v.pushed)
           /\ rsvd' = v.rsvd
           /\ IF n > 0 /\ Len(v.list) < n + 1
              THEN stopped' = "undefined" /\ UNCHANGED <<kpatches, freed>>
              ELSE /\ kpatches' = IF n = 0 THEN v.list
                                  ELSE <<Head(v.list)>> \o SubSeq(v.list, n + 2, Len(v.list))
                   /\ freed' = freed
                        \cup {v.list[k] : k \in 2..(n + 1)}
                        \cup {<<r, Parts(form)[k]>> : k \in DOMAIN Parts(form)}
                   /\ UNCHANGED stopped
  /\ Returned(r, "unstored")

\* What restoring the patches in their order leaves at f.
Restored(f) ==
  LET of == {k \in DOMAIN kpatches : asked[kpatches[k][1]].fn = f}
  IN  IF of = {} THEN <<jump[f], target[f]>> ELSE prior[kpatches[Max(of)][1]]

\* deinit restores every stored patch, if the kernel can be made writable.
Deinit ==
  /\ stopped = "no" /\ deinited = "no" /\ \A r \in RouteIds : status[r] \notin {"write", "store"}
  /\ \/ /\ ToSet(kpatches) \cap freed # {}     \* a deleted patch is used
        /\ stopped' = "undefined"
        /\ deinited' = "skipped"
        /\ UNCHANGED <<jump, target>>
     \/ /\ ToSet(kpatches) \cap freed = {}
        /\ UNCHANGED stopped
        /\ \/ /\ jump' = [f \in Routables |-> Restored(f)[1]]
              /\ target' = [f \in Routables |-> Restored(f)[2]]
              /\ deinited' = "restored"
           \/ /\ "writing" \in RouteFaults
              /\ deinited' = "skipped"
              /\ UNCHANGED <<jump, target>>
  /\ freed' = freed \cup ToSet(kpatches) /\ kpatches' = <<>> /\ rsvd' = 0
  /\ UNCHANGED <<prior, org, request, slots>>

Next ==
  \/ \E r \in RouteIds, o \in Options :
       \/ RouteRefused(r, o) \/ ChainPanics(r, o) \/ RouteOnTop(r, o)
       \/ RouteFirst(r, o) \/ TrampolineFails(r, o)
  \/ \E r \in RouteIds :
       \/ WriteFails(r) \/ WriteJump(r)
       \/ StorePatches(r) \/ DropPatches(r) \/ StoreFails(r)
  \/ Deinit

Spec == Init /\ [][Next]_vars

-----------------------------------------------------------------------------
(* Properties.                                                             *)

\* Every variable keeps its type; no more slots are handed out than the image
\* has (getAddressSlot), however many requests fail after taking one.
TypeOK ==
  /\ jump \in [Routables -> JumpForms]
  /\ target \in [Routables -> RouteIds \cup {Original}]
  /\ prior \in [RouteIds -> JumpForms \X (RouteIds \cup {Original})]
  /\ org \in [RouteIds -> RouteIds \cup {Original, Null}]
  /\ \A r \in RouteIds : asked[r] = Null <=> status[r] = "new"
  /\ \A r \in RouteIds : status[r] # "new" => asked[r] \in Options
  /\ status \in [RouteIds -> {"new", "write", "store", "done", "unstored", "failed"}]
  /\ succeeded \subseteq RouteIds
  /\ form \in JumpForms /\ chained \in BOOLEAN
  /\ trampoline \in RouteIds \cup {Original, Null}
  /\ slots \in 0..MaxSlots
  /\ kpatches \in Seq(RouteIds \X {"opcode", "argument", "disp"})
  /\ rsvd \in Nat /\ Len(kpatches) <= rsvd
  /\ freed \subseteq RouteIds \X {"opcode", "argument", "disp"}
  /\ deinited \in {"no", "restored", "skipped"} /\ stopped \in {"no", "panic", "undefined"}

\* The requests whose jump is or was in place on f.
Routed(f) == {r \in RouteIds : status[r] \in {"store", "done", "unstored"} /\ asked[r].fn = f}

\* Where a call of f is after n of its replacements have called their original.
Visit(f) ==
  LET at[n \in Nat] == IF n = 0 THEN target[f]
                       ELSE IF at[n - 1] \in RouteIds THEN org[at[n - 1]] ELSE at[n - 1]
  IN  [n \in 0..Cardinality(RouteIds) |-> at[n]]

\* At every moment a call of a function whose routes all asked for a wrapper
\* passes every one of its replacements once and ends in the original body:
\* no replacement finds its original missing, however far a route has come.
\* (routeFunction leaves the storing of the pointer to its caller, so its
\* requests count once they are done.)
ChainComplete ==
  \A f \in Routables :
    /\ deinited = "no"
    /\ \A r \in Routed(f) : asked[r].wrapper /\ (asked[r].via = "multiple" \/ status[r] # "store")
    => LET v == Visit(f) IN
         /\ {v[n] : n \in DOMAIN v} = Routed(f) \cup {Original}
         /\ v[Cardinality(Routed(f))] = Original

\* A later route never overwrites more bytes than the first one, whose
\* trampoline holds just the instructions under its own jump, and whose saved
\* bytes are all that deinit restores.
NeverGrows ==
  [][\A f \in Routables : jump[f] # "none" => Size[jump'[f]] <= Size[jump[f]]]_vars

\* deinit gives back every function whose routes were not asked to be
\* permanent, also when several were chained and others failed, unless the
\* kernel could not be made writable or kpatches had run out of memory.
DeinitRestores ==
  deinited = "restored" /\ (\A r \in RouteIds : status[r] # "unstored") =>
    \A f \in Routables :
      (\A r \in Routed(f) : asked[r].via # "permanent")
        => jump[f] = "none" /\ target[f] = Original

\* What routeMultiple's documentation says: "@return false if it at least one
\* error happened".  The code does not keep to it where a wrapper was asked for
\* (ReturnEinval), so no run checks it.
SuccessMeansRouted == \A r \in succeeded : status[r] \in {"store", "done", "unstored"}

=============================================================================
