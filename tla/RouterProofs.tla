----------------------------- MODULE RouterProofs -----------------------------
(***************************************************************************)
(* Theorems about function routing.  For any functions, requests, number   *)
(* of address slots and failing calls: every variable keeps its type, no   *)
(* jump is replaced by a longer one, a caller always passes through all    *)
(* replacements of a function and ends in its own body, and deinit gives   *)
(* back what it may give back.                                             *)
(***************************************************************************)
EXTENDS Router, Integers, FiniteSetTheorems, SequenceTheorems, WellFoundedInduction, TLAPS

USE RouteAssumption, SlotsAssumption, RouteFaultsAssumption, NullAssumption

-----------------------------------------------------------------------------
(* What the steps do *)

Part == {"opcode", "argument", "disp"}
Patched == RouteIds \X Part
InPlace == {"store", "done", "unstored"}
Making == {"write", "store"}

\* TypeOK in parts, so that Boolean values and numbers are never in one obligation.
JumpsOK ==
    /\ jump \in [Routables -> JumpForms]
    /\ target \in [Routables -> RouteIds \cup {Original}]
    /\ prior \in [RouteIds -> JumpForms \X (RouteIds \cup {Original})]
    /\ org \in [RouteIds -> RouteIds \cup {Original, Null}]
RequestsOK ==
    /\ asked \in [RouteIds -> Options \cup {Null}]
    /\ status \in [RouteIds -> {"new", "write", "store", "done", "unstored", "failed"}]
    /\ \A r \in RouteIds : asked[r] = Null <=> status[r] = "new"
    /\ succeeded \subseteq RouteIds
MakingOK ==
    /\ form \in JumpForms /\ chained \in BOOLEAN
    /\ trampoline \in RouteIds \cup {Original, Null}
SlotsOK == slots \in 0..MaxSlots
PatchesOK ==
    /\ kpatches \in Seq(Patched)
    /\ rsvd \in Nat /\ Len(kpatches) <= rsvd
    /\ freed \subseteq Patched
EndOK == deinited \in {"no", "restored", "skipped"} /\ stopped \in {"no", "panic", "undefined"}

Types == JumpsOK /\ RequestsOK /\ MakingOK /\ SlotsOK /\ PatchesOK /\ EndOK

\* The parts are stronger than the type invariant: they say where asked is defined.
LEMMA Parts_TypeOK == Types => TypeOK
<1> SUFFICES ASSUME Types PROVE TypeOK
  OBVIOUS
<1>1. \A r \in RouteIds : status[r] # "new" => asked[r] \in Options
  BY DEF Types, RequestsOK
<1> QED
  BY <1>1 DEF Types, TypeOK, JumpsOK, RequestsOK, MakingOK, SlotsOK, PatchesOK, EndOK, Patched, Part

\* Longer jumps are longer.
LEMMA Sizes ==
  /\ \A x \in JumpForms : Size[x] \in Nat
  /\ Size["none"] = 0 /\ Size["short"] = 5 /\ Size["medium"] = 6 /\ Size["long"] = 14
  BY DEF Size, JumpForms

\* A request is accepted: the jump it is about to write is not longer than the one in
\* place, and its original is what that one leads to.
Accepting(r, o) ==
    /\ CanStart(r)
    /\ status' = [status EXCEPT ![r] = "write"]
    /\ asked' = [asked EXCEPT ![r] = o]
    /\ form' \in {"short", "medium", "long"} /\ chained' \in BOOLEAN
    /\ chained' <=> jump[o.fn] # "none"
    /\ chained' => Size[form'] <= Size[jump[o.fn]]
    /\ ~chained' /\ o.wrapper => trampoline' = Original
    /\ chained' /\ o.wrapper => trampoline' = target[o.fn]
    /\ ~o.wrapper => trampoline' = Null
    /\ org' = IF o.via = "multiple" THEN [org EXCEPT ![r] = trampoline'] ELSE org
    /\ SlotsOK'
    /\ UNCHANGED <<jump, target, prior, succeeded, stored, deinited, stopped>>

\* A request on top of another one is accepted like that.
LEMMA OnTopAccepts ==
  ASSUME Types, NEW r \in RouteIds, NEW o \in Options, RouteOnTop(r, o)
  PROVE  Accepting(r, o)
<1>1. o.fn \in Routables /\ jump[o.fn] \in {"medium", "long"}
  BY DEF RouteOnTop, Options
<1> DEFINE slotted == jump[o.fn] = "medium"
<1>2. slotted => slots < MaxSlots
  BY DEF RouteOnTop
<1>3. slots' = IF slotted THEN slots + 1 ELSE slots
  BY DEF RouteOnTop
<1>4. SlotsOK'
  BY <1>2, <1>3 DEF SlotsOK, Types
<1>5. form' = IF slotted THEN "medium" ELSE Direct(o)
  BY DEF RouteOnTop, Accepted
<1>6. form' \in {"short", "medium", "long"} /\ Size[form'] <= Size[jump[o.fn]]
  BY <1>1, <1>5, Sizes DEF Direct
<1> QED
  BY <1>1, <1>4, <1>6 DEF RouteOnTop, Accepted, Accepting

\* So is the first request for a function.
LEMMA FirstAccepts ==
  ASSUME Types, NEW r \in RouteIds, NEW o \in Options, RouteFirst(r, o)
  PROVE  Accepting(r, o)
<1>1. slots' = IF Slotted(o) THEN slots + 1 ELSE slots
  BY DEF RouteFirst
<1>2. SlotsOK'
  BY <1>1 DEF Slotted, SlotsOK, Types
<1>3. form' \in {"short", "medium", "long"}
  BY DEF RouteFirst, Accepted, Direct
<1> QED
  BY <1>2, <1>3 DEF RouteFirst, Accepted, Accepting

\* A request comes to nothing, before or after it was accepted.
Refusing(r) ==
    /\ status[r] \in {"new", "write"}
    /\ status[r] = "new" => CanStart(r)
    /\ status' = [status EXCEPT ![r] = "failed"]
    /\ \E o \in Options : asked' = [asked EXCEPT ![r] = o]
    /\ succeeded' = succeeded \/ succeeded' = succeeded \cup {r}
    /\ SlotsOK'
    /\ UNCHANGED <<jump, target, prior, org, form, chained, trampoline, stored, deinited, stopped>>

\* The three ways to fail.
LEMMA FailuresRefuse ==
  ASSUME Types, NEW r \in RouteIds,
         \/ \E o \in Options : RouteRefused(r, o) \/ TrampolineFails(r, o)
         \/ WriteFails(r)
  PROVE  Refusing(r)
<1>1. ASSUME NEW o \in Options, RouteRefused(r, o) PROVE Refusing(r)
  BY <1>1 DEF RouteRefused, ReturnEinval, Refusing, CanStart, Types, SlotsOK
<1>2. ASSUME NEW o \in Options, TrampolineFails(r, o) PROVE Refusing(r)
  <2>1. slots' = IF Slotted(o) THEN slots + 1 ELSE slots
    BY <1>2 DEF TrampolineFails
  <2>2. SlotsOK'
    BY <2>1 DEF Slotted, SlotsOK, Types
  <2> QED
    BY <1>2, <2>2 DEF TrampolineFails, ReturnEinval, Refusing, CanStart
<1>3. ASSUME WriteFails(r) PROVE Refusing(r)
  <2>1. asked[r] \in Options /\ asked' = [asked EXCEPT ![r] = asked[r]]
    BY <1>3 DEF WriteFails, ReturnEinval, Types, RequestsOK
  <2> QED
    BY <1>3, <2>1 DEF WriteFails, ReturnEinval, Refusing, Types, SlotsOK
<1> QED
  BY <1>1, <1>2, <1>3

-----------------------------------------------------------------------------
(* kpatches *)

\* A vector with what push_back answered.
Vector == {v \in [list : Seq(Patched), rsvd : Nat, pushed : Seq(BOOLEAN)] :
             Len(v.list) <= v.rsvd}

\* kpatches with patches of r behind.
Extended(r, v) ==
    /\ v \in Vector
    /\ Len(kpatches) <= Len(v.list)
    /\ \A k \in 1..Len(v.list) :
         IF k <= Len(kpatches) THEN v.list[k] = kpatches[k] ELSE v.list[k][1] = r

\* push_back puts the patch behind, if there is memory.
LEMMA Growing ==
  ASSUME PatchesOK, NEW r \in RouteIds, NEW v, Extended(r, v), NEW x \in Part, NEW ok \in BOOLEAN
  PROVE  /\ Extended(r, Grow(v, <<r, x>>, ok))
         /\ Len(v.list) <= Len(Grow(v, <<r, x>>, ok).list)
         /\ ok => Len(Grow(v, <<r, x>>, ok).list) = Len(v.list) + 1
<1> DEFINE p == <<r, x>>
           g == Grow(v, p, ok)
           n == Len(kpatches)
<1>1. p \in Patched /\ p[1] = r
  BY DEF Patched
<1> HIDE DEF p
<1>2. /\ v.list \in Seq(Patched) /\ v.rsvd \in Nat /\ v.pushed \in Seq(BOOLEAN)
      /\ Len(v.list) <= v.rsvd /\ v \in [list : Seq(Patched), rsvd : Nat, pushed : Seq(BOOLEAN)]
      /\ n \in Nat
  BY DEF Extended, Vector, PatchesOK
<1>3. /\ g.list \in {v.list, Append(v.list, p)}
      /\ g.rsvd \in Nat /\ Len(g.list) <= g.rsvd
      /\ g.pushed \in Seq(BOOLEAN)
      /\ ok => g.list = Append(v.list, p)
      /\ g = [list |-> g.list, rsvd |-> g.rsvd, pushed |-> g.pushed]
  <2>1. CASE Len(v.list) < v.rsvd
    <3>1. g = [v EXCEPT !.list = Append(v.list, p), !.pushed = Append(v.pushed, TRUE)]
      BY <2>1 DEF Grow
    <3>2. g = [list |-> Append(v.list, p), rsvd |-> v.rsvd, pushed |-> Append(v.pushed, TRUE)]
      BY <1>2, <3>1
    <3> HIDE DEF g
    <3> QED
      BY <1>1, <1>2, <2>1, <3>2
  <2>2. CASE ~(Len(v.list) < v.rsvd) /\ ok
    <3>1. g = [list |-> Append(v.list, p), rsvd |-> 4 * (Len(v.list) + 1),
               pushed |-> Append(v.pushed, TRUE)]
      BY <2>2 DEF Grow
    <3> HIDE DEF g
    <3> QED
      BY <1>1, <1>2, <2>2, <3>1
  <2>3. CASE ~(Len(v.list) < v.rsvd) /\ ~ok
    <3>1. g = [v EXCEPT !.pushed = Append(v.pushed, FALSE)]
      BY <2>3 DEF Grow
    <3>2. g = [list |-> v.list, rsvd |-> v.rsvd, pushed |-> Append(v.pushed, FALSE)]
      BY <1>2, <3>1
    <3> HIDE DEF g
    <3> QED
      BY <1>1, <1>2, <2>3, <3>2
  <2> QED
    BY <2>1, <2>2, <2>3
<1> HIDE DEF g
<1>4. g.list \in Seq(Patched) /\ Len(v.list) <= Len(g.list)
      /\ (ok => Len(g.list) = Len(v.list) + 1)
  <2>1. /\ Append(v.list, p) \in Seq(Patched)
        /\ Len(Append(v.list, p)) = Len(v.list) + 1 /\ Len(v.list) \in Nat
    BY <1>1, <1>2
  <2>2. CASE g.list = v.list
    <3>1. ~ok
      <4>1. CASE ok
        <5>1. v.list = Append(v.list, p)
          BY <1>3, <2>2, <4>1
        <5> QED
          BY <2>1, <5>1
      <4> QED
        BY <4>1
    <3> QED
      BY <1>2, <2>1, <2>2, <3>1
  <2>3. CASE g.list = Append(v.list, p)
    BY <2>1, <2>3
  <2> QED
    BY <1>3, <2>2, <2>3
<1>5. g \in Vector
  BY <1>3, <1>4 DEF Vector
<1>6. \A k \in 1..Len(g.list) : IF k <= n THEN g.list[k] = kpatches[k] ELSE g.list[k][1] = r
  <2>1. CASE g.list = v.list
    BY <2>1 DEF Extended
  <2>2. CASE g.list = Append(v.list, p)
    BY <1>1, <1>2, <2>2 DEF Extended
  <2> QED
    BY <1>3, <2>1, <2>2
<1>7. n <= Len(g.list)
  BY <1>2, <1>4 DEF Extended
<1> QED
  BY <1>4, <1>5, <1>6, <1>7 DEF Extended, g, p

\* All parts of a jump are put behind kpatches, if there is memory.
LEMMA Pushing ==
  ASSUME PatchesOK, form \in JumpForms, NEW r \in RouteIds, NEW ok \in [1..3 -> BOOLEAN]
  PROVE  /\ Extended(r, PushAll(r, ok))
         /\ (\A k \in 1..3 : ok[k]) => Len(PushAll(r, ok).list) > Len(kpatches)
<1> DEFINE push(v, k) == Grow(v, <<r, Parts(form)[k]>>, ok[k])
           v0 == [list |-> kpatches, rsvd |-> rsvd, pushed |-> <<>>]
           v1 == push(v0, 1)
           v2 == push(v1, 2)
           v3 == push(v2, 3)
<1>1. PushAll(r, ok) = IF Len(Parts(form)) = 2 THEN v2 ELSE v3
  BY DEF PushAll
<1>2. /\ Parts(form)[1] \in Part /\ Parts(form)[2] \in Part
      /\ Len(Parts(form)) # 2 => Parts(form)[3] \in Part
  BY DEF Parts, Part
<1>3. Extended(r, v0) /\ v0.list = kpatches
  BY DEF Extended, Vector, PatchesOK
<1>4. Extended(r, v1) /\ (ok[1] => Len(v1.list) = Len(kpatches) + 1)
  <2> HIDE DEF v0
  <2> QED
    BY <1>2, <1>3, Growing
<1>5. Extended(r, v2) /\ Len(v1.list) <= Len(v2.list)
  <2> HIDE DEF v1
  <2> QED
    BY <1>2, <1>4, Growing
<1>6. Len(Parts(form)) # 2 => Extended(r, v3) /\ Len(v2.list) <= Len(v3.list)
  <2> HIDE DEF v2
  <2> QED
    BY <1>2, <1>5, Growing
<1>7. Len(v1.list) \in Nat /\ Len(v2.list) \in Nat /\ Len(kpatches) \in Nat
      /\ (Len(Parts(form)) # 2 => Len(v3.list) \in Nat)
  <2> HIDE DEF v1, v2, v3
  <2> QED
    BY <1>4, <1>5, <1>6 DEF Extended, Vector, PatchesOK
<1> HIDE DEF v1, v2, v3
<1> QED
  BY <1>1, <1>4, <1>5, <1>6, <1>7

\* A jump that was written is kept for deinit or not; with one, patches of other
\* requests may be lost, but only for lack of memory.
Storing(r, s) ==
    /\ status[r] = "store"
    /\ status' = [status EXCEPT ![r] = s] /\ s \in {"done", "unstored"}
    /\ succeeded' = succeeded \/ succeeded' = succeeded \cup {r}
    /\ org' = IF asked[r].via = "multiple" THEN org ELSE [org EXCEPT ![r] = trampoline]
    /\ PatchesOK'
    /\ \A k \in DOMAIN kpatches' :
         \/ \E j \in DOMAIN kpatches : kpatches'[k] = kpatches[j]
         \/ kpatches'[k][1] = r /\ Revertible(r)
    /\ s = "done" =>
         /\ \A j \in DOMAIN kpatches : \E k \in DOMAIN kpatches' : kpatches'[k] = kpatches[j]
         /\ Revertible(r) => \E k \in DOMAIN kpatches' : kpatches'[k][1] = r
    /\ stopped' \in {stopped, "undefined"}
    /\ UNCHANGED <<jump, target, prior, asked, form, chained, trampoline, slots, deinited>>

\* The patches are kept.
LEMMA StoreStores ==
  ASSUME Types, NEW r \in RouteIds, StorePatches(r)
  PROVE  Storing(r, "done")
<1>1. PatchesOK /\ form \in JumpForms
  BY DEF Types, MakingOK
<1> DEFINE ok == [k \in 1..3 |-> TRUE]
           v == PushAll(r, ok)
<1>2. Extended(r, v) /\ Len(v.list) > Len(kpatches)
  BY <1>1, Pushing
<1>3. kpatches' = v.list /\ rsvd' = v.rsvd
  BY DEF StorePatches
<1> HIDE DEF v
<1>4. v.list \in Seq(Patched) /\ v.rsvd \in Nat /\ Len(v.list) <= v.rsvd /\ Len(kpatches) \in Nat
      /\ Len(kpatches) <= Len(v.list) /\ kpatches \in Seq(Patched)
      /\ \A k \in 1..Len(v.list) : IF k <= Len(kpatches) THEN v.list[k] = kpatches[k] ELSE v.list[k][1] = r
  BY <1>1, <1>2 DEF Extended, Vector, PatchesOK
<1>5. PatchesOK'
  BY <1>1, <1>3, <1>4 DEF PatchesOK, StorePatches
<1>6. \A k \in DOMAIN kpatches' :
         \/ \E j \in DOMAIN kpatches : kpatches'[k] = kpatches[j]
         \/ kpatches'[k][1] = r
  BY <1>3, <1>4
<1>7. \A j \in DOMAIN kpatches : \E k \in DOMAIN kpatches' : kpatches'[k] = kpatches[j]
  BY <1>3, <1>4
<1>8. \E k \in DOMAIN kpatches' : kpatches'[k][1] = r
  <2>1. Len(kpatches) + 1 \in 1..Len(v.list)
    BY <1>2, <1>4
  <2> QED
    BY <1>3, <1>4, <2>1
<1> QED
  BY <1>5, <1>6, <1>7, <1>8 DEF StorePatches, Returned, Storing

\* The patches are deleted.
LEMMA DropStores ==
  ASSUME Types, NEW r \in RouteIds, DropPatches(r)
  PROVE  Storing(r, "done")
<1>1. \A k \in DOMAIN Parts(form) : Parts(form)[k] \in Part
  BY DEF Parts, Part
<1>2. PatchesOK'
  BY <1>1 DEF DropPatches, PatchesOK, Types, Patched
<1> QED
  BY <1>2 DEF DropPatches, Returned, Storing

\* Some patches are lost.
LEMMA FailStores ==
  ASSUME Types, NEW r \in RouteIds, StoreFails(r)
  PROVE  Storing(r, "unstored")
<1>1. PatchesOK /\ form \in JumpForms
  BY DEF Types, MakingOK
<1>2. PICK ok \in [1..3 -> BOOLEAN] :
       LET v == PushAll(r, ok)
           n == Cardinality({k \in DOMAIN v.pushed : v.pushed[k]})
       IN  /\ n < Len(v.pushed)
           /\ rsvd' = v.rsvd
           /\ IF n > 0 /\ Len(v.list) < n + 1
              THEN stopped' = "undefined" /\ UNCHANGED <<kpatches, freed>>
              ELSE /\ kpatches' = IF n = 0 THEN v.list
                                  ELSE <<Head(v.list)>> \o SubSeq(v.list, n + 2, Len(v.list))
                   /\ freed' = freed
                        \cup {v.list[k] : k \in 2..(n + 1)}
                        \cup {<<r, Parts(form)[k]>> : k \in DOMAIN Parts(form)}
                   /\ UNCHANGED stopped
  BY DEF StoreFails
<1> DEFINE v == PushAll(r, ok)
           n == Cardinality({k \in DOMAIN v.pushed : v.pushed[k]})
<1>3. Extended(r, v)
  BY <1>1, Pushing
<1>4. n \in Nat
  <2>1. DOMAIN v.pushed = 1..Len(v.pushed) /\ Len(v.pushed) \in Nat
    BY <1>3 DEF Extended, Vector
  <2>2. IsFiniteSet(1..Len(v.pushed))
    BY <2>1, FS_Interval
  <2> QED
    BY <2>1, <2>2, FS_Subset, FS_CardinalityType
<1> HIDE DEF v, n
<1>5. v.list \in Seq(Patched) /\ v.rsvd \in Nat /\ Len(v.list) <= v.rsvd /\ Len(kpatches) \in Nat
      /\ Len(kpatches) <= Len(v.list) /\ kpatches \in Seq(Patched)
      /\ \A k \in 1..Len(v.list) : IF k <= Len(kpatches) THEN v.list[k] = kpatches[k] ELSE v.list[k][1] = r
  BY <1>1, <1>3 DEF Extended, Vector, PatchesOK
<1>6. rsvd' = v.rsvd
  BY <1>2 DEF v
<1>7. CASE n > 0 /\ Len(v.list) < n + 1
  <2>1. stopped' = "undefined" /\ UNCHANGED <<kpatches, freed>>
    BY <1>2, <1>7 DEF v, n
  <2>2. PatchesOK'
    BY <1>1, <1>5, <1>6, <2>1 DEF PatchesOK
  <2> QED
    BY <2>1, <2>2 DEF StoreFails, Returned, Storing
<1>8. CASE ~(n > 0 /\ Len(v.list) < n + 1)
  <2>1. /\ kpatches' = IF n = 0 THEN v.list
                       ELSE <<Head(v.list)>> \o SubSeq(v.list, n + 2, Len(v.list))
        /\ freed' = freed
                        \cup {v.list[k] : k \in 2..(n + 1)}
                        \cup {<<r, Parts(form)[k]>> : k \in DOMAIN Parts(form)}
        /\ UNCHANGED stopped
    BY <1>2, <1>8 DEF v, n
  <2>2. /\ kpatches' \in Seq(Patched) /\ Len(kpatches') <= Len(v.list)
        /\ \A k \in DOMAIN kpatches' : \E j \in 1..Len(v.list) : kpatches'[k] = v.list[j]
    <3>1. CASE n = 0
      <4>1. kpatches' = v.list
        BY <2>1, <3>1
      <4>2. DOMAIN v.list = 1..Len(v.list) /\ Len(v.list) \in Nat
        BY <1>5
      <4> QED
        BY <1>5, <4>1, <4>2
    <3>2. CASE n > 0
      <4> DEFINE rest == SubSeq(v.list, n + 2, Len(v.list))
                 m == Len(rest)
      <4>1. n + 1 <= Len(v.list) /\ Head(v.list) = v.list[1] /\ v.list[1] \in Patched
        BY <1>4, <1>5, <1>8, <3>2
      <4>2. /\ rest \in Seq(Patched) /\ m = Len(v.list) - n - 1
            /\ \A k \in 1..m : rest[k] = v.list[n + 1 + k]
        BY <1>4, <1>5, <4>1
      <4> HIDE DEF rest
      <4>3. kpatches' = <<v.list[1]>> \o rest
        <5>1. n # 0
          BY <1>4, <3>2
        <5>2. kpatches' = <<Head(v.list)>> \o SubSeq(v.list, n + 2, Len(v.list))
          BY <2>1, <5>1
        <5> QED
          BY <4>1, <5>2 DEF rest
      <4>4. /\ kpatches' \in Seq(Patched) /\ Len(kpatches') = m + 1
            /\ kpatches'[1] = v.list[1]
            /\ \A k \in 2..(m + 1) : kpatches'[k] = rest[k - 1]
        BY <4>1, <4>2, <4>3
      <4>5. \A k \in DOMAIN kpatches' : \E j \in 1..Len(v.list) : kpatches'[k] = v.list[j]
        <5>0. DOMAIN kpatches' = 1..(m + 1)
          BY <4>4
        <5> SUFFICES ASSUME NEW k \in 1..(m + 1)
                     PROVE  \E j \in 1..Len(v.list) : kpatches'[k] = v.list[j]
          BY <5>0
        <5>1. CASE k = 1
          BY <1>4, <1>5, <4>1, <4>4, <5>1
        <5>2. CASE k # 1
          <6>1. k - 1 \in 1..m /\ k \in 2..(m + 1)
            BY <1>4, <1>5, <4>1, <4>2, <5>2
          <6>2. kpatches'[k] = v.list[n + k]
            BY <1>4, <4>2, <4>4, <6>1
          <6>3. n + k \in 1..Len(v.list)
            BY <1>4, <1>5, <4>2, <6>1
          <6> QED
            BY <6>2, <6>3
        <5> QED
          BY <5>1, <5>2
      <4> QED
        BY <1>4, <1>5, <4>1, <4>2, <4>4, <4>5
    <3> QED
      BY <1>4, <3>1, <3>2
  <2>3. freed' \subseteq Patched
    <3>1. \A k \in 2..(n + 1) : n > 0 /\ v.list[k] \in Patched
      BY <1>4, <1>5, <1>8
    <3>2. \A k \in DOMAIN Parts(form) : Parts(form)[k] \in Part
      BY DEF Parts, Part
    <3> QED
      BY <1>1, <2>1, <3>1, <3>2 DEF PatchesOK, Patched
  <2>4. PatchesOK'
    BY <1>5, <1>6, <2>2, <2>3 DEF PatchesOK
  <2>5. \A k \in DOMAIN kpatches' :
         \/ \E j \in DOMAIN kpatches : kpatches'[k] = kpatches[j]
         \/ kpatches'[k][1] = r
    <3> SUFFICES ASSUME NEW k \in DOMAIN kpatches'
                 PROVE  \/ \E j \in DOMAIN kpatches : kpatches'[k] = kpatches[j]
                        \/ kpatches'[k][1] = r
      OBVIOUS
    <3>1. PICK i \in 1..Len(v.list) : kpatches'[k] = v.list[i]
      BY <2>2
    <3>2. IF i <= Len(kpatches) THEN v.list[i] = kpatches[i] ELSE v.list[i][1] = r
      BY <1>5
    <3>3. i <= Len(kpatches) => i \in DOMAIN kpatches
      BY <1>5
    <3> QED
      BY <3>1, <3>2, <3>3
  <2>6. Revertible(r)
    BY DEF StoreFails
  <2> QED
    BY <2>1, <2>4, <2>5, <2>6 DEF StoreFails, Returned, Storing
<1> QED
  BY <1>7, <1>8

-----------------------------------------------------------------------------
(* The inductive invariant *)

\* One request at a time is being made, and none after deinit.
OneAtATime ==
    /\ \A q, r \in RouteIds : status[q] \in Making /\ status[r] \in Making => q = r
    /\ deinited # "no" => \A r \in RouteIds : status[r] \notin Making

\* A function without a jump leads to its own body and has no requests.
Unrouted ==
  deinited = "no" =>
    \A f \in Routables : jump[f] = "none" => target[f] = Original /\ Routed(f) = {}

\* The request about to write its jump fits on the one in place.
Fitting ==
  \A r \in RouteIds : status[r] = "write" =>
    /\ form # "none"
    /\ chained <=> jump[asked[r].fn] # "none"
    /\ chained => Size[form] <= Size[jump[asked[r].fn]]
    /\ asked[r].wrapper => trampoline = target[asked[r].fn]
    /\ asked[r].wrapper /\ asked[r].via = "multiple" => org[r] = trampoline

\* A request whose jump is written has what it found as its original.
Continuing ==
  \A r \in RouteIds :
    /\ status[r] = "store" =>
         /\ chained <=> prior[r][1] # "none"
         /\ asked[r].wrapper => trampoline = prior[r][2]
         /\ asked[r].wrapper /\ asked[r].via = "multiple" => org[r] = trampoline
    /\ status[r] \in InPlace => (prior[r][1] = "none" => prior[r][2] = Original)
    /\ status[r] \in {"done", "unstored"} /\ asked[r].wrapper => org[r] = prior[r][2]

\* What is stored for deinit is what was there before anything was routed, and a
\* routed function has such a patch, unless it is permanent.
PristineStored ==
  \A k \in DOMAIN kpatches :
    /\ status[kpatches[k][1]] \in {"done", "unstored"}
    /\ prior[kpatches[k][1]] = <<"none", Original>>

Restorable(f) ==
  \E r \in Routed(f) :
    /\ prior[r][1] = "none"
    /\ \/ status[r] = "store" \/ asked[r].via = "permanent"
       \/ \E k \in DOMAIN kpatches : kpatches[k][1] = r

RoutesStored ==
  deinited = "no" /\ (\A r \in RouteIds : status[r] # "unstored") =>
    \A f \in Routables : jump[f] # "none" => Restorable(f)

\* s is the chain of the requests of f, the latest first.
Chain(f, s) ==
    /\ \A i, j \in 1..Len(s) : s[i] = s[j] => i = j
    /\ Routed(f) = {s[i] : i \in 1..Len(s)}
    /\ target[f] = IF Len(s) = 0 THEN Original ELSE s[1]
    /\ \A i \in 1..Len(s) : prior[s[i]][2] = IF i = Len(s) THEN Original ELSE s[i + 1]

Chains ==
  deinited = "no" => \A f \in Routables : \E s \in Seq(RouteIds) : Chain(f, s)

RouteInv ==
    /\ Types /\ OneAtATime /\ Unrouted /\ Fitting /\ Continuing
    /\ PristineStored /\ RoutesStored /\ Chains /\ DeinitRestores

\* Lilu panics.
Panicking ==
    /\ stopped' = "panic"
    /\ UNCHANGED <<jump, target, prior, org, request, slots, stored, deinited>>

\* Every step is one of these.
LEMMA Steps ==
  ASSUME Types, Next
  PROVE  \/ \E r \in RouteIds, o \in Options : Accepting(r, o)
         \/ \E r \in RouteIds : Refusing(r)
         \/ \E r \in RouteIds : WriteJump(r)
         \/ \E r \in RouteIds, s \in {"done", "unstored"} : Storing(r, s)
         \/ Deinit
         \/ Panicking
<1>1. ASSUME NEW r \in RouteIds, NEW o \in Options, ChainPanics(r, o) PROVE Panicking
  BY <1>1 DEF ChainPanics, Panicking
<1>2. ASSUME NEW r \in RouteIds, NEW o \in Options, RouteRefused(r, o) \/ TrampolineFails(r, o)
      PROVE  Refusing(r)
  BY <1>2, FailuresRefuse
<1>3. ASSUME NEW r \in RouteIds, WriteFails(r) PROVE Refusing(r)
  BY <1>3, FailuresRefuse
<1> QED
  BY <1>1, <1>2, <1>3, OnTopAccepts, FirstAccepts, StoreStores, DropStores, FailStores DEF Next

\* Every set of numbers that is not empty has a least one.
LEMMA LeastNat ==
  ASSUME NEW T \in SUBSET Nat, T # {}
  PROVE  \E n \in T : \A m \in T : n <= m
<1>1. PICK x \in T : \A y \in T : ~(<<y, x>> \in OpToRel(<, Nat))
  BY NatLessThanWellFounded, WFMin
<1>2. \A y \in T : ~(y < x)
  BY <1>1 DEF OpToRel
<1> QED
  BY <1>2

\* Induction over the numbers in a set.
LEMMA NatSetInduction ==
  ASSUME NEW S, 0 \in S, \A n \in Nat : n \in S => n + 1 \in S
  PROVE  Nat \subseteq S
<1>1. SUFFICES ASSUME Nat \ S # {} PROVE FALSE
  OBVIOUS
<1>2. PICK n \in Nat \ S : \A m \in Nat \ S : n <= m
  BY <1>1, LeastNat
<1>3. n # 0 /\ n - 1 \in Nat /\ n - 1 \notin Nat \ S
  BY <1>2
<1>4. (n - 1) + 1 \in S
  BY <1>3
<1> QED
  BY <1>2, <1>4

\* A set of positions that is not empty has a last one.
LEMMA LastPosition ==
  ASSUME NEW n \in Nat, NEW S \in SUBSET (1..n), S # {}
  PROVE  Max(S) \in S
<1> DEFINE T == {n - k : k \in S}
<1>1. T # {} /\ T \in SUBSET Nat
  <2>1. PICK k \in S : k \in 1..n
    OBVIOUS
  <2>2. n - k \in T
    OBVIOUS
  <2>3. \A y \in S : n - y \in Nat
    OBVIOUS
  <2> QED
    BY <2>2, <2>3
<1>2. PICK t \in T : \A u \in T : t <= u
  <2> HIDE DEF T
  <2> QED
    BY <1>1, LeastNat
<1>3. PICK k \in S : t = n - k
  BY <1>2
<1>4. \A y \in S : k >= y
  <2> SUFFICES ASSUME NEW y \in S PROVE k >= y
    OBVIOUS
  <2>1. n - y \in T
    OBVIOUS
  <2>2. n - k <= n - y
    BY <1>2, <1>3, <2>1
  <2> QED
    BY <2>2
<1> QED
  BY <1>3, <1>4 DEF Max

\* Restoring f takes the saved bytes of a request of f, or leaves it alone.
LEMMA Restoring ==
  ASSUME Types, NEW f \in Routables
  PROVE  \/ /\ Restored(f) = <<jump[f], target[f]>>
            /\ \A k \in DOMAIN kpatches : asked[kpatches[k][1]].fn # f
         \/ \E k \in DOMAIN kpatches :
              /\ Restored(f) = prior[kpatches[k][1]]
              /\ asked[kpatches[k][1]].fn = f
<1> DEFINE of == {k \in DOMAIN kpatches : asked[kpatches[k][1]].fn = f}
<1>1. Restored(f) = IF of = {} THEN <<jump[f], target[f]>> ELSE prior[kpatches[Max(of)][1]]
  BY DEF Restored
<1>2. DOMAIN kpatches = 1..Len(kpatches) /\ Len(kpatches) \in Nat
  BY DEF Types, PatchesOK
<1>3. CASE of = {}
  BY <1>1, <1>3
<1>4. CASE of # {}
  <2>1. of \in SUBSET (1..Len(kpatches))
    BY <1>2
  <2>2. Max(of) \in of
    BY <1>2, <1>4, <2>1, LastPosition
  <2> QED
    BY <1>1, <1>4, <2>2
<1> QED
  BY <1>3, <1>4

-----------------------------------------------------------------------------
(* The steps keep the invariant *)

\* A request that is accepted.
LEMMA AcceptingKeeps ==
  ASSUME RouteInv, NEW r \in RouteIds, NEW o \in Options, Accepting(r, o)
  PROVE  RouteInv'
<1> USE DEF RouteInv, Accepting, InPlace, Making
<1>1. /\ status[r] = "new" /\ deinited = "no"
      /\ \A q \in RouteIds : status[q] \notin Making
  BY DEF CanStart
<1>2. /\ \A q \in RouteIds : q # r => status'[q] = status[q] /\ asked'[q] = asked[q] /\ org'[q] = org[q]
      /\ status'[r] = "write" /\ asked'[r] = o
      /\ o.via = "multiple" => org'[r] = trampoline'
  BY DEF Types, RequestsOK, JumpsOK
<1>3. o.fn \in Routables
  BY DEF Options
<1>4. trampoline' \in RouteIds \cup {Original, Null}
  <2>1. o.wrapper \in BOOLEAN
    BY DEF Options
  <2>2. target[o.fn] \in RouteIds \cup {Original}
    BY <1>3 DEF Types, JumpsOK
  <2> QED
    BY <2>1, <2>2
<1>5. Types'
  <2>1. JumpsOK'
    BY <1>4 DEF Types, JumpsOK
  <2>2. RequestsOK'
    BY <1>2 DEF Types, RequestsOK
  <2>3. MakingOK'
    BY <1>4 DEF MakingOK, JumpForms
  <2>4. PatchesOK' /\ EndOK' /\ SlotsOK'
    BY DEF Types, PatchesOK, EndOK, stored
  <2> QED
    BY <2>1, <2>2, <2>3, <2>4 DEF Types
<1>6. OneAtATime'
  BY <1>1, <1>2 DEF OneAtATime
<1>7. \A f \in Routables : Routed(f)' = Routed(f)
  BY <1>1, <1>2 DEF Routed
<1>8. Unrouted'
  BY <1>7 DEF Unrouted
<1>9. Fitting'
  <2> SUFFICES ASSUME NEW q \in RouteIds, status'[q] = "write"
               PROVE  /\ form' # "none"
                      /\ chained' <=> jump[asked'[q].fn] # "none"
                      /\ chained' => Size[form'] <= Size[jump[asked'[q].fn]]
                      /\ asked'[q].wrapper => trampoline' = target[asked'[q].fn]
                      /\ asked'[q].wrapper /\ asked'[q].via = "multiple" => org'[q] = trampoline'
    BY DEF Fitting
  <2>1. q = r /\ asked'[q] = o
    BY <1>1, <1>2
  <2>2. ~chained' => target[o.fn] = Original
    BY <1>1, <1>3 DEF Unrouted
  <2> QED
    BY <1>2, <2>1, <2>2
<1>10. Continuing'
  BY <1>1, <1>2 DEF Continuing
<1>11. PristineStored'
  <2>1. \A k \in DOMAIN kpatches : kpatches[k][1] \in RouteIds /\ kpatches[k][1] # r
    <3>1. \A k \in DOMAIN kpatches : kpatches[k] \in Patched
      BY DEF Types, PatchesOK
    <3> QED
      BY <1>1, <3>1 DEF PristineStored, Patched
  <2> QED
    BY <1>2, <2>1 DEF PristineStored, stored
<1>12. RoutesStored'
  <2> SUFFICES ASSUME \A q \in RouteIds : status'[q] # "unstored",
                      NEW f \in Routables, jump[f] # "none"
               PROVE  Restorable(f)'
    BY DEF RoutesStored
  <2>1. \A q \in RouteIds : status[q] # "unstored"
    BY <1>1, <1>2
  <2>2. Restorable(f)
    BY <1>1, <2>1 DEF RoutesStored
  <2>3. \A q \in Routed(f) : q # r
    BY <1>1 DEF Routed
  <2>4. \A q \in Routed(f) : q \in RouteIds
    BY DEF Routed
  <2> QED
    BY <1>2, <1>7, <2>2, <2>3, <2>4 DEF Restorable, stored
<1>13. Chains'
  BY <1>1, <1>7 DEF Chains, Chain
<1>14. DeinitRestores'
  BY <1>1 DEF DeinitRestores
<1> QED
  BY <1>5, <1>6, <1>8, <1>9, <1>10, <1>11, <1>12, <1>13, <1>14

\* A request that comes to nothing.
LEMMA RefusingKeeps ==
  ASSUME RouteInv, NEW r \in RouteIds, Refusing(r)
  PROVE  RouteInv'
<1> USE DEF RouteInv, Refusing, InPlace, Making
<1>1. deinited = "no" /\ status[r] \notin InPlace
  BY DEF CanStart, OneAtATime
<1>0. PICK o \in Options : asked' = [asked EXCEPT ![r] = o]
  OBVIOUS
<1>2. /\ \A q \in RouteIds : q # r => status'[q] = status[q] /\ asked'[q] = asked[q]
      /\ status'[r] = "failed" /\ asked'[r] = o
  BY <1>0 DEF Types, RequestsOK
<1>5. Types'
  <2>1. JumpsOK' /\ MakingOK'
    BY DEF Types, JumpsOK, MakingOK
  <2>2. RequestsOK'
    BY <1>0, <1>2 DEF Types, RequestsOK
  <2>4. PatchesOK' /\ EndOK' /\ SlotsOK'
    BY DEF Types, PatchesOK, EndOK, stored
  <2> QED
    BY <2>1, <2>2, <2>4 DEF Types
<1>6. OneAtATime'
  BY <1>1, <1>2 DEF OneAtATime
<1>7. \A f \in Routables : Routed(f)' = Routed(f)
  BY <1>1, <1>2 DEF Routed
<1>8. Unrouted'
  BY <1>7 DEF Unrouted
<1>9. Fitting'
  BY <1>2 DEF Fitting
<1>10. Continuing'
  BY <1>1, <1>2 DEF Continuing
<1>11. PristineStored'
  <2>1. \A k \in DOMAIN kpatches : kpatches[k][1] \in RouteIds /\ kpatches[k][1] # r
    <3>1. \A k \in DOMAIN kpatches : kpatches[k] \in Patched
      BY DEF Types, PatchesOK
    <3> QED
      BY <1>1, <3>1 DEF PristineStored, Patched
  <2> QED
    BY <1>2, <2>1 DEF PristineStored, stored
<1>12. RoutesStored'
  <2> SUFFICES ASSUME \A q \in RouteIds : status'[q] # "unstored",
                      NEW f \in Routables, jump[f] # "none"
               PROVE  Restorable(f)'
    BY DEF RoutesStored
  <2>1. \A q \in RouteIds : status[q] # "unstored"
    BY <1>1, <1>2
  <2>2. Restorable(f)
    BY <1>1, <2>1 DEF RoutesStored
  <2>3. \A q \in Routed(f) : q # r
    BY <1>1 DEF Routed
  <2>4. \A q \in Routed(f) : q \in RouteIds
    BY DEF Routed
  <2> QED
    BY <1>2, <1>7, <2>2, <2>3, <2>4 DEF Restorable, stored
<1>13. Chains'
  BY <1>1, <1>7 DEF Chains, Chain
<1>14. DeinitRestores'
  BY <1>1 DEF DeinitRestores
<1> QED
  BY <1>5, <1>6, <1>8, <1>9, <1>10, <1>11, <1>12, <1>13, <1>14

\* A jump is written.
LEMMA WritingKeeps ==
  ASSUME RouteInv, NEW r \in RouteIds, WriteJump(r)
  PROVE  RouteInv'
<1> USE DEF RouteInv, WriteJump, InPlace, Making
<1> DEFINE fn == asked[r].fn
<1>1. /\ deinited = "no" /\ asked[r] \in Options /\ fn \in Routables
      /\ form # "none" /\ form \in JumpForms
  BY DEF OneAtATime, Types, RequestsOK, MakingOK, Fitting, Options
<1>2. /\ \A q \in RouteIds : q # r => status'[q] = status[q] /\ prior'[q] = prior[q]
      /\ status'[r] = "store" /\ prior'[r] = <<jump[fn], target[fn]>>
      /\ \A f \in Routables : f # fn => jump'[f] = jump[f] /\ target'[f] = target[f]
      /\ jump'[fn] = form /\ target'[fn] = r
  BY <1>1 DEF Types, RequestsOK, JumpsOK
<1> HIDE DEF fn
<1>5. Types'
  <2>1. JumpsOK'
    <3>1. <<jump[fn], target[fn]>> \in JumpForms \X (RouteIds \cup {Original})
      BY <1>1 DEF Types, JumpsOK
    <3> QED
      BY <1>1, <3>1 DEF Types, JumpsOK, fn
  <2>2. RequestsOK'
    BY <1>2 DEF Types, RequestsOK
  <2>4. PatchesOK' /\ EndOK' /\ SlotsOK' /\ MakingOK'
    BY DEF Types, PatchesOK, EndOK, SlotsOK, MakingOK, stored
  <2> QED
    BY <2>1, <2>2, <2>4 DEF Types
<1>6. OneAtATime'
  BY <1>1, <1>2 DEF OneAtATime
<1>7. /\ \A f \in Routables : f # fn => Routed(f)' = Routed(f)
      /\ \A f \in Routables : f = fn => Routed(f)' = Routed(f) \cup {r} /\ r \notin Routed(f)
      /\ \A f \in Routables : f # fn => r \notin Routed(f)
  BY <1>2 DEF Routed, fn
<1>8. Unrouted'
  BY <1>1, <1>2, <1>7 DEF Unrouted
<1>9. Fitting'
  BY <1>1, <1>2 DEF Fitting, OneAtATime
<1>10. Continuing'
  <2> SUFFICES ASSUME NEW q \in RouteIds
               PROVE  /\ status'[q] = "store" =>
                           /\ chained <=> prior'[q][1] # "none"
                           /\ asked[q].wrapper => trampoline = prior'[q][2]
                           /\ asked[q].wrapper /\ asked[q].via = "multiple" => org[q] = trampoline
                      /\ status'[q] \in InPlace => (prior'[q][1] = "none" => prior'[q][2] = Original)
                      /\ status'[q] \in {"done", "unstored"} /\ asked[q].wrapper => org[q] = prior'[q][2]
    BY DEF Continuing
  <2>1. CASE q = r
    BY <1>1, <1>2, <2>1 DEF Fitting, Unrouted, fn
  <2>2. CASE q # r
    BY <1>2, <2>2 DEF Continuing, OneAtATime
  <2> QED
    BY <2>1, <2>2
<1>11. PristineStored'
  <2>1. \A k \in DOMAIN kpatches : kpatches[k][1] \in RouteIds /\ kpatches[k][1] # r
    <3>1. \A k \in DOMAIN kpatches : kpatches[k] \in Patched
      BY DEF Types, PatchesOK
    <3> QED
      BY <3>1 DEF PristineStored, Patched
  <2> QED
    BY <1>2, <2>1 DEF PristineStored, stored
<1>12. RoutesStored'
  <2> SUFFICES ASSUME \A q \in RouteIds : status'[q] # "unstored",
                      NEW f \in Routables, jump'[f] # "none"
               PROVE  Restorable(f)'
    BY DEF RoutesStored
  <2>1. \A q \in RouteIds : status[q] # "unstored"
    BY <1>2
  <2>2. CASE f = fn /\ jump[fn] = "none"
    BY <1>2, <1>7, <2>2 DEF Restorable
  <2>3. CASE ~(f = fn /\ jump[fn] = "none")
    <3>1. Restorable(f)
      BY <1>1, <1>2, <2>1, <2>3 DEF RoutesStored
    <3>2. \A q \in Routed(f) : q \in RouteIds /\ q # r /\ q \in Routed(f)'
      BY <1>7 DEF Routed
    <3> QED
      BY <1>2, <3>1, <3>2 DEF Restorable, stored
  <2> QED
    BY <2>2, <2>3
<1>13. Chains'
  <2> SUFFICES ASSUME NEW f \in Routables PROVE \E s \in Seq(RouteIds) : Chain(f, s)'
    BY DEF Chains
  <2>1. PICK s \in Seq(RouteIds) : Chain(f, s)
    BY <1>1 DEF Chains
  <2>2. \A i \in 1..Len(s) : s[i] \in Routed(f) /\ s[i] \in RouteIds
    BY <2>1 DEF Chain
  <2>3. CASE f # fn
    <3>1. \A i \in 1..Len(s) : s[i] # r
      BY <1>7, <2>2, <2>3
    <3>2. Chain(f, s)'
      BY <1>2, <1>7, <2>1, <2>2, <2>3, <3>1 DEF Chain
    <3> QED
      BY <3>2
  <2>4. CASE f = fn
    <3> DEFINE n == Len(s)
               t == [i \in 1..(n + 1) |-> IF i = 1 THEN r ELSE s[i - 1]]
    <3>1. n \in Nat
      OBVIOUS
    <3>2. \A i \in 1..(n + 1) : t[i] \in RouteIds
      <4> SUFFICES ASSUME NEW i \in 1..(n + 1) PROVE (IF i = 1 THEN r ELSE s[i - 1]) \in RouteIds
        OBVIOUS
      <4>1. i # 1 => i - 1 \in 1..n
        BY <3>1
      <4> QED
        BY <2>2, <4>1
    <3>3. t \in Seq(RouteIds) /\ Len(t) = n + 1
      BY <3>1, <3>2, SeqDef
    <3>4. /\ t[1] = r
          /\ \A i \in 2..(n + 1) : t[i] = s[i - 1] /\ i - 1 \in 1..n
          /\ \A i \in 1..n : t[i + 1] = s[i] /\ i + 1 \in 2..(n + 1)
      BY <3>1
    <3> HIDE DEF t, n
    <3>5. \A i \in 1..n : s[i] # r
      BY <1>7, <2>2, <2>4 DEF n
    <3>6. \A i, j \in 1..(n + 1) : t[i] = t[j] => i = j
      <4> SUFFICES ASSUME NEW i \in 1..(n + 1), NEW j \in 1..(n + 1), t[i] = t[j] PROVE i = j
        OBVIOUS
      <4>1. CASE i = 1 \/ j = 1
        <5>1. (i = 1 \/ i \in 2..(n + 1)) /\ (j = 1 \/ j \in 2..(n + 1))
          BY <3>1
        <5> QED
          BY <3>4, <3>5, <4>1, <5>1
      <4>2. CASE i # 1 /\ j # 1
        <5>1. i \in 2..(n + 1) /\ j \in 2..(n + 1)
          BY <3>1, <4>2
        <5>2. s[i - 1] = s[j - 1] /\ i - 1 \in 1..n /\ j - 1 \in 1..n
          BY <3>4, <5>1
        <5>3. i - 1 = j - 1
          BY <2>1, <5>2 DEF Chain, n
        <5> QED
          BY <3>1, <5>3
      <4> QED
        BY <4>1, <4>2
    <3>7. Routed(f)' = {t[i] : i \in 1..(n + 1)}
      <4>1. ASSUME NEW q \in Routed(f)' PROVE \E i \in 1..(n + 1) : q = t[i]
        <5>1. CASE q = r
          <6>1. 1 \in 1..(n + 1)
            BY <3>1
          <6> QED
            BY <3>4, <5>1, <6>1
        <5>2. CASE q # r
          <6>1. PICK i \in 1..n : q = s[i]
            BY <1>7, <2>1, <2>4, <4>1, <5>2 DEF Chain, n
          <6>2. i + 1 \in 1..(n + 1)
            BY <3>1
          <6> QED
            BY <3>4, <6>1, <6>2
        <5> QED
          BY <5>1, <5>2
      <4>2. ASSUME NEW i \in 1..(n + 1) PROVE t[i] \in Routed(f)'
        <5>1. CASE i = 1
          BY <1>7, <2>4, <3>4, <5>1
        <5>2. CASE i # 1
          <6>1. i \in 2..(n + 1)
            BY <3>1, <5>2
          <6> QED
            BY <1>7, <2>2, <2>4, <3>4, <6>1 DEF n
        <5> QED
          BY <5>1, <5>2
      <4> QED
        BY <4>1, <4>2
    <3>8. \A i \in 1..(n + 1) : prior'[t[i]][2] = IF i = n + 1 THEN Original ELSE t[i + 1]
      <4> SUFFICES ASSUME NEW i \in 1..(n + 1)
                   PROVE  prior'[t[i]][2] = IF i = n + 1 THEN Original ELSE t[i + 1]
        OBVIOUS
      <4>1. CASE i = 1
        <5>1. prior'[t[i]][2] = target[fn]
          BY <1>2, <3>4, <4>1
        <5>2. CASE n = 0
          BY <2>1, <2>4, <4>1, <5>1, <5>2 DEF Chain, n
        <5>3. CASE n # 0
          <6>1. target[fn] = s[1] /\ 1 \in 1..n
            BY <2>1, <2>4, <3>1, <5>3 DEF Chain, n
          <6>2. t[2] = s[1] /\ n + 1 # 1
            BY <3>1, <3>4, <5>3
          <6> QED
            BY <4>1, <5>1, <6>1, <6>2
        <5> QED
          BY <5>2, <5>3
      <4>2. CASE i # 1
        <5>1. i \in 2..(n + 1)
          BY <3>1, <4>2
        <5>2. t[i] = s[i - 1] /\ i - 1 \in 1..n
          BY <3>4, <5>1
        <5>3. prior'[t[i]][2] = prior[s[i - 1]][2]
          BY <1>2, <2>2, <3>5, <5>2 DEF n
        <5>4. prior[s[i - 1]][2] = IF i - 1 = n THEN Original ELSE s[(i - 1) + 1]
          BY <2>1, <5>2 DEF Chain, n
        <5>5. (i - 1 = n <=> i = n + 1) /\ (i - 1) + 1 = i /\ (i # n + 1 => i \in 1..n)
          BY <3>1, <5>1
        <5>6. i # n + 1 => t[i + 1] = s[i]
          BY <3>4, <5>5
        <5> QED
          BY <5>3, <5>4, <5>5, <5>6
      <4> QED
        BY <4>1, <4>2
    <3>9. target'[f] = IF Len(t) = 0 THEN Original ELSE t[1]
      BY <1>2, <2>4, <3>1, <3>3, <3>4
    <3>10. Chain(f, t)'
      BY <3>1, <3>3, <3>6, <3>7, <3>8, <3>9 DEF Chain
    <3> QED
      BY <3>3, <3>10
  <2> QED
    BY <2>3, <2>4
<1>14. DeinitRestores'
  BY <1>1 DEF DeinitRestores
<1> QED
  BY <1>5, <1>6, <1>8, <1>9, <1>10, <1>11, <1>12, <1>13, <1>14

\* The patches of a jump are kept or dropped, and its original handed out.
LEMMA StoringKeeps ==
  ASSUME RouteInv, NEW r \in RouteIds, NEW s \in {"done", "unstored"}, Storing(r, s)
  PROVE  RouteInv'
<1> USE DEF RouteInv, Storing, InPlace, Making
<1>1. /\ deinited = "no" /\ asked[r] \in Options
      /\ \A q \in RouteIds : q # r => status[q] \notin Making
  BY DEF OneAtATime, Types, RequestsOK
<1>2. /\ \A q \in RouteIds : q # r => status'[q] = status[q] /\ org'[q] = org[q]
      /\ status'[r] = s
      /\ asked[r].via = "multiple" => org'[r] = org[r]
      /\ asked[r].via # "multiple" => org'[r] = trampoline
  BY DEF Types, RequestsOK, JumpsOK
<1>3. \A k \in DOMAIN kpatches : kpatches[k][1] \in RouteIds
  <2>1. \A k \in DOMAIN kpatches : kpatches[k] \in Patched
    BY DEF Types, PatchesOK
  <2> QED
    BY <2>1 DEF Patched
<1>5. Types'
  <2>1. JumpsOK'
    BY DEF Types, JumpsOK, MakingOK
  <2>2. RequestsOK'
    BY <1>2 DEF Types, RequestsOK
  <2>3. MakingOK' /\ SlotsOK'
    BY DEF Types, MakingOK, SlotsOK
  <2>4. PatchesOK' /\ EndOK'
    BY DEF Types, EndOK
  <2> QED
    BY <2>1, <2>2, <2>3, <2>4 DEF Types
<1>6. OneAtATime'
  BY <1>1, <1>2 DEF OneAtATime
<1>7. \A f \in Routables : Routed(f)' = Routed(f)
  BY <1>2 DEF Routed
<1>8. Unrouted'
  BY <1>7 DEF Unrouted
<1>9. Fitting'
  BY <1>1, <1>2 DEF Fitting
<1>10. Continuing'
  <2> SUFFICES ASSUME NEW q \in RouteIds
               PROVE  /\ status'[q] = "store" =>
                           /\ chained <=> prior[q][1] # "none"
                           /\ asked[q].wrapper => trampoline = prior[q][2]
                           /\ asked[q].wrapper /\ asked[q].via = "multiple" => org'[q] = trampoline
                      /\ status'[q] \in InPlace => (prior[q][1] = "none" => prior[q][2] = Original)
                      /\ status'[q] \in {"done", "unstored"} /\ asked[q].wrapper => org'[q] = prior[q][2]
    BY DEF Continuing
  <2>1. CASE q = r
    BY <1>2, <2>1 DEF Continuing
  <2>2. CASE q # r
    BY <1>2, <2>2 DEF Continuing
  <2> QED
    BY <2>1, <2>2
<1>11. Revertible(r) => prior[r] = <<"none", Original>>
  <2>1. Revertible(r) => prior[r][1] = "none" /\ prior[r][2] = Original
    BY DEF Continuing, Revertible
  <2> QED
    BY <2>1 DEF Types, JumpsOK
<1>12. PristineStored'
  <2> SUFFICES ASSUME NEW k \in DOMAIN kpatches'
               PROVE  /\ status'[kpatches'[k][1]] \in {"done", "unstored"}
                      /\ prior[kpatches'[k][1]] = <<"none", Original>>
    BY DEF PristineStored
  <2>1. CASE kpatches'[k][1] = r /\ Revertible(r)
    BY <1>2, <1>11, <2>1
  <2>2. CASE \E j \in DOMAIN kpatches : kpatches'[k] = kpatches[j]
    BY <1>2, <1>3, <2>2 DEF PristineStored
  <2> QED
    BY <2>1, <2>2
<1>13. RoutesStored'
  <2> SUFFICES ASSUME \A q \in RouteIds : status'[q] # "unstored",
                      NEW f \in Routables, jump[f] # "none"
               PROVE  Restorable(f)'
    BY DEF RoutesStored
  <2>1. s = "done" /\ \A q \in RouteIds : status[q] # "unstored"
    BY <1>2
  <2>2. PICK q \in Routed(f) :
          /\ prior[q][1] = "none"
          /\ \/ status[q] = "store" \/ asked[q].via = "permanent"
             \/ \E k \in DOMAIN kpatches : kpatches[k][1] = q
    BY <1>1, <2>1 DEF RoutesStored, Restorable
  <2>3. q \in RouteIds /\ q \in Routed(f)'
    BY <1>7, <2>2 DEF Routed
  <2>4. CASE \E k \in DOMAIN kpatches : kpatches[k][1] = q
    <3>1. \E k \in DOMAIN kpatches' : kpatches'[k][1] = q
      BY <2>1, <2>4
    <3> QED
      BY <2>2, <2>3, <3>1 DEF Restorable
  <2>5. CASE asked[q].via = "permanent"
    BY <2>2, <2>3, <2>5 DEF Restorable
  <2>6. CASE status[q] = "store" /\ asked[q].via # "permanent"
    <3>1. q = r
      BY <1>1, <2>3, <2>6
    <3>2. Revertible(r)
      BY <2>2, <2>6, <3>1 DEF Continuing, Revertible
    <3>3. \E k \in DOMAIN kpatches' : kpatches'[k][1] = q
      BY <2>1, <3>1, <3>2
    <3> QED
      BY <2>2, <2>3, <3>3 DEF Restorable
  <2> QED
    BY <2>2, <2>4, <2>5, <2>6
<1>14. Chains'
  BY <1>1, <1>7 DEF Chains, Chain
<1>15. DeinitRestores'
  BY <1>1 DEF DeinitRestores
<1> QED
  BY <1>5, <1>6, <1>8, <1>9, <1>10, <1>12, <1>13, <1>14, <1>15

\* Everything is given back, or nothing.
LEMMA DeinitKeeps ==
  ASSUME RouteInv, Deinit
  PROVE  RouteInv'
<1> USE DEF RouteInv, InPlace, Making
<1>1. /\ deinited = "no" /\ deinited' \in {"restored", "skipped"}
      /\ \A r \in RouteIds : status[r] \notin Making
      /\ UNCHANGED <<prior, org, request, slots>>
      /\ kpatches' = <<>> /\ rsvd' = 0 /\ freed' = freed \cup ToSet(kpatches)
      /\ stopped' \in {stopped, "undefined"}
  BY DEF Deinit
<1>2. \/ UNCHANGED <<jump, target>> /\ deinited' = "skipped"
      \/ /\ jump' = [f \in Routables |-> Restored(f)[1]]
         /\ target' = [f \in Routables |-> Restored(f)[2]]
  BY DEF Deinit
<1>3. \A k \in DOMAIN kpatches : kpatches[k] \in Patched /\ kpatches[k][1] \in RouteIds
  <2>1. \A k \in DOMAIN kpatches : kpatches[k] \in Patched
    BY DEF Types, PatchesOK
  <2> QED
    BY <2>1 DEF Patched
<1>4. \A f \in Routables :
         Restored(f) \in {<<jump[f], target[f]>>, <<"none", Original>>}
  BY <1>3, Restoring DEF PristineStored
<1>5. Types'
  <2>1. JumpsOK'
    <3>1. \A f \in Routables : Restored(f)[1] \in JumpForms /\ Restored(f)[2] \in RouteIds \cup {Original}
      BY <1>4 DEF Types, JumpsOK, JumpForms
    <3> QED
      BY <1>1, <1>2, <3>1 DEF Types, JumpsOK
  <2>2. RequestsOK' /\ MakingOK' /\ SlotsOK'
    BY <1>1 DEF Types, RequestsOK, MakingOK, SlotsOK, request
  <2>3. PatchesOK'
    <3>1. ToSet(kpatches) \subseteq Patched
      BY <1>3 DEF ToSet
    <3> QED
      BY <1>1, <3>1 DEF Types, PatchesOK
  <2>4. EndOK'
    BY <1>1 DEF Types, EndOK
  <2> QED
    BY <2>1, <2>2, <2>3, <2>4 DEF Types
<1>6. OneAtATime' /\ Fitting'
  BY <1>1 DEF OneAtATime, Fitting, request
<1>7. Continuing'
  BY <1>1 DEF Continuing, request
<1>8. Unrouted' /\ RoutesStored' /\ Chains'
  BY <1>1 DEF Unrouted, RoutesStored, Chains
<1>9. PristineStored'
  BY <1>1 DEF PristineStored
<1>10. DeinitRestores'
  <2> SUFFICES ASSUME deinited' = "restored", \A r \in RouteIds : status[r] # "unstored",
                      NEW f \in Routables, \A r \in Routed(f)' : asked[r].via # "permanent"
               PROVE  jump'[f] = "none" /\ target'[f] = Original
    BY <1>1 DEF DeinitRestores, request
  <2>1. Routed(f)' = Routed(f)
    BY <1>1 DEF Routed, request
  <2>2. jump'[f] = Restored(f)[1] /\ target'[f] = Restored(f)[2]
    BY <1>2
  <2>3. Restored(f) = <<"none", Original>>
    <3>1. CASE jump[f] = "none"
      BY <1>1, <1>4, <3>1 DEF Unrouted
    <3>2. CASE jump[f] # "none"
      <4>1. PICK r \in Routed(f) : \E k \in DOMAIN kpatches : kpatches[k][1] = r
        <5>1. \A r \in Routed(f) : status[r] # "store"
          BY <1>1 DEF Routed
        <5> QED
          BY <1>1, <2>1, <3>2, <5>1 DEF RoutesStored, Restorable
      <4>2. \E k \in DOMAIN kpatches : asked[kpatches[k][1]].fn = f
        BY <4>1 DEF Routed
      <4> QED
        BY <4>2, Restoring DEF PristineStored
    <3> QED
      BY <3>1, <3>2
  <2> QED
    BY <2>2, <2>3
<1> QED
  BY <1>5, <1>6, <1>7, <1>8, <1>9, <1>10

\* Lilu panics, or nothing happens.
LEMMA PanickingKeeps ==
  ASSUME RouteInv, Panicking \/ UNCHANGED vars
  PROVE  RouteInv'
<1>1. /\ UNCHANGED <<jump, target, prior, org, request, slots, stored, deinited>>
      /\ stopped' \in {stopped, "panic"}
  BY DEF Panicking, vars
<1>2. Types'
  <2>1. JumpsOK' /\ MakingOK' /\ SlotsOK'
    BY <1>1 DEF RouteInv, Types, JumpsOK, MakingOK, SlotsOK, request
  <2>2. RequestsOK' /\ PatchesOK' /\ EndOK'
    BY <1>1 DEF RouteInv, Types, RequestsOK, PatchesOK, EndOK, request, stored
  <2> QED
    BY <2>1, <2>2 DEF Types
<1>3. OneAtATime' /\ Fitting' /\ Continuing'
  BY <1>1 DEF RouteInv, OneAtATime, Fitting, Continuing, request
<1>4. \A f : Routed(f)' = Routed(f)
  BY <1>1 DEF Routed, request
<1>5. \A f : Restorable(f)' = Restorable(f)
  BY <1>1, <1>4 DEF Restorable, request, stored
<1>6. Unrouted' /\ RoutesStored' /\ PristineStored'
  BY <1>1, <1>4, <1>5 DEF RouteInv, Unrouted, RoutesStored, PristineStored, request, stored
<1>7. Chains'
  BY <1>1, <1>4 DEF RouteInv, Chains, Chain
<1>8. DeinitRestores'
  BY <1>1, <1>4 DEF RouteInv, DeinitRestores, request
<1> QED
  BY <1>2, <1>3, <1>6, <1>7, <1>8 DEF RouteInv

\* At the start nothing is routed.
LEMMA RouteInit == Init => RouteInv
<1> SUFFICES ASSUME Init PROVE RouteInv
  OBVIOUS
<1>1. /\ \A f \in Routables : jump[f] = "none" /\ target[f] = Original
      /\ \A r \in RouteIds : status[r] = "new" /\ asked[r] = Null
      /\ kpatches = <<>> /\ deinited = "no"
  BY DEF Init
<1>2. Types
  <2>1. JumpsOK /\ SlotsOK
    BY DEF Init, JumpsOK, SlotsOK, JumpForms
  <2>3. MakingOK
    BY DEF Init, MakingOK, JumpForms
  <2>2. RequestsOK /\ PatchesOK /\ EndOK
    BY <1>1 DEF Init, RequestsOK, PatchesOK, EndOK
  <2> QED
    BY <2>1, <2>2, <2>3 DEF Types
<1>3. OneAtATime /\ Fitting /\ Continuing
  BY <1>1 DEF OneAtATime, Fitting, Continuing, Making, InPlace
<1>4. \A f \in Routables : Routed(f) = {}
  BY <1>1 DEF Routed
<1>5. Unrouted /\ RoutesStored /\ PristineStored
  BY <1>1, <1>4 DEF Unrouted, RoutesStored, PristineStored
<1>6. Chains
  <2> SUFFICES ASSUME NEW f \in Routables PROVE \E s \in Seq(RouteIds) : Chain(f, s)
    BY DEF Chains
  <2>1. <<>> \in Seq(RouteIds) /\ Len(<<>>) = 0
    OBVIOUS
  <2>2. Chain(f, <<>>)
    BY <1>1, <1>4, <2>1 DEF Chain
  <2> QED
    BY <2>1, <2>2
<1>7. DeinitRestores
  BY <1>1 DEF DeinitRestores
<1> QED
  BY <1>2, <1>3, <1>5, <1>6, <1>7 DEF RouteInv

\* Every step keeps the invariant.
LEMMA RouteStep == RouteInv /\ [Next]_vars => RouteInv'
<1> SUFFICES ASSUME RouteInv, [Next]_vars PROVE RouteInv'
  OBVIOUS
<1>1. CASE Next
  <2>1. Types
    BY DEF RouteInv
  <2> QED
    BY <1>1, <2>1, Steps, AcceptingKeeps, RefusingKeeps, WritingKeeps, StoringKeeps,
       DeinitKeeps, PanickingKeeps
<1>2. CASE UNCHANGED vars
  BY <1>2, PanickingKeeps
<1> QED
  BY <1>1, <1>2

LEMMA RouteInductive == Spec => []RouteInv
<1>1. Init => RouteInv
  BY RouteInit
<1>2. RouteInv /\ [Next]_vars => RouteInv'
  BY RouteStep
<1> QED
  BY <1>1, <1>2, PTL DEF Spec

-----------------------------------------------------------------------------
(* A call passes through the chain *)

\* Where a call is when it follows the chain s: after n replacements.
Along(s, n) == IF n < Len(s) THEN s[n + 1] ELSE Original

\* Where the code has a call go after n replacements.
Call(f, at, n) ==
  IF n = 0 THEN target[f] ELSE IF at[n - 1] \in RouteIds THEN org[at[n - 1]] ELSE at[n - 1]

\* If every replacement of the chain has the next one as its original, the call
\* follows the chain.
LEMMA Visiting ==
  ASSUME NEW f, NEW s \in Seq(RouteIds),
         target[f] = Along(s, 0),
         \A i \in 1..Len(s) : org[s[i]] = Along(s, i)
  PROVE  Visit(f) = [n \in 0..Cardinality(RouteIds) |-> Along(s, n)]
<1> DEFINE G == [n \in Nat |-> Along(s, n)]
           F == CHOOSE at : at = [n \in Nat |-> Call(f, at, n)]
<1>1. \A n \in Nat : G[n] = Along(s, n)
  OBVIOUS
<1>2. \A n \in Nat : G[n] = Call(f, G, n)
  <2> SUFFICES ASSUME NEW n \in Nat PROVE Along(s, n) = Call(f, G, n)
    BY <1>1
  <2>1. CASE n = 0
    BY <2>1 DEF Call
  <2>2. CASE n # 0
    <3>1. n - 1 \in Nat /\ G[n - 1] = Along(s, n - 1)
      BY <1>1, <2>2
    <3> HIDE DEF G
    <3>2. CASE n - 1 < Len(s)
      <4>1. n \in 1..Len(s) /\ (n - 1) + 1 = n
        BY <2>2, <3>2
      <4>2. Along(s, n - 1) = s[n] /\ s[n] \in RouteIds
        BY <3>2, <4>1 DEF Along
      <4> QED
        BY <2>2, <3>1, <4>1, <4>2 DEF Call
    <3>3. CASE ~(n - 1 < Len(s))
      <4>1. Along(s, n - 1) = Original /\ Along(s, n) = Original
        BY <3>3 DEF Along
      <4> QED
        BY <2>2, <3>1, <4>1 DEF Call
    <3> QED
      BY <3>2, <3>3
  <2> QED
    BY <2>1, <2>2
<1>3. G = [n \in Nat |-> Call(f, G, n)]
  <2>1. G = [n \in Nat |-> G[n]]
    OBVIOUS
  <2> HIDE DEF G
  <2> QED
    BY <1>2, <2>1
<1>4. F = [n \in Nat |-> Call(f, F, n)]
  <2> HIDE DEF G
  <2> QED
    BY <1>3
<1>5. \A n \in Nat : F[n] = Call(f, F, n)
  <2> HIDE DEF F
  <2> QED
    BY <1>4
<1>6. \A n \in Nat : F[n] = G[n]
  <2> HIDE DEF F, G
  <2> DEFINE S == {n \in Nat : F[n] = G[n]}
  <2>1. 0 \in S
    BY <1>2, <1>5 DEF Call
  <2>2. \A n \in Nat : n \in S => n + 1 \in S
    <3> SUFFICES ASSUME NEW n \in Nat, F[n] = G[n] PROVE F[n + 1] = G[n + 1]
      OBVIOUS
    <3>1. n + 1 \in Nat /\ n + 1 # 0 /\ (n + 1) - 1 = n
      OBVIOUS
    <3>2. F[n + 1] = IF F[n] \in RouteIds THEN org[F[n]] ELSE F[n]
      BY <1>5, <3>1 DEF Call
    <3>3. G[n + 1] = IF G[n] \in RouteIds THEN org[G[n]] ELSE G[n]
      BY <1>2, <3>1 DEF Call
    <3> QED
      BY <3>2, <3>3
  <2> HIDE DEF S
  <2>3. Nat \subseteq S
    BY <2>1, <2>2, NatSetInduction
  <2> QED
    BY <2>3 DEF S
<1>7. Visit(f) = [n \in 0..Cardinality(RouteIds) |-> F[n]]
  BY DEF Visit, Call
<1>8. Cardinality(RouteIds) \in Nat
  BY FS_CardinalityType
<1>9. \A n \in 0..Cardinality(RouteIds) : F[n] = Along(s, n)
  <2> HIDE DEF F, G
  <2> SUFFICES ASSUME NEW n \in 0..Cardinality(RouteIds) PROVE F[n] = Along(s, n)
    OBVIOUS
  <2>1. n \in Nat
    BY <1>8
  <2> QED
    BY <1>1, <1>6, <2>1
<1> HIDE DEF F
<1> QED
  BY <1>7, <1>9

\* A chain is as long as it has requests.
LEMMA ChainLength ==
  ASSUME NEW s \in Seq(RouteIds), \A i, j \in 1..Len(s) : s[i] = s[j] => i = j,
         NEW S, S = {s[i] : i \in 1..Len(s)}
  PROVE  Cardinality(S) = Len(s) /\ Len(s) <= Cardinality(RouteIds) /\ Cardinality(RouteIds) \in Nat
<1> DEFINE I == 1..Len(s)
<1>1. Len(s) \in Nat /\ DOMAIN s = I
  OBVIOUS
<1>2. IsFiniteSet(I) /\ Cardinality(I) = Len(s)
  BY <1>1, FS_Interval
<1>3. S \subseteq RouteIds
  OBVIOUS
<1>4. IsFiniteSet(S) /\ Cardinality(S) <= Cardinality(RouteIds)
  BY <1>3, FS_Subset
<1>5. s \in Bijection(I, S)
  <2>1. s \in [I -> S]
    BY <1>1
  <2>2. \A a, b \in I : s[a] = s[b] => a = b
    OBVIOUS
  <2>3. \A t \in S : \E a \in I : s[a] = t
    OBVIOUS
  <2> HIDE DEF I
  <2> QED
    BY <2>1, <2>2, <2>3 DEF Bijection, Injection, Surjection, IsInjective
<1>6. ExistsBijection(I, S)
  BY <1>5 DEF ExistsBijection
<1>7. Cardinality(I) = Cardinality(S)
  <2> HIDE DEF I
  <2> QED
    BY <1>2, <1>4, <1>6, FS_Bijection
<1> QED
  BY <1>2, <1>4, <1>7, FS_CardinalityType

\* The chain of a function makes a call complete.
LEMMA Complete == RouteInv => ChainComplete
<1> SUFFICES ASSUME RouteInv, NEW f \in Routables, deinited = "no",
                    \A r \in Routed(f) :
                      asked[r].wrapper /\ (asked[r].via = "multiple" \/ status[r] # "store")
             PROVE  /\ {Visit(f)[n] : n \in DOMAIN Visit(f)} = Routed(f) \cup {Original}
                    /\ Visit(f)[Cardinality(Routed(f))] = Original
  BY DEF ChainComplete
<1>1. PICK s \in Seq(RouteIds) : Chain(f, s)
  BY DEF RouteInv, Chains
<1> DEFINE m == Len(s)
           N == Cardinality(RouteIds)
<1>2. /\ \A i, j \in 1..m : s[i] = s[j] => i = j
      /\ Routed(f) = {s[i] : i \in 1..m}
      /\ target[f] = IF m = 0 THEN Original ELSE s[1]
      /\ \A i \in 1..m : prior[s[i]][2] = IF i = m THEN Original ELSE s[i + 1]
  BY <1>1 DEF Chain
<1>3. Cardinality(Routed(f)) = m /\ m <= N /\ N \in Nat /\ m \in Nat
  BY <1>2, ChainLength
<1>4. \A i \in 1..m : org[s[i]] = Along(s, i)
  <2> SUFFICES ASSUME NEW i \in 1..m PROVE org[s[i]] = Along(s, i)
    OBVIOUS
  <2>1. s[i] \in Routed(f)
    BY <1>2
  <2>2. org[s[i]] = prior[s[i]][2]
    BY <2>1 DEF RouteInv, Continuing, Routed
  <2>3. Along(s, i) = IF i = m THEN Original ELSE s[i + 1]
    BY <1>3 DEF Along
  <2> QED
    BY <1>2, <2>2, <2>3
<1>5. target[f] = Along(s, 0)
  <2>1. Along(s, 0) = IF 0 < m THEN s[1] ELSE Original
    BY DEF Along
  <2> HIDE DEF m
  <2> QED
    BY <1>2, <1>3, <2>1
<1>6. Visit(f) = [n \in 0..N |-> Along(s, n)]
  BY <1>4, <1>5, Visiting
<1> HIDE DEF m, N
<1>7. DOMAIN Visit(f) = 0..N /\ \A n \in 0..N : Visit(f)[n] = Along(s, n)
  BY <1>6
<1>8. m \in 0..N /\ Visit(f)[m] = Original
  BY <1>3, <1>7 DEF Along, m
<1>9. \A i \in 1..m : i - 1 \in 0..N /\ Visit(f)[i - 1] = s[i]
  BY <1>3, <1>7 DEF Along, m
<1>10. \A n \in 0..N : Visit(f)[n] = Original \/ (n + 1 \in 1..m /\ Visit(f)[n] = s[n + 1])
  BY <1>3, <1>7 DEF Along, m
<1>11. {Visit(f)[n] : n \in 0..N} = Routed(f) \cup {Original}
  <2>1. \A n \in 0..N : Visit(f)[n] \in Routed(f) \cup {Original}
    BY <1>2, <1>10
  <2>2. ASSUME NEW r \in Routed(f) PROVE \E n \in 0..N : Visit(f)[n] = r
    <3>1. PICK i \in 1..m : r = s[i]
      BY <1>2, <2>2
    <3> QED
      BY <1>9, <3>1
  <2>3. \E n \in 0..N : Visit(f)[n] = Original
    BY <1>8
  <2> QED
    BY <2>1, <2>2, <2>3
<1> QED
  BY <1>3, <1>7, <1>8, <1>11

-----------------------------------------------------------------------------
(* The theorems *)

\* Every variable keeps its type, and getAddressSlot hands out no slot beyond the
\* image's, whatever fails.
THEOREM RouterTypes == Spec => []TypeOK
<1>1. RouteInv => TypeOK
  BY Parts_TypeOK DEF RouteInv
<1> QED
  BY <1>1, RouteInductive, PTL

\* Whatever was chained on a function, and at every moment of the making of a route,
\* a call passes through all of its replacements and ends in its own body.
THEOREM CallsPassTheChain == Spec => []ChainComplete
<1> QED
  BY Complete, RouteInductive, PTL

\* deinit gives back every function it may give back.
THEOREM DeinitGivesBack == Spec => []DeinitRestores
<1>1. RouteInv => DeinitRestores
  BY DEF RouteInv
<1> QED
  BY <1>1, RouteInductive, PTL

\* A jump is only replaced by one that is not longer.
THEOREM JumpsNeverGrow == Spec => NeverGrows
<1>1. RouteInv /\ [Next]_vars =>
        [\A f \in Routables : jump[f] # "none" => Size[jump'[f]] <= Size[jump[f]]]_vars
  <2> SUFFICES ASSUME RouteInv, Next, NEW f \in Routables, jump[f] # "none"
               PROVE  Size[jump'[f]] <= Size[jump[f]]
    OBVIOUS
  <2>1. jump[f] \in JumpForms /\ Size[jump[f]] \in Nat
    BY Sizes DEF RouteInv, Types, JumpsOK
  <2>2. CASE jump' = jump
    BY <2>1, <2>2
  <2>3. ASSUME NEW r \in RouteIds, WriteJump(r) PROVE Size[jump'[f]] <= Size[jump[f]]
    <3>1. status[r] = "write" /\ jump' = [jump EXCEPT ![asked[r].fn] = form]
      BY <2>3 DEF WriteJump
    <3>2. CASE asked[r].fn = f
      BY <2>1, <3>1, <3>2 DEF RouteInv, Fitting, Types, JumpsOK
    <3>3. CASE asked[r].fn # f
      <4>1. jump'[f] = jump[f]
        BY <3>1, <3>3 DEF RouteInv, Types, JumpsOK
      <4> QED
        BY <2>1, <4>1
    <3> QED
      BY <3>2, <3>3
  <2>4. ASSUME Deinit PROVE Size[jump'[f]] <= Size[jump[f]]
    <3>1. jump' = jump \/ jump' = [g \in Routables |-> Restored(g)[1]]
      BY <2>4 DEF Deinit
    <3>2. Restored(f)[1] \in {jump[f], "none"}
      <4>1. Restored(f) \in {<<jump[f], target[f]>>, <<"none", Original>>}
        BY Restoring DEF RouteInv, PristineStored
      <4> QED
        BY <4>1
    <3>3. jump'[f] \in {jump[f], "none"}
      BY <3>1, <3>2
    <3> QED
      BY <2>1, <3>3, Sizes
  <2>5. \/ jump' = jump
        \/ \E r \in RouteIds : WriteJump(r)
        \/ Deinit
    BY Steps DEF RouteInv, Accepting, Refusing, Storing, Panicking
  <2> QED
    BY <2>2, <2>3, <2>4, <2>5
<1> QED
  BY <1>1, RouteInductive, PTL DEF Spec, NeverGrows
=============================================================================
