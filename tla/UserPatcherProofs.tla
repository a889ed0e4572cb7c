------------------------- MODULE UserPatcherProofs --------------------------
(***************************************************************************)
(* Theorems about the two parts of UserPatcher.  For any number of         *)
(* processes and slides: the slide the fast mode patches a process at was  *)
(* passed to a hook by the kernel, and a process starts intact unless the  *)
(* kernel failed to revert it or the shared buffer was used by two at      *)
(* once.  Whatever the binaries and the patches are: if the pages that     *)
(* hold patches differ at an offset before the last, each is recognised    *)
(* and patched; and whatever a validation changes, before or behind the    *)
(* end of the page, is asked for by patches found in the binary, unless    *)
(* findings of several binaries met in the entry of the page.              *)
(***************************************************************************)
EXTENDS PagePatch, UserInjection, Integers, SequenceTheorems, WellFoundedInduction, TLAPS

-----------------------------------------------------------------------------
(* The shared cache. *)

Steps == {"new", "run", "patchBinary", "storedSlide", "restrict", "patchAtExec", "patch",
          "callback", "payload", "test", "store", "flag", "done"}
           \cup RestrictSteps \cup PayloadSteps

\* Each process has a step and a slide of its own.
PlacesOK == pc \in [Procs -> Steps] /\ DOMAIN slide = Procs

\* The flag is raised only after some thread stored the slide it was called with;
\* a later store by a thread that tested the flag before replaces it by another one.
StoredGiven ==
    /\ slideStored = TRUE => stored \in given
    /\ \A p \in Procs :
         /\ pc[p] \in {"test", "store", "patchAtExec"} => slide[p] \in given
         /\ pc[p] = "flag" => stored \in given
         /\ pc[p] = "storedSlide" => slideStored = TRUE

SlideInv == PlacesOK /\ StoredGiven

\* Initially nothing is stored.
LEMMA InitSlide == UIInit => SlideInv
  BY DEF UIInit, AllAt, SlideInv, PlacesOK, StoredGiven, Steps

\* Every step keeps the invariant, whichever threads are between test and flag.
LEMMA StepSlide == SlideInv /\ [UINext]_uiVars => SlideInv'
<1> SUFFICES ASSUME SlideInv, [UINext]_uiVars PROVE SlideInv'
  OBVIOUS
<1> USE DEF SlideInv, PlacesOK, StoredGiven, Goto, Fail, shared, local, history
<1>1. CASE UNCHANGED uiVars
  BY <1>1 DEF uiVars
<1>2. ASSUME NEW p \in Procs, Exec(p) PROVE SlideInv'
  <2> USE <1>2 DEF Exec
  <2>1. PlacesOK'
    BY DEF Steps, RestrictSteps, PayloadSteps
  <2>2. StoredGiven'
    OBVIOUS
  <2> QED
    BY <2>1, <2>2
<1>3. ASSUME NEW p \in Procs, PatchBinary(p) PROVE SlideInv'
  <2> USE <1>3 DEF PatchBinary
  <2>1. PlacesOK'
    BY DEF Steps, RestrictSteps, PayloadSteps
  <2>2. StoredGiven'
    OBVIOUS
  <2> QED
    BY <2>1, <2>2
<1>4. ASSUME NEW p \in Procs, ReadStored(p) PROVE SlideInv'
  <2> USE <1>4 DEF ReadStored
  <2>1. PlacesOK'
    BY DEF Steps, RestrictSteps, PayloadSteps
  <2>2. StoredGiven'
    OBVIOUS
  <2> QED
    BY <2>1, <2>2
<1>5. ASSUME NEW p \in Procs, ReadHeader(p) PROVE SlideInv'
  <2> USE <1>5 DEF ReadHeader
  <2>1. PlacesOK'
    BY DEF Steps, RestrictSteps, PayloadSteps
  <2>2. StoredGiven'
    OBVIOUS
  <2> QED
    BY <2>1, <2>2
<1>6. ASSUME NEW p \in Procs, MakeWritable(p) PROVE SlideInv'
  <2> USE <1>6 DEF MakeWritable
  <2>1. PlacesOK'
    BY DEF Steps, RestrictSteps, PayloadSteps
  <2>2. StoredGiven'
    OBVIOUS
  <2> QED
    BY <2>1, <2>2
<1>7. ASSUME NEW p \in Procs, WriteCounts(p) PROVE SlideInv'
  <2> USE <1>7 DEF WriteCounts
  <2>1. PlacesOK'
    BY DEF Steps, RestrictSteps, PayloadSteps
  <2>2. StoredGiven'
    OBVIOUS
  <2> QED
    BY <2>1, <2>2
<1>8. ASSUME NEW p \in Procs, WriteCommand(p) PROVE SlideInv'
  <2> USE <1>8 DEF WriteCommand
  <2>1. PlacesOK'
    BY DEF Steps, RestrictSteps, PayloadSteps
  <2>2. StoredGiven'
    OBVIOUS
  <2> QED
    BY <2>1, <2>2
<1>9. ASSUME NEW p \in Procs, Revert(p) PROVE SlideInv'
  <2> USE <1>9 DEF Revert
  <2>1. PlacesOK'
    BY DEF Steps, RestrictSteps, PayloadSteps
  <2>2. StoredGiven'
    OBVIOUS
  <2> QED
    BY <2>1, <2>2
<1>10. ASSUME NEW p \in Procs, Callback(p) PROVE SlideInv'
  <2> USE <1>10 DEF Callback
  <2>1. PlacesOK'
    BY DEF Steps, RestrictSteps, PayloadSteps
  <2>2. StoredGiven'
    OBVIOUS
  <2> QED
    BY <2>1, <2>2
<1>11. ASSUME NEW p \in Procs, ReadImage(p) PROVE SlideInv'
  <2> USE <1>11 DEF ReadImage
  <2>1. PlacesOK'
    BY DEF Steps, RestrictSteps, PayloadSteps
  <2>2. StoredGiven'
    OBVIOUS
  <2> QED
    BY <2>1, <2>2
<1>12. ASSUME NEW p \in Procs, EditImage(p) PROVE SlideInv'
  <2> USE <1>12 DEF EditImage
  <2>1. PlacesOK'
    BY DEF Steps, RestrictSteps, PayloadSteps
  <2>2. StoredGiven'
    OBVIOUS
  <2> QED
    BY <2>1, <2>2
<1>13. ASSUME NEW p \in Procs, WriteImage(p) PROVE SlideInv'
  <2> USE <1>13 DEF WriteImage
  <2>1. PlacesOK'
    BY DEF Steps, RestrictSteps, PayloadSteps
  <2>2. StoredGiven'
    OBVIOUS
  <2> QED
    BY <2>1, <2>2
<1>14. ASSUME NEW p \in Procs, MapCache(p) PROVE SlideInv'
  <2> USE <1>14 DEF MapCache
  <2>1. PlacesOK'
    BY DEF Steps, RestrictSteps, PayloadSteps
  <2>2. StoredGiven'
    OBVIOUS
  <2> QED
    BY <2>1, <2>2
<1>15. ASSUME NEW p \in Procs, TestStored(p) PROVE SlideInv'
  <2> USE <1>15 DEF TestStored
  <2>1. PlacesOK'
    BY DEF Steps, RestrictSteps, PayloadSteps
  <2>2. StoredGiven'
    OBVIOUS
  <2> QED
    BY <2>1, <2>2
<1>16. ASSUME NEW p \in Procs, StoreSlide(p) PROVE SlideInv'
  <2> USE <1>16 DEF StoreSlide
  <2>1. PlacesOK'
    BY DEF Steps, RestrictSteps, PayloadSteps
  <2>2. StoredGiven'
    OBVIOUS
  <2> QED
    BY <2>1, <2>2
<1>17. ASSUME NEW p \in Procs, SetStored(p) PROVE SlideInv'
  <2> USE <1>17 DEF SetStored
  <2>1. PlacesOK'
    BY DEF Steps, RestrictSteps, PayloadSteps
  <2>2. StoredGiven'
    OBVIOUS
  <2> QED
    BY <2>1, <2>2
<1>18. ASSUME NEW p \in Procs, PatchPlace(p) PROVE SlideInv'
  <2> USE <1>18 DEF PatchPlace
  <2>1. PlacesOK'
    BY DEF Steps, RestrictSteps, PayloadSteps
  <2>2. StoredGiven'
    OBVIOUS
  <2> QED
    BY <2>1, <2>2
<1>19. ASSUME NEW p \in Procs, Patched(p) PROVE SlideInv'
  <2> USE <1>19 DEF Patched
  <2>1. PlacesOK'
    BY DEF Steps, RestrictSteps, PayloadSteps
  <2>2. StoredGiven'
    OBVIOUS
  <2> QED
    BY <2>1, <2>2
<1> QED
  BY <1>1, <1>2, <1>3, <1>4, <1>5, <1>6, <1>7, <1>8, <1>9, <1>10, <1>11, <1>12, <1>13, <1>14, <1>15, <1>16, <1>17, <1>18, <1>19 DEF UINext

\* patchBinary uses the slide of another process's region without a lock, but never
\* one that no hook was called with.
THEOREM SlidesAreGiven == UISpec => []SlideGiven
<1>1. SlideInv => SlideGiven
  BY DEF SlideInv, StoredGiven, SlideGiven
<1> QED
  BY <1>1, InitSlide, StepSlide, PTL DEF UISpec

-----------------------------------------------------------------------------
(* The header and the cache of a process. *)

\* What the buffer and the pages of a header may hold, however they are mixed.
AnyImage == [counts : Owner, added : Int, command : Owner, body : Owner, payload : BOOLEAN]

PagesOK ==
    /\ pc \in [Procs -> Steps]
    /\ tmp \in AnyImage
    /\ todo \in [Procs -> SUBSET Sites]
    /\ image \in [Procs -> AnyImage]
    /\ view \in [Procs -> Owner]
    /\ writable \in [Procs -> SUBSET (Sites \cup {"header"})]

RegionsOK ==
    /\ pc \in [Procs -> Steps]
    /\ DOMAIN slide = Procs
    /\ todo \in [Procs -> SUBSET Sites]
    /\ cache \in [Procs -> [Sites -> {"find", "other", "replace"}]]
    /\ region \in [Procs -> Slides]

\* A thread that met no other one has tmpBufferData to itself, and what it reads there
\* is its own header as it last read or wrote it.
BufferInv ==
    \A p \in Procs \ (met \cup lost) :
      /\ UsesTmp(p) => \A q \in Procs : UsesTmp(q) => q = p
      /\ pc[p] \in {"bounds", "counts"} => tmp.counts = p /\ tmp.added = 0
      /\ pc[p] = "command" => tmp.counts = p
      /\ pc[p] \in {"counts", "command"} => view[p] = p
      /\ pc[p] \in PayloadSteps =>
           /\ tmp.counts = image[p].counts /\ tmp.added = image[p].added
           /\ tmp.command = image[p].command /\ tmp.body = image[p].body

\* Before injectRestrict the counts are the original ones; between its two writes,
\* and until a failed one is reverted, they are one command ahead.
HeaderInv ==
    \A p \in Procs \ (met \cup lost) :
      /\ image[p].counts = p /\ image[p].body = p
      /\ pc[p] \in {"new", "patchBinary", "storedSlide", "patchAtExec", "restrict", "bounds", "counts"}
           => image[p].added = 0
      /\ pc[p] \in {"command", "revert"} => image[p].added = 1
      /\ pc[p] \notin {"command", "revert"} => Intact(p)

\* Pages are writable only while they are being written, unless a call failed.
WritableInv ==
    \A p \in Procs \ failed :
      /\ pc[p] # "revert"
      /\ writable[p] = IF pc[p] \in {"counts", "command", "inject"} THEN {"header"} ELSE {}

\* What is left to be looked at shrinks; what was looked at at the slide of the
\* region is patched.
CacheInv ==
    \A p \in Procs :
      /\ pc[p] \notin {"patchAtExec", "patch", "test", "store", "flag"} => todo[p] = {}
      /\ p \notin failed /\ slide[p] = region[p]
           => \A place \in Sites \ todo[p] : cache[p][place] # "find"

\* Every step keeps the types of buffer, headers and protections.
LEMMA StepPages == PagesOK /\ [UINext]_uiVars => PagesOK'
<1> SUFFICES ASSUME PagesOK, [UINext]_uiVars PROVE PagesOK'
  OBVIOUS
<1> USE DEF PagesOK, AnyImage, Owner, Steps, RestrictSteps, PayloadSteps, SameHeader, Goto, Fail, shared, local, history
<1>1. CASE UNCHANGED uiVars
  BY <1>1 DEF uiVars
<1>2. ASSUME NEW p \in Procs, Exec(p) PROVE PagesOK'
  BY <1>2 DEF Exec
<1>3. ASSUME NEW p \in Procs, PatchBinary(p) PROVE PagesOK'
  BY <1>3 DEF PatchBinary
<1>4. ASSUME NEW p \in Procs, ReadStored(p) PROVE PagesOK'
  BY <1>4 DEF ReadStored
<1>5. ASSUME NEW p \in Procs, ReadHeader(p) PROVE PagesOK'
  BY <1>5, ZenonT(60) DEF ReadHeader
<1>6. ASSUME NEW p \in Procs, MakeWritable(p) PROVE PagesOK'
  BY <1>6 DEF MakeWritable
<1>7. ASSUME NEW p \in Procs, WriteCounts(p) PROVE PagesOK'
  <2> USE <1>7 DEF WriteCounts
  <2>1. SameHeader(p) \in Owner
    OBVIOUS
  <2>2. image' \in [Procs -> AnyImage]
    <3> DEFINE new == [image[p] EXCEPT !.counts = tmp.counts, !.added = tmp.added + 1]
    <3>1. new \in AnyImage
      <4>1. image[p] \in AnyImage /\ tmp.counts \in Owner /\ tmp.added + 1 \in Int
        OBVIOUS
      <4> QED
        BY <4>1
    <3>2. image' = image \/ image' = [image EXCEPT ![p] = new]
      OBVIOUS
    <3> HIDE DEF new
    <3> QED
      BY <3>1, <3>2
  <2>3. pc' \in [Procs -> Steps] /\ UNCHANGED <<tmp, todo, writable>>
    OBVIOUS
  <2>4. view' \in [Procs -> Owner]
    BY <2>1
  <2> QED
    BY <2>2, <2>3, <2>4
<1>8. ASSUME NEW p \in Procs, WriteCommand(p) PROVE PagesOK'
  <2> USE <1>8 DEF WriteCommand
  <2>1. SameHeader(p) \in Owner
    OBVIOUS
  <2>2. image' \in [Procs -> AnyImage]
    BY <2>1
  <2>3. pc' \in [Procs -> Steps] /\ UNCHANGED <<tmp, todo, view>>
    OBVIOUS
  <2>4. writable' \in [Procs -> SUBSET (Sites \cup {"header"})]
    OBVIOUS
  <2> QED
    BY <2>2, <2>3, <2>4
<1>9. ASSUME NEW p \in Procs, Revert(p) PROVE PagesOK'
  BY <1>9 DEF Revert
<1>10. ASSUME NEW p \in Procs, Callback(p) PROVE PagesOK'
  BY <1>10 DEF Callback
<1>11. ASSUME NEW p \in Procs, ReadImage(p) PROVE PagesOK'
  BY <1>11 DEF ReadImage
<1>12. ASSUME NEW p \in Procs, EditImage(p) PROVE PagesOK'
  BY <1>12 DEF EditImage
<1>13. ASSUME NEW p \in Procs, WriteImage(p) PROVE PagesOK'
  BY <1>13 DEF WriteImage
<1>14. ASSUME NEW p \in Procs, MapCache(p) PROVE PagesOK'
  BY <1>14 DEF MapCache
<1>15. ASSUME NEW p \in Procs, TestStored(p) PROVE PagesOK'
  BY <1>15 DEF TestStored
<1>16. ASSUME NEW p \in Procs, StoreSlide(p) PROVE PagesOK'
  BY <1>16 DEF StoreSlide
<1>17. ASSUME NEW p \in Procs, SetStored(p) PROVE PagesOK'
  BY <1>17 DEF SetStored
<1>18. ASSUME NEW p \in Procs, PatchPlace(p) PROVE PagesOK'
  <2> USE <1>18 DEF PatchPlace
  <2>1. UNCHANGED <<pc, tmp, image, view>> /\ todo' \in [Procs -> SUBSET Sites]
    OBVIOUS
  <2>2. PICK place \in Sites : writable' = writable \/ writable' = [writable EXCEPT ![p] = @ \cup {place}]
    OBVIOUS
  <2>3. writable' \in [Procs -> SUBSET (Sites \cup {"header"})]
    BY <2>2
  <2> QED
    BY <2>1, <2>3
<1>19. ASSUME NEW p \in Procs, Patched(p) PROVE PagesOK'
  BY <1>19 DEF Patched
<1> QED
  BY <1>1, <1>2, <1>3, <1>4, <1>5, <1>6, <1>7, <1>8, <1>9, <1>10, <1>11, <1>12, <1>13, <1>14, <1>15, <1>16, <1>17, <1>18, <1>19 DEF UINext

\* Every step keeps the types of regions and caches.
LEMMA StepRegions == RegionsOK /\ [UINext]_uiVars => RegionsOK'
<1> SUFFICES ASSUME RegionsOK, [UINext]_uiVars PROVE RegionsOK'
  OBVIOUS
<1> USE DEF RegionsOK, Steps, RestrictSteps, PayloadSteps, Goto, Fail, shared, local, history
<1>1. CASE UNCHANGED uiVars
  BY <1>1 DEF uiVars
<1>2. ASSUME NEW p \in Procs, Exec(p) PROVE RegionsOK'
  BY <1>2 DEF Exec
<1>3. ASSUME NEW p \in Procs, PatchBinary(p) PROVE RegionsOK'
  BY <1>3 DEF PatchBinary
<1>4. ASSUME NEW p \in Procs, ReadStored(p) PROVE RegionsOK'
  BY <1>4 DEF ReadStored
<1>5. ASSUME NEW p \in Procs, ReadHeader(p) PROVE RegionsOK'
  BY <1>5 DEF ReadHeader
<1>6. ASSUME NEW p \in Procs, MakeWritable(p) PROVE RegionsOK'
  BY <1>6 DEF MakeWritable
<1>7. ASSUME NEW p \in Procs, WriteCounts(p) PROVE RegionsOK'
  BY <1>7 DEF WriteCounts
<1>8. ASSUME NEW p \in Procs, WriteCommand(p) PROVE RegionsOK'
  BY <1>8 DEF WriteCommand
<1>9. ASSUME NEW p \in Procs, Revert(p) PROVE RegionsOK'
  BY <1>9 DEF Revert
<1>10. ASSUME NEW p \in Procs, Callback(p) PROVE RegionsOK'
  BY <1>10 DEF Callback
<1>11. ASSUME NEW p \in Procs, ReadImage(p) PROVE RegionsOK'
  BY <1>11 DEF ReadImage
<1>12. ASSUME NEW p \in Procs, EditImage(p) PROVE RegionsOK'
  BY <1>12 DEF EditImage
<1>13. ASSUME NEW p \in Procs, WriteImage(p) PROVE RegionsOK'
  BY <1>13 DEF WriteImage
<1>14. ASSUME NEW p \in Procs, MapCache(p) PROVE RegionsOK'
  BY <1>14 DEF MapCache
<1>15. ASSUME NEW p \in Procs, TestStored(p) PROVE RegionsOK'
  BY <1>15 DEF TestStored
<1>16. ASSUME NEW p \in Procs, StoreSlide(p) PROVE RegionsOK'
  BY <1>16 DEF StoreSlide
<1>17. ASSUME NEW p \in Procs, SetStored(p) PROVE RegionsOK'
  BY <1>17 DEF SetStored
<1>18. ASSUME NEW p \in Procs, PatchPlace(p) PROVE RegionsOK'
  BY <1>18 DEF PatchPlace
<1>19. ASSUME NEW p \in Procs, Patched(p) PROVE RegionsOK'
  BY <1>19 DEF Patched
<1> QED
  BY <1>1, <1>2, <1>3, <1>4, <1>5, <1>6, <1>7, <1>8, <1>9, <1>10, <1>11, <1>12, <1>13, <1>14, <1>15, <1>16, <1>17, <1>18, <1>19 DEF UINext

\* Two threads that use the buffer at the same time have met.
LEMMA StepBuffer == PagesOK /\ HeaderInv /\ BufferInv /\ [UINext]_uiVars => BufferInv'
<1> SUFFICES ASSUME PagesOK /\ HeaderInv /\ BufferInv, [UINext]_uiVars PROVE BufferInv'
  OBVIOUS
<1> USE DEF PagesOK, AnyImage, BufferInv, HeaderInv, UsesTmp, RestrictSteps, PayloadSteps, SameHeader, Goto, Fail, shared, local, history
<1>1. CASE UNCHANGED uiVars
  BY <1>1 DEF uiVars
<1>2. ASSUME NEW p \in Procs, Exec(p) PROVE BufferInv'
  BY <1>2 DEF Exec
<1>3. ASSUME NEW p \in Procs, PatchBinary(p) PROVE BufferInv'
  BY <1>3 DEF PatchBinary
<1>4. ASSUME NEW p \in Procs, ReadStored(p) PROVE BufferInv'
  BY <1>4 DEF ReadStored
<1>5. ASSUME NEW p \in Procs, ReadHeader(p) PROVE BufferInv'
  <2> USE <1>5 DEF ReadHeader
  <2>1. CASE pc' = [pc EXCEPT ![p] = "bounds"]
    <3>0. /\ tmp' = [tmp EXCEPT !.counts = image[p].counts, !.added = image[p].added]
          /\ met' = IF \E q \in Procs : UsesTmp(q)
                    THEN met \cup {p} \cup {q \in Procs : UsesTmp(q)} ELSE met
          /\ UNCHANGED <<image, view, lost>> /\ pc[p] = "restrict"
      BY <2>1
    <3>1. CASE \E q \in Procs : UsesTmp(q)
      <4>1. ASSUME NEW q \in Procs \ (met' \cup lost') PROVE q # p /\ q \notin met /\ ~UsesTmp(q) /\ pc'[q] = pc[q]
        BY <2>1, <3>0, <3>1
      <4> QED
        BY <4>1, <3>0
    <3>2. CASE ~\E q \in Procs : UsesTmp(q)
      <4>1. \A q \in Procs : UsesTmp(q)' => q = p
        BY <2>1, <3>2
      <4>2. p \notin met \cup lost => tmp'.counts = p /\ tmp'.added = 0
        BY <3>0
      <4>3. pc'[p] = "bounds"
        BY <2>1
      <4> QED
        BY <3>0, <3>2, <4>1, <4>2, <4>3
    <3> QED
      BY <3>1, <3>2
  <2>2. CASE pc' = [pc EXCEPT ![p] = "callback"]
    BY <2>2
  <2> QED
    BY <2>1, <2>2
<1>6. ASSUME NEW p \in Procs, MakeWritable(p) PROVE BufferInv'
  BY <1>6 DEF MakeWritable
<1>7. ASSUME NEW p \in Procs, WriteCounts(p) PROVE BufferInv'
  BY <1>7 DEF WriteCounts
<1>8. ASSUME NEW p \in Procs, WriteCommand(p) PROVE BufferInv'
  BY <1>8 DEF WriteCommand
<1>9. ASSUME NEW p \in Procs, Revert(p) PROVE BufferInv'
  BY <1>9 DEF Revert
<1>10. ASSUME NEW p \in Procs, Callback(p) PROVE BufferInv'
  BY <1>10 DEF Callback
<1>11. ASSUME NEW p \in Procs, ReadImage(p) PROVE BufferInv'
  BY <1>11 DEF ReadImage
<1>12. ASSUME NEW p \in Procs, EditImage(p) PROVE BufferInv'
  BY <1>12 DEF EditImage
<1>13. ASSUME NEW p \in Procs, WriteImage(p) PROVE BufferInv'
  BY <1>13 DEF WriteImage
<1>14. ASSUME NEW p \in Procs, MapCache(p) PROVE BufferInv'
  BY <1>14 DEF MapCache
<1>15. ASSUME NEW p \in Procs, TestStored(p) PROVE BufferInv'
  BY <1>15 DEF TestStored
<1>16. ASSUME NEW p \in Procs, StoreSlide(p) PROVE BufferInv'
  BY <1>16 DEF StoreSlide
<1>17. ASSUME NEW p \in Procs, SetStored(p) PROVE BufferInv'
  BY <1>17 DEF SetStored
<1>18. ASSUME NEW p \in Procs, PatchPlace(p) PROVE BufferInv'
  BY <1>18 DEF PatchPlace
<1>19. ASSUME NEW p \in Procs, Patched(p) PROVE BufferInv'
  BY <1>19 DEF Patched
<1> QED
  BY <1>1, <1>2, <1>3, <1>4, <1>5, <1>6, <1>7, <1>8, <1>9, <1>10, <1>11, <1>12, <1>13, <1>14, <1>15, <1>16, <1>17, <1>18, <1>19 DEF UINext

\* A header is changed by its own thread only, as the buffer says.
LEMMA StepHeader == PagesOK /\ HeaderInv /\ BufferInv /\ [UINext]_uiVars => HeaderInv'
<1> SUFFICES ASSUME PagesOK /\ HeaderInv /\ BufferInv, [UINext]_uiVars PROVE HeaderInv'
  OBVIOUS
<1> USE DEF PagesOK, AnyImage, BufferInv, HeaderInv, Intact, UsesTmp, RestrictSteps, PayloadSteps, SameHeader, Goto, Fail, shared, local, history
<1>1. CASE UNCHANGED uiVars
  BY <1>1 DEF uiVars
<1>2. ASSUME NEW p \in Procs, Exec(p) PROVE HeaderInv'
  BY <1>2 DEF Exec
<1>3. ASSUME NEW p \in Procs, PatchBinary(p) PROVE HeaderInv'
  BY <1>3 DEF PatchBinary
<1>4. ASSUME NEW p \in Procs, ReadStored(p) PROVE HeaderInv'
  BY <1>4 DEF ReadStored
<1>5. ASSUME NEW p \in Procs, ReadHeader(p) PROVE HeaderInv'
  BY <1>5 DEF ReadHeader
<1>6. ASSUME NEW p \in Procs, MakeWritable(p) PROVE HeaderInv'
  BY <1>6 DEF MakeWritable
<1>7. ASSUME NEW p \in Procs, WriteCounts(p) PROVE HeaderInv'
  BY <1>7 DEF WriteCounts
<1>8. ASSUME NEW p \in Procs, WriteCommand(p) PROVE HeaderInv'
  <2> USE <1>8 DEF WriteCommand
  <2>0. UNCHANGED <<tmp, met, lost>>
    OBVIOUS
  <2>1. CASE pc' = [pc EXCEPT ![p] = "callback"] /\ image' = [image EXCEPT ![p].command = SameHeader(p)]
    <3>1. p \notin met \cup lost => image[p].added = 1 /\ SameHeader(p) = p
      OBVIOUS
    <3>2. image'[p] = [image[p] EXCEPT !.command = SameHeader(p)] /\ image[p] \in AnyImage
      BY <2>1
    <3>3. image'[p].counts = image[p].counts /\ image'[p].body = image[p].body
          /\ image'[p].added = image[p].added /\ image'[p].command = SameHeader(p)
      BY <3>2
    <3>4. \A q \in Procs : q # p => image'[q] = image[q] /\ pc'[q] = pc[q]
      BY <2>1
    <3>5. pc'[p] = "callback"
      BY <2>1
    <3> QED
      BY <2>0, <3>1, <3>3, <3>4, <3>5
  <2>2. CASE pc' = [pc EXCEPT ![p] = "revert"] /\ UNCHANGED image
    BY <2>0, <2>2
  <2> QED
    BY <2>1, <2>2
<1>9. ASSUME NEW p \in Procs, Revert(p) PROVE HeaderInv'
  BY <1>9 DEF Revert
<1>10. ASSUME NEW p \in Procs, Callback(p) PROVE HeaderInv'
  BY <1>10 DEF Callback
<1>11. ASSUME NEW p \in Procs, ReadImage(p) PROVE HeaderInv'
  BY <1>11 DEF ReadImage
<1>12. ASSUME NEW p \in Procs, EditImage(p) PROVE HeaderInv'
  BY <1>12 DEF EditImage
<1>13. ASSUME NEW p \in Procs, WriteImage(p) PROVE HeaderInv'
  BY <1>13 DEF WriteImage
<1>14. ASSUME NEW p \in Procs, MapCache(p) PROVE HeaderInv'
  BY <1>14 DEF MapCache
<1>15. ASSUME NEW p \in Procs, TestStored(p) PROVE HeaderInv'
  BY <1>15 DEF TestStored
<1>16. ASSUME NEW p \in Procs, StoreSlide(p) PROVE HeaderInv'
  BY <1>16 DEF StoreSlide
<1>17. ASSUME NEW p \in Procs, SetStored(p) PROVE HeaderInv'
  BY <1>17 DEF SetStored
<1>18. ASSUME NEW p \in Procs, PatchPlace(p) PROVE HeaderInv'
  BY <1>18 DEF PatchPlace
<1>19. ASSUME NEW p \in Procs, Patched(p) PROVE HeaderInv'
  BY <1>19 DEF Patched
<1> QED
  BY <1>1, <1>2, <1>3, <1>4, <1>5, <1>6, <1>7, <1>8, <1>9, <1>10, <1>11, <1>12, <1>13, <1>14, <1>15, <1>16, <1>17, <1>18, <1>19 DEF UINext

\* Protections are taken back.
LEMMA StepWritable == PagesOK /\ WritableInv /\ [UINext]_uiVars => WritableInv'
<1> SUFFICES ASSUME PagesOK /\ WritableInv, [UINext]_uiVars PROVE WritableInv'
  OBVIOUS
<1> USE DEF PagesOK, WritableInv, Goto, Fail, shared, local, history
<1>1. CASE UNCHANGED uiVars
  BY <1>1 DEF uiVars
<1>2. ASSUME NEW p \in Procs, Exec(p) PROVE WritableInv'
  BY <1>2 DEF Exec
<1>3. ASSUME NEW p \in Procs, PatchBinary(p) PROVE WritableInv'
  BY <1>3 DEF PatchBinary
<1>4. ASSUME NEW p \in Procs, ReadStored(p) PROVE WritableInv'
  BY <1>4 DEF ReadStored
<1>5. ASSUME NEW p \in Procs, ReadHeader(p) PROVE WritableInv'
  BY <1>5 DEF ReadHeader
<1>6. ASSUME NEW p \in Procs, MakeWritable(p) PROVE WritableInv'
  BY <1>6 DEF MakeWritable
<1>7. ASSUME NEW p \in Procs, WriteCounts(p) PROVE WritableInv'
  BY <1>7, SMTT(30) DEF WriteCounts
<1>8. ASSUME NEW p \in Procs, WriteCommand(p) PROVE WritableInv'
  BY <1>8, SMTT(30) DEF WriteCommand
<1>9. ASSUME NEW p \in Procs, Revert(p) PROVE WritableInv'
  BY <1>9 DEF Revert
<1>10. ASSUME NEW p \in Procs, Callback(p) PROVE WritableInv'
  BY <1>10 DEF Callback
<1>11. ASSUME NEW p \in Procs, ReadImage(p) PROVE WritableInv'
  BY <1>11 DEF ReadImage
<1>12. ASSUME NEW p \in Procs, EditImage(p) PROVE WritableInv'
  BY <1>12 DEF EditImage
<1>13. ASSUME NEW p \in Procs, WriteImage(p) PROVE WritableInv'
  BY <1>13 DEF WriteImage
<1>14. ASSUME NEW p \in Procs, MapCache(p) PROVE WritableInv'
  BY <1>14 DEF MapCache
<1>15. ASSUME NEW p \in Procs, TestStored(p) PROVE WritableInv'
  BY <1>15 DEF TestStored
<1>16. ASSUME NEW p \in Procs, StoreSlide(p) PROVE WritableInv'
  BY <1>16 DEF StoreSlide
<1>17. ASSUME NEW p \in Procs, SetStored(p) PROVE WritableInv'
  BY <1>17 DEF SetStored
<1>18. ASSUME NEW p \in Procs, PatchPlace(p) PROVE WritableInv'
  BY <1>18 DEF PatchPlace
<1>19. ASSUME NEW p \in Procs, Patched(p) PROVE WritableInv'
  BY <1>19 DEF Patched
<1> QED
  BY <1>1, <1>2, <1>3, <1>4, <1>5, <1>6, <1>7, <1>8, <1>9, <1>10, <1>11, <1>12, <1>13, <1>14, <1>15, <1>16, <1>17, <1>18, <1>19 DEF UINext

\* Places are patched one by one.
LEMMA StepCache == RegionsOK /\ CacheInv /\ [UINext]_uiVars => CacheInv'
<1> SUFFICES ASSUME RegionsOK /\ CacheInv, [UINext]_uiVars PROVE CacheInv'
  OBVIOUS
<1> USE DEF RegionsOK, CacheInv, Goto, Fail, shared, local, history
<1>1. CASE UNCHANGED uiVars
  BY <1>1 DEF uiVars
<1>2. ASSUME NEW p \in Procs, Exec(p) PROVE CacheInv'
  BY <1>2 DEF Exec
<1>3. ASSUME NEW p \in Procs, PatchBinary(p) PROVE CacheInv'
  BY <1>3 DEF PatchBinary
<1>4. ASSUME NEW p \in Procs, ReadStored(p) PROVE CacheInv'
  BY <1>4 DEF ReadStored
<1>5. ASSUME NEW p \in Procs, ReadHeader(p) PROVE CacheInv'
  BY <1>5 DEF ReadHeader
<1>6. ASSUME NEW p \in Procs, MakeWritable(p) PROVE CacheInv'
  BY <1>6 DEF MakeWritable
<1>7. ASSUME NEW p \in Procs, WriteCounts(p) PROVE CacheInv'
  BY <1>7 DEF WriteCounts
<1>8. ASSUME NEW p \in Procs, WriteCommand(p) PROVE CacheInv'
  BY <1>8 DEF WriteCommand
<1>9. ASSUME NEW p \in Procs, Revert(p) PROVE CacheInv'
  BY <1>9 DEF Revert
<1>10. ASSUME NEW p \in Procs, Callback(p) PROVE CacheInv'
  BY <1>10 DEF Callback
<1>11. ASSUME NEW p \in Procs, ReadImage(p) PROVE CacheInv'
  BY <1>11 DEF ReadImage
<1>12. ASSUME NEW p \in Procs, EditImage(p) PROVE CacheInv'
  BY <1>12 DEF EditImage
<1>13. ASSUME NEW p \in Procs, WriteImage(p) PROVE CacheInv'
  BY <1>13 DEF WriteImage
<1>14. ASSUME NEW p \in Procs, MapCache(p) PROVE CacheInv'
  BY <1>14 DEF MapCache
<1>15. ASSUME NEW p \in Procs, TestStored(p) PROVE CacheInv'
  BY <1>15 DEF TestStored
<1>16. ASSUME NEW p \in Procs, StoreSlide(p) PROVE CacheInv'
  BY <1>16 DEF StoreSlide
<1>17. ASSUME NEW p \in Procs, SetStored(p) PROVE CacheInv'
  BY <1>17 DEF SetStored
<1>18. ASSUME NEW p \in Procs, PatchPlace(p) PROVE CacheInv'
  BY <1>18 DEF PatchPlace
<1>19. ASSUME NEW p \in Procs, Patched(p) PROVE CacheInv'
  BY <1>19 DEF Patched
<1> QED
  BY <1>1, <1>2, <1>3, <1>4, <1>5, <1>6, <1>7, <1>8, <1>9, <1>10, <1>11, <1>12, <1>13, <1>14, <1>15, <1>16, <1>17, <1>18, <1>19 DEF UINext

ProcessInv == PagesOK /\ RegionsOK /\ BufferInv /\ HeaderInv /\ WritableInv /\ CacheInv

\* A process has its own header, nothing is writable, and no region is slid.
LEMMA InitProcess == UIInit => ProcessInv
<1> SUFFICES ASSUME UIInit PROVE ProcessInv
  OBVIOUS
<1> USE DEF UIInit, AllAt, Original
<1>1. PagesOK
  BY DEF PagesOK, AnyImage, Owner, Steps
<1>2. RegionsOK
  BY DEF RegionsOK, Steps
<1>3. BufferInv /\ HeaderInv
  BY DEF BufferInv, HeaderInv, UsesTmp, Intact, RestrictSteps, PayloadSteps
<1>4. WritableInv
  BY DEF WritableInv
<1>5. CacheInv
  BY NoneAssumption DEF CacheInv
<1> QED
  BY <1>1, <1>2, <1>3, <1>4, <1>5 DEF ProcessInv

\* A process that starts has a header that belongs together, no page that was left
\* writable and, at its slide, no place that was left unpatched, whichever calls
\* fail and whatever the other threads do to what they share.
THEOREM ProcessesAreServed == UISpec => []ProcessServed
<1>1. ProcessInv /\ [UINext]_uiVars => ProcessInv'
  BY StepPages, StepRegions, StepBuffer, StepHeader, StepWritable, StepCache DEF ProcessInv
<1>2. ProcessInv => ProcessServed
  BY DEF ProcessInv, HeaderInv, WritableInv, CacheInv, ProcessServed
<1> QED
  BY <1>1, <1>2, InitProcess, PTL DEF UISpec

-----------------------------------------------------------------------------
(* Lookups. *)

\* Every non-empty set of natural numbers has a least element.
LEMMA LeastNat ==
  ASSUME NEW T \in SUBSET Nat, T # {}
  PROVE  \E n \in T : \A m \in T : n <= m
<1>1. PICK x \in T : \A y \in T : ~(<<y, x>> \in OpToRel(<, Nat))
  BY NatLessThanWellFounded, WFMin
<1>2. \A y \in T : ~(y < x)
  BY <1>1 DEF OpToRel
<1> QED
  BY <1>2

\* Some offset before the last tells the pages of the entries apart.
Distinct == \E o \in 0..(PageCells - 2) : TellsApart(o)

AllValues == {PageValues(o) : o \in 0..(PageCells - 1)}

\* What loadLookups has gathered if the pages can be told apart: offsets within
\* the page with the values of the pages there, the first of which tells apart.
LookupOK ==
    /\ offs \in Seq(0..(PageCells - 1))
    /\ c \in Seq(AllValues)
    /\ off \in 0..PageCells
    /\ Len(c) = Len(offs)
    /\ \A i \in DOMAIN offs : c[i] = PageValues(offs[i])
    /\ offs # <<>> => TellsApart(offs[1]) /\ offs[1] <= PageCells - 2

\* lookupStorage is a sequence, of whatever was found.
Entries == {lookupStorage[e] : e \in DOMAIN lookupStorage}

LookupInv ==
    /\ lookupStorage \in Seq(Entries)
    /\ phase \in {"files", "lookups", "hook", "ready", "off"}
    /\ phase # "ready" => before = <<>>
    /\ phase = "files" => offs = <<>> /\ c = <<>> /\ off = 0
    /\ phase \in {"hook", "ready"} => Len(offs) = MatchNum
    /\ phase # "files" /\ Distinct => LookupOK
    /\ PagesServed

\* Nothing is read at first.
LEMMA InitLookup == Init => LookupInv
<1> SUFFICES ASSUME Init PROVE LookupInv
  OBVIOUS
<1>1. lookupStorage \in Seq(Entries)
  BY DEF Init, Empty
<1> QED
  BY <1>1 DEF Init, Empty, LookupInv, PagesServed

\* An entry with one more reference, and a sequence with one entry replaced.
WithRef(x, m, p, o) == [x EXCEPT !.refs = AddRef(x.refs, p, o), !.mods = x.mods \cup {m}]
WithEntry(storage, e, x) == [storage EXCEPT ![e] = x]

\* What a finding makes of the entries.
LEMMA FindingIs ==
  ASSUME NEW storage, NEW m, NEW p, NEW place,
         Len(storage) \in Nat, DOMAIN storage = 1..Len(storage)
  PROVE  LET base == place - (place % PageCells)
             o == place % PageCells
             added == AddFinding(storage, m, p, place)
         IN  \/ added = Append(storage,
                  [mod |-> m, pageOff |-> base,
                   page |-> SubSeq(section[m], base + 1, base + PageCells),
                   mods |-> {m}, refs |-> AddRef(<<>>, p, o)])
             \/ \E e \in DOMAIN storage :
                  /\ storage[e].pageOff = base
                  /\ added = WithEntry(storage, e, WithRef(storage[e], m, p, o))
<1> DEFINE base == place - (place % PageCells)
           found == {k \in DOMAIN storage : storage[k].pageOff = base}
           e == IF found = {} THEN Len(storage) + 1
                ELSE CHOOSE k \in found : \A j \in found : k <= j
<1>1. AddFinding(storage, m, p, place) =
        IF e > Len(storage)
        THEN Append(storage, [mod |-> m, pageOff |-> base,
                              page |-> SubSeq(section[m], base + 1, base + PageCells),
                              mods |-> {m}, refs |-> AddRef(<<>>, p, place % PageCells)])
        ELSE [storage EXCEPT ![e].refs = AddRef(storage[e].refs, p, place % PageCells),
                             ![e].mods = @ \cup {m}]
  BY DEF AddFinding, FirstIndex
<1>2. CASE e > Len(storage)
  BY <1>1, <1>2
<1>3. CASE ~(e > Len(storage))
  <2>1. found # {} /\ found \in SUBSET Nat
    BY <1>3
  <2>2. \E k \in found : \A j \in found : k <= j
    BY <2>1, LeastNat
  <2>3. e \in found
    BY <2>1, <2>2
  <2>4. e \in DOMAIN storage /\ storage[e].pageOff = base
    BY <2>3
  <2>5. AddFinding(storage, m, p, place) =
          WithEntry(storage, e, WithRef(storage[e], m, p, place % PageCells))
    BY <1>1, <1>3 DEF WithEntry, WithRef
  <2> HIDE DEF e
  <2> QED
    BY <2>4, <2>5
<1> QED
  BY <1>2, <1>3

\* A finding makes an entry or adds to one.
LEMMA StillEntries ==
  ASSUME lookupStorage \in Seq(Entries), NEW m, NEW p, NEW o,
         lookupStorage' = AddFinding(lookupStorage, m, p, o)
  PROVE  lookupStorage' \in Seq(Entries')
<1>1. \/ \E x : lookupStorage' = Append(lookupStorage, x)
      \/ \E e : e \in DOMAIN lookupStorage /\ \E x : lookupStorage' = [lookupStorage EXCEPT ![e] = x]
  <2>1. Len(lookupStorage) \in Nat /\ DOMAIN lookupStorage = 1..Len(lookupStorage)
    <3> DEFINE E == Entries
    <3>1. lookupStorage \in Seq(E)
      OBVIOUS
    <3> HIDE DEF E
    <3> QED
      BY <3>1
  <2> DEFINE base == o - (o % PageCells)
             new == [mod |-> m, pageOff |-> base,
                     page |-> SubSeq(section[m], base + 1, base + PageCells),
                     mods |-> {m}, refs |-> AddRef(<<>>, p, o % PageCells)]
             grown(e) == WithRef(lookupStorage[e], m, p, o % PageCells)
  <2>2. \/ lookupStorage' = Append(lookupStorage, new)
        \/ \E e \in DOMAIN lookupStorage :
             /\ lookupStorage[e].pageOff = base
             /\ lookupStorage' = WithEntry(lookupStorage, e, grown(e))
    BY <2>1, FindingIs
  <2> HIDE DEF new, grown
  <2> QED
    BY <2>2 DEF WithEntry
<1>2. CASE \E x : lookupStorage' = Append(lookupStorage, x)
  BY <1>2 DEF Entries
<1>3. CASE \E e : e \in DOMAIN lookupStorage /\ \E x : lookupStorage' = [lookupStorage EXCEPT ![e] = x]
  <2>0. PICK e \in DOMAIN lookupStorage : \E x : lookupStorage' = [lookupStorage EXCEPT ![e] = x]
    BY <1>3
  <2>1. PICK x : lookupStorage' = [lookupStorage EXCEPT ![e] = x]
    BY <2>0
  <2> DEFINE n == Len(lookupStorage)
  <2>2. n \in Nat /\ lookupStorage \in [1..n -> Entries] /\ DOMAIN lookupStorage = 1..n
    OBVIOUS
  <2> HIDE DEF n
  <2>3. DOMAIN lookupStorage' = 1..n
    BY <2>1, <2>2
  <2>4. lookupStorage' = [i \in 1..n |-> lookupStorage'[i]]
    BY <2>1, <2>2
  <2>5. \A i \in 1..n : lookupStorage'[i] \in Entries'
    BY <2>3 DEF Entries
  <2>6. lookupStorage' \in [1..n -> Entries']
    BY <2>4, <2>5
  <2> QED
    BY <2>2, <2>6, SeqDef
<1> QED
  BY <1>1, <1>2, <1>3

\* The first offset is within the page and tells the pages apart.
LEMMA FirstOffset ==
  ASSUME Distinct, FirstLookup
  PROVE  /\ off' \in 0..(PageCells - 1) /\ offs' = <<off'>> /\ c' = <<PageValues(off')>>
         /\ TellsApart(off') /\ off' <= PageCells - 2
<1> DEFINE apart == {o \in 0..(PageCells - 1) : TellsApart(o)}
           first == CHOOSE o \in apart : \A q \in apart : o <= q
<1>0. PageCells \in Nat \ {0}
  BY SizesAssumption
<1>1. apart # {} /\ apart \in SUBSET Nat
  BY <1>0 DEF Distinct
<1>2. \E o \in apart : \A q \in apart : o <= q
  BY <1>1, LeastNat
<1>3. first \in apart /\ \A q \in apart : first <= q
  BY <1>2
<1>5. PICK o \in 0..(PageCells - 2) : TellsApart(o)
  BY DEF Distinct
<1>6. o \in apart
  BY <1>0, <1>5
<1>4. off' = first /\ offs' = <<first>> /\ c' = <<PageValues(first)>>
  BY <1>1 DEF FirstLookup
<1> HIDE DEF first
<1> QED
  BY <1>0, <1>3, <1>4, <1>5, <1>6

\* The next offset is never the first one and stays within the page.
LEMMA NextOffsets ==
  ASSUME Distinct, LookupOK, offs # <<>>
  PROVE  NextOffset \in 0..(PageCells - 1)
<1>1. PageCells \in Nat /\ PageCells >= 2
  BY SizesAssumption DEF Distinct
<1>2. offs[1] \in 0..(PageCells - 1) /\ off \in 0..PageCells /\ offs[1] <= PageCells - 2
  <2>1. offs \in Seq(0..(PageCells - 1)) /\ off \in 0..PageCells /\ offs[1] <= PageCells - 2
    BY DEF LookupOK
  <2>2. offs[1] \in 0..(PageCells - 1)
    <3> DEFINE S == 0..(PageCells - 1)
    <3>1. offs \in Seq(S) /\ offs # <<>>
      BY <2>1
    <3> HIDE DEF S
    <3>2. 1 \in DOMAIN offs /\ offs \in [DOMAIN offs -> S]
      BY <3>1
    <3>3. offs[1] \in S
      BY <3>2
    <3> QED
      BY <3>3 DEF S
  <2> QED
    BY <2>1, <2>2
<1>3. CASE off = PageCells
  BY <1>1, <1>2, <1>3 DEF NextOffset
<1>4. CASE off # PageCells
  BY <1>1, <1>2, <1>4 DEF NextOffset
<1> QED
  BY <1>3, <1>4

\* A part of a sequence, whatever is in it.
LEMMA PartOf ==
  ASSUME NEW s, NEW from \in Int, NEW n \in Int
  PROVE  SubSeq(s, from + 1, from + n) = [i \in 1..n |-> s[i + from]]
<1>1. \A a, b \in Int : SubSeq(s, a, b) = [i \in 1..(1 + b - a) |-> s[i + a - 1]]
  OBVIOUS
<1>2. SubSeq(s, from + 1, from + n) =
        [i \in 1..(1 + (from + n) - (from + 1)) |-> s[i + (from + 1) - 1]]
  BY <1>1
<1>3. 1 + (from + n) - (from + 1) = n /\ \A i \in 1..n : i + (from + 1) - 1 = i + from
  OBVIOUS
<1> QED
  BY <1>2, <1>3

\* A page with the contents of an entry is taken for that entry.
LEMMA Recognised ==
  ASSUME Distinct, LookupOK, Len(offs) = MatchNum, lookupStorage \in Seq(Entries),
         NEW e \in DOMAIN lookupStorage, NEW mem, HasPage(mem, e)
  PROVE  Candidate(mem) = {e}
<1> DEFINE page == lookupStorage[e].page
           value(i) == mem[offs[i] + 1]
           maybe == {d \in DOMAIN lookupStorage : c[1][d] = value(1)}
<1>0. MatchNum \in Nat \ {0} /\ PageCells \in Nat /\ MatchNum >= 1
  BY SizesAssumption
<1>1. /\ offs \in Seq(0..(PageCells - 1)) /\ Len(c) = Len(offs)
      /\ \A i \in DOMAIN offs : c[i] = PageValues(offs[i])
      /\ offs # <<>> => TellsApart(offs[1])
  BY DEF LookupOK
<1>2. offs # <<>> /\ DOMAIN offs = 1..MatchNum /\ 1 \in 1..MatchNum
  BY <1>0, <1>1
<1>3. ASSUME NEW i \in 1..MatchNum PROVE c[i][e] = value(i)
  <2>1. offs[i] \in 0..(PageCells - 1)
    <3> DEFINE S == 0..(PageCells - 1)
    <3>1. offs \in Seq(S)
      BY <1>1
    <3> HIDE DEF S
    <3>2. offs \in [DOMAIN offs -> S]
      BY <3>1
    <3>3. offs[i] \in S
      BY <1>2, <3>2
    <3> QED
      BY <3>3 DEF S
  <2>3. c[i] = PageValues(offs[i])
    BY <1>1, <1>2
  <2>2. value(i) = page[offs[i] + 1]
    <3>1. page = [k \in 1..PageCells |-> mem[k]]
      <4>1. page = SubSeq(mem, 0 + 1, 0 + PageCells)
        BY <1>0 DEF HasPage
      <4>2. page = [k \in 1..PageCells |-> mem[k + 0]]
        BY <1>0, <4>1, PartOf
      <4> QED
        BY <1>0, <4>2
    <3>2. offs[i] + 1 \in 1..PageCells
      BY <1>0, <2>1
    <3> QED
      BY <3>1, <3>2
  <2> QED
    BY <2>3, <2>2 DEF PageValues
<1>4. ASSUME NEW d \in maybe PROVE d = e
  <2>1. c[1] = PageValues(offs[1]) /\ IsInjective(PageValues(offs[1]))
    BY <1>1, <1>2 DEF TellsApart
  <2>2. PageValues(offs[1])[d] = PageValues(offs[1])[e]
    BY <1>2, <1>3, <2>1
  <2>3. d \in DOMAIN PageValues(offs[1]) /\ e \in DOMAIN PageValues(offs[1])
    BY DEF PageValues
  <2> QED
    BY <2>1, <2>2, <2>3 DEF IsInjective
<1>5. maybe = {e}
  BY <1>2, <1>3, <1>4
<1>6. Candidate(mem) = {d \in maybe : /\ \A x \in maybe : d <= x
                                      /\ \A i \in 2..MatchNum : c[i][d] = value(i)}
  BY DEF Candidate
<1> HIDE DEF maybe, value
<1>7. e \in Nat
  OBVIOUS
<1> QED
  BY <1>0, <1>3, <1>5, <1>6, <1>7

\* What was gathered stays good as long as neither it nor the pages change.
LEMMA SameLookup ==
  ASSUME UNCHANGED <<lookupStorage, off, offs, c>>
  PROVE  (Distinct' <=> Distinct) /\ (LookupOK' <=> LookupOK) /\ Entries' = Entries
<1>1. \A o : PageValues(o)' = PageValues(o)
  BY DEF PageValues
<1>2. \A o : TellsApart(o)' <=> TellsApart(o)
  BY <1>1 DEF TellsApart
<1>3. AllValues' = AllValues
  BY <1>1 DEF AllValues
<1> QED
  BY <1>1, <1>2, <1>3 DEF Distinct, LookupOK, Entries

\* One more offset, with the values of the pages there.
LEMMA StepNextLookup == LookupInv /\ NextLookup => LookupInv'
<1> SUFFICES ASSUME LookupInv, NextLookup PROVE LookupInv'
  OBVIOUS
<1>1. UNCHANGED <<lookupStorage, before, after, phase>> /\ phase = "lookups"
  BY DEF NextLookup, loaded, progress, validated
<1>2. \A o : PageValues(o)' = PageValues(o)
  BY <1>1 DEF PageValues
<1>3. \A o : TellsApart(o)' <=> TellsApart(o)
  BY <1>2 DEF TellsApart
<1>4. AllValues' = AllValues /\ Entries' = Entries /\ (Distinct' <=> Distinct)
  BY <1>1, <1>2, <1>3 DEF AllValues, Entries, Distinct
<1>5. PagesServed'
  BY <1>1 DEF PagesServed
<1>6. ASSUME Distinct PROVE LookupOK'
  <2>0. PageCells \in Nat \ {0} /\ MatchNum \in Nat \ {0}
    BY SizesAssumption
  <2>1. LookupOK /\ offs # <<>>
    BY <1>1, <1>6, <2>0 DEF LookupInv, NextLookup
  <2>2. NextOffset \in 0..(PageCells - 1)
    BY <1>6, <2>1, NextOffsets
  <2> DEFINE o == NextOffset
  <2>3. /\ offs' = Append(offs, o) /\ c' = Append(c, PageValues(o))
        /\ off' = o + 1
    BY <2>0, <2>2 DEF NextLookup, Values, InPage
  <2> DEFINE S == 0..(PageCells - 1)
             V == AllValues
  <2>4. /\ offs \in Seq(S) /\ c \in Seq(V) /\ Len(c) = Len(offs)
        /\ \A i \in DOMAIN offs : c[i] = PageValues(offs[i])
        /\ TellsApart(offs[1]) /\ offs[1] <= PageCells - 2
    BY <2>1 DEF LookupOK
  <2>5. o \in S /\ PageValues(o) \in V
    BY <2>2 DEF AllValues
  <2>6. off' \in 0..PageCells
    BY <2>0, <2>2, <2>3
  <2> HIDE DEF S, V, o
  <2> DEFINE v == PageValues(o)
  <2>7. v \in V /\ c' = Append(c, v)
    BY <2>3, <2>5
  <2>8. \A i \in DOMAIN offs' : c'[i] = PageValues(offs'[i])
    <3> SUFFICES ASSUME NEW i \in DOMAIN offs' PROVE c'[i] = PageValues(offs'[i])
      OBVIOUS
    <3>1. CASE i \in DOMAIN offs
      <4>1. offs'[i] = offs[i]
        BY <2>3, <2>4, <2>5, <3>1
      <4>2. c'[i] = c[i]
        <5> HIDE DEF v
        <5> QED
          BY <2>4, <2>7, <3>1
      <4> QED
        BY <2>4, <3>1, <4>1, <4>2
    <3>2. CASE i \notin DOMAIN offs
      <4>1. i = Len(offs) + 1 /\ offs'[i] = o
        BY <2>3, <2>4, <2>5, <3>2
      <4>2. c'[i] = v
        <5> HIDE DEF v
        <5> QED
          BY <2>4, <2>7, <4>1
      <4> QED
        BY <4>1, <4>2
    <3> QED
      BY <3>1, <3>2
  <2>9. offs' \in Seq(S) /\ offs'[1] = offs[1]
    BY <2>1, <2>3, <2>4, <2>5
  <2>10. c' \in Seq(V) /\ Len(c') = Len(offs')
    <3> HIDE DEF v
    <3> QED
      BY <2>3, <2>4, <2>5, <2>7
  <2> USE DEF S, V
  <2> QED
    BY <1>2, <1>3, <1>4, <2>4, <2>6, <2>8, <2>9, <2>10 DEF LookupOK
<1> QED
  BY <1>1, <1>4, <1>5, <1>6 DEF LookupInv

\* A page that is taken for its own entry is patched as that entry says.
LEMMA StepPerform ==
  ASSUME LookupInv, NEW mem, PerformPagePatch(mem)
  PROVE  LookupInv'
<1>1. UNCHANGED <<section, lookupStorage, off, offs, c, phase>> /\ phase = "ready" /\ before' = mem
  BY DEF PerformPagePatch, loaded, progress, looked
<1>2. (Distinct' <=> Distinct) /\ (LookupOK' <=> LookupOK) /\ Entries' = Entries
  BY <1>1, SameLookup
<1>3. ASSUME Distinct, NEW e \in DOMAIN lookupStorage, HasPage(mem, e)
      PROVE  after' \in Outcome(mem, lookupStorage[e])
  <2>1. Candidate(mem) = {e}
    BY <1>1, <1>3, Recognised DEF LookupInv
  <2> DEFINE hit == {x \in Candidate(mem) : HasPage(mem, x)}
  <2>2. hit = {e}
    BY <1>3, <2>1
  <2>3. after' \in IF hit = {} THEN {mem}
                   ELSE Outcome(mem, lookupStorage[CHOOSE x \in hit : TRUE])
    BY DEF PerformPagePatch
  <2> HIDE DEF hit
  <2> QED
    BY <2>2, <2>3
<1>4. PagesServed'
  <2>1. \A e : HasPage(before, e)' <=> HasPage(mem, e)
    BY <1>1 DEF HasPage
  <2>2. \A x : Outcome(before, x)' = Outcome(mem, x)
    BY <1>1 DEF Outcome, PatchRefs, Applied
  <2> QED
    BY <1>1, <1>2, <1>3, <2>1, <2>2 DEF PagesServed, Distinct
<1> QED
  BY <1>1, <1>2, <1>4 DEF LookupInv

\* Every step keeps what is known of the lookup.
LEMMA StepLookup == LookupInv /\ [Next]_vars => LookupInv'
<1> SUFFICES ASSUME LookupInv, [Next]_vars PROVE LookupInv'
  OBVIOUS
<1> USE DEF loaded, progress, looked, validated
\* Most steps leave the pages and the lookup alone.
<1>0. ASSUME UNCHANGED <<lookupStorage, off, offs, c, before, after>>,
             phase' \in {"files", "lookups", "hook", "ready", "off"},
             phase' # "ready" => before = <<>>, phase' = "ready" => phase # "files" /\ before = <<>>,
             phase' = "files" => phase = "files",
             phase' \in {"hook", "ready"} => Len(offs) = MatchNum
      PROVE  LookupInv'
  <2>1. (Distinct' <=> Distinct) /\ (LookupOK' <=> LookupOK) /\ Entries' = Entries
    BY <1>0, SameLookup
  <2>2. phase = "files" => LookupOK
    BY SizesAssumption DEF LookupInv, LookupOK
  <2>3. PagesServed'
    BY <1>0 DEF PagesServed
  <2> QED
    BY <1>0, <2>1, <2>2, <2>3 DEF LookupInv
<1>1. CASE UNCHANGED vars
  <2>1. UNCHANGED <<lookupStorage, off, offs, c, before, after, phase>>
    BY <1>1 DEF vars
  <2>2. (Distinct' <=> Distinct) /\ (LookupOK' <=> LookupOK) /\ Entries' = Entries
    BY <2>1, SameLookup
  <2>3. PagesServed'
    <3>1. \A e : HasPage(before, e)' <=> HasPage(before, e)
      BY <2>1 DEF HasPage
    <3>2. \A x : Outcome(before, x)' = Outcome(before, x)
      BY <2>1 DEF Outcome, PatchRefs, Applied
    <3> QED
      BY <2>1, <2>2, <3>1, <3>2 DEF PagesServed, Distinct, LookupInv
  <2> QED
    BY <2>1, <2>2, <2>3 DEF LookupInv
<1>2. CASE SkipFile
  BY <1>2, <1>0 DEF SkipFile, LookupInv
<1>3. CASE LoadPatch
  BY <1>3, <1>0 DEF LoadPatch, LookupInv
<1>4. CASE ScanPlace
  <2>1. CASE UNCHANGED lookupStorage
    BY <1>0, <1>4, <2>1 DEF ScanPlace, Scanning, LookupInv
  <2>2. CASE lookupStorage' = AddFinding(lookupStorage, at[1], at[2], scan.o)
    <3>1. lookupStorage' \in Seq(Entries')
      BY <2>2, StillEntries DEF LookupInv
    <3>2. UNCHANGED <<phase, off, offs, c, before, after>> /\ phase = "files"
      BY <1>4 DEF ScanPlace, Scanning
    <3> QED
      BY <3>1, <3>2 DEF LookupInv, PagesServed
  <2> QED
    BY <1>4, <2>1, <2>2 DEF ScanPlace
<1>5. CASE PatchLoaded
  BY <1>5, <1>0 DEF PatchLoaded, LookupInv
<1>6. CASE NextFile
  BY <1>6, <1>0 DEF NextFile, LookupInv
<1>7. CASE FilesLoaded
  BY <1>7, <1>0 DEF FilesLoaded, LookupInv
<1>8. CASE FirstLookup
  <2>1. UNCHANGED <<lookupStorage, before, after, phase>> /\ phase = "lookups"
    BY <1>8 DEF FirstLookup
  <2>2. \A o : PageValues(o)' = PageValues(o)
    BY <2>1 DEF PageValues
  <2>3. \A o : TellsApart(o)' <=> TellsApart(o)
    BY <2>2 DEF TellsApart
  <2>4. AllValues' = AllValues /\ Entries' = Entries /\ (Distinct' <=> Distinct)
    BY <2>1, <2>2, <2>3 DEF AllValues, Entries, Distinct
  <2>5. ASSUME Distinct PROVE LookupOK'
    <3> DEFINE o == off'
    <3>1. /\ o \in 0..(PageCells - 1) /\ offs' = <<o>> /\ c' = <<PageValues(o)>>
          /\ TellsApart(o) /\ o <= PageCells - 2
      BY <1>8, <2>5, FirstOffset
    <3>2. PageValues(o) \in AllValues /\ off' \in 0..PageCells
      BY <3>1, SizesAssumption DEF AllValues
    <3> HIDE DEF o
    <3>3. offs' \in Seq(0..(PageCells - 1)) /\ Len(offs') = 1 /\ offs'[1] = o
          /\ DOMAIN offs' = {1}
      BY <3>1
    <3>4. c' \in Seq(AllValues) /\ Len(c') = 1 /\ c'[1] = PageValues(o)
      BY <3>1, <3>2
    <3> QED
      BY <2>2, <2>3, <2>4, <3>1, <3>2, <3>3, <3>4 DEF LookupOK
  <2>6. PagesServed'
    BY <2>1 DEF PagesServed
  <2> QED
    BY <2>1, <2>4, <2>5, <2>6 DEF LookupInv
<1>9. CASE NextLookup
  BY <1>9, StepNextLookup
<1>10. CASE LookupsLoaded
  BY <1>10, <1>0 DEF LookupsLoaded, LookupInv
<1>11. CASE HookMemoryAccess
  BY <1>11, <1>0 DEF HookMemoryAccess, LookupInv
<1>12. ASSUME NEW mem \in Memory, PerformPagePatch(mem) PROVE LookupInv'
  BY <1>12, StepPerform
<1> QED
  BY <1>1, <1>2, <1>3, <1>4, <1>5, <1>6, <1>7, <1>8, <1>9, <1>10, <1>11, <1>12 DEF Next

\* Whatever the binaries and the patches are: a page that was read from a binary is
\* patched when performPagePatch sees it, if the pages that hold patches differ at
\* some offset before the last.
THEOREM PagesAreServed == Spec => []PagesServed
<1>1. LookupInv => PagesServed
  BY DEF LookupInv
<1> QED
  BY InitLookup, StepLookup, <1>1, PTL DEF Spec

-----------------------------------------------------------------------------
(* What is written into a page. *)

\* Every non-empty set of natural numbers with a bound has a greatest element.
LEMMA GreatestNat ==
  ASSUME NEW n \in Nat, NEW T \in SUBSET (0..n), T # {}
  PROVE  \E x \in T : \A y \in T : y <= x
<1> DEFINE S == {n - x : x \in T}
<1>1. S \in SUBSET Nat /\ S # {}
  <2>1. \A x \in T : n - x \in Nat
    OBVIOUS
  <2> QED
    BY <2>1
<1>2. PICK s \in S : \A y \in S : s <= y
  BY <1>1, LeastNat
<1>3. PICK x \in T : s = n - x
  OBVIOUS
<1>4. ASSUME NEW y \in T PROVE y <= x
  <2>1. n - y \in S
    OBVIOUS
  <2>2. n - x <= n - y
    BY <1>2, <1>3, <2>1
  <2> QED
    BY <2>2
<1> QED
  BY <1>4

\* Of the writes to a cell, one is the last.
LEMMA LastWrite ==
  ASSUME NEW n \in Nat, NEW ends \in [0..n -> Nat],
         NEW W \in SUBSET ((0..n) \X Nat), W # {}, \A w \in W : w[2] <= ends[w[1]]
  PROVE  \E w \in W : \A v \in W : v[1] < w[1] \/ (v[1] = w[1] /\ v[2] <= w[2])
<1> DEFINE R == {w[1] : w \in W}
<1>1. R \in SUBSET (0..n) /\ R # {}
  OBVIOUS
<1>2. PICK r \in R : \A x \in R : x <= r
  <2> HIDE DEF R
  <2> QED
    BY <1>1, GreatestNat
<1> DEFINE Q == {w[2] : w \in {v \in W : v[1] = r}}
<1>3. Q \in SUBSET (0..ends[r]) /\ Q # {} /\ ends[r] \in Nat
  OBVIOUS
<1>4. PICK q \in Q : \A x \in Q : x <= q
  <2> HIDE DEF Q
  <2> QED
    BY <1>3, GreatestNat
<1>5. PICK w \in W : w[1] = r /\ w[2] = q
  OBVIOUS
<1>6. ASSUME NEW v \in W PROVE v[1] < w[1] \/ (v[1] = w[1] /\ v[2] <= w[2])
  <2>1. v[1] \in R /\ v[1] \in Nat /\ v[2] \in Nat /\ r \in Nat
    BY <1>1
  <2>2. v[1] <= r
    BY <1>2, <2>1
  <2>3. CASE v[1] = r
    <3>1. v[2] \in Q
      BY <2>3
    <3> QED
      BY <1>4, <1>5, <2>3, <3>1
  <2>4. CASE v[1] # r
    BY <1>5, <2>1, <2>2, <2>4
  <2> QED
    BY <2>3, <2>4
<1> QED
  BY <1>6

-----------------------------------------------------------------------------
(* What an entry refers to. *)

\* References whose patches and places are among the given pairs.
Refs(G) ==
  {x \in [i : Nat, pageOffs : Seq(Nat)] :
     x.pageOffs # <<>> /\ \A q \in DOMAIN x.pageOffs : <<x.i, x.pageOffs[q]>> \in G}

\* AddRef adds the pair to a reference that is there or to a new one.
LEMMA AddedRef ==
  ASSUME NEW G, NEW refs \in Seq(Refs(G)), NEW p \in Nat, NEW o \in Nat, <<p, o>> \in G
  PROVE  AddRef(refs, p, o) \in Seq(Refs(G))
<1> DEFINE found == {k \in DOMAIN refs : refs[k].i = p}
           r == IF found = {} THEN Len(refs) + 1 ELSE CHOOSE k \in found : \A j \in found : k <= j
           R == Refs(G)
<1>1. AddRef(refs, p, o) =
        IF r > Len(refs) THEN Append(refs, [i |-> p, pageOffs |-> <<o>>])
        ELSE [refs EXCEPT ![r].pageOffs = Append(refs[r].pageOffs, o)]
  BY DEF AddRef, FirstIndex
<1>2. CASE r > Len(refs)
  <2> DEFINE new == [i |-> p, pageOffs |-> <<o>>]
  <2>1. new \in R
    <3>1. <<o>> \in Seq(Nat) /\ DOMAIN <<o>> = {1} /\ <<o>>[1] = o /\ <<o>> # <<>>
      OBVIOUS
    <3>2. new \in [i : Nat, pageOffs : Seq(Nat)]
      BY <3>1
    <3> QED
      BY <3>1, <3>2 DEF Refs
  <2> HIDE DEF new, R
  <2>2. refs \in Seq(R)
    BY DEF R
  <2>3. Append(refs, new) \in Seq(R)
    BY <2>1, <2>2
  <2> QED
    BY <1>1, <1>2, <2>3 DEF new, R
<1>3. CASE ~(r > Len(refs))
  <2>0. Len(refs) \in Nat /\ DOMAIN refs = 1..Len(refs)
    <3> HIDE DEF R
    <3> QED
      BY DEF R
  <2>1. found # {} /\ found \in SUBSET Nat
    BY <1>3, <2>0
  <2>2. \E k \in found : \A j \in found : k <= j
    BY <2>1, LeastNat
  <2>3. r \in found
    BY <2>1, <2>2
  <2> HIDE DEF r
  <2>4. r \in DOMAIN refs /\ refs[r].i = p
    BY <2>3
  <2> DEFINE new == [refs[r] EXCEPT !.pageOffs = Append(refs[r].pageOffs, o)]
             x == refs[r]
  <2>5. x \in R
    <3> HIDE DEF R
    <3> QED
      BY <2>4 DEF R
  <2>6. x \in [i : Nat, pageOffs : Seq(Nat)] /\ \A q \in DOMAIN x.pageOffs : <<x.i, x.pageOffs[q]>> \in G
    BY <2>5 DEF Refs
  <2>7. x.i = p
    BY <2>4
  <2>8. new = [i |-> x.i, pageOffs |-> Append(x.pageOffs, o)]
    <3>1. \A y \in [i : Nat, pageOffs : Seq(Nat)] : \A v :
            [y EXCEPT !.pageOffs = v] = [i |-> y.i, pageOffs |-> v]
      OBVIOUS
    <3> HIDE DEF x
    <3> QED
      BY <2>6, <3>1 DEF x
  <2> HIDE DEF x
  <2> DEFINE more == Append(x.pageOffs, o)
  <2>9. more \in Seq(Nat) /\ \A q \in DOMAIN more : (q \in DOMAIN x.pageOffs /\ more[q] = x.pageOffs[q]) \/ more[q] = o
    BY <2>6
  <2>15. more # <<>>
    <3>1. x.pageOffs \in Seq(Nat) /\ Len(x.pageOffs) \in Nat
      BY <2>6
    <3>2. Len(more) = Len(x.pageOffs) + 1
      BY <3>1
    <3>3. Len(more) > 0 /\ Len(<<>>) = 0
      BY <3>1, <3>2
    <3> HIDE DEF more
    <3> QED
      BY <3>3
  <2>10. [i |-> x.i, pageOffs |-> more] \in R
    <3> HIDE DEF more
    <3>1. [i |-> x.i, pageOffs |-> more] \in [i : Nat, pageOffs : Seq(Nat)]
      BY <2>6, <2>9
    <3>2. \A q \in DOMAIN more : <<x.i, more[q]>> \in G
      BY <2>6, <2>7, <2>9
    <3> QED
      BY <2>15, <3>1, <3>2 DEF Refs
  <2>11. new \in R
    BY <2>8, <2>10
  <2>12. AddRef(refs, p, o) = [refs EXCEPT ![r] = new]
    BY <1>1, <1>3
  <2> HIDE DEF new, R
  <2>13. refs \in Seq(R)
    BY DEF R
  <2>14. [refs EXCEPT ![r] = new] \in Seq(R)
    BY <2>4, <2>11, <2>13
  <2> QED
    BY <2>12, <2>14 DEF R
<1> QED
  BY <1>2, <1>3

-----------------------------------------------------------------------------
\* Patches that are switched on, with places in the page at base where the binary has
\* what they look for.
Hits(m, base) ==
  {g \in Nat \X (0..(PageCells - 1)) :
     /\ g[1] \in DOMAIN Patches[m] /\ ~Patches[m][g[1]].disabled
     /\ OccursAt(Patches[m][g[1]].find, section[m], base + g[2])}

\* An entry with the findings of its own binary only refers to such places.
GoodEntry(x) ==
  /\ x = [mod |-> x.mod, pageOff |-> x.pageOff, page |-> x.page, mods |-> x.mods, refs |-> x.refs]
  /\ x.mod \in Mods /\ x.mod \in x.mods
  /\ x.mods = {x.mod} => x.refs \in Seq(Refs(Hits(x.mod, x.pageOff)))

\* A place and its page.
LEMMA PageOf ==
  ASSUME NEW place \in Nat
  PROVE  /\ place % PageCells \in 0..(PageCells - 1) /\ place - (place % PageCells) \in Nat
         /\ (place - (place % PageCells)) + (place % PageCells) = place
<1>1. PageCells \in Nat /\ PageCells > 0
  BY SizesAssumption
<1>2. place % PageCells \in 0..(PageCells - 1) /\ place % PageCells <= place
  BY <1>1
<1> QED
  BY <1>2

\* A finding is a hit in its page.
LEMMA FoundInPage ==
  ASSUME NEW m \in Mods, NEW p \in DOMAIN Patches[m], ~Patches[m][p].disabled,
         NEW place \in Nat, OccursAt(Patches[m][p].find, section[m], place)
  PROVE  <<p, place % PageCells>> \in Hits(m, place - (place % PageCells))
<1> DEFINE o == place % PageCells
           base == place - (place % PageCells)
<1>1. o \in 0..(PageCells - 1) /\ base + o = place
  BY PageOf
<1>2. p \in Nat
  <2>1. Patches[m] \in Seq(Patch)
    BY PatchesAssumption
  <2> HIDE DEF Patch
  <2> QED
    BY <2>1
<1> HIDE DEF o, base
<1>3. <<p, o>> \in Hits(m, base)
  BY <1>1, <1>2 DEF Hits
<1> QED
  BY <1>3 DEF o, base

\* One more reference.
LEMMA EntryGrows ==
  ASSUME NEW x, GoodEntry(x), NEW m, NEW g \in Hits(m, x.pageOff)
  PROVE  GoodEntry(WithRef(x, m, g[1], g[2]))
<1> DEFINE more == AddRef(x.refs, g[1], g[2])
           all == x.mods \cup {m}
<1>1. all = {x.mod} => more \in Seq(Refs(Hits(x.mod, x.pageOff)))
  <2> SUFFICES ASSUME all = {x.mod} PROVE more \in Seq(Refs(Hits(x.mod, x.pageOff)))
    OBVIOUS
  <2>1. m = x.mod /\ x.mods = {x.mod}
    BY DEF GoodEntry
  <2>2. g[1] \in Nat /\ g[2] \in Nat /\ <<g[1], g[2]>> \in Hits(x.mod, x.pageOff)
    BY <2>1 DEF Hits
  <2> QED
    BY <2>1, <2>2, AddedRef DEF GoodEntry
<1> HIDE DEF more, all
<1> DEFINE y == [x EXCEPT !.refs = more, !.mods = all]
<1>2. PICK a, b, d, e, f : x = [mod |-> a, pageOff |-> b, page |-> d, mods |-> e, refs |-> f]
  BY DEF GoodEntry
<1>3. y = [mod |-> a, pageOff |-> b, page |-> d, mods |-> all, refs |-> more]
  <2>1. y = [[mod |-> a, pageOff |-> b, page |-> d, mods |-> e, refs |-> f]
               EXCEPT !.refs = more, !.mods = all]
    BY <1>2
  <2> HIDE DEF y
  <2> QED
    BY <2>1
<1>4. y.mod = x.mod /\ y.pageOff = x.pageOff /\ y.page = x.page /\ y.mods = all /\ y.refs = more
  BY <1>2, <1>3
<1>5. y = [mod |-> y.mod, pageOff |-> y.pageOff, page |-> y.page, mods |-> y.mods, refs |-> y.refs]
  BY <1>3
<1> HIDE DEF y
<1>6. x.mod \in Mods /\ x.mod \in all
  BY DEF GoodEntry, all
<1>7. GoodEntry(y)
  BY <1>1, <1>4, <1>5, <1>6 DEF GoodEntry
<1> QED
  BY <1>7 DEF y, more, all, WithRef

\* A new entry.
LEMMA EntryMade ==
  ASSUME NEW m \in Mods, NEW base, NEW page, NEW p, NEW o, <<p, o>> \in Hits(m, base)
  PROVE  GoodEntry([mod |-> m, pageOff |-> base, page |-> page, mods |-> {m},
                    refs |-> AddRef(<<>>, p, o)])
<1> DEFINE none == <<>>
           more == AddRef(none, p, o)
<1>1. more \in Seq(Refs(Hits(m, base)))
  <2>1. p \in Nat /\ o \in Nat
    BY DEF Hits
  <2>2. none \in Seq(Refs(Hits(m, base)))
    OBVIOUS
  <2> HIDE DEF none
  <2> QED
    BY <2>1, <2>2, AddedRef
<1> HIDE DEF more
<1> DEFINE y == [mod |-> m, pageOff |-> base, page |-> page, mods |-> {m}, refs |-> more]
<1>2. y.mod = m /\ y.pageOff = base /\ y.page = page /\ y.mods = {m} /\ y.refs = more
  OBVIOUS
<1> HIDE DEF y
<1>3. y = [mod |-> y.mod, pageOff |-> y.pageOff, page |-> y.page, mods |-> y.mods, refs |-> y.refs]
  BY <1>2 DEF y
<1>4. GoodEntry(y)
  BY <1>1, <1>2, <1>3 DEF GoodEntry
<1> QED
  BY <1>4 DEF y, more

-----------------------------------------------------------------------------
(* ChangedAsAsked. *)

Searched ==
  /\ at[1] \in Mods /\ at[2] \in DOMAIN Patches[at[1]] /\ ~Patches[at[1]][at[2]].disabled
  /\ scan \in [o : Nat, skip : Int, count : Int]

FoundInv ==
  /\ lookupStorage \in Seq(Entries)
  /\ phase = "files" /\ scan # <<>> => Searched
  /\ phase # "ready" => before = after
  /\ \A e \in DOMAIN lookupStorage : GoodEntry(lookupStorage[e])
  /\ ChangedAsAsked

\* Entries stay good as long as the binaries stay as they are.
LEMMA SameEntry ==
  ASSUME UNCHANGED section
  PROVE  \A x : GoodEntry(x)' <=> GoodEntry(x)
<1>1. \A m, base : Hits(m, base)' = Hits(m, base)
  BY DEF Hits, OccursAt
<1> QED
  BY <1>1 DEF GoodEntry, Refs

\* What was asked for stays so as long as neither entries nor binaries change.
LEMMA SameAnswer ==
  ASSUME UNCHANGED <<section, lookupStorage, before, after>>
  PROVE  ChangedAsAsked' <=> ChangedAsAsked
<1>1. \A e, k : Asked(e, k)' <=> Asked(e, k)
  BY DEF Asked, HasPage, Puts, OccursAt
<1> QED
  BY <1>1 DEF ChangedAsAsked

\* The finding becomes a reference of an entry.
LEMMA StepFinding ==
  ASSUME FoundInv, ScanPlace, UNCHANGED section,
         lookupStorage' = AddFinding(lookupStorage, at[1], at[2], scan.o),
         OccursAt(Patches[at[1]][at[2]].find, section[at[1]], scan.o)
  PROVE  \A e \in DOMAIN lookupStorage' : GoodEntry(lookupStorage'[e])
<1> DEFINE m == at[1]
           p == at[2]
           place == scan.o
           o == place % PageCells
           base == place - o
           page == SubSeq(section[m], base + 1, base + PageCells)
<1>1. /\ m \in Mods /\ p \in DOMAIN Patches[m] /\ ~Patches[m][p].disabled /\ place \in Nat
      /\ OccursAt(Patches[m][p].find, section[m], place)
  BY DEF ScanPlace, Scanning, FoundInv, Searched
<1>3. <<p, o>> \in Hits(m, base)
  BY <1>1, FoundInPage
<1>4. Len(lookupStorage) \in Nat /\ DOMAIN lookupStorage = 1..Len(lookupStorage)
  <2> DEFINE E == Entries
  <2>1. lookupStorage \in Seq(E)
    BY DEF FoundInv
  <2> HIDE DEF E
  <2> QED
    BY <2>1
<1>5. \A e \in DOMAIN lookupStorage : GoodEntry(lookupStorage[e])
  BY DEF FoundInv
<1> DEFINE new == [mod |-> m, pageOff |-> base, page |-> page, mods |-> {m},
                   refs |-> AddRef(<<>>, p, o)]
           grown(e) == WithRef(lookupStorage[e], m, p, o)
<1>6. \/ lookupStorage' = Append(lookupStorage, new)
      \/ \E e \in DOMAIN lookupStorage :
           lookupStorage[e].pageOff = base /\ lookupStorage' = WithEntry(lookupStorage, e, grown(e))
  BY <1>4, FindingIs
<1>7. GoodEntry(new)
  BY <1>1, <1>3, EntryMade
<1>8. ASSUME NEW e \in DOMAIN lookupStorage, lookupStorage[e].pageOff = base PROVE GoodEntry(grown(e))
  <2> DEFINE x == lookupStorage[e]
  <2>1. GoodEntry(x) /\ x.pageOff = base
    BY <1>5, <1>8
  <2>3. <<p, o>> \in Hits(m, x.pageOff)
    BY <1>3, <2>1
  <2> HIDE DEF x, m, p, o
  <2>4. GoodEntry(WithRef(x, m, <<p, o>>[1], <<p, o>>[2]))
    BY <2>1, <2>3, EntryGrows
  <2> QED
    BY <2>4 DEF x
<1> HIDE DEF m, p, place, o, base, page, new, grown
<1>9. CASE lookupStorage' = Append(lookupStorage, new)
  <2> SUFFICES ASSUME NEW e \in DOMAIN lookupStorage' PROVE GoodEntry(lookupStorage'[e])
    OBVIOUS
  <2>1. lookupStorage'[e] = new \/ (e \in DOMAIN lookupStorage /\ lookupStorage'[e] = lookupStorage[e])
    <3> DEFINE E == Entries
    <3>1. lookupStorage \in Seq(E)
      BY DEF FoundInv
    <3> HIDE DEF E
    <3> QED
      BY <1>9, <3>1
  <2> QED
    BY <1>5, <1>7, <2>1
<1>10. ASSUME NEW d \in DOMAIN lookupStorage, lookupStorage[d].pageOff = base,
              lookupStorage' = WithEntry(lookupStorage, d, grown(d))
       PROVE  \A e \in DOMAIN lookupStorage' : GoodEntry(lookupStorage'[e])
  <2> SUFFICES ASSUME NEW e \in DOMAIN lookupStorage' PROVE GoodEntry(lookupStorage'[e])
    OBVIOUS
  <2>1. e \in DOMAIN lookupStorage /\ lookupStorage'[e] = IF e = d THEN grown(d) ELSE lookupStorage[e]
    BY <1>10 DEF WithEntry
  <2>2. GoodEntry(grown(d))
    BY <1>8, <1>10
  <2> QED
    BY <1>5, <2>1, <2>2
<1> QED
  BY <1>6, <1>9, <1>10

\* An entry of one binary writes what its references point to.
LEMMA RefsAreAsked ==
  ASSUME NEW x, GoodEntry(x), x.mods = {x.mod}, NEW mem, NEW k \in DOMAIN mem,
         PatchRefs(mem, x)[k] # mem[k]
  PROVE  \E p \in DOMAIN Patches[x.mod], o \in 0..(PageCells - 1) :
           Puts(x.mod, p, x.pageOff, o, k, PatchRefs(mem, x)[k])
<1> DEFINE replace(r) == Patches[x.mod][x.refs[r].i].replace
           place(w) == x.refs[w[1]].pageOffs[w[2]]
           writes == UNION {{r} \X DOMAIN x.refs[r].pageOffs : r \in Applied(x)}
           to == {w \in writes : k - place(w) \in DOMAIN replace(w[1])}
           last == CHOOSE w \in to : \A v \in to : v[1] < w[1] \/ (v[1] = w[1] /\ v[2] <= w[2])
           R == Refs(Hits(x.mod, x.pageOff))
           Refer == [i : Nat, pageOffs : Seq(Nat)]
           n == Len(x.refs)
<1>0. PatchRefs(mem, x)[k] = IF to = {} THEN mem[k] ELSE replace(last[1])[k - place(last)]
  BY DEF PatchRefs
<1>1. to # {} /\ PatchRefs(mem, x)[k] = replace(last[1])[k - place(last)]
  BY <1>0
<1>2. x.refs \in Seq(R) /\ x.mod \in Mods
  BY DEF GoodEntry
<1>3. n \in Nat /\ DOMAIN x.refs = 1..n /\ \A r \in 1..n : x.refs[r] \in R
  <2> HIDE DEF R
  <2> QED
    BY <1>2
<1>4. ASSUME NEW r \in 1..n
      PROVE  /\ x.refs[r].i \in Nat /\ x.refs[r].pageOffs \in Seq(Nat)
             /\ Len(x.refs[r].pageOffs) \in Nat
             /\ DOMAIN x.refs[r].pageOffs = 1..Len(x.refs[r].pageOffs)
             /\ \A q \in DOMAIN x.refs[r].pageOffs :
                  /\ <<x.refs[r].i, x.refs[r].pageOffs[q]>> \in Hits(x.mod, x.pageOff)
                  /\ x.refs[r].pageOffs[q] \in Nat
  <2> DEFINE ref == x.refs[r]
  <2>1. ref \in R
    BY <1>3
  <2> HIDE DEF ref
  <2>2. ref \in Refer /\ \A q \in DOMAIN ref.pageOffs : <<ref.i, ref.pageOffs[q]>> \in Hits(x.mod, x.pageOff)
    BY <2>1 DEF Refs
  <2>3. ref.i \in Nat /\ ref.pageOffs \in Seq(Nat)
    BY <2>2
  <2> QED
    BY <2>2, <2>3 DEF ref
<1> HIDE DEF R
<1>5. \A w \in to : /\ w = <<w[1], w[2]>> /\ w[1] \in 1..n /\ w[1] \in Applied(x)
                    /\ w[2] \in DOMAIN x.refs[w[1]].pageOffs
                    /\ k - place(w) \in DOMAIN replace(w[1])
  <2> SUFFICES ASSUME NEW w \in to
               PROVE  /\ w = <<w[1], w[2]>> /\ w[1] \in 1..n /\ w[1] \in Applied(x)
                      /\ w[2] \in DOMAIN x.refs[w[1]].pageOffs
                      /\ k - place(w) \in DOMAIN replace(w[1])
    OBVIOUS
  <2>1. w \in writes /\ k - place(w) \in DOMAIN replace(w[1])
    OBVIOUS
  <2> HIDE DEF place, replace
  <2>2. PICK r \in Applied(x) : w \in {r} \X DOMAIN x.refs[r].pageOffs
    BY <2>1
  <2>3. w = <<w[1], w[2]>> /\ w[1] = r /\ w[2] \in DOMAIN x.refs[r].pageOffs
    BY <2>2
  <2>4. r \in 1..n
    BY <1>3 DEF Applied
  <2> QED
    BY <2>1, <2>2, <2>3, <2>4
<1> DEFINE ends == [r \in 0..n |-> IF r = 0 THEN 0 ELSE Len(x.refs[r].pageOffs)]
<1>6. ends \in [0..n -> Nat]
  BY <1>3, <1>4
<1>7. to \in SUBSET ((0..n) \X Nat) /\ \A w \in to : w[2] <= ends[w[1]]
  <2> SUFFICES ASSUME NEW w \in to PROVE w \in (0..n) \X Nat /\ w[2] <= ends[w[1]]
    OBVIOUS
  <2>1. w = <<w[1], w[2]>> /\ w[1] \in 1..n /\ w[2] \in DOMAIN x.refs[w[1]].pageOffs
    BY <1>5
  <2> HIDE DEF to
  <2>2. w[2] \in Nat /\ w[2] <= Len(x.refs[w[1]].pageOffs)
    BY <1>4, <2>1
  <2> QED
    BY <1>3, <2>1, <2>2
<1> HIDE DEF to, ends
<1>8. last \in to
  <2>1. \E w \in to : \A v \in to : v[1] < w[1] \/ (v[1] = w[1] /\ v[2] <= w[2])
    BY <1>1, <1>3, <1>6, <1>7, LastWrite
  <2> QED
    BY <2>1
<1> HIDE DEF last
<1> DEFINE p == x.refs[last[1]].i
           o == place(last)
           j == k - o
           y == Patches[x.mod][p]
<1>9. /\ <<p, o>> \in Hits(x.mod, x.pageOff)
      /\ last[1] \in Applied(x) /\ j \in DOMAIN y.replace
  BY <1>4, <1>5, <1>8
<1>10. /\ p \in DOMAIN Patches[x.mod] /\ ~y.disabled /\ ~y.local /\ o \in 0..(PageCells - 1)
       /\ OccursAt(y.find, section[x.mod], x.pageOff + o)
  BY <1>9 DEF Hits, Applied
<1>11. PatchRefs(mem, x)[k] = y.replace[j]
  BY <1>1
<1> HIDE DEF o, p
<1>12. Puts(x.mod, p, x.pageOff, o, k, PatchRefs(mem, x)[k])
  BY <1>9, <1>10, <1>11 DEF Puts
<1> QED
  BY <1>10, <1>12

\* The references of an entry of one binary have numbers that the binary has.
LEMMA NumbersThere ==
  ASSUME NEW x, GoodEntry(x), x.mods = {x.mod}, NEW mem
  PROVE  Outcome(mem, x) = {PatchRefs(mem, x)}
<1> DEFINE R == Refs(Hits(x.mod, x.pageOff))
<1>1. ASSUME NEW r \in DOMAIN x.refs PROVE x.refs[r].i \in DOMAIN Patches[x.mod]
  <2>1. x.refs[r] \in R
    <3>1. x.refs \in Seq(R)
      BY DEF GoodEntry
    <3> HIDE DEF R
    <3> QED
      BY <1>1, <3>1
  <2> DEFINE ref == x.refs[r]
  <2>2. /\ ref.pageOffs \in Seq(Nat) /\ ref.pageOffs # <<>>
        /\ \A q \in DOMAIN ref.pageOffs : <<ref.i, ref.pageOffs[q]>> \in Hits(x.mod, x.pageOff)
    <3> HIDE DEF ref
    <3>1. ref \in R
      BY <2>1 DEF ref
    <3>2. ref \in [i : Nat, pageOffs : Seq(Nat)]
      BY <3>1 DEF Refs
    <3> QED
      BY <3>1, <3>2 DEF Refs
  <2> HIDE DEF ref
  <2>3. 1 \in DOMAIN ref.pageOffs
    BY <2>2
  <2> QED
    BY <2>2, <2>3 DEF Hits, ref
<1> QED
  BY <1>1 DEF Outcome

\* Every step keeps the references right.
LEMMA StepFound == FoundInv /\ [Next]_vars => FoundInv'
<1> SUFFICES ASSUME FoundInv, [Next]_vars PROVE FoundInv'
  OBVIOUS
<1> USE DEF loaded, progress, looked, validated
\* Most steps find nothing and validate no page.
<1>0. ASSUME UNCHANGED <<lookupStorage, section, before, after>>,
             phase = "ready" => phase' = "ready",
             phase' = "files" /\ scan' # <<>> => Searched'
      PROVE  FoundInv'
  <2>1. \A x : GoodEntry(x)' <=> GoodEntry(x)
    BY <1>0, SameEntry
  <2>2. Entries' = Entries
    BY <1>0 DEF Entries
  <2>3. ChangedAsAsked'
    BY <1>0, SameAnswer DEF FoundInv
  <2> QED
    BY <1>0, <2>1, <2>2, <2>3 DEF FoundInv
<1>1. CASE UNCHANGED vars
  <2>1. phase' = "files" /\ scan' # <<>> => Searched'
    BY <1>1 DEF vars, FoundInv, Searched
  <2> QED
    BY <1>0, <1>1, <2>1 DEF vars
<1>2. CASE SkipFile
  BY <1>0, <1>2 DEF SkipFile
<1>3. CASE LoadPatch
  <2> DEFINE patch == Patches[at[1]][at[2]]
  <2>1. UNCHANGED <<lookupStorage, section, before, after, phase>> /\ at[1] \in Mods /\ scan = <<>>
        /\ at[2] \in DOMAIN Patches[at[1]]
    BY <1>3 DEF LoadPatch
  <2>2. patch \in Patch
    <3>1. Patches[at[1]] \in Seq(Patch)
      BY <2>1, PatchesAssumption
    <3> HIDE DEF Patch
    <3> QED
      BY <2>1, <3>1
  <2>3. CASE patch.disabled
    <3>1. scan' = <<>>
      BY <1>3, <2>1, <2>3 DEF LoadPatch
    <3> QED
      BY <1>0, <2>1, <3>1
  <2>4. CASE ~patch.disabled
    <3>1. at' = at /\ scan' = [o |-> 0, skip |-> patch.skip, count |-> patch.count]
      BY <1>3, <2>4 DEF LoadPatch
    <3>2. scan' \in [o : Nat, skip : Int, count : Int]
      BY <2>2, <3>1 DEF Patch
    <3>3. Searched'
      BY <2>1, <2>4, <3>1, <3>2 DEF Searched
    <3> QED
      BY <1>0, <2>1, <3>3
  <2> QED
    BY <2>3, <2>4
<1>4. CASE ScanPlace
  <2>1. UNCHANGED <<section, phase, at, before, after>> /\ phase = "files" /\ scan # <<>>
    BY <1>4 DEF ScanPlace, Scanning
  <2>2. Searched
    BY <2>1 DEF FoundInv
  <2>3. scan' \in [o : Nat, skip : Int, count : Int]
    <3>1. scan \in [o : Nat, skip : Int, count : Int]
      BY <2>2 DEF Searched
    <3>2. \/ scan' = [scan EXCEPT !.o = scan.o + 1]
          \/ scan' = [scan EXCEPT !.o = scan.o + 1, !.skip = scan.skip - 1]
          \/ scan' = [scan EXCEPT !.o = scan.o + 1, !.count = scan.count - 1]
      BY <1>4 DEF ScanPlace
    <3>3. scan.o + 1 \in Nat /\ scan.skip - 1 \in Int /\ scan.count - 1 \in Int
      BY <3>1
    <3> QED
      BY <3>1, <3>2, <3>3
  <2>4. Searched'
    BY <2>1, <2>2, <2>3 DEF Searched
  <2>5. CASE UNCHANGED lookupStorage
    BY <1>0, <2>1, <2>4, <2>5
  <2>6. CASE ~UNCHANGED lookupStorage
    <3>1. /\ lookupStorage' = AddFinding(lookupStorage, at[1], at[2], scan.o)
          /\ OccursAt(Patches[at[1]][at[2]].find, section[at[1]], scan.o)
      BY <1>4, <2>6 DEF ScanPlace
    <3>2. \A e \in DOMAIN lookupStorage' : GoodEntry(lookupStorage'[e])
      BY <1>4, <2>1, <3>1, StepFinding
    <3>3. \A x : GoodEntry(x)' <=> GoodEntry(x)
      BY <2>1, SameEntry
    <3>4. lookupStorage' \in Seq(Entries')
      BY <3>1, StillEntries DEF FoundInv
    <3>5. ChangedAsAsked'
      BY <2>1 DEF FoundInv, ChangedAsAsked
    <3> QED
      BY <2>1, <2>4, <3>2, <3>3, <3>4, <3>5 DEF FoundInv
  <2> QED
    BY <2>5, <2>6
<1>5. CASE PatchLoaded
  BY <1>0, <1>5 DEF PatchLoaded
<1>6. CASE NextFile
  <2>1. phase = "files" /\ at[1] \in Mods /\ at[2] > Len(Patches[at[1]])
        /\ UNCHANGED <<lookupStorage, section, scan, before, after>>
    BY <1>6 DEF NextFile
  <2>2. scan = <<>>
    <3> SUFFICES ASSUME scan # <<>> PROVE FALSE
      OBVIOUS
    <3>1. at[2] \in DOMAIN Patches[at[1]]
      BY <2>1 DEF FoundInv, Searched
    <3>2. Patches[at[1]] \in Seq(Patch)
      BY <2>1, PatchesAssumption
    <3> HIDE DEF Patch
    <3> QED
      BY <2>1, <3>1, <3>2
  <2> QED
    BY <1>0, <2>1, <2>2
<1>7. CASE FilesLoaded
  BY <1>0, <1>7 DEF FilesLoaded
<1>8. CASE FirstLookup
  BY <1>0, <1>8 DEF FirstLookup
<1>9. CASE NextLookup
  BY <1>0, <1>9 DEF NextLookup
<1>10. CASE LookupsLoaded
  BY <1>0, <1>10 DEF LookupsLoaded
<1>11. CASE HookMemoryAccess
  BY <1>0, <1>11 DEF HookMemoryAccess
<1>12. ASSUME NEW mem \in Memory, PerformPagePatch(mem) PROVE FoundInv'
  <2> DEFINE hit == {e \in Candidate(mem) : HasPage(mem, e)}
             e0 == CHOOSE e \in hit : TRUE
  <2>1. UNCHANGED <<section, lookupStorage, phase, at, scan>> /\ before' = mem /\ phase = "ready"
    BY <1>12 DEF PerformPagePatch
  <2>2. \A x : GoodEntry(x)' <=> GoodEntry(x)
    BY <2>1, SameEntry
  <2>3. Entries' = Entries
    BY <2>1 DEF Entries
  <2>4. ChangedAsAsked'
    <3>1. CASE hit = {}
      <4>1. after' = mem
        BY <1>12, <3>1 DEF PerformPagePatch
      <4> QED
        BY <2>1, <4>1 DEF ChangedAsAsked
    <3>2. CASE hit # {}
      <4>1. e0 \in hit
        BY <3>2
      <4>2. e0 \in DOMAIN lookupStorage /\ HasPage(mem, e0)
        BY <4>1 DEF Candidate
      <4>3. after' \in Outcome(mem, lookupStorage[e0])
        BY <1>12, <3>2 DEF PerformPagePatch
      <4> HIDE DEF e0, hit
      <4>4. PICK e \in DOMAIN lookupStorage : HasPage(mem, e) /\ after' \in Outcome(mem, lookupStorage[e])
        BY <4>2, <4>3
      <4>5. PICK x : x = lookupStorage[e] /\ GoodEntry(x) /\ after' \in Outcome(mem, x)
        BY <4>4 DEF FoundInv
      <4>6. ASSUME NEW k \in DOMAIN mem, mem[k] # after'[k], x.mods = {x.mod}
            PROVE  \E p \in DOMAIN Patches[x.mod], o \in 0..(PageCells - 1) :
                     Puts(x.mod, p, x.pageOff, o, k, after'[k])
        <5>1. after' = PatchRefs(mem, x)
          BY <4>5, <4>6, NumbersThere
        <5> QED
          BY <4>5, <4>6, <5>1, RefsAreAsked
      <4>7. \A k \in DOMAIN mem : mem[k] # after'[k] => Asked(e, k)'
        <5>1. HasPage(before, e)' <=> HasPage(mem, e)
          BY <2>1 DEF HasPage
        <5>2. \A p, o, k : Puts(x.mod, p, x.pageOff, o, k, after[k])' <=> Puts(x.mod, p, x.pageOff, o, k, after'[k])
          BY <2>1 DEF Puts, OccursAt
        <5> QED
          BY <2>1, <4>4, <4>5, <4>6, <5>1, <5>2 DEF Asked
      <4> QED
        BY <2>1, <4>4, <4>7 DEF ChangedAsAsked
    <3> QED
      BY <3>1, <3>2
  <2> QED
    BY <2>1, <2>2, <2>3, <2>4 DEF FoundInv
<1> QED
  BY <1>1, <1>2, <1>3, <1>4, <1>5, <1>6, <1>7, <1>8, <1>9, <1>10, <1>11, <1>12 DEF Next

\* Whatever performPagePatch changes, in the page or behind it, was asked for: places
\* and patches stay paired from the search through the entry to the memory, unless
\* findings of several binaries met in the entry.
THEOREM ChangesAreAsked == Spec => []ChangedAsAsked
<1>1. Init => FoundInv
  <2> SUFFICES ASSUME Init PROVE FoundInv
    OBVIOUS
  <2>1. lookupStorage \in Seq(Entries)
    BY DEF Init, Empty
  <2> QED
    BY <2>1 DEF Init, Empty, FoundInv, ChangedAsAsked
<1>2. FoundInv /\ [Next]_vars => FoundInv'
  BY StepFound
<1>3. FoundInv => ChangedAsAsked
  BY DEF FoundInv
<1> QED
  BY <1>1, <1>2, <1>3, PTL DEF Spec
=============================================================================
