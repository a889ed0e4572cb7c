-------------------------- MODULE MachImagesProofs --------------------------
(***************************************************************************)
(* For any set of kexts, any number of candidates and of attempts: every   *)
(* variable keeps its type, the symbols of the kernel are its own, plugins *)
(* are told of each kext with its own image, buffers are neither lost nor  *)
(* freed twice, and a first attempt follows no pointer to what is gone.    *)
(***************************************************************************)
EXTENDS MachImages, TLAPS

USE MachImagesAssumption

Field == {"file_buf", "prelink_dict", "sym_buf"}

\* TypeOK in parts, so that Boolean fields and numbers are never in one obligation.
HostOK == host \in Host /\ creds \in BOOLEAN
NumbersOK == round \in Nat /\ left \in Nat /\ prelinkInfo \in Nat /\ imageArr \in Nat
StepsOK ==
    /\ pc \in Loading \cup {"off", "lock", "running", "ready", "users", "up", "faulted"}
    /\ paths \in {"caches", "kernels", "kext"}
InfosOK == load \in MachInfo /\ kinfos \in Seq(MachInfo)
KextsOK ==
    /\ loadIndex \in [Kexts -> Nat]
    /\ running \in [Kexts -> Running]
    /\ handlers \in SUBSET Kexts
    /\ served \in SUBSET Kexts
HeapOK == heap \subseteq Nat \X Ids \X Field

TypesOK == HostOK /\ NumbersOK /\ StepsOK /\ InfosOK /\ KextsOK /\ HeapOK

\* The parts are the type invariant.
LEMMA Parts == TypesOK <=> TypeOK
  BY DEF TypesOK, TypeOK, HostOK, NumbersOK, StepsOK, InfosOK, KextsOK, HeapOK, Field

-----------------------------------------------------------------------------
(* The records the loader makes are MachInfos *)

\* A new MachInfo knows nothing of its binary.
LEMMA NewInfoType == ASSUME NEW id \in Ids PROVE NewInfo(id) \in MachInfo
  BY DEF NewInfo, MachInfo, Source, Version, Slide, Unknown

\* Blank is the MachInfo of no load.
LEMMA BlankType == Blank \in MachInfo
  BY NewInfoType DEF Blank, Ids

\* A candidate was accepted or passed over.
LEMMA CandidateType ==
  ASSUME InfosOK, NEW v \in Version, NEW buf \in Source, Candidate(v, buf)
  PROVE  load' \in MachInfo /\ pc' \in {"read", "search"}
  BY DEF Candidate, InfosOK, MachInfo, Source

\* What initFromPrelinked fills in.
LEMMA FoundInType ==
  ASSUME InfosOK, NEW kernel \in MachInfo
  PROVE  FoundIn(kernel) \in MachInfo
  BY DEF FoundIn, InfosOK, MachInfo

\* updatePrelinkInfo changes the dictionary only.
LEMMA PrelinkedType ==
  ASSUME InfosOK, kinfos # <<>>, NEW kernel \in Prelinked
  PROVE  kernel \in MachInfo
<1>1. kinfos[1] \in MachInfo
  BY DEF InfosOK
<1> QED
  BY <1>1 DEF Prelinked, MachInfo

\* getRunningAddresses fills in a slide and, in a collection, the symbols.
LEMMA LocatedType ==
  ASSUME NEW info \in MachInfo, NEW v \in Version, NEW p \in Slide
  PROVE  Located(info, v, p) \in MachInfo
<1>1. v \in Source /\ "prelinked" \in Slide /\ "elsewhere" \in Slide
  BY DEF Source, Slide, Place
<1>2. CASE host.collection /\ info.sym_buf = Unknown
  BY <1>1, <1>2 DEF Located, MachInfo
<1>3. CASE ~(host.collection /\ info.sym_buf = Unknown)
  BY <1>1, <1>3 DEF Located, MachInfo
<1> QED
  BY <1>2, <1>3

\* updateRunningInfo keeps or locates.
LEMMA UpdateType ==
  ASSUME NEW info \in MachInfo, NEW force, NEW v \in Version, NEW p \in Slide,
         NEW new \in UpdateRunning(info, force, v, p)
  PROVE  new \in MachInfo
<1> DEFINE known == IF force THEN [info EXCEPT !.slide = Unknown] ELSE info
<1>1. known \in MachInfo
  BY DEF MachInfo, Slide
<1>2. new = known \/ new = Located(known, v, p)
  BY DEF UpdateRunning
<1> QED
  BY <1>1, <1>2, LocatedType

\* The buffers of a MachInfo are buffers.
LEMMA OwnedType ==
  ASSUME NEW info \in MachInfo, round \in Nat
  PROVE  Owned(info) \subseteq Nat \X Ids \X Field
<1>1. info.id \in Ids
  BY DEF MachInfo
<1> QED
  BY <1>1 DEF Owned, Buf, Field

-----------------------------------------------------------------------------
(* Types *)

\* Where there is a MachInfo of the kernel it comes first, and it is there once the
\* plugins are called.  A handler has the index of a MachInfo behind it.
Shape ==
    /\ pc = "off" => kinfos = <<>>
    /\ kinfos # <<>> => kinfos[1].id = Kernel
    /\ pc \in Loading => (load.id = Kernel <=> kinfos = <<>>)
    /\ pc \in {"ready", "users", "up"} => kinfos # <<>>
    /\ \A k \in Kexts : loadIndex[k] # 1 /\ (k \in handlers => loadIndex[k] # 0)

\* No MachInfos are MachInfos.
LEMMA NoInfos == <<>> \in Seq(MachInfo)
  OBVIOUS

\* The host and the empty patcher.
LEMMA InitTypes == Init => TypesOK
<1> SUFFICES ASSUME Init PROVE TypesOK
  OBVIOUS
<1> USE DEF Init
<1>1. HostOK
  BY DEF HostOK
<1>2. NumbersOK
  BY DEF NumbersOK
<1>3. StepsOK
  BY DEF StepsOK
<1>4. InfosOK
  BY BlankType DEF InfosOK
<1>5. KextsOK
  BY DEF KextsOK, Running
<1>6. HeapOK
  BY DEF HeapOK
<1> QED
  BY <1>1, <1>2, <1>3, <1>4, <1>5, <1>6 DEF TypesOK

\* A load begins with a new MachInfo and all candidates.
LEMMA BeginLoadType ==
  ASSUME NEW id \in Ids, NEW list \in {"caches", "kernels", "kext"}, NEW trusted,
         BeginLoad(id, list, trusted)
  PROVE  /\ paths' \in {"caches", "kernels", "kext"} /\ load' \in MachInfo /\ left' \in Nat
         /\ pc' \in Loading
  BY NewInfoType DEF BeginLoad, Loading

\* Every step keeps the types.
LEMMA StepTypes == TypesOK /\ Shape /\ [Next]_vars => TypesOK'
<1> SUFFICES ASSUME TypesOK, Shape, [Next]_vars PROVE TypesOK'
  OBVIOUS
<1> USE DEF FromFile, Idle
<1>0. HostOK /\ NumbersOK /\ StepsOK /\ InfosOK /\ KextsOK /\ HeapOK
  BY DEF TypesOK
<1>1. CASE UNCHANGED vars
  <2> USE <1>1 DEF vars
  <2>1. HostOK' /\ NumbersOK'
    BY <1>0 DEF HostOK, NumbersOK
  <2>2. StepsOK' /\ InfosOK'
    BY <1>0 DEF StepsOK, InfosOK
  <2>3. KextsOK' /\ HeapOK'
    BY <1>0 DEF KextsOK, HeapOK
  <2> QED
    BY <2>1, <2>2, <2>3 DEF TypesOK
<1>2. CASE BeginRound
  <2> USE <1>2 DEF BeginRound
  <2>0. left' \in Nat /\ load' \in MachInfo /\ StepsOK' /\ kinfos' = kinfos
    <3>1. Kernel \in Ids
      BY DEF Ids
    <3>2. CASE BeginLoad(Kernel, "caches", creds') \/ BeginLoad(Kernel, "kernels", creds')
      BY <3>1, <3>2, BeginLoadType DEF StepsOK
    <3>3. CASE pc' = "lock" /\ UNCHANGED <<paths, load, left>>
      BY <1>0, <3>3 DEF StepsOK, NumbersOK, InfosOK
    <3> QED
      BY <3>2, <3>3
  <2>1. HostOK'
    BY <1>0 DEF HostOK
  <2>2. NumbersOK'
    BY <1>0, <2>0 DEF NumbersOK
  <2>3. StepsOK'
    BY <2>0
  <2>4. InfosOK'
    BY <1>0, <2>0 DEF InfosOK
  <2>5. KextsOK'
    BY <1>0 DEF KextsOK
  <2>6. HeapOK'
    BY <1>0 DEF HeapOK
  <2> QED
    BY <2>1, <2>2, <2>3, <2>4, <2>5, <2>6 DEF TypesOK
<1>3. CASE TrySkip
  <2> USE <1>3 DEF TrySkip
  <2>1. HostOK'
    BY <1>0 DEF HostOK
  <2>2. NumbersOK'
    BY <1>0 DEF NumbersOK
  <2>3. StepsOK'
    BY <1>0 DEF StepsOK, Loading
  <2>4. InfosOK'
    BY <1>0 DEF InfosOK
  <2>5. KextsOK'
    BY <1>0 DEF KextsOK
  <2>6. HeapOK'
    BY <1>0 DEF HeapOK
  <2> QED
    BY <2>1, <2>2, <2>3, <2>4, <2>5, <2>6 DEF TypesOK
<1>4. CASE TryPlain
  <2> USE <1>4 DEF TryPlain
  <2>0. load' \in MachInfo /\ pc' \in {"read", "search"}
    BY <1>0, CandidateType DEF InfosOK, MachInfo
  <2>1. HostOK'
    BY <1>0 DEF HostOK
  <2>2. NumbersOK'
    BY <1>0 DEF NumbersOK
  <2>3. StepsOK'
    BY <1>0, <2>0 DEF StepsOK, Loading
  <2>4. InfosOK'
    BY <1>0, <2>0 DEF InfosOK
  <2>5. KextsOK'
    BY <1>0 DEF KextsOK
  <2>6. HeapOK'
    BY <1>0 DEF HeapOK
  <2> QED
    BY <2>1, <2>2, <2>3, <2>4, <2>5, <2>6 DEF TypesOK
<1>5. CASE TryCompressed
  <2> USE <1>5 DEF TryCompressed
  <2>0. load' \in MachInfo /\ pc' \in {"read", "search"}
    <3>1. CASE \E v \in Version : Candidate(v, v)
      BY <1>0, <3>1, CandidateType DEF Source
    <3>2. CASE pc' = pc /\ load' = [load EXCEPT !.file_buf = Unknown]
      BY <1>0, <3>2 DEF InfosOK, MachInfo, Source
    <3> QED
      BY <3>1, <3>2
  <2>1. HostOK'
    BY <1>0 DEF HostOK
  <2>2. NumbersOK'
    BY <1>0 DEF NumbersOK
  <2>3. StepsOK'
    BY <1>0, <2>0 DEF StepsOK, Loading
  <2>4. InfosOK'
    BY <1>0, <2>0 DEF InfosOK
  <2>5. KextsOK'
    BY <1>0 DEF KextsOK
  <2>6. HeapOK'
    <3>1. FileBuffers(load') \subseteq Nat \X Ids \X Field
      BY <1>0, <2>0, OwnedType DEF NumbersOK, FileBuffers
    <3> QED
      BY <1>0, <3>1 DEF HeapOK
  <2> QED
    BY <2>1, <2>2, <2>3, <2>4, <2>5, <2>6 DEF TypesOK
<1>6. CASE NoneLeft
  <2> USE <1>6 DEF NoneLeft
  <2>1. HostOK'
    BY <1>0 DEF HostOK
  <2>2. NumbersOK'
    BY <1>0 DEF NumbersOK
  <2>3. StepsOK'
    BY <1>0 DEF StepsOK, Loading
  <2>4. InfosOK'
    BY <1>0 DEF InfosOK
  <2>5. KextsOK'
    BY <1>0 DEF KextsOK
  <2>6. HeapOK'
    BY <1>0 DEF HeapOK
  <2> QED
    BY <2>1, <2>2, <2>3, <2>4, <2>5, <2>6 DEF TypesOK
<1>7. CASE ReadSymbols
  <2> USE <1>7 DEF ReadSymbols
  <2>1. HostOK'
    BY <1>0 DEF HostOK
  <2>2. NumbersOK'
    BY <1>0 DEF NumbersOK
  <2>3. StepsOK'
    BY <1>0 DEF StepsOK, Loading
  <2>4. InfosOK'
    BY <1>0 DEF InfosOK, MachInfo
  <2>5. KextsOK'
    BY <1>0 DEF KextsOK
  <2>6. HeapOK'
    <3>1. Owned(load') \subseteq Nat \X Ids \X Field
      BY <1>0, <2>4, OwnedType DEF NumbersOK, InfosOK
    <3> QED
      BY <1>0, <3>1 DEF HeapOK
  <2> QED
    BY <2>1, <2>2, <2>3, <2>4, <2>5, <2>6 DEF TypesOK
<1>8. CASE FromPrelinked
  <2> USE <1>8 DEF FromPrelinked
  <2>0. /\ load' \in MachInfo /\ kinfos' \in Seq(MachInfo) /\ imageArr' \in Nat
        /\ HeapOK'
    <3>1. CASE load.id = Kernel \/ kinfos = <<>> \/ prelinkInfo = 0
      BY <1>0, <3>1 DEF InfosOK, NumbersOK, HeapOK
    <3>2. CASE ~(load.id = Kernel \/ kinfos = <<>> \/ prelinkInfo = 0)
      <4>1. PICK kernel \in Prelinked :
              /\ kinfos' = [kinfos EXCEPT ![1] = kernel]
              /\ imageArr' = ImageArr(kernel)
              /\ load' = load \/ load' = FoundIn(kernel)
              /\ heap' = heap \cup Owned(kernel) \cup Owned(load')
        BY <3>2
      <4>2. kernel \in MachInfo
        BY <1>0, <3>2, PrelinkedType
      <4>3. load' \in MachInfo
        BY <1>0, <4>1, <4>2, FoundInType DEF InfosOK
      <4>4. kinfos' \in Seq(MachInfo)
        BY <1>0, <3>2, <4>1, <4>2 DEF InfosOK
      <4>5. imageArr' \in Nat
        BY <1>0, <4>1 DEF ImageArr, NumbersOK
      <4>6. HeapOK'
        <5>1. Owned(kernel) \subseteq Nat \X Ids \X Field
          BY <1>0, <4>2, OwnedType DEF NumbersOK
        <5>2. Owned(load') \subseteq Nat \X Ids \X Field
          BY <1>0, <4>3, OwnedType DEF NumbersOK
        <5> QED
          BY <1>0, <4>1, <5>1, <5>2 DEF HeapOK
      <4> QED
        BY <4>3, <4>4, <4>5, <4>6
    <3> QED
      BY <3>1, <3>2
  <2>1. HostOK'
    BY <1>0 DEF HostOK
  <2>2. NumbersOK'
    BY <1>0, <2>0 DEF NumbersOK
  <2>3. StepsOK'
    BY <1>0 DEF StepsOK, Loading
  <2>4. InfosOK'
    BY <1>0, <2>0 DEF InfosOK
  <2>5. KextsOK'
    BY <1>0 DEF KextsOK
  <2>6. HeapOK'
    BY <2>0
  <2> QED
    BY <2>1, <2>2, <2>3, <2>4, <2>5, <2>6 DEF TypesOK
<1>9. CASE StoreFails
  <2> USE <1>9 DEF StoreFails
  <2>1. HostOK'
    BY <1>0 DEF HostOK
  <2>2. NumbersOK'
    BY <1>0 DEF NumbersOK
  <2>3. StepsOK'
    BY <1>0 DEF StepsOK, Loading
  <2>4. InfosOK'
    BY <1>0 DEF InfosOK
  <2>5. KextsOK'
    BY <1>0 DEF KextsOK
  <2>6. HeapOK'
    BY <1>0 DEF HeapOK
  <2> QED
    BY <2>1, <2>2, <2>3, <2>4, <2>5, <2>6 DEF TypesOK
<1>10. CASE StoreKernel
  <2> USE <1>10 DEF StoreKernel
  <2>1. HostOK'
    BY <1>0 DEF HostOK
  <2>2. NumbersOK'
    BY <1>0 DEF NumbersOK
  <2>3. StepsOK'
    BY <1>0 DEF StepsOK, Loading
  <2>4. InfosOK'
    BY <1>0, BlankType DEF InfosOK
  <2>5. KextsOK'
    BY <1>0 DEF KextsOK
  <2>6. HeapOK'
    BY <1>0 DEF HeapOK
  <2> QED
    BY <2>1, <2>2, <2>3, <2>4, <2>5, <2>6 DEF TypesOK
<1>11. CASE StoreKext
  <2> USE <1>11 DEF StoreKext
  <2>1. HostOK'
    BY <1>0 DEF HostOK
  <2>2. NumbersOK'
    BY <1>0 DEF NumbersOK
  <2>3. StepsOK'
    BY <1>0 DEF StepsOK, Loading
  <2>4. InfosOK'
    BY <1>0, BlankType DEF InfosOK
  <2>5. KextsOK'
    <3>1. load.id \in Kexts
      BY <1>0 DEF InfosOK, MachInfo, Ids
    <3>2. Len(kinfos') \in Nat
      BY <1>0, <2>4 DEF InfosOK
    <3> QED
      BY <1>0, <3>1, <3>2 DEF KextsOK
  <2>6. HeapOK'
    BY <1>0 DEF HeapOK
  <2> QED
    BY <2>1, <2>2, <2>3, <2>4, <2>5, <2>6 DEF TypesOK
<1>12. CASE LoadFails
  <2> USE <1>12 DEF LoadFails
  <2>0. left' \in Nat /\ load' \in MachInfo /\ StepsOK' /\ kinfos' \in Seq(MachInfo)
    <3>1. CASE BeginLoad(Kernel, "kernels", creds) /\ UNCHANGED kinfos
      <4>1. Kernel \in Ids
        BY DEF Ids
      <4> QED
        BY <1>0, <3>1, <4>1, BeginLoadType DEF StepsOK, InfosOK
    <3>2. CASE pc' \in {"ready", "lock", "off"} /\ load' = Blank /\ UNCHANGED <<paths, left>>
               /\ (UNCHANGED kinfos \/ RollBack)
      <4>1. kinfos' \in Seq(MachInfo)
        BY <1>0, <3>2, NoInfos, Zenon DEF InfosOK, RollBack
      <4> QED
        BY <1>0, <3>2, <4>1, BlankType DEF StepsOK, NumbersOK
    <3> QED
      BY <3>1, <3>2
  <2>1. HostOK'
    BY <1>0 DEF HostOK
  <2>2. NumbersOK'
    BY <1>0, <2>0 DEF NumbersOK
  <2>3. StepsOK'
    BY <2>0
  <2>4. InfosOK'
    BY <1>0, <2>0 DEF InfosOK
  <2>5. KextsOK'
    BY <1>0 DEF KextsOK
  <2>6. HeapOK'
    BY <1>0 DEF HeapOK
  <2> QED
    BY <2>1, <2>2, <2>3, <2>4, <2>5, <2>6 DEF TypesOK
<1>13. CASE AllocLock
  <2> USE <1>13 DEF AllocLock
  <2>1. HostOK'
    BY <1>0 DEF HostOK
  <2>2. NumbersOK'
    BY <1>0 DEF NumbersOK
  <2>3. StepsOK'
    BY <1>0 DEF StepsOK, Loading
  <2>4. InfosOK'
    BY <1>0, NoInfos, Zenon DEF InfosOK, RollBack
  <2>5. KextsOK'
    BY <1>0 DEF KextsOK
  <2>6. HeapOK'
    BY <1>0 DEF HeapOK
  <2> QED
    BY <2>1, <2>2, <2>3, <2>4, <2>5, <2>6 DEF TypesOK
<1>14. CASE KernelRunning
  <2> USE <1>14 DEF KernelRunning
  <2>0. kinfos' \in Seq(MachInfo)
    <3>1. CASE kinfos # <<>> /\ kinfos' = [kinfos EXCEPT ![1] = Located(@, "now", KernelPlace)]
      <4>1. kinfos[1] \in MachInfo
        BY <1>0, <3>1 DEF InfosOK
      <4>2. Located(kinfos[1], "now", KernelPlace) \in MachInfo
        BY <4>1, LocatedType DEF Version, Slide
      <4> QED
        BY <1>0, <3>1, <4>2 DEF InfosOK
    <3>2. CASE UNCHANGED kinfos \/ RollBack
      BY <1>0, <3>2, NoInfos, Zenon DEF InfosOK, RollBack
    <3> QED
      BY <3>1, <3>2
  <2>1. HostOK'
    BY <1>0 DEF HostOK
  <2>2. NumbersOK'
    BY <1>0 DEF NumbersOK
  <2>3. StepsOK'
    BY <1>0 DEF StepsOK, Loading
  <2>4. InfosOK'
    BY <1>0, <2>0 DEF InfosOK
  <2>5. KextsOK'
    BY <1>0 DEF KextsOK
  <2>6. HeapOK'
    BY <1>0 DEF HeapOK
  <2> QED
    BY <2>1, <2>2, <2>3, <2>4, <2>5, <2>6 DEF TypesOK
<1>15. CASE FreeFileBuffers
  <2> USE <1>15 DEF FreeFileBuffers
  <2>0. kinfos' \in Seq(MachInfo)
    <3> DEFINE new == [kinfos[1] EXCEPT !.file_buf = Unknown, !.prelink_dict = Unknown]
    <3>1. kinfos' = [kinfos EXCEPT ![1] = new]
      OBVIOUS
    <3>2. kinfos # <<>>
      BY DEF Shape
    <3>3. kinfos[1] \in MachInfo
      BY <1>0, <3>2 DEF InfosOK
    <3>4. new \in MachInfo
      BY <3>3 DEF MachInfo, Source
    <3> HIDE DEF new
    <3> QED
      BY <1>0, <3>1, <3>2, <3>4, SMTT(30) DEF InfosOK
  <2>1. HostOK'
    BY <1>0 DEF HostOK
  <2>2. NumbersOK'
    BY <1>0 DEF NumbersOK
  <2>3. StepsOK'
    BY <1>0 DEF StepsOK, Loading
  <2>4. InfosOK'
    BY <1>0, <2>0 DEF InfosOK
  <2>5. KextsOK'
    BY <1>0 DEF KextsOK
  <2>6. HeapOK'
    BY <1>0 DEF HeapOK
  <2> QED
    BY <2>1, <2>2, <2>3, <2>4, <2>5, <2>6 DEF TypesOK
<1>16. CASE UserInit
  <2> USE <1>16 DEF UserInit
  <2>1. HostOK'
    BY <1>0 DEF HostOK
  <2>2. NumbersOK'
    BY <1>0 DEF NumbersOK
  <2>3. StepsOK'
    BY <1>0 DEF StepsOK, Loading
  <2>4. InfosOK'
    BY <1>0, NoInfos, Zenon DEF InfosOK, RollBack
  <2>5. KextsOK'
    BY <1>0 DEF KextsOK
  <2>6. HeapOK'
    BY <1>0 DEF HeapOK
  <2> QED
    BY <2>1, <2>2, <2>3, <2>4, <2>5, <2>6 DEF TypesOK
<1>17. ASSUME NEW k \in Kexts, LoadKext(k) PROVE TypesOK'
  <2> USE <1>17 DEF LoadKext
  <2>0. left' \in Nat /\ load' \in MachInfo /\ StepsOK'
    <3>1. CASE BeginLoad(k, "kext", creds)
      BY <3>1, BeginLoadType DEF StepsOK, Ids
    <3>2. CASE UNCHANGED <<pc, paths, left, load>>
      BY <1>0, <3>2 DEF StepsOK, InfosOK, NumbersOK
    <3> QED
      BY <3>1, <3>2
  <2>1. HostOK'
    BY <1>0 DEF HostOK
  <2>2. NumbersOK'
    BY <1>0, <2>0 DEF NumbersOK
  <2>3. StepsOK'
    BY <2>0
  <2>4. InfosOK'
    BY <1>0, <2>0 DEF InfosOK
  <2>5. KextsOK'
    BY <1>0 DEF KextsOK
  <2>6. HeapOK'
    BY <1>0 DEF HeapOK
  <2> QED
    BY <2>1, <2>2, <2>3, <2>4, <2>5, <2>6 DEF TypesOK
<1>18. ASSUME NEW k \in Kexts, KextUnloads(k) PROVE TypesOK'
  <2> USE <1>18 DEF KextUnloads
  <2>1. HostOK'
    BY <1>0 DEF HostOK
  <2>2. NumbersOK'
    BY <1>0 DEF NumbersOK
  <2>3. StepsOK'
    BY <1>0 DEF StepsOK, Loading
  <2>4. InfosOK'
    BY <1>0 DEF InfosOK
  <2>5. KextsOK'
    BY <1>0 DEF KextsOK, Running
  <2>6. HeapOK'
    BY <1>0 DEF HeapOK
  <2> QED
    BY <2>1, <2>2, <2>3, <2>4, <2>5, <2>6 DEF TypesOK
<1>19. ASSUME NEW k \in Kexts, NEW v \in Version, NEW p \in Place, KextLoads(k, v, p) PROVE TypesOK'
  <2> USE <1>19 DEF KextLoads
  <2>0. kinfos' \in Seq(MachInfo)
    <3>1. CASE UNCHANGED kinfos
      BY <1>0, <3>1 DEF InfosOK
    <3>2. ASSUME k \in handlers, loadIndex[k] <= Len(kinfos),
                 NEW info \in UpdateRunning(kinfos[loadIndex[k]], k \in host.reloadable, v, p),
                 kinfos' = [kinfos EXCEPT ![loadIndex[k]] = info]
          PROVE  kinfos' \in Seq(MachInfo)
      <4>1. loadIndex[k] \in 1..Len(kinfos)
        BY <1>0, <3>2 DEF Shape, KextsOK, InfosOK
      <4>2. kinfos[loadIndex[k]] \in MachInfo
        BY <1>0, <4>1 DEF InfosOK
      <4>3. info \in MachInfo
        BY <3>2, <4>2, UpdateType DEF Slide
      <4> QED
        BY <1>0, <3>2, <4>1, <4>3 DEF InfosOK
    <3> QED
      BY <3>1, <3>2
  <2>1. HostOK'
    BY <1>0 DEF HostOK
  <2>2. NumbersOK'
    BY <1>0 DEF NumbersOK
  <2>3. StepsOK'
    BY <1>0 DEF StepsOK
  <2>4. InfosOK'
    BY <1>0, <2>0 DEF InfosOK
  <2>5. KextsOK'
    BY <1>0 DEF KextsOK, Running
  <2>6. HeapOK'
    BY <1>0 DEF HeapOK
  <2> QED
    BY <2>1, <2>2, <2>3, <2>4, <2>5, <2>6 DEF TypesOK
<1> QED
  BY <1>1, <1>2, <1>3, <1>4, <1>5, <1>6, <1>7, <1>8, <1>9, <1>10, <1>11, <1>12, <1>13, <1>14, <1>15, <1>16, <1>17, <1>18, <1>19 DEF Next

-----------------------------------------------------------------------------
(* The kernel comes first *)

\* A load of the kernel begins without MachInfos, one of a kext with that of the kernel.
LEMMA BeginLoadShape ==
  ASSUME Shape, NEW id \in Ids, NEW list, NEW trusted, BeginLoad(id, list, trusted),
         id = Kernel <=> kinfos = <<>>,
         UNCHANGED <<kinfos, loadIndex, handlers>>
  PROVE  Shape'
<1>1. load'.id = id /\ pc' \in Loading
  BY DEF BeginLoad, NewInfo, Loading
<1>2. pc' \notin {"off", "ready", "users", "up"}
  BY <1>1 DEF Loading
<1> QED
  BY <1>1, <1>2 DEF Shape

\* Initially there is no MachInfo.
LEMMA InitShape == Init => Shape
  BY DEF Init, Shape, Loading

\* A kext that the kernel loads does not touch the MachInfo of the kernel.
LEMMA KernelKept ==
  ASSUME InfosOK, KextsOK, Shape, NEW k \in Kexts, NEW v \in Version, NEW p \in Place,
         KextLoads(k, v, p)
  PROVE  kinfos' # <<>> /\ kinfos'[1] = kinfos[1]
<1> USE DEF KextLoads
<1>1. kinfos # <<>> /\ Len(kinfos) \in Nat /\ loadIndex[k] \in Nat
  BY DEF Shape, InfosOK, KextsOK
<1>2. CASE UNCHANGED kinfos
  BY <1>1, <1>2
<1>3. ASSUME k \in handlers, NEW info, kinfos' = [kinfos EXCEPT ![loadIndex[k]] = info]
      PROVE  kinfos' # <<>> /\ kinfos'[1] = kinfos[1]
  <2>1. loadIndex[k] # 1
    BY DEF Shape
  <2>2. kinfos'[1] = kinfos[1] /\ DOMAIN kinfos' = DOMAIN kinfos
    BY <1>1, <1>3, <2>1 DEF InfosOK
  <2>3. 1 \in DOMAIN kinfos
    BY <1>1 DEF InfosOK
  <2> QED
    BY <2>2, <2>3
<1> QED
  BY <1>2, <1>3

\* Every step keeps the order of the MachInfos.
LEMMA StepShape == TypesOK /\ Shape /\ [Next]_vars => Shape'
<1> SUFFICES ASSUME TypesOK, Shape, [Next]_vars PROVE Shape'
  OBVIOUS
<1> USE DEF FromFile, Idle
<1>0. InfosOK /\ KextsOK /\ Kernel \in Ids
  BY DEF TypesOK, Ids
<1>1. CASE UNCHANGED vars
  BY <1>1 DEF vars, Shape
<1>2. CASE BeginRound
  <2> USE <1>2 DEF BeginRound
  <2>1. kinfos = <<>>
    BY DEF Shape
  <2>2. CASE BeginLoad(Kernel, "caches", creds') \/ BeginLoad(Kernel, "kernels", creds')
    BY <1>0, <2>1, <2>2, BeginLoadShape
  <2>3. CASE pc' = "lock" /\ UNCHANGED load
    BY <2>3 DEF Shape, Loading
  <2> QED
    BY <2>2, <2>3
<1>3. CASE TrySkip
  BY <1>3 DEF TrySkip, Shape, Loading
<1>4. CASE TryPlain
  <2>1. load'.id = load.id /\ pc' \in {"read", "search"}
    BY <1>0, <1>4 DEF TryPlain, Candidate, InfosOK, MachInfo
  <2> QED
    BY <1>4, <2>1 DEF TryPlain, Shape, Loading
<1>5. CASE TryCompressed
  <2>1. load'.id = load.id /\ pc' \in {"read", "search"}
    BY <1>0, <1>5 DEF TryCompressed, Candidate, InfosOK, MachInfo
  <2> QED
    BY <1>5, <2>1 DEF TryCompressed, Shape, Loading
<1>6. CASE NoneLeft
  BY <1>6 DEF NoneLeft, Shape, Loading
<1>7. CASE ReadSymbols
  <2>1. load'.id = load.id /\ pc' \in {"pass", "prelink"}
    BY <1>0, <1>7 DEF ReadSymbols, InfosOK, MachInfo
  <2> QED
    BY <1>7, <2>1 DEF ReadSymbols, Shape, Loading
<1>8. CASE FromPrelinked
  <2> USE <1>8 DEF FromPrelinked
  <2>1. CASE load.id = Kernel \/ kinfos = <<>> \/ prelinkInfo = 0
    BY <2>1 DEF Shape, Loading
  <2>2. CASE ~(load.id = Kernel \/ kinfos = <<>> \/ prelinkInfo = 0)
    <3>1. PICK kernel \in Prelinked :
            /\ kinfos' = [kinfos EXCEPT ![1] = kernel]
            /\ load' = load \/ load' = FoundIn(kernel)
            /\ pc' \in {"fail", "pass", "faulted"}
      BY <2>2
    <3>2. load'.id = load.id
      BY <1>0, <3>1 DEF FoundIn, InfosOK, MachInfo
    <3>3. kernel.id = kinfos[1].id
      <4>1. kinfos[1] \in MachInfo
        BY <1>0, <2>2 DEF InfosOK
      <4> QED
        BY <3>1, <4>1 DEF Prelinked, MachInfo
    <3>4. kinfos' # <<>> /\ kinfos'[1].id = kinfos[1].id
      BY <1>0, <2>2, <3>1, <3>3 DEF InfosOK
    <3> QED
      BY <2>2, <3>1, <3>2, <3>4 DEF Shape, Loading
  <2> QED
    BY <2>1, <2>2
<1>9. CASE StoreFails
  BY <1>9 DEF StoreFails, Shape, Loading
<1>10. CASE StoreKernel
  <2>1. kinfos = <<>> /\ kinfos' = Append(kinfos, load) /\ load.id = Kernel
    BY <1>10 DEF StoreKernel, Shape, Loading
  <2>2. kinfos' # <<>> /\ kinfos'[1] = load
    BY <1>0, <2>1 DEF InfosOK
  <2> QED
    BY <1>10, <2>1, <2>2 DEF StoreKernel, Shape, Loading
<1>11. CASE StoreKext
  <2>1. kinfos # <<>> /\ kinfos' = Append(kinfos, load)
    BY <1>11 DEF StoreKext, Shape, Loading
  <2>2. kinfos' # <<>> /\ kinfos'[1] = kinfos[1] /\ Len(kinfos') \in Nat \ {0, 1}
    BY <1>0, <2>1 DEF InfosOK
  <2>3. loadIndex' = [loadIndex EXCEPT ![load.id] = Len(kinfos')] /\ pc' = "ready"
        /\ handlers' = handlers \cup {load.id}
    BY <1>11 DEF StoreKext
  <2>4. \A k \in Kexts : loadIndex'[k] # 1 /\ (k \in handlers' => loadIndex'[k] # 0)
    BY <1>0, <2>2, <2>3 DEF Shape, KextsOK
  <2> QED
    BY <2>1, <2>2, <2>3, <2>4 DEF Shape, Loading
<1>12. CASE LoadFails
  <2> USE <1>12 DEF LoadFails
  <2>1. CASE load.id # Kernel /\ pc' = "ready" /\ UNCHANGED kinfos
    BY <2>1 DEF Shape, Loading
  <2>2. CASE load.id = Kernel /\ BeginLoad(Kernel, "kernels", creds) /\ UNCHANGED kinfos
    <3>1. kinfos = <<>>
      BY <2>2 DEF Shape, Loading
    <3> QED
      BY <1>0, <2>2, <3>1, BeginLoadShape
  <2>3. CASE pc' = "lock" /\ UNCHANGED kinfos
    BY <2>3 DEF Shape, Loading
  <2>4. CASE pc' = "off" /\ RollBack
    BY <2>4 DEF Shape, Loading, RollBack
  <2> QED
    BY <2>1, <2>2, <2>3, <2>4
<1>13. CASE AllocLock
  BY <1>13 DEF AllocLock, Shape, Loading, RollBack
<1>14. CASE KernelRunning
  <2> USE <1>14 DEF KernelRunning
  <2>1. CASE kinfos # <<>> /\ pc' = "ready" /\ kinfos' = [kinfos EXCEPT ![1] = Located(@, "now", KernelPlace)]
    <3>1. kinfos' # <<>> /\ kinfos'[1] = Located(kinfos[1], "now", KernelPlace)
      BY <1>0, <2>1 DEF InfosOK
    <3>2. kinfos[1] \in MachInfo
      BY <1>0, <2>1 DEF InfosOK
    <3>3. Located(kinfos[1], "now", KernelPlace).id = kinfos[1].id
      BY <3>2 DEF Located, MachInfo
    <3> QED
      BY <2>1, <3>1, <3>3 DEF Shape, Loading
  <2>2. CASE pc' = "off" /\ RollBack
    BY <2>2 DEF Shape, Loading, RollBack
  <2>3. CASE pc' = "faulted" /\ UNCHANGED kinfos
    BY <2>3 DEF Shape, Loading
  <2> QED
    BY <2>1, <2>2, <2>3
<1>15. CASE FreeFileBuffers
  <2> DEFINE new == [kinfos[1] EXCEPT !.file_buf = Unknown, !.prelink_dict = Unknown]
  <2>1. kinfos # <<>> /\ kinfos' = [kinfos EXCEPT ![1] = new]
    BY <1>15 DEF FreeFileBuffers, Shape
  <2>2. kinfos[1] \in MachInfo
    BY <1>0, <2>1 DEF InfosOK
  <2>3. new.id = kinfos[1].id
    BY <2>2 DEF MachInfo
  <2> HIDE DEF new
  <2>4. kinfos' # <<>> /\ kinfos'[1] = new
    BY <1>0, <2>1 DEF InfosOK
  <2> QED
    BY <1>15, <2>1, <2>3, <2>4 DEF FreeFileBuffers, Shape, Loading
<1>16. CASE UserInit
  BY <1>16 DEF UserInit, Shape, Loading, RollBack
<1>17. ASSUME NEW k \in Kexts, LoadKext(k) PROVE Shape'
  <2> USE <1>17 DEF LoadKext
  <2>1. k \in Ids /\ k # Kernel /\ kinfos # <<>>
    BY DEF Ids, Shape
  <2>2. CASE BeginLoad(k, "kext", creds) /\ UNCHANGED handlers
    BY <2>1, <2>2, BeginLoadShape
  <2>3. CASE loadIndex[k] # 0 /\ handlers' = handlers \cup {k} /\ UNCHANGED <<pc, load>>
    BY <2>3 DEF Shape, Loading
  <2> QED
    BY <2>2, <2>3
<1>18. ASSUME NEW k \in Kexts, KextUnloads(k) PROVE Shape'
  BY <1>18 DEF KextUnloads, Shape, Loading
<1>19. ASSUME NEW k \in Kexts, NEW v \in Version, NEW p \in Place, KextLoads(k, v, p) PROVE Shape'
  <2> USE <1>19 DEF KextLoads
  <2>1. /\ kinfos' # <<>> /\ kinfos'[1] = kinfos[1]
    BY <1>0, <1>19, KernelKept DEF Shape
  <2>2. handlers' \subseteq handlers /\ loadIndex' = loadIndex /\ load' = load /\ kinfos # <<>>
        /\ (pc' = "up" \/ pc' = "faulted")
    BY DEF Shape
  <2> QED
    BY <2>1, <2>2 DEF Shape, Loading
<1> QED
  BY <1>1, <1>2, <1>3, <1>4, <1>5, <1>6, <1>7, <1>8, <1>9, <1>10, <1>11, <1>12, <1>13, <1>14, <1>15, <1>16, <1>17, <1>18, <1>19 DEF Next

-----------------------------------------------------------------------------
(* The symbols of the kernel *)

\* The hosts and attempts SymbolsGenuine speaks of.
Clean == host.forms # Form /\ ~(host.collection /\ creds)

\* The symbols a MachInfo of the kernel has or will be given are the running one's.
Good(info) ==
    IF host.collection
    THEN \/ info.sym_buf = Unknown /\ info.slide = Unknown
         \/ info.sym_buf = "now" /\ info.header = "now" /\ info.slide = KernelPlace
    ELSE info.sym_buf = "now" /\ info.header = "now" /\ info.slide \in {Unknown, KernelPlace}

Searching == pc \in {"search", "read", "prelink"} /\ load.id = Kernel

\* The search for the kernel is only entered with credentials, and the candidate in
\* file_buf was a compressed one; when one is read it is the running kernel.
LoadGood ==
    /\ Searching => creds
    /\ pc \in Loading /\ load.id = Kernel => load.slide = Unknown
    /\ Clean /\ Searching /\ pc # "prelink" /\ load.file_buf # Unknown
         => paths = "caches" /\ "compressed" \in host.forms
    /\ Clean /\ Searching /\ pc = "read"
         => load.header = "now" /\ load.file_buf \in {Unknown, "now"}
    /\ Clean /\ pc = "pass" /\ load.id = Kernel => Good(load)

KernelGood ==
    kinfos # <<>> =>
      /\ Clean => Good(kinfos[1])
      /\ pc \in {"lock", "running"} => kinfos[1].slide = Unknown

SymInv == LoadGood /\ KernelGood

\* Initially nothing is loaded.
LEMMA InitSym == Init => SymInv
  BY DEF Init, SymInv, LoadGood, KernelGood, Searching, Loading

\* A load begins with nothing known, and searches only with credentials.
LEMMA BeginLoadGood ==
  ASSUME NEW id \in Ids, NEW list, BeginLoad(id, list, creds'), UNCHANGED <<host, kinfos>>,
         kinfos = <<>> \/ (id # Kernel /\ creds' = creds /\ KernelGood)
  PROVE  SymInv'
<1>1. load' = NewInfo(id) /\ pc' \in {"search", "pass", "fail"}
  BY DEF BeginLoad
<1>2. load'.id = id /\ load'.slide = Unknown /\ load'.file_buf = Unknown /\ load'.sym_buf = Unknown
  BY <1>1 DEF NewInfo
<1>3. pc' = "search" => creds'
  BY DEF BeginLoad
<1>4. pc' = "pass" /\ id = Kernel => host'.collection
  BY DEF BeginLoad
<1>5. LoadGood'
  BY <1>1, <1>2, <1>3, <1>4 DEF LoadGood, Searching, Good
<1>6. KernelGood'
  BY <1>1 DEF KernelGood, Clean, Good
<1> QED
  BY <1>5, <1>6 DEF SymInv

\* The MachInfo of the kernel is not touched by a step that keeps it and the attempt.
LEMMA KernelStays ==
  ASSUME KernelGood, kinfos # <<>> => kinfos'[1] = kinfos[1], UNCHANGED <<host, creds>>,
         kinfos' # <<>> => kinfos # <<>>,
         pc' \in {"lock", "running"} => kinfos = <<>> \/ pc \in {"lock", "running"}
  PROVE  KernelGood'
  BY DEF KernelGood, Clean, Good

\* Every step keeps the invariant.
LEMMA StepSym == TypesOK /\ Shape /\ SymInv /\ [Next]_vars => SymInv'
<1> SUFFICES ASSUME TypesOK, Shape, SymInv, [Next]_vars PROVE SymInv'
  OBVIOUS
<1> USE DEF FromFile, Idle
<1>0. InfosOK /\ KextsOK /\ Kernel \in Ids /\ LoadGood /\ KernelGood
  BY DEF TypesOK, Ids, SymInv
<1>1. CASE UNCHANGED vars
  BY <1>1 DEF vars, SymInv, LoadGood, KernelGood, Searching, Clean, Good
<1>2. CASE BeginRound
  <2> USE <1>2 DEF BeginRound
  <2>1. kinfos = <<>> /\ UNCHANGED <<host, kinfos>>
    BY DEF Shape
  <2>2. CASE BeginLoad(Kernel, "caches", creds') \/ BeginLoad(Kernel, "kernels", creds')
    BY <1>0, <2>1, <2>2, BeginLoadGood
  <2>3. CASE pc' = "lock"
    BY <2>1, <2>3 DEF SymInv, LoadGood, KernelGood, Searching, Loading
  <2> QED
    BY <2>2, <2>3
<1>3. CASE TrySkip
  <2> USE <1>3 DEF TrySkip
  <2>8. LoadGood'
    BY <1>0 DEF LoadGood, Searching, Clean, Good, Loading
  <2>9. KernelGood'
    BY <1>0, KernelStays
  <2> QED
    BY <2>8, <2>9 DEF SymInv
<1>4. CASE TryPlain
  <2> USE <1>4 DEF TryPlain
  <2>1. PICK v \in Version : Candidate(v, load.file_buf)
    OBVIOUS
  <2>2. /\ load'.id = load.id /\ load'.file_buf = load.file_buf /\ load'.slide = load.slide
        /\ pc' \in {"read", "search"} /\ load'.sym_buf = load.sym_buf
        /\ pc' = "read" => load'.header = v /\ (load.id = Kernel => IsCurrentKernel(v))
    BY <1>0, <2>1 DEF Candidate, InfosOK, MachInfo
  <2>3. Clean /\ Searching => load.file_buf = Unknown
    <3>1. SUFFICES ASSUME Clean, Searching, load.file_buf # Unknown PROVE FALSE
      OBVIOUS
    <3>2. paths = "caches" /\ "compressed" \in host.forms
      BY <1>0, <3>1 DEF LoadGood
    <3>3. host.forms \subseteq Form
      BY DEF TypesOK, HostOK, Host
    <3> QED
      BY <3>1, <3>2, <3>3 DEF Clean, Form
  <2>8. LoadGood'
    BY <1>0, <2>2, <2>3 DEF LoadGood, Searching, Clean, Loading, IsCurrentKernel
  <2>9. KernelGood'
    BY <1>0, <2>2, KernelStays
  <2> QED
    BY <2>8, <2>9 DEF SymInv
<1>5. CASE TryCompressed
  <2> USE <1>5 DEF TryCompressed
  <2>1. /\ load'.id = load.id /\ load'.slide = load.slide /\ pc' \in {"read", "search"}
        /\ pc' = "read" => load'.header = load'.file_buf
                           /\ (load.id = Kernel => IsCurrentKernel(load'.header))
    <3>1. CASE \E v \in Version : Candidate(v, v)
      BY <1>0, <3>1 DEF Candidate, InfosOK, MachInfo
    <3>2. CASE pc' = pc /\ load' = [load EXCEPT !.file_buf = Unknown]
      BY <1>0, <3>2 DEF InfosOK, MachInfo
    <3> QED
      BY <3>1, <3>2
  <2>8. LoadGood'
    BY <1>0, <2>1 DEF LoadGood, Searching, Clean, Loading, IsCurrentKernel
  <2>9. KernelGood'
    BY <1>0, <2>1, KernelStays
  <2> QED
    BY <2>8, <2>9 DEF SymInv
<1>6. CASE NoneLeft
  <2> USE <1>6 DEF NoneLeft
  <2>8. LoadGood'
    BY <1>0 DEF LoadGood, Searching, Clean, Good, Loading
  <2>9. KernelGood'
    BY <1>0, KernelStays
  <2> QED
    BY <2>8, <2>9 DEF SymInv
<1>7. CASE ReadSymbols
  <2> USE <1>7 DEF ReadSymbols
  <2>1. /\ load'.id = load.id /\ load'.slide = load.slide /\ load'.header = load.header
        /\ pc' \in {"pass", "prelink"}
        /\ pc' = "pass" => load'.sym_buf \in {load.file_buf, load.header}
                           /\ (load.file_buf = Unknown => load'.sym_buf = load.header)
                           /\ (load.file_buf # Unknown => load'.sym_buf = load.file_buf)
    BY <1>0 DEF InfosOK, MachInfo
  <2>2. Clean /\ load.id = Kernel => (~host.collection /\ load'.sym_buf = "now") \/ pc' = "prelink"
    BY <1>0, <2>1 DEF LoadGood, Searching, Clean, Unknown
  <2>8. LoadGood'
    BY <1>0, <2>1, <2>2 DEF LoadGood, Searching, Clean, Good, Loading
  <2>9. KernelGood'
    BY <1>0, <2>1, KernelStays
  <2> QED
    BY <2>8, <2>9 DEF SymInv
<1>8. CASE FromPrelinked
  <2> USE <1>8 DEF FromPrelinked
  <2>1. CASE load.id = Kernel \/ kinfos = <<>> \/ prelinkInfo = 0
    <3>1. LoadGood'
      BY <1>0, <2>1 DEF LoadGood, Searching, Loading
    <3>2. KernelGood'
      BY <1>0, <2>1, KernelStays
    <3> QED
      BY <3>1, <3>2 DEF SymInv
  <2>2. CASE ~(load.id = Kernel \/ kinfos = <<>> \/ prelinkInfo = 0)
    <3>1. PICK kernel \in Prelinked :
            /\ kinfos' = [kinfos EXCEPT ![1] = kernel]
            /\ load' = load \/ load' = FoundIn(kernel)
            /\ pc' \in {"fail", "pass", "faulted"}
      BY <2>2
    <3>2. load'.id # Kernel
      BY <1>0, <2>2, <3>1 DEF FoundIn, InfosOK, MachInfo
    <3>3. kinfos[1] \in MachInfo
      BY <1>0, <2>2 DEF InfosOK
    <3>4. kernel.sym_buf = kinfos[1].sym_buf /\ kernel.header = kinfos[1].header
          /\ kernel.slide = kinfos[1].slide
      BY <3>1, <3>3 DEF Prelinked, MachInfo
    <3>5. kinfos'[1] = kernel
      BY <1>0, <2>2, <3>1 DEF InfosOK
    <3>6. LoadGood'
      BY <3>2 DEF LoadGood, Searching
    <3>7. KernelGood'
      BY <1>0, <2>2, <3>1, <3>4, <3>5 DEF KernelGood, Clean, Good
    <3> QED
      BY <3>6, <3>7 DEF SymInv
  <2> QED
    BY <2>1, <2>2
<1>9. CASE StoreFails
  <2> USE <1>9 DEF StoreFails
  <2>8. LoadGood'
    BY <1>0 DEF LoadGood, Searching, Clean, Good, Loading
  <2>9. KernelGood'
    BY <1>0, KernelStays
  <2> QED
    BY <2>8, <2>9 DEF SymInv
<1>10. CASE StoreKernel
  <2> USE <1>10 DEF StoreKernel
  <2>1. kinfos = <<>> /\ kinfos' = Append(kinfos, load)
    BY DEF Shape, Loading
  <2>2. kinfos'[1] = load
    BY <1>0, <2>1 DEF InfosOK
  <2>8. LoadGood'
    BY DEF LoadGood, Searching, Loading
  <2>9. KernelGood'
    BY <1>0, <2>2 DEF KernelGood, LoadGood, Clean, Good, Loading
  <2> QED
    BY <2>8, <2>9 DEF SymInv
<1>11. CASE StoreKext
  <2> USE <1>11 DEF StoreKext
  <2>1. kinfos # <<>> /\ kinfos' = Append(kinfos, load)
    BY DEF Shape, Loading
  <2>2. kinfos'[1] = kinfos[1]
    BY <1>0, <2>1 DEF InfosOK
  <2>8. LoadGood'
    BY DEF LoadGood, Searching, Loading
  <2>9. KernelGood'
    BY <1>0, <2>1, <2>2, KernelStays
  <2> QED
    BY <2>8, <2>9 DEF SymInv
<1>12. CASE LoadFails
  <2> USE <1>12 DEF LoadFails
  <2>1. CASE load.id # Kernel /\ pc' = "ready" /\ UNCHANGED kinfos
    <3>1. LoadGood'
      BY <2>1 DEF LoadGood, Searching, Loading
    <3>2. KernelGood'
      BY <1>0, <2>1, KernelStays
    <3> QED
      BY <3>1, <3>2 DEF SymInv
  <2>2. CASE load.id = Kernel /\ BeginLoad(Kernel, "kernels", creds) /\ UNCHANGED kinfos
    <3>1. kinfos = <<>>
      BY <2>2 DEF Shape, Loading
    <3>2. creds' = creds
      OBVIOUS
    <3>3. BeginLoad(Kernel, "kernels", creds')
      BY <2>2, <3>2
    <3> QED
      BY <1>0, <2>2, <3>1, <3>3, BeginLoadGood
  <2>3. CASE load.id = Kernel /\ pc' = "lock" /\ UNCHANGED kinfos
    <3>1. kinfos = <<>>
      BY <2>3 DEF Shape, Loading
    <3> QED
      BY <2>3, <3>1 DEF SymInv, LoadGood, KernelGood, Searching, Loading
  <2>4. CASE pc' = "off" /\ RollBack
    BY <2>4 DEF SymInv, LoadGood, KernelGood, Searching, Loading, RollBack
  <2> QED
    BY <2>1, <2>2, <2>3, <2>4
<1>13. CASE AllocLock
  <2> USE <1>13 DEF AllocLock
  <2>1. CASE UNCHANGED kinfos
    <3>1. LoadGood'
      BY <2>1 DEF LoadGood, Searching, Loading
    <3>2. KernelGood'
      BY <1>0, <2>1, KernelStays
    <3> QED
      BY <3>1, <3>2 DEF SymInv
  <2>2. CASE pc' = "off" /\ RollBack
    BY <2>2 DEF SymInv, LoadGood, KernelGood, Searching, Loading, RollBack
  <2> QED
    BY <2>1, <2>2
<1>14. CASE KernelRunning
  <2> USE <1>14 DEF KernelRunning
  <2>1. CASE UNCHANGED kinfos
    <3>1. LoadGood'
      BY <2>1 DEF LoadGood, Searching, Loading
    <3>2. KernelGood'
      BY <1>0, <2>1, KernelStays
    <3> QED
      BY <3>1, <3>2 DEF SymInv
  <2>2. CASE pc' = "off" /\ RollBack
    BY <2>2 DEF SymInv, LoadGood, KernelGood, Searching, Loading, RollBack
  <2>3. CASE kinfos # <<>> /\ pc' = "ready" /\ kinfos' = [kinfos EXCEPT ![1] = Located(@, "now", KernelPlace)]
    <3> DEFINE new == Located(kinfos[1], "now", KernelPlace)
    <3>1. kinfos[1] \in MachInfo /\ kinfos[1].id = Kernel /\ kinfos[1].slide = Unknown
      BY <1>0, <2>3 DEF InfosOK, Shape, KernelGood
    <3>2. kinfos' = [kinfos EXCEPT ![1] = new]
      BY <2>3
    <3>3. Clean => Good(new)
      <4>1. SUFFICES ASSUME Clean PROVE Good(new)
        OBVIOUS
      <4>2. Good(kinfos[1])
        BY <1>0, <2>3, <4>1 DEF KernelGood
      <4>3. CASE host.collection
        <5>1. kinfos[1].sym_buf = Unknown
          BY <3>1, <4>2, <4>3 DEF Good, KernelPlace, Unknown
        <5> QED
          BY <3>1, <4>3, <5>1 DEF Located, Good, MachInfo
      <4>4. CASE ~host.collection
        BY <3>1, <4>2, <4>4 DEF Located, Good, MachInfo
      <4> QED
        BY <4>3, <4>4
    <3> HIDE DEF new
    <3>4. kinfos'[1] = new
      BY <1>0, <2>3, <3>2 DEF InfosOK
    <3>5. LoadGood'
      BY <2>3 DEF LoadGood, Searching, Loading
    <3>6. KernelGood'
      BY <2>3, <3>3, <3>4 DEF KernelGood, Clean, Good
    <3> QED
      BY <3>5, <3>6 DEF SymInv
  <2> QED
    BY <2>1, <2>2, <2>3
<1>15. CASE FreeFileBuffers
  <2> DEFINE new == [kinfos[1] EXCEPT !.file_buf = Unknown, !.prelink_dict = Unknown]
  <2>1. kinfos # <<>> /\ kinfos' = [kinfos EXCEPT ![1] = new]
    BY <1>15 DEF FreeFileBuffers, Shape
  <2>2. kinfos[1] \in MachInfo
    BY <1>0, <2>1 DEF InfosOK
  <2>3. new.sym_buf = kinfos[1].sym_buf /\ new.header = kinfos[1].header
        /\ new.slide = kinfos[1].slide
    BY <2>2 DEF MachInfo
  <2> HIDE DEF new
  <2>4. kinfos'[1] = new
    BY <1>0, <2>1 DEF InfosOK
  <2>5. LoadGood'
    BY <1>15 DEF FreeFileBuffers, LoadGood, Searching, Loading
  <2>6. KernelGood'
    BY <1>0, <1>15, <2>1, <2>3, <2>4 DEF FreeFileBuffers, KernelGood, Clean, Good
  <2> QED
    BY <2>5, <2>6 DEF SymInv
<1>16. CASE UserInit
  <2> USE <1>16 DEF UserInit
  <2>1. CASE UNCHANGED kinfos
    <3>1. LoadGood'
      BY <2>1 DEF LoadGood, Searching, Loading
    <3>2. KernelGood'
      BY <1>0, <2>1, KernelStays
    <3> QED
      BY <3>1, <3>2 DEF SymInv
  <2>2. CASE pc' = "off" /\ RollBack
    BY <2>2 DEF SymInv, LoadGood, KernelGood, Searching, Loading, RollBack
  <2> QED
    BY <2>1, <2>2
<1>17. ASSUME NEW k \in Kexts, LoadKext(k) PROVE SymInv'
  <2> USE <1>17 DEF LoadKext
  <2>1. k \in Ids /\ k # Kernel /\ creds' = creds
    BY DEF Ids
  <2>2. CASE BeginLoad(k, "kext", creds)
    <3>1. BeginLoad(k, "kext", creds')
      BY <2>1, <2>2
    <3> QED
      BY <1>0, <2>1, <3>1, BeginLoadGood
  <2>3. CASE UNCHANGED <<pc, paths, left, load>>
    <3>1. LoadGood'
      BY <2>3 DEF LoadGood, Searching, Loading
    <3>2. KernelGood'
      BY <1>0, <2>3, KernelStays
    <3> QED
      BY <3>1, <3>2 DEF SymInv
  <2> QED
    BY <2>2, <2>3
<1>18. ASSUME NEW k \in Kexts, KextUnloads(k) PROVE SymInv'
  <2> USE <1>18 DEF KextUnloads
  <2>8. LoadGood'
    BY DEF LoadGood, Searching, Loading
  <2>9. KernelGood'
    BY <1>0, KernelStays
  <2> QED
    BY <2>8, <2>9 DEF SymInv
<1>19. ASSUME NEW k \in Kexts, NEW v \in Version, NEW p \in Place, KextLoads(k, v, p) PROVE SymInv'
  <2>1. kinfos' # <<>> /\ kinfos'[1] = kinfos[1]
    BY <1>0, <1>19, KernelKept
  <2>2. kinfos # <<>> /\ pc' \in {"up", "faulted"} /\ UNCHANGED <<host, creds>>
    BY <1>19 DEF KextLoads, Shape
  <2>3. LoadGood'
    BY <2>2 DEF LoadGood, Searching, Loading
  <2>4. KernelGood'
    BY <1>0, <2>1, <2>2, KernelStays
  <2> QED
    BY <2>3, <2>4 DEF SymInv
<1> QED
  BY <1>1, <1>2, <1>3, <1>4, <1>5, <1>6, <1>7, <1>8, <1>9, <1>10, <1>11, <1>12, <1>13, <1>14, <1>15, <1>16, <1>17, <1>18, <1>19 DEF Next

-----------------------------------------------------------------------------
(* Attempts that are repeated *)

\* What an attempt left behind is never younger than the attempt, and the first one
\* finds nothing of an earlier one: prelinkInfo and the static array are set while a
\* prelinked kernel is in use, an index only for a MachInfo that was stored.
RetryInv ==
    /\ prelinkInfo <= round /\ imageArr <= round
    /\ prelinkInfo # 0 => host.prelinkedCache
    /\ pc \in Loading /\ load.id = Kernel =>
         prelinkInfo < round /\ (paths = "caches" => host.prelinkedCache)
    /\ pc \in {"lock", "running"} /\ kinfos = <<>> => round > 1 /\ host.prelinkedCache
    /\ round = 0 => pc = "off" /\ \A k \in Kexts : loadIndex[k] = 0
    /\ round = 1 /\ pc # "off" => \A k \in Kexts : loadIndex[k] <= Len(kinfos)
    /\ FaultsOnlyOnRetry

\* Putting a MachInfo in the place of another one keeps their number.
LEMMA SameLength ==
  ASSUME InfosOK, NEW i, NEW info, kinfos' = [kinfos EXCEPT ![i] = info]
  PROVE  Len(kinfos') = Len(kinfos) /\ (kinfos' = <<>> <=> kinfos = <<>>)
  BY DEF InfosOK

\* There was no attempt.
LEMMA InitRetry == Init => RetryInv
  BY DEF Init, RetryInv, FaultsOnlyOnRetry, Loading

\* Every step keeps it.
LEMMA StepRetry == TypesOK /\ Shape /\ RetryInv /\ [Next]_vars => RetryInv'
<1> SUFFICES ASSUME TypesOK, Shape, RetryInv, [Next]_vars PROVE RetryInv'
  OBVIOUS
<1> USE DEF FromFile, Idle
<1>0. /\ TypesOK /\ Shape /\ NumbersOK /\ InfosOK /\ KextsOK /\ Kernel \in Ids
      /\ Len(kinfos) \in Nat /\ (kinfos # <<>> => Len(kinfos) >= 1)
  BY DEF TypesOK, InfosOK, Ids
<1>1. CASE UNCHANGED vars
  BY <1>1 DEF vars, RetryInv, FaultsOnlyOnRetry, Loading, NumbersOK
<1>2. CASE BeginRound
  BY <1>0, <1>2 DEF BeginRound, BeginLoad, NewInfo, RetryInv, FaultsOnlyOnRetry, Loading, NumbersOK, Shape
<1>3. CASE TrySkip
  BY <1>0, <1>3 DEF TrySkip, RetryInv, FaultsOnlyOnRetry, Loading, NumbersOK
<1>4. CASE TryPlain
  BY <1>0, <1>4 DEF TryPlain, Candidate, RetryInv, FaultsOnlyOnRetry, Loading, InfosOK, MachInfo
<1>5. CASE TryCompressed
  BY <1>0, <1>5 DEF TryCompressed, Candidate, RetryInv, FaultsOnlyOnRetry, Loading, InfosOK, MachInfo
<1>6. CASE NoneLeft
  BY <1>0, <1>6 DEF NoneLeft, RetryInv, FaultsOnlyOnRetry, Loading, NumbersOK
<1>7. CASE ReadSymbols
  <2>1. load'.id = load.id
    BY <1>0, <1>7 DEF ReadSymbols, InfosOK, MachInfo
  <2> QED
    BY <1>0, <1>7, <2>1 DEF ReadSymbols, RetryInv, FaultsOnlyOnRetry, Loading, NumbersOK
<1>8. CASE FromPrelinked
  <2>1. CASE load.id = Kernel \/ kinfos = <<>> \/ prelinkInfo = 0
    BY <1>0, <1>8, <2>1 DEF FromPrelinked, RetryInv, FaultsOnlyOnRetry, Loading, NumbersOK
  <2>2. CASE ~(load.id = Kernel \/ kinfos = <<>> \/ prelinkInfo = 0)
    <3>1. PICK kernel \in Prelinked :
            /\ kinfos' = [kinfos EXCEPT ![1] = kernel]
            /\ imageArr' = ImageArr(kernel)
            /\ load' = load \/ load' = FoundIn(kernel)
            /\ pc' \in {"fail", "pass", "faulted"}
            /\ pc' = "faulted" => kernel.prelink_dict # Unknown /\ imageArr' # round
      BY <1>8, <2>2 DEF FromPrelinked
    <3>2. load'.id = load.id /\ load.id # Kernel
      BY <1>0, <2>2, <3>1 DEF FoundIn, InfosOK, MachInfo
    <3>3. Len(kinfos') = Len(kinfos) /\ kinfos' # <<>>
      BY <1>0, <2>2, <3>1, SameLength
    <3>4. imageArr' = imageArr \/ imageArr' = round
      BY <3>1 DEF ImageArr
    <3>5. pc' = "faulted" => imageArr' = imageArr /\ imageArr # 0 /\ imageArr # round
      BY <3>1 DEF ImageArr
    <3>6. round > 0
      BY <1>0, <1>8 DEF FromPrelinked, RetryInv, NumbersOK
    <3>7. /\ UNCHANGED <<round, host, prelinkInfo, loadIndex>> /\ pc = "prelink"
          /\ prelinkInfo # 0
      BY <1>8, <2>2 DEF FromPrelinked
    <3>8. FaultsOnlyOnRetry'
      BY <1>0, <3>5, <3>7 DEF RetryInv, FaultsOnlyOnRetry, NumbersOK
    <3> QED
      BY <1>0, <3>1, <3>2, <3>3, <3>4, <3>7, <3>8 DEF RetryInv, Loading, NumbersOK
  <2> QED
    BY <2>1, <2>2
<1>9. CASE StoreFails
  BY <1>0, <1>9 DEF StoreFails, RetryInv, FaultsOnlyOnRetry, Loading, NumbersOK
<1>10. CASE StoreKernel
  <2>1. Len(kinfos') = Len(kinfos) + 1 /\ kinfos' # <<>>
    BY <1>0, <1>10 DEF StoreKernel, InfosOK
  <2>2. UNCHANGED <<round, host, imageArr, loadIndex>> /\ pc = "pass" /\ pc' = "lock" /\ load.id = Kernel
    BY <1>10 DEF StoreKernel
  <2>3. prelinkInfo' = prelinkInfo \/ (paths = "caches" /\ prelinkInfo' = round)
    BY <1>10 DEF StoreKernel
  <2> QED
    BY <1>0, <2>1, <2>2, <2>3 DEF RetryInv, FaultsOnlyOnRetry, Loading, NumbersOK, KextsOK
<1>11. CASE StoreKext
  <2>1. Len(kinfos') = Len(kinfos) + 1 /\ kinfos' # <<>>
    BY <1>0, <1>11 DEF StoreKext, InfosOK
  <2>2. UNCHANGED <<round, host, imageArr, prelinkInfo>> /\ pc = "pass" /\ pc' = "ready"
    BY <1>11 DEF StoreKext
  <2>3. \A k \in Kexts : loadIndex'[k] = loadIndex[k] \/ loadIndex'[k] = Len(kinfos')
    BY <1>0, <1>11 DEF StoreKext, KextsOK
  <2>4. \A k \in Kexts : loadIndex[k] \in Nat
    BY <1>0 DEF KextsOK
  <2> QED
    BY <1>0, <2>1, <2>2, <2>3, <2>4 DEF RetryInv, FaultsOnlyOnRetry, Loading, NumbersOK
<1>12. CASE LoadFails
  <2>1. UNCHANGED <<round, host, imageArr, prelinkInfo, loadIndex>> /\ pc = "fail"
    BY <1>12 DEF LoadFails
  <2>2. CASE load.id # Kernel
    BY <1>0, <1>12, <2>1, <2>2 DEF LoadFails, RetryInv, FaultsOnlyOnRetry, Loading, NumbersOK
  <2>3. CASE load.id = Kernel /\ paths = "caches" /\ prelinkInfo = 0
    <3>1. kinfos' = kinfos /\ load'.id = Kernel /\ pc' \in Loading /\ paths' = "kernels"
      BY <1>12, <2>3 DEF LoadFails, BeginLoad, NewInfo, Loading
    <3> QED
      BY <1>0, <2>1, <2>3, <3>1 DEF RetryInv, FaultsOnlyOnRetry, Loading, NumbersOK
  <2>4. CASE load.id = Kernel /\ paths = "caches" /\ prelinkInfo # 0
    <3>1. kinfos' = kinfos /\ pc' = "lock"
      BY <1>12, <2>4 DEF LoadFails
    <3> QED
      BY <1>0, <2>1, <2>4, <3>1 DEF RetryInv, FaultsOnlyOnRetry, Loading, NumbersOK
  <2>5. CASE load.id = Kernel /\ paths = "kernels"
    BY <1>0, <1>12, <2>1, <2>5 DEF LoadFails, RetryInv, FaultsOnlyOnRetry, Loading, NumbersOK
  <2> QED
    BY <1>12, <2>2, <2>3, <2>4, <2>5 DEF LoadFails
<1>13. CASE AllocLock
  BY <1>0, <1>13 DEF AllocLock, RetryInv, FaultsOnlyOnRetry, Loading, NumbersOK
<1>14. CASE KernelRunning
  BY <1>0, <1>14 DEF KernelRunning, RetryInv, FaultsOnlyOnRetry, Loading, NumbersOK
<1>15. CASE FreeFileBuffers
  BY <1>0, <1>15 DEF FreeFileBuffers, RetryInv, FaultsOnlyOnRetry, Loading, NumbersOK
<1>16. CASE UserInit
  BY <1>0, <1>16 DEF UserInit, RetryInv, FaultsOnlyOnRetry, Loading, NumbersOK
<1>17. ASSUME NEW k \in Kexts, LoadKext(k) PROVE RetryInv'
  <2>1. UNCHANGED <<round, host, imageArr, prelinkInfo, loadIndex, kinfos>> /\ pc = "ready"
    BY <1>17 DEF LoadKext
  <2>2. pc' = "ready" \/ (pc' \in Loading /\ load'.id = k)
    BY <1>17 DEF LoadKext, BeginLoad, NewInfo, Loading
  <2>3. k # Kernel
    BY MachImagesAssumption
  <2> QED
    BY <1>0, <2>1, <2>2, <2>3 DEF RetryInv, FaultsOnlyOnRetry, Loading, NumbersOK
<1>18. ASSUME NEW k \in Kexts, KextUnloads(k) PROVE RetryInv'
  BY <1>0, <1>18 DEF KextUnloads, RetryInv, FaultsOnlyOnRetry, Loading, NumbersOK
<1>19. ASSUME NEW k \in Kexts, NEW v \in Version, NEW p \in Place, KextLoads(k, v, p) PROVE RetryInv'
  <2>1. UNCHANGED <<round, host, imageArr, prelinkInfo, loadIndex, load>> /\ pc = "up"
    BY <1>19 DEF KextLoads
  <2>2. Len(kinfos') = Len(kinfos)
    BY <1>0, <1>19, SameLength DEF KextLoads
  <2>3. pc' = "up" \/ (pc' = "faulted" /\ k \in handlers /\ loadIndex[k] > Len(kinfos))
    BY <1>19 DEF KextLoads
  <2>4. pc' = "faulted" => loadIndex[k] # 0 /\ round # 1
    BY <1>0, <2>1, <2>3 DEF Shape, RetryInv, KextsOK
  <2> QED
    BY <1>0, <2>1, <2>2, <2>3, <2>4 DEF RetryInv, FaultsOnlyOnRetry, Loading, NumbersOK
<1> QED
  BY <1>1, <1>2, <1>3, <1>4, <1>5, <1>6, <1>7, <1>8, <1>9, <1>10, <1>11, <1>12, <1>13, <1>14, <1>15, <1>16, <1>17, <1>18, <1>19 DEF Next

-----------------------------------------------------------------------------
(* One MachInfo for each binary *)

\* No two MachInfos are of the same binary, nor is the one that is being loaded.
IdsOK ==
    /\ \A i, j \in 1..Len(kinfos) : kinfos[i].id = kinfos[j].id => i = j
    /\ pc \in Loading => \A i \in 1..Len(kinfos) : kinfos[i].id # load.id

\* There is no MachInfo.
LEMMA InitIds == Init => IdsOK
  BY DEF Init, IdsOK, Loading

\* The identities stay those of the MachInfos that were stored.
LEMMA IdsKept ==
  ASSUME InfosOK, IdsOK, NEW i \in 1..Len(kinfos), NEW info, info.id = kinfos[i].id,
         kinfos' = [kinfos EXCEPT ![i] = info]
  PROVE  /\ Len(kinfos') = Len(kinfos)
         /\ \A j \in 1..Len(kinfos) : kinfos'[j].id = kinfos[j].id
  BY DEF InfosOK

\* Every step keeps it.
LEMMA StepIds == TypesOK /\ Shape /\ IdsOK /\ [Next]_vars => IdsOK'
<1> SUFFICES ASSUME TypesOK, Shape, IdsOK, [Next]_vars PROVE IdsOK'
  OBVIOUS
<1> USE DEF FromFile, Idle
<1>0. /\ TypesOK /\ Shape /\ NumbersOK /\ InfosOK /\ KextsOK /\ Kernel \in Ids
      /\ Len(kinfos) \in Nat /\ (kinfos # <<>> => Len(kinfos) >= 1)
  BY DEF TypesOK, InfosOK, Ids
<1>1. CASE UNCHANGED vars
  BY <1>1 DEF vars, IdsOK, Loading, RollBack
<1>2. CASE BeginRound
  BY <1>0, <1>2 DEF BeginRound, IdsOK, Shape, Loading
<1>3. CASE TrySkip
  BY <1>0, <1>3 DEF TrySkip, IdsOK, Loading, RollBack
<1>4. CASE TryPlain
  <2>1. load'.id = load.id
    BY <1>0, <1>4 DEF TryPlain, Candidate, InfosOK, MachInfo
  <2> QED
    BY <1>0, <1>4, <2>1 DEF TryPlain, Candidate, IdsOK, Loading
<1>5. CASE TryCompressed
  <2>1. load'.id = load.id
    BY <1>0, <1>5 DEF TryCompressed, Candidate, InfosOK, MachInfo
  <2> QED
    BY <1>0, <1>5, <2>1 DEF TryCompressed, Candidate, IdsOK, Loading
<1>6. CASE NoneLeft
  BY <1>0, <1>6 DEF NoneLeft, IdsOK, Loading, RollBack
<1>7. CASE ReadSymbols
  <2>1. load'.id = load.id
    BY <1>0, <1>7 DEF ReadSymbols, InfosOK, MachInfo
  <2> QED
    BY <1>0, <1>7, <2>1 DEF ReadSymbols, IdsOK, Loading
<1>8. CASE FromPrelinked
  <2>1. CASE load.id = Kernel \/ kinfos = <<>> \/ prelinkInfo = 0
    BY <1>0, <1>8, <2>1 DEF FromPrelinked, IdsOK, Loading
  <2>2. CASE ~(load.id = Kernel \/ kinfos = <<>> \/ prelinkInfo = 0)
    <3>1. PICK kernel \in Prelinked :
            /\ kinfos' = [kinfos EXCEPT ![1] = kernel]
            /\ load' = load \/ load' = FoundIn(kernel)
            /\ pc' \in {"fail", "pass", "faulted"}
      BY <1>8, <2>2 DEF FromPrelinked
    <3>2. load'.id = load.id
      BY <1>0, <2>2, <3>1 DEF FoundIn, InfosOK, MachInfo
    <3>3. 1 \in 1..Len(kinfos) /\ kinfos[1] \in MachInfo
      BY <1>0, <2>2 DEF InfosOK
    <3>4. kernel.id = kinfos[1].id
      BY <3>1, <3>3 DEF Prelinked, MachInfo
    <3>5. /\ Len(kinfos') = Len(kinfos)
          /\ \A j \in 1..Len(kinfos) : kinfos'[j].id = kinfos[j].id
      BY <1>0, <3>1, <3>3, <3>4, IdsKept
    <3>6. pc = "prelink"
      BY <1>8 DEF FromPrelinked
    <3> QED
      BY <1>0, <3>2, <3>5, <3>6 DEF IdsOK, Loading
  <2> QED
    BY <2>1, <2>2
<1>9. CASE StoreFails
  BY <1>0, <1>9 DEF StoreFails, IdsOK, Loading, RollBack
<1>10. CASE StoreKernel
  <2>1. kinfos = <<>> /\ kinfos' = <<load>>
    BY <1>0, <1>10 DEF StoreKernel, Shape, Loading
  <2> QED
    BY <1>10, <2>1 DEF StoreKernel, IdsOK, Loading
<1>11. CASE StoreKext
  <2> DEFINE n == Len(kinfos)
  <2>1. Len(kinfos') = n + 1 /\ kinfos'[n + 1] = load /\ \A i \in 1..n : kinfos'[i] = kinfos[i]
    BY <1>0, <1>11 DEF StoreKext, InfosOK
  <2>2. /\ \A i, j \in 1..n : kinfos[i].id = kinfos[j].id => i = j
        /\ \A i \in 1..n : kinfos[i].id # load.id
    BY <1>11 DEF StoreKext, IdsOK, Loading
  <2>3. pc' \notin Loading /\ n \in Nat
    BY <1>0, <1>11 DEF StoreKext, Loading
  <2> HIDE DEF n
  <2>4. \A i, j \in 1..(n + 1) : kinfos'[i].id = kinfos'[j].id => i = j
    BY <2>1, <2>2, <2>3
  <2> QED
    BY <2>1, <2>3, <2>4 DEF IdsOK
<1>12. CASE LoadFails
  BY <1>0, <1>12 DEF LoadFails, RollBack, BeginLoad, NewInfo, IdsOK, Loading, Shape
<1>13. CASE AllocLock
  BY <1>0, <1>13 DEF AllocLock, IdsOK, Loading, RollBack
<1>14. CASE KernelRunning
  <2>1. CASE UNCHANGED kinfos \/ kinfos' = <<>>
    BY <1>0, <1>14, <2>1 DEF KernelRunning, IdsOK, Loading
  <2>2. CASE kinfos # <<>> /\ kinfos' = [kinfos EXCEPT ![1] = Located(@, "now", KernelPlace)]
    <3>1. 1 \in 1..Len(kinfos) /\ kinfos[1] \in MachInfo
      BY <1>0, <2>2 DEF InfosOK
    <3>2. Located(kinfos[1], "now", KernelPlace).id = kinfos[1].id
      BY <3>1 DEF Located, MachInfo
    <3>3. /\ Len(kinfos') = Len(kinfos)
          /\ \A j \in 1..Len(kinfos) : kinfos'[j].id = kinfos[j].id
      BY <1>0, <2>2, <3>1, <3>2, IdsKept
    <3>4. pc' \notin Loading
      BY <1>14 DEF KernelRunning, Loading
    <3> QED
      BY <3>3, <3>4 DEF IdsOK
  <2> QED
    BY <1>14, <2>1, <2>2 DEF KernelRunning, RollBack
<1>15. CASE FreeFileBuffers
  <2>1. 1 \in 1..Len(kinfos) /\ kinfos[1] \in MachInfo
    BY <1>0, <1>15 DEF FreeFileBuffers, InfosOK, Shape
  <2> DEFINE info == [kinfos[1] EXCEPT !.file_buf = Unknown, !.prelink_dict = Unknown]
  <2>2. info.id = kinfos[1].id /\ kinfos' = [kinfos EXCEPT ![1] = info]
    BY <1>0, <1>15, <2>1 DEF FreeFileBuffers, MachInfo, InfosOK
  <2> HIDE DEF info
  <2>3. /\ Len(kinfos') = Len(kinfos)
        /\ \A j \in 1..Len(kinfos) : kinfos'[j].id = kinfos[j].id
    BY <1>0, <2>1, <2>2, IdsKept
  <2>4. pc' \notin Loading
    BY <1>15 DEF FreeFileBuffers, Loading
  <2> QED
    BY <2>3, <2>4 DEF IdsOK
<1>16. CASE UserInit
  BY <1>0, <1>16 DEF UserInit, IdsOK, Loading, RollBack
<1>17. ASSUME NEW k \in Kexts, LoadKext(k) PROVE IdsOK'
  BY <1>0, <1>17 DEF LoadKext, BeginLoad, NewInfo, IdsOK, Loading, Shape
<1>18. ASSUME NEW k \in Kexts, KextUnloads(k) PROVE IdsOK'
  BY <1>0, <1>18 DEF KextUnloads, IdsOK, Loading, RollBack
<1>19. ASSUME NEW k \in Kexts, NEW v \in Version, NEW p \in Place, KextLoads(k, v, p) PROVE IdsOK'
  <2>1. CASE UNCHANGED kinfos
    BY <1>0, <1>19, <2>1 DEF KextLoads, IdsOK, Loading
  <2>2. CASE k \in handlers /\ loadIndex[k] <= Len(kinfos) /\ ~UNCHANGED kinfos
    <3>1. loadIndex[k] \in 1..Len(kinfos)
      BY <1>0, <2>2 DEF Shape, KextsOK
    <3>2. kinfos[loadIndex[k]] \in MachInfo
      BY <1>0, <3>1 DEF InfosOK
    <3>3. PICK info \in UpdateRunning(kinfos[loadIndex[k]], k \in host.reloadable, v, p) :
             kinfos' = [kinfos EXCEPT ![loadIndex[k]] = info]
      BY <1>19, <2>2 DEF KextLoads
    <3>4. info.id = kinfos[loadIndex[k]].id
      BY <3>2, <3>3 DEF UpdateRunning, Located, MachInfo
    <3>5. /\ Len(kinfos') = Len(kinfos)
          /\ \A j \in 1..Len(kinfos) : kinfos'[j].id = kinfos[j].id
      BY <1>0, <3>1, <3>3, <3>4, IdsKept
    <3>6. pc' \notin Loading
      BY <1>19 DEF KextLoads, Loading
    <3> QED
      BY <3>5, <3>6 DEF IdsOK
  <2> QED
    BY <1>19, <2>1, <2>2 DEF KextLoads
<1> QED
  BY <1>1, <1>2, <1>3, <1>4, <1>5, <1>6, <1>7, <1>8, <1>9, <1>10, <1>11, <1>12, <1>13, <1>14, <1>15, <1>16, <1>17, <1>18, <1>19 DEF Next

-----------------------------------------------------------------------------
(* The buffers *)

\* What MachInfos own.
Held == Owned(load) \cup UNION {Owned(kinfos[i]) : i \in 1..Len(kinfos)}

\* A buffer tells its attempt and its owner.
LEMMA OwnedBuffers ==
  ASSUME NEW info, NEW b \in Owned(info)
  PROVE  b[1] = round /\ b[2] = info.id
  BY DEF Owned, Buf

\* A new MachInfo owns nothing.
LEMMA NewOwnsNothing == ASSUME NEW id PROVE Owned(NewInfo(id)) = {}
<1>1. \A g \in {"file_buf", "prelink_dict", "sym_buf"} : NewInfo(id)[g] = Unknown
  BY DEF NewInfo
<1> QED
  BY <1>1 DEF Owned

\* What is owned is known by four fields.
LEMMA OwnedSame ==
  ASSUME NEW a, NEW b, a.id = b.id, a.file_buf = b.file_buf, a.prelink_dict = b.prelink_dict,
         a.sym_buf = b.sym_buf, a.sym_buf_ro = b.sym_buf_ro
  PROVE  Owned(a) = Owned(b)
<1>1. \A g \in {"file_buf", "prelink_dict", "sym_buf"} : a[g] = b[g]
  OBVIOUS
<1> QED
  BY <1>1 DEF Owned

\* Locating the running copy makes no buffer: symbols that are in memory are not owned.
LEMMA LocatedOwned ==
  ASSUME NEW info \in MachInfo, NEW v, NEW p
  PROVE  Owned(Located(info, v, p)) = Owned(info)
<1> DEFINE new == Located(info, v, p)
<1> SUFFICES Owned(new) = Owned(info)
  OBVIOUS
<1>1. CASE host.collection /\ info.sym_buf = Unknown
  <2>1. /\ new.id = info.id /\ new.file_buf = info.file_buf
        /\ new.prelink_dict = info.prelink_dict /\ new.sym_buf_ro = TRUE
    BY <1>1 DEF Located, MachInfo
  <2> HIDE DEF new
  <2>2. \A g \in {"file_buf", "prelink_dict"} : new[g] = info[g]
    BY <2>1
  <2> QED
    BY <1>1, <2>1, <2>2 DEF Owned, Buf
<1>2. CASE ~(host.collection /\ info.sym_buf = Unknown)
  <2>1. /\ new.id = info.id /\ new.file_buf = info.file_buf
        /\ new.prelink_dict = info.prelink_dict /\ new.sym_buf = info.sym_buf
        /\ new.sym_buf_ro = info.sym_buf_ro
    BY <1>2 DEF Located, MachInfo
  <2> HIDE DEF new
  <2> QED
    BY <2>1, OwnedSame
<1> QED
  BY <1>1, <1>2

\* Held after a step of the same attempt.
LEMMA HeldNext ==
  ASSUME UNCHANGED round
  PROVE  Held' = Owned(load') \cup UNION {Owned(kinfos'[i]) : i \in 1..Len(kinfos')}
  BY DEF Held, Owned, Buf

\* Nothing is allocated for an attempt to come; during one, what MachInfos own.
HeapParts ==
    /\ \A b \in heap : b[1] <= round
    /\ pc # "off" => {b \in heap : b[1] = round} = Held

\* A step that makes no buffer and keeps all owners.
LEMMA HeapFrame ==
  ASSUME HeapParts, pc # "off", UNCHANGED <<round, heap>>,
         Owned(load') = Owned(load), Len(kinfos') = Len(kinfos),
         \A i \in 1..Len(kinfos) : Owned(kinfos'[i]) = Owned(kinfos[i])
  PROVE  HeapParts'
<1>1. Held' = Held
  BY HeldNext DEF Held
<1> QED
  BY <1>1 DEF HeapParts

\* A step that only changes what the MachInfo being loaded owns.
LEMMA HeapLoad ==
  ASSUME HeapParts, NumbersOK, pc # "off", UNCHANGED <<round, kinfos>>,
         \A i \in 1..Len(kinfos) : kinfos[i].id # load.id,
         heap' = (heap \ Owned(load)) \cup Owned(load')
  PROVE  HeapParts'
<1>1. Held' = (Held \ Owned(load)) \cup Owned(load')
  <2>1. \A i \in 1..Len(kinfos) : Owned(kinfos[i]) \cap Owned(load) = {}
    BY OwnedBuffers
  <2> QED
    BY <2>1, HeldNext DEF Held
<1>2. \A b \in Owned(load') : b[1] = round
  BY OwnedBuffers
<1>3. {b \in heap' : b[1] = round} = Held'
  BY <1>1, <1>2, OwnedBuffers DEF HeapParts
<1>4. \A b \in heap' : b[1] <= round
  BY <1>2 DEF HeapParts, NumbersOK
<1> QED
  BY <1>3, <1>4 DEF HeapParts

\* The loaded MachInfo is stored.
LEMMA HeapStore ==
  ASSUME HeapParts, InfosOK, pc # "off", UNCHANGED <<round, heap>>,
         kinfos' = Append(kinfos, load), load' = Blank
  PROVE  HeapParts'
<1> DEFINE n == Len(kinfos)
<1>1. n \in Nat /\ Len(kinfos') = n + 1 /\ kinfos'[n + 1] = load /\ \A i \in 1..n : kinfos'[i] = kinfos[i]
  BY DEF InfosOK
<1>2. Owned(load') = {}
  BY NewOwnsNothing DEF Blank
<1> HIDE DEF n
<1>3. UNION {Owned(kinfos'[i]) : i \in 1..(n + 1)} = Owned(load) \cup UNION {Owned(kinfos[i]) : i \in 1..n}
  <2>1. 1..(n + 1) = 1..n \cup {n + 1}
    BY <1>1
  <2> QED
    BY <1>1, <2>1
<1>4. Held' = Held
  BY <1>1, <1>2, <1>3, HeldNext DEF Held, n
<1> QED
  BY <1>4 DEF HeapParts

\* The MachInfo of the kernel and the one being loaded get buffers.
LEMMA HeapPrelinked ==
  ASSUME HeapParts, NumbersOK, InfosOK, pc # "off", UNCHANGED round, kinfos # <<>>,
         NEW kernel, kinfos' = [kinfos EXCEPT ![1] = kernel],
         Owned(kinfos[1]) \subseteq Owned(kernel), Owned(load) \subseteq Owned(load'),
         heap' = heap \cup Owned(kernel) \cup Owned(load')
  PROVE  HeapParts'
<1> DEFINE n == Len(kinfos)
<1>1. n \in Nat /\ 1 \in 1..n /\ Len(kinfos') = n /\ kinfos'[1] = kernel /\ \A i \in 2..n : kinfos'[i] = kinfos[i]
  BY DEF InfosOK
<1> HIDE DEF n
<1>2. 1..n = {1} \cup 2..n
  BY <1>1
<1>3. UNION {Owned(kinfos'[i]) : i \in 1..n} = Owned(kernel) \cup UNION {Owned(kinfos[i]) : i \in 1..n}
  BY <1>1, <1>2
<1>4. Held' = Held \cup Owned(kernel) \cup Owned(load')
  BY <1>1, <1>3, HeldNext DEF Held, n
<1>5. \A b \in Owned(load') \cup Owned(kernel) : b[1] = round
  BY OwnedBuffers
<1>6. {b \in heap' : b[1] = round} = Held'
  BY <1>4, <1>5 DEF HeapParts
<1>7. \A b \in heap' : b[1] <= round
  BY <1>5 DEF HeapParts, NumbersOK
<1> QED
  BY <1>6, <1>7 DEF HeapParts

\* A MachInfo that is not being loaded owns nothing but by being stored.
HeapInv ==
    /\ HeapParts
    /\ pc \notin Loading \cup {"faulted"} => load = Blank
    /\ pc \in {"search", "read", "prelink"} => load.sym_buf = Unknown

\* Nothing is allocated.
LEMMA InitHeap == Init => HeapInv
  BY DEF Init, HeapInv, HeapParts, Loading

\* Every step keeps it.
LEMMA StepHeap == TypesOK /\ Shape /\ IdsOK /\ HeapInv /\ [Next]_vars => HeapInv'
<1> SUFFICES ASSUME TypesOK, Shape, IdsOK, HeapInv, [Next]_vars PROVE HeapInv'
  OBVIOUS
<1> USE DEF FromFile, Idle
<1>0. /\ TypesOK /\ Shape /\ NumbersOK /\ InfosOK /\ KextsOK /\ Kernel \in Ids /\ HeapParts
      /\ Len(kinfos) \in Nat /\ (kinfos # <<>> => Len(kinfos) >= 1)
  BY DEF TypesOK, InfosOK, Ids, HeapInv
<1>1. CASE UNCHANGED vars
  BY <1>1 DEF vars, HeapInv, HeapParts, Held, Owned, Buf
<1>2. CASE BeginRound
  <2>1. load' \in {Blank, NewInfo(Kernel)} /\ kinfos' = <<>> /\ heap' = heap /\ round' = round + 1
    BY <1>2 DEF BeginRound, BeginLoad, HeapInv, Shape, Loading
  <2>2. Owned(load)' = {}
    <3>1. \A g \in {"file_buf", "prelink_dict", "sym_buf"} : load'[g] = Unknown
      BY <2>1 DEF Blank, NewInfo
    <3> QED
      BY <3>1 DEF Owned
  <2>3. Held' = {}
    BY <2>1, <2>2 DEF Held
  <2>4. \A b \in heap' : b[1] < round'
    <3>1. \A b \in heap : b[1] \in Nat
      BY DEF TypesOK, HeapOK
    <3> QED
      BY <1>0, <2>1, <3>1 DEF HeapParts, NumbersOK
  <2>5. HeapParts'
    <3>1. \A b \in heap' : b[1] \in Nat /\ round' \in Nat
      BY <1>0, <2>1 DEF TypesOK, HeapOK, NumbersOK
    <3> QED
      BY <2>3, <2>4, <3>1 DEF HeapParts
  <2>6. pc' \in {"search", "pass", "fail"} \/ (pc' = "lock" /\ load' = load)
    BY <1>2 DEF BeginRound, BeginLoad
  <2>7. load'.sym_buf = Unknown
    BY <2>1 DEF Blank, NewInfo
  <2> QED
    BY <1>2, <2>5, <2>6, <2>7 DEF BeginRound, HeapInv, Loading
<1>3. CASE TrySkip
  <2>1. HeapParts'
    BY <1>0, <1>3, HeapFrame DEF TrySkip
  <2> QED
    BY <1>3, <2>1 DEF TrySkip, HeapInv, Loading
<1>4. CASE TryPlain
  <2>1. /\ load'.id = load.id /\ load'.file_buf = load.file_buf /\ load'.sym_buf = load.sym_buf
        /\ load'.prelink_dict = load.prelink_dict /\ load'.sym_buf_ro = load.sym_buf_ro
        /\ pc' \in {"read", "search"}
    BY <1>0, <1>4 DEF TryPlain, Candidate, InfosOK, MachInfo
  <2>2. Owned(load') = Owned(load)
    BY <2>1, OwnedSame
  <2>3. HeapParts'
    BY <1>0, <1>4, <2>2, HeapFrame DEF TryPlain
  <2> QED
    BY <1>4, <2>1, <2>3 DEF TryPlain, HeapInv, Loading
<1>5. CASE TryCompressed
  <2>1. load'.id = load.id /\ load'.sym_buf = load.sym_buf /\ pc' \in {"read", "search"}
    BY <1>0, <1>5 DEF TryCompressed, Candidate, InfosOK, MachInfo
  <2>2. load.sym_buf = Unknown
    BY <1>5 DEF TryCompressed, HeapInv
  <2>3. FileBuffers(load) = Owned(load) /\ FileBuffers(load') = Owned(load')
    BY <2>1, <2>2 DEF FileBuffers, Owned, Buf
  <2>4. HeapParts'
    <3>1. \A i \in 1..Len(kinfos) : kinfos[i].id # load.id
      BY <1>5 DEF TryCompressed, IdsOK, Loading
    <3> QED
      BY <1>0, <1>5, <2>3, <3>1, HeapLoad DEF TryCompressed
  <2> QED
    BY <1>5, <2>1, <2>2, <2>4 DEF HeapInv, Loading
<1>6. CASE NoneLeft
  <2>1. HeapParts'
    BY <1>0, <1>6, HeapFrame DEF NoneLeft
  <2> QED
    BY <1>6, <2>1 DEF NoneLeft, HeapInv, Loading
<1>7. CASE ReadSymbols
  <2>1. /\ load'.id = load.id /\ load'.file_buf = load.file_buf
        /\ load'.prelink_dict = load.prelink_dict /\ load'.sym_buf_ro = load.sym_buf_ro
        /\ (load' = load \/ pc' = "pass") /\ pc' \in {"pass", "prelink"}
    BY <1>0, <1>7 DEF ReadSymbols, InfosOK, MachInfo
  <2>2. load.sym_buf = Unknown
    BY <1>7 DEF ReadSymbols, HeapInv
  <2>3. Owned(load) \subseteq Owned(load')
    <3>1. \A g \in {"file_buf", "prelink_dict"} : load'[g] = load[g]
      BY <2>1
    <3> QED
      BY <2>1, <2>2, <3>1 DEF Owned, Buf
  <2>4. HeapParts'
    <3>1. \A i \in 1..Len(kinfos) : kinfos[i].id # load.id
      BY <1>7 DEF ReadSymbols, IdsOK, Loading
    <3>2. heap' = (heap \ Owned(load)) \cup Owned(load')
      BY <1>7, <2>3 DEF ReadSymbols
    <3> QED
      BY <1>0, <1>7, <3>1, <3>2, HeapLoad DEF ReadSymbols
  <2> QED
    BY <2>1, <2>2, <2>4 DEF HeapInv, Loading
<1>8. CASE FromPrelinked
  <2>1. CASE load.id = Kernel \/ kinfos = <<>> \/ prelinkInfo = 0
    <3>1. pc' = "fail" /\ UNCHANGED <<round, load, kinfos, heap>> /\ pc = "prelink"
      BY <1>8, <2>1 DEF FromPrelinked
    <3>2. HeapParts'
      BY <1>0, <3>1, HeapFrame
    <3> QED
      BY <3>1, <3>2 DEF HeapInv, Loading
  <2>2. CASE ~(load.id = Kernel \/ kinfos = <<>> \/ prelinkInfo = 0)
    <3>1. PICK kernel \in Prelinked :
            /\ kinfos' = [kinfos EXCEPT ![1] = kernel]
            /\ load' = load \/ load' = FoundIn(kernel)
            /\ pc' \in {"fail", "pass", "faulted"}
            /\ heap' = heap \cup Owned(kernel) \cup Owned(load')
      BY <1>8, <2>2 DEF FromPrelinked
    <3>2. /\ load'.id = load.id /\ load'.file_buf = load.file_buf
          /\ load'.prelink_dict = load.prelink_dict /\ load'.sym_buf_ro = load.sym_buf_ro
      BY <1>0, <2>2, <3>1 DEF FoundIn, InfosOK, MachInfo
    <3>3. load.sym_buf = Unknown /\ pc = "prelink"
      BY <1>8 DEF FromPrelinked, HeapInv
    <3>4. Owned(load) \subseteq Owned(load')
      <4>1. \A g \in {"file_buf", "prelink_dict"} : load'[g] = load[g]
        BY <3>2
      <4> QED
        BY <3>2, <3>3, <4>1 DEF Owned, Buf
    <3>5. Owned(kinfos[1]) \subseteq Owned(kernel)
      <4>1. kinfos[1] \in MachInfo
        BY <1>0, <2>2 DEF InfosOK
      <4>2. CASE kernel = kinfos[1]
        BY <4>2
      <4>3. CASE kinfos[1].prelink_dict = Unknown
                 /\ kernel = [kinfos[1] EXCEPT !.prelink_dict = kinfos[1].file_buf]
        <5>1. /\ kernel.id = kinfos[1].id /\ kernel.sym_buf_ro = kinfos[1].sym_buf_ro
              /\ kernel.file_buf = kinfos[1].file_buf /\ kernel.sym_buf = kinfos[1].sym_buf
          BY <4>1, <4>3 DEF MachInfo
        <5>2. \A g \in {"file_buf", "sym_buf"} : kernel[g] = kinfos[1][g]
          BY <5>1
        <5> QED
          BY <4>3, <5>1, <5>2 DEF Owned, Buf
      <4> QED
        BY <3>1, <4>2, <4>3 DEF Prelinked
    <3>6. HeapParts'
      BY <1>0, <1>8, <2>2, <3>1, <3>3, <3>4, <3>5, HeapPrelinked DEF FromPrelinked
    <3> QED
      BY <3>1, <3>6 DEF HeapInv, Loading
  <2> QED
    BY <2>1, <2>2
<1>9. CASE StoreFails
  <2>1. HeapParts'
    BY <1>0, <1>9, HeapFrame DEF StoreFails
  <2> QED
    BY <1>9, <2>1 DEF StoreFails, HeapInv, Loading
<1>10. CASE StoreKernel
  <2>1. HeapParts'
    BY <1>0, <1>10, HeapStore DEF StoreKernel
  <2> QED
    BY <1>10, <2>1 DEF StoreKernel, HeapInv, Loading
<1>11. CASE StoreKext
  <2>1. HeapParts'
    BY <1>0, <1>11, HeapStore DEF StoreKext
  <2> QED
    BY <1>11, <2>1 DEF StoreKext, HeapInv, Loading
<1>12. CASE LoadFails
  <2>1. load' \in {Blank, NewInfo(Kernel)} /\ pc = "fail" /\ UNCHANGED round
        /\ heap' = heap \ Owned(load)
    BY <1>12 DEF LoadFails, BeginLoad
  <2>2. Owned(load') = {}
    BY <2>1, NewOwnsNothing DEF Blank
  <2>5. HeapParts'
    <3>1. CASE UNCHANGED kinfos
      <4>1. \A i \in 1..Len(kinfos) : kinfos[i].id # load.id
        BY <2>1 DEF IdsOK, Loading
      <4>2. heap' = (heap \ Owned(load)) \cup Owned(load')
        BY <2>1, <2>2
      <4> QED
        BY <1>0, <2>1, <3>1, <4>1, <4>2, HeapLoad
    <3>2. CASE pc' = "off"
      BY <1>0, <2>1, <3>2 DEF HeapParts
    <3>3. UNCHANGED kinfos \/ pc' = "off"
      BY <1>12 DEF LoadFails
    <3> QED
      BY <3>1, <3>2, <3>3
  <2>6. load'.sym_buf = Unknown
    BY <2>1 DEF Blank, NewInfo
  <2>7. pc' \in Loading \/ load' = Blank
    BY <1>12 DEF LoadFails, BeginLoad, Loading
  <2> QED
    BY <2>5, <2>6, <2>7 DEF HeapInv
<1>13. CASE AllocLock
  <2>1. UNCHANGED <<round, heap, load>> /\ pc = "lock" /\ load = Blank /\ (pc' = "off" \/ (UNCHANGED kinfos /\ pc' = "running"))
    BY <1>13 DEF AllocLock, HeapInv, Loading
  <2>2. HeapParts'
    <3>1. CASE UNCHANGED kinfos
      BY <1>0, <2>1, <3>1, HeapFrame
    <3>2. CASE pc' = "off"
      BY <1>0, <2>1, <3>2 DEF HeapParts
    <3> QED
      BY <2>1, <3>1, <3>2
  <2> QED
    BY <2>1, <2>2 DEF HeapInv
<1>14. CASE KernelRunning
  <2>1. UNCHANGED <<round, heap, load>> /\ pc = "running" /\ load = Blank
        /\ pc' \in {"faulted", "ready", "off"}
    BY <1>14 DEF KernelRunning, HeapInv, Loading
  <2>2. HeapParts'
    <3>1. CASE UNCHANGED kinfos
      BY <1>0, <2>1, <3>1, HeapFrame
    <3>2. CASE kinfos # <<>> /\ kinfos' = [kinfos EXCEPT ![1] = Located(@, "now", KernelPlace)]
      <4>1. kinfos[1] \in MachInfo /\ 1 \in DOMAIN kinfos
        BY <1>0, <3>2 DEF InfosOK
      <4>2. Owned(Located(kinfos[1], "now", KernelPlace)) = Owned(kinfos[1])
        BY <4>1, LocatedOwned
      <4>3. Len(kinfos') = Len(kinfos)
        BY <1>0, <3>2, SameLength
      <4>4. \A i \in 1..Len(kinfos) : Owned(kinfos'[i]) = Owned(kinfos[i])
        BY <1>0, <3>2, <4>2 DEF InfosOK
      <4> QED
        BY <1>0, <2>1, <4>3, <4>4, HeapFrame
    <3>3. CASE pc' = "off"
      BY <1>0, <2>1, <3>3 DEF HeapParts
    <3> QED
      BY <1>14, <3>1, <3>2, <3>3 DEF KernelRunning
  <2> QED
    BY <2>1, <2>2 DEF HeapInv
<1>15. CASE FreeFileBuffers
  <2> DEFINE n == Len(kinfos)
             info == [kinfos[1] EXCEPT !.file_buf = Unknown, !.prelink_dict = Unknown]
  <2>1. kinfos # <<>> /\ kinfos[1] \in MachInfo /\ n \in Nat /\ 1 \in 1..n /\ kinfos[1].id = Kernel
    BY <1>0, <1>15 DEF FreeFileBuffers, InfosOK, Shape
  <2>2. /\ info.id = Kernel /\ info.sym_buf = kinfos[1].sym_buf
        /\ info.sym_buf_ro = kinfos[1].sym_buf_ro
        /\ info.file_buf = Unknown /\ info.prelink_dict = Unknown
    BY <2>1 DEF MachInfo
  <2>3. kinfos' = [kinfos EXCEPT ![1] = info]
    BY <1>0, <1>15, <2>1 DEF FreeFileBuffers, InfosOK
  <2> HIDE DEF info
  <2>4. Owned(info) = Owned(kinfos[1]) \ FileBuffers(kinfos[1])
    BY <2>1, <2>2 DEF Owned, FileBuffers, Buf
  <2>5. Len(kinfos') = n /\ kinfos'[1] = info /\ \A i \in 2..n : kinfos'[i] = kinfos[i]
    BY <1>0, <2>1, <2>3 DEF InfosOK
  <2>6. 1..n = {1} \cup 2..n
    BY <2>1
  <2>7. \A i \in 2..n : kinfos[i].id # Kernel
    BY <2>1 DEF IdsOK
  <2>8. UNCHANGED <<round, load>> /\ load = Blank /\ heap' = heap \ FileBuffers(kinfos[1]) /\ pc = "ready" /\ pc' = "users"
    BY <1>15 DEF FreeFileBuffers, HeapInv, Loading
  <2>9. FileBuffers(kinfos[1]) \subseteq Owned(kinfos[1])
    BY DEF FileBuffers
  <2>10. \A i \in 2..n : Owned(kinfos[i]) \cap FileBuffers(kinfos[1]) = {}
    BY <2>1, <2>7, <2>9, OwnedBuffers
  <2>11. Owned(load) = {}
    BY <2>8, NewOwnsNothing DEF Blank
  <2> HIDE DEF n
  <2> DEFINE all == UNION {Owned(kinfos[i]) : i \in 1..n}
             new == UNION {Owned(kinfos'[i]) : i \in 1..n}
  <2>12. new = all \ FileBuffers(kinfos[1])
    <3> DEFINE rest == UNION {Owned(kinfos[i]) : i \in 2..n}
    <3>1. new = Owned(info) \cup rest
      BY <2>5, <2>6
    <3>2. all = Owned(kinfos[1]) \cup rest
      BY <2>6
    <3>3. rest \cap FileBuffers(kinfos[1]) = {}
      BY <2>10
    <3> HIDE DEF rest, all, new
    <3> QED
      BY <2>4, <3>1, <3>2, <3>3
  <2>13. Held' = Held \ FileBuffers(kinfos[1])
    <3>1. Held' = Owned(load') \cup new
      BY <2>5, <2>8, HeldNext
    <3>2. Held = Owned(load) \cup all
      BY DEF Held, n
    <3>3. Owned(load') = {}
      BY <2>8, <2>11
    <3> HIDE DEF all, new
    <3> QED
      BY <2>11, <2>12, <3>1, <3>2, <3>3
  <2>14. HeapParts'
    BY <1>0, <2>8, <2>13 DEF HeapParts
  <2> QED
    BY <2>8, <2>14 DEF HeapInv, Loading
<1>16. CASE UserInit
  <2>1. UNCHANGED <<round, heap, load>> /\ pc = "users" /\ load = Blank /\ (pc' = "off" \/ (UNCHANGED kinfos /\ pc' = "up"))
    BY <1>16 DEF UserInit, HeapInv, Loading
  <2>2. HeapParts'
    <3>1. CASE UNCHANGED kinfos
      BY <1>0, <2>1, <3>1, HeapFrame
    <3>2. CASE pc' = "off"
      BY <1>0, <2>1, <3>2 DEF HeapParts
    <3> QED
      BY <2>1, <3>1, <3>2
  <2> QED
    BY <2>1, <2>2 DEF HeapInv
<1>17. ASSUME NEW k \in Kexts, LoadKext(k) PROVE HeapInv'
  <2>1. UNCHANGED <<round, heap, kinfos>> /\ pc = "ready" /\ load = Blank
        /\ (UNCHANGED <<pc, load>> \/ (load' = NewInfo(k) /\ pc' \in {"search", "pass", "fail"}))
    BY <1>17 DEF LoadKext, HeapInv, Loading, BeginLoad
  <2>2. Owned(load') = {} /\ Owned(load) = {}
    BY <2>1, NewOwnsNothing DEF Blank
  <2>3. HeapParts'
    BY <1>0, <2>1, <2>2, HeapFrame
  <2>4. load'.sym_buf = Unknown
    BY <2>1 DEF Blank, NewInfo
  <2> QED
    BY <2>1, <2>3, <2>4 DEF HeapInv, Loading
<1>18. ASSUME NEW k \in Kexts, KextUnloads(k) PROVE HeapInv'
  <2>1. UNCHANGED <<round, heap, load, kinfos, pc>> /\ pc = "up"
    BY <1>18 DEF KextUnloads
  <2>2. HeapParts'
    BY <1>0, <2>1, HeapFrame
  <2> QED
    BY <2>1, <2>2 DEF HeapInv, Loading
<1>19. ASSUME NEW k \in Kexts, NEW v \in Version, NEW p \in Place, KextLoads(k, v, p) PROVE HeapInv'
  <2>0. UNCHANGED <<round, heap, load>> /\ pc = "up" /\ load = Blank /\ pc' \in {"up", "faulted"}
    BY <1>19 DEF KextLoads, HeapInv, Loading
  <2>1. CASE UNCHANGED kinfos
    BY <1>0, <2>0, <2>1, HeapFrame DEF HeapInv, Loading
  <2>2. CASE k \in handlers /\ loadIndex[k] <= Len(kinfos) /\ ~UNCHANGED kinfos
    <3>1. loadIndex[k] \in 1..Len(kinfos)
      BY <1>0, <2>2 DEF Shape, KextsOK
    <3>2. kinfos[loadIndex[k]] \in MachInfo
      BY <1>0, <3>1 DEF InfosOK
    <3> DEFINE force == k \in host.reloadable
               known == IF force THEN [kinfos[loadIndex[k]] EXCEPT !.slide = Unknown] ELSE kinfos[loadIndex[k]]
    <3>3. PICK info \in UpdateRunning(kinfos[loadIndex[k]], force, v, p) :
             kinfos' = [kinfos EXCEPT ![loadIndex[k]] = info]
      BY <1>19, <2>2 DEF KextLoads
    <3>4. known \in MachInfo
      BY <3>2 DEF MachInfo, Slide
    <3>5. info = known \/ info = Located(known, v, p)
      BY <3>3 DEF UpdateRunning
    <3>6. Owned(known) = Owned(kinfos[loadIndex[k]])
      <4>1. /\ known.id = kinfos[loadIndex[k]].id /\ known.file_buf = kinfos[loadIndex[k]].file_buf
            /\ known.prelink_dict = kinfos[loadIndex[k]].prelink_dict
            /\ known.sym_buf = kinfos[loadIndex[k]].sym_buf
            /\ known.sym_buf_ro = kinfos[loadIndex[k]].sym_buf_ro
        BY <3>2 DEF MachInfo
      <4> HIDE DEF known
      <4> QED
        BY <4>1, OwnedSame
    <3> HIDE DEF known
    <3>7. Owned(info) = Owned(kinfos[loadIndex[k]])
      BY <3>4, <3>5, <3>6, LocatedOwned
    <3>8. Len(kinfos') = Len(kinfos)
      BY <1>0, <3>3, SameLength
    <3>9. \A i \in 1..Len(kinfos) : Owned(kinfos'[i]) = Owned(kinfos[i])
      BY <1>0, <3>1, <3>3, <3>7 DEF InfosOK
    <3>10. HeapParts'
      BY <1>0, <2>0, <3>8, <3>9, HeapFrame
    <3> QED
      BY <2>0, <3>10 DEF HeapInv
  <2> QED
    BY <1>19, <2>1, <2>2 DEF KextLoads
<1> QED
  BY <1>1, <1>2, <1>3, <1>4, <1>5, <1>6, <1>7, <1>8, <1>9, <1>10, <1>11, <1>12, <1>13, <1>14, <1>15, <1>16, <1>17, <1>18, <1>19 DEF Next

-----------------------------------------------------------------------------
(* What plugins are told of a kext *)

\* A stored MachInfo of a kext: all of it is of one version, or, in a collection, it
\* is the running one once it is known.
KextGood(info) ==
    IF host.collection
    THEN /\ info.sym_buf \in {Unknown, "now"} /\ info.slide \in {Unknown, "prelinked"}
         /\ info.sym_buf = Unknown => info.slide = Unknown
         /\ info.sym_buf = "now" => info.header = "now" /\ info.prelink_slid = TRUE
    ELSE info.uuid \in Version /\ info.header = info.uuid /\ info.sym_buf = info.uuid

\* The MachInfo of a kext that is being loaded: only read from a file if the kernel is
\* not a collection.
LoadedKext ==
    pc \in Loading /\ load.id # Kernel =>
      /\ load.file_buf = Unknown /\ load.slide = Unknown /\ paths = "kext"
      /\ host.collection => pc \in {"pass", "fail"}
      /\ pc = "pass" => KextGood(load)
      /\ pc = "read" => load.header = load.uuid /\ load.uuid \in Version

\* A slide that was found is not used again: it is calculated anew, or nobody waits
\* for the kext any more.
KextInfos ==
    \A i \in 2..Len(kinfos) :
      /\ KextGood(kinfos[i])
      /\ kinfos[i].slide # Unknown =>
           kinfos[i].id \in host.reloadable \/ kinfos[i].id \notin handlers

\* In a collection kexts are only asked for once nothing can be rolled back.
KextIndices ==
    host.collection => \A k \in Kexts : loadIndex[k] # 0 =>
      /\ loadIndex[k] \in 2..Len(kinfos) /\ kinfos[loadIndex[k]].id = k
      /\ pc \notin {"off", "lock", "running"}

\* Plugins are told of kexts with a MachInfo, and only when start-up is over.
ServedKexts ==
    /\ pc \notin {"up", "faulted"} => served = {}
    /\ \A k \in served : loadIndex[k] \in 2..Len(kinfos) /\ running[k] # NotRunning
    /\ CallbackSound

KextInv == LoadedKext /\ KextInfos /\ KextIndices /\ ServedKexts

\* There are no kexts.
LEMMA InitKexts == Init => KextInv
  BY DEF Init, KextInv, LoadedKext, KextInfos, KextIndices, ServedKexts, CallbackSound, Loading

\* updateRunningInfo of the version that runs: the slide is that of its place, if
\* one that was known before is forgotten.
LEMMA UpdateGood ==
  ASSUME NEW info \in MachInfo, KextGood(info), NEW v \in Version, NEW p \in Place, NEW force,
         host.collection => v = "now" /\ p = "prelinked",
         ~host.collection => info.uuid = v,
         info.id # Kernel, info.slide # Unknown => force,
         NEW new \in UpdateRunning(info, force, v, p)
  PROVE  /\ KextGood(new) /\ new.id = info.id /\ new.uuid = info.uuid
         /\ new.slide # Unknown =>
              /\ new.header = v /\ new.sym_buf = v
              /\ new.slide = IF new.prelink_slid THEN "prelinked" ELSE p
<1> DEFINE known == IF force THEN [info EXCEPT !.slide = Unknown] ELSE info
<1>1. /\ known \in MachInfo /\ known.slide = Unknown /\ known.id = info.id
      /\ known.uuid = info.uuid /\ known.sym_buf = info.sym_buf /\ known.header = info.header
      /\ known.prelink_slid = info.prelink_slid
  BY DEF MachInfo, Slide
<1>2. KextGood(known)
  BY <1>1 DEF KextGood
<1>3. new = known \/ new = Located(known, v, p)
  BY DEF UpdateRunning
<1> HIDE DEF known
<1>4. CASE new = known
  BY <1>1, <1>2, <1>4
<1>5. CASE new = Located(known, v, p) /\ host.collection /\ known.sym_buf = Unknown
  <2>1. /\ new.id = known.id /\ new.uuid = known.uuid /\ new.sym_buf = v /\ new.header = v
        /\ new.prelink_slid = TRUE /\ new.slide = p
    BY <1>1, <1>5 DEF Located, MachInfo
  <2> QED
    BY <1>1, <1>5, <2>1 DEF KextGood, Unknown
<1>6. CASE new = Located(known, v, p) /\ ~(host.collection /\ known.sym_buf = Unknown)
  <2>1. /\ new.id = known.id /\ new.uuid = known.uuid /\ new.sym_buf = known.sym_buf
        /\ new.header = known.header /\ new.prelink_slid = known.prelink_slid
        /\ new.slide = IF known.prelink_slid THEN "prelinked" ELSE p
    BY <1>1, <1>6 DEF Located, MachInfo
  <2>2. known.sym_buf = v /\ known.header = v /\ (host.collection => known.prelink_slid = TRUE)
    BY <1>1, <1>2, <1>6 DEF KextGood
  <2> QED
    BY <1>1, <1>2, <2>1, <2>2 DEF KextGood, Unknown
<1> QED
  BY <1>3, <1>4, <1>5, <1>6

\* A step that neither serves a kext nor changes a stored one.
LEMMA KextFrame ==
  ASSUME KextInv, TypesOK, UNCHANGED <<host, loadIndex, handlers, served, running>>,
         Len(kinfos') = Len(kinfos), \A i \in 2..Len(kinfos) : kinfos'[i] = kinfos[i],
         pc' \notin {"off", "lock", "running"} \/ pc \in {"off", "lock", "running"},
         pc \notin {"up", "faulted"} \/ pc' \in {"up", "faulted"}
  PROVE  KextInfos' /\ KextIndices' /\ ServedKexts'
<1>1. KextInfos'
  BY DEF KextInv, KextInfos, KextGood
<1>2. KextIndices'
  BY DEF KextInv, KextIndices
<1>3. ServedKexts'
  BY DEF KextInv, ServedKexts, CallbackSound
<1> QED
  BY <1>1, <1>2, <1>3

\* An attempt that is rolled back has no index of a MachInfo of a collection.
LEMMA KextRollBack ==
  ASSUME KextInv, KextsOK, UNCHANGED <<host, loadIndex>>, kinfos' = <<>>, served' = {},
         host.collection => \A k \in Kexts : loadIndex[k] = 0, pc' \notin Loading
  PROVE  KextInv'
  BY DEF KextInv, LoadedKext, KextInfos, KextIndices, ServedKexts, CallbackSound

\* Every step keeps it.
LEMMA StepKexts == TypesOK /\ Shape /\ IdsOK /\ KextInv /\ [Next]_vars => KextInv'
<1> SUFFICES ASSUME TypesOK, Shape, IdsOK, KextInv, [Next]_vars PROVE KextInv'
  OBVIOUS
<1> USE DEF FromFile, Idle
<1>0. /\ TypesOK /\ Shape /\ NumbersOK /\ InfosOK /\ KextsOK /\ Kernel \in Ids /\ Len(kinfos) \in Nat
      /\ LoadedKext /\ KextInfos /\ KextIndices /\ ServedKexts
  BY DEF TypesOK, InfosOK, Ids, KextInv
<1>1. CASE UNCHANGED vars
  BY <1>1 DEF vars, LoadedKext, KextInfos, KextIndices, ServedKexts, KextInv, CallbackSound, KextGood
<1>2. CASE BeginRound
  <2>1. kinfos = <<>> /\ pc = "off" /\ UNCHANGED <<host, kinfos, loadIndex, handlers, served, running>>
    BY <1>2 DEF BeginRound, Shape
  <2>2. (pc' = "lock" \/ (pc' \in Loading /\ load'.id = Kernel))
    BY <1>2 DEF BeginRound, BeginLoad, NewInfo, Loading
  <2>3. LoadedKext'
    BY <2>2 DEF LoadedKext, Loading
  <2>4. KextInfos' /\ KextIndices' /\ ServedKexts'
    BY <1>0, <2>1, <2>2, KextFrame
  <2> QED
    BY <2>3, <2>4 DEF KextInv
<1>3. CASE TrySkip
  <2>1. KextInfos' /\ KextIndices' /\ ServedKexts'
    BY <1>0, <1>3, KextFrame DEF TrySkip
  <2>2. LoadedKext'
    BY <1>0, <1>3 DEF TrySkip, LoadedKext, KextGood, Loading
  <2> QED
    BY <2>1, <2>2 DEF KextInv
<1>4. CASE TryPlain
  <2>1. KextInfos' /\ KextIndices' /\ ServedKexts'
    BY <1>0, <1>4, KextFrame DEF TryPlain, Candidate
  <2>2. PICK v \in Version : Candidate(v, load.file_buf)
    BY <1>4 DEF TryPlain
  <2>3. /\ load'.id = load.id /\ load'.file_buf = load.file_buf /\ load'.slide = load.slide
        /\ load'.uuid = v
        /\ load.id # Kernel => load'.header = v /\ pc' = "read"
        /\ pc' \in {"read", "search"} /\ pc = "search" /\ UNCHANGED <<paths, host>>
    BY <1>0, <1>4, <2>2 DEF TryPlain, Candidate, InfosOK, MachInfo
  <2>4. LoadedKext'
    BY <1>0, <2>3 DEF LoadedKext, Loading
  <2> QED
    BY <2>1, <2>4 DEF KextInv
<1>5. CASE TryCompressed
  <2>1. KextInfos' /\ KextIndices' /\ ServedKexts'
    BY <1>0, <1>5, KextFrame DEF TryCompressed, Candidate
  <2>2. load'.id = load.id /\ load.id = Kernel
    BY <1>0, <1>5 DEF TryCompressed, Candidate, InfosOK, MachInfo, LoadedKext, Loading
  <2>4. LoadedKext'
    BY <2>2 DEF LoadedKext
  <2> QED
    BY <2>1, <2>4 DEF KextInv
<1>6. CASE NoneLeft
  <2>1. KextInfos' /\ KextIndices' /\ ServedKexts'
    BY <1>0, <1>6, KextFrame DEF NoneLeft
  <2>2. LoadedKext'
    BY <1>0, <1>6 DEF NoneLeft, LoadedKext, KextGood, Loading
  <2> QED
    BY <2>1, <2>2 DEF KextInv
<1>7. CASE ReadSymbols
  <2>1. KextInfos' /\ KextIndices' /\ ServedKexts'
    BY <1>0, <1>7, KextFrame DEF ReadSymbols
  <2>2. /\ load'.id = load.id /\ load'.file_buf = load.file_buf /\ load'.slide = load.slide
        /\ load'.uuid = load.uuid /\ load'.header = load.header
        /\ pc = "read" /\ pc' \in {"pass", "prelink"} /\ UNCHANGED <<paths, host>>
        /\ pc' = "pass" => load'.sym_buf = IF load.file_buf # Unknown THEN load.file_buf ELSE load.header
    BY <1>0, <1>7 DEF ReadSymbols, InfosOK, MachInfo
  <2>3. LoadedKext'
    BY <1>0, <2>2 DEF LoadedKext, Loading, KextGood
  <2> QED
    BY <2>1, <2>3 DEF KextInv
<1>8. CASE FromPrelinked
  <2>1. CASE load.id = Kernel \/ kinfos = <<>> \/ prelinkInfo = 0
    <3>1. pc = "prelink" /\ pc' = "fail" /\ UNCHANGED <<load, kinfos, host, loadIndex, handlers, served, running, paths>>
      BY <1>8, <2>1 DEF FromPrelinked
    <3>2. KextInfos' /\ KextIndices' /\ ServedKexts'
      BY <1>0, <3>1, KextFrame
    <3>3. LoadedKext'
      BY <1>0, <3>1 DEF LoadedKext, Loading
    <3> QED
      BY <3>2, <3>3 DEF KextInv
  <2>2. CASE ~(load.id = Kernel \/ kinfos = <<>> \/ prelinkInfo = 0)
    <3>1. PICK kernel \in Prelinked :
            /\ kinfos' = [kinfos EXCEPT ![1] = kernel]
            /\ pc' \in {"fail", "pass", "faulted"}
            /\ load' = load \/ (load' = FoundIn(kernel) /\ kernel.prelink_dict # Unknown)
            /\ pc' = "pass" => load' = FoundIn(kernel) /\ kernel.prelink_dict # Unknown
      BY <1>8, <2>2 DEF FromPrelinked
    <3>2. kernel \in MachInfo
      BY <1>0, <2>2, PrelinkedType
    <3>3. /\ load'.id = load.id /\ load'.file_buf = load.file_buf /\ load'.slide = load.slide
          /\ load' = FoundIn(kernel) => /\ load'.header = kernel.prelink_dict /\ load'.uuid = kernel.prelink_dict
                                        /\ load'.sym_buf = kernel.prelink_dict
      BY <1>0, <3>1 DEF FoundIn, InfosOK, MachInfo
    <3>4. kernel.prelink_dict # Unknown => kernel.prelink_dict \in Version
      BY <3>2 DEF MachInfo, Source
    <3>5. pc = "prelink" /\ UNCHANGED <<host, paths, loadIndex, handlers, served, running>>
      BY <1>8 DEF FromPrelinked
    <3>6. LoadedKext'
      BY <1>0, <2>2, <3>1, <3>3, <3>4, <3>5 DEF LoadedKext, KextGood, Loading
    <3>7. Len(kinfos') = Len(kinfos) /\ \A i \in 2..Len(kinfos) : kinfos'[i] = kinfos[i]
      BY <1>0, <3>1, <3>2 DEF InfosOK
    <3>8. KextInfos' /\ KextIndices' /\ ServedKexts'
      BY <1>0, <3>1, <3>5, <3>7, KextFrame
    <3> QED
      BY <3>6, <3>8 DEF KextInv
  <2> QED
    BY <2>1, <2>2
<1>9. CASE StoreFails
  <2>1. KextInfos' /\ KextIndices' /\ ServedKexts'
    BY <1>0, <1>9, KextFrame DEF StoreFails
  <2>2. LoadedKext'
    BY <1>0, <1>9 DEF StoreFails, LoadedKext, KextGood, Loading
  <2> QED
    BY <2>1, <2>2 DEF KextInv
<1>10. CASE StoreKernel
  <2>1. kinfos = <<>> /\ kinfos' = <<load>> /\ pc = "pass" /\ pc' = "lock" /\ UNCHANGED <<host, loadIndex, served>>
    BY <1>0, <1>10 DEF StoreKernel, Shape, Loading
  <2>2. host.collection => \A k \in Kexts : loadIndex[k] = 0
    BY <1>0, <2>1 DEF KextIndices
  <2> QED
    BY <1>0, <2>1, <2>2 DEF KextInv, LoadedKext, KextInfos, KextIndices, ServedKexts, CallbackSound, Loading
<1>11. CASE StoreKext
  <2> DEFINE n == Len(kinfos)
  <2>1. Len(kinfos') = n + 1 /\ kinfos'[n + 1] = load /\ \A i \in 1..n : kinfos'[i] = kinfos[i]
    BY <1>0, <1>11 DEF StoreKext, InfosOK
  <2>2. /\ pc = "pass" /\ pc' = "ready" /\ load.id # Kernel /\ load.id \in Kexts /\ UNCHANGED <<host, served>>
        /\ handlers' = handlers \cup {load.id}
        /\ loadIndex' = [loadIndex EXCEPT ![load.id] = n + 1]
    BY <1>0, <1>11, <2>1 DEF StoreKext, InfosOK, MachInfo, Ids
  <2>3. n \in Nat /\ n >= 1
    BY <1>0, <2>2 DEF Shape, Loading, InfosOK
  <2>4. KextGood(load) /\ load.slide = Unknown
    BY <1>0, <2>2 DEF LoadedKext, Loading
  <2>5. \A i \in 1..n : kinfos[i].id # load.id
    BY <2>2 DEF IdsOK, Loading
  <2>6. \A k \in Kexts : loadIndex'[k] = IF k = load.id THEN n + 1 ELSE loadIndex[k]
    BY <1>0, <2>2 DEF KextsOK
  <2> HIDE DEF n
  <2>7. KextInfos'
    <3> SUFFICES ASSUME NEW i \in 2..Len(kinfos')
                 PROVE  /\ KextGood(kinfos[i])'
                        /\ kinfos'[i].slide # Unknown =>
                             kinfos'[i].id \in host'.reloadable \/ kinfos'[i].id \notin handlers'
      BY DEF KextInfos
    <3>1. CASE i = n + 1
      BY <2>1, <2>2, <2>4, <3>1 DEF KextGood
    <3>2. CASE i \in 2..n
      BY <1>0, <2>1, <2>2, <2>3, <2>5, <3>2 DEF KextGood, KextInfos, n
    <3> QED
      BY <2>1, <2>3, <3>1, <3>2
  <2>8. KextIndices'
    <3> SUFFICES ASSUME host.collection, NEW k \in Kexts, loadIndex'[k] # 0
                 PROVE  loadIndex'[k] \in 2..(n + 1) /\ kinfos'[loadIndex'[k]].id = k
      BY <2>1, <2>2 DEF KextIndices
    <3>1. CASE k = load.id
      BY <2>1, <2>3, <2>6, <3>1
    <3>2. CASE k # load.id
      <4>1. loadIndex[k] \in 2..n /\ kinfos[loadIndex[k]].id = k
        BY <1>0, <2>6, <3>2 DEF KextIndices, n
      <4> QED
        BY <2>1, <2>3, <2>6, <3>2, <4>1
    <3> QED
      BY <3>1, <3>2
  <2>9. served' = {}
    BY <1>0, <2>2 DEF ServedKexts
  <2> QED
    BY <2>2, <2>7, <2>8, <2>9 DEF KextInv, LoadedKext, ServedKexts, CallbackSound, Loading
<1>12. CASE LoadFails
  <2>1. pc = "fail" /\ UNCHANGED <<host, loadIndex, handlers, served, running>>
    BY <1>12 DEF LoadFails
  <2>2. CASE load.id = Kernel
    <3>1. kinfos = <<>> /\ kinfos' = <<>>
      BY <1>12, <2>1, <2>2 DEF LoadFails, Shape, Loading, RollBack
    <3>2. host.collection => \A k \in Kexts : loadIndex[k] = 0
      BY <1>0, <3>1 DEF KextIndices
    <3>3. served = {}
      BY <1>0, <2>1 DEF ServedKexts
    <3>4. pc' \in Loading => load'.id = Kernel
      BY <1>12, <2>2 DEF LoadFails, BeginLoad, NewInfo, Loading
    <3>5. LoadedKext'
      BY <3>4 DEF LoadedKext
    <3> QED
      BY <2>1, <3>1, <3>2, <3>3, <3>5 DEF KextInv, KextInfos, KextIndices, ServedKexts, CallbackSound
  <2>3. CASE load.id # Kernel
    <3>1. pc' = "ready" /\ UNCHANGED kinfos
      BY <1>12, <2>3 DEF LoadFails
    <3>2. KextInfos' /\ KextIndices' /\ ServedKexts'
      BY <1>0, <2>1, <3>1, KextFrame
    <3> QED
      BY <3>1, <3>2 DEF KextInv, LoadedKext, Loading
  <2> QED
    BY <2>2, <2>3
<1>13. CASE AllocLock
  <2>1. pc = "lock" /\ pc' \in {"running", "off"} /\ UNCHANGED <<host, loadIndex, handlers, served, running>>
        /\ (UNCHANGED kinfos \/ kinfos' = <<>>)
    BY <1>13 DEF AllocLock, RollBack
  <2>2. served = {} /\ (host.collection => \A k \in Kexts : loadIndex[k] = 0)
    BY <1>0, <2>1 DEF ServedKexts, KextIndices
  <2>3. CASE UNCHANGED kinfos
    BY <1>0, <2>1, <2>3, KextFrame DEF KextInv, LoadedKext, Loading
  <2>4. CASE kinfos' = <<>>
    BY <1>0, <2>1, <2>2, <2>4, KextRollBack DEF Loading
  <2> QED
    BY <2>1, <2>3, <2>4
<1>14. CASE KernelRunning
  <2>1. pc = "running" /\ pc' \in {"faulted", "ready", "off"} /\ UNCHANGED <<host, loadIndex, handlers, served, running>>
    BY <1>14 DEF KernelRunning
  <2>2. served = {} /\ (host.collection => \A k \in Kexts : loadIndex[k] = 0)
    BY <1>0, <2>1 DEF ServedKexts, KextIndices
  <2>3. CASE kinfos' = <<>>
    BY <1>0, <2>1, <2>2, <2>3, KextRollBack DEF Loading
  <2>4. CASE kinfos # <<>> /\ kinfos' = [kinfos EXCEPT ![1] = Located(@, "now", KernelPlace)]
    <3>1. Len(kinfos') = Len(kinfos) /\ \A i \in 2..Len(kinfos) : kinfos'[i] = kinfos[i]
      BY <1>0, <2>4 DEF InfosOK
    <3>2. KextInfos' /\ KextIndices' /\ ServedKexts'
      BY <1>0, <2>1, <3>1, KextFrame
    <3> QED
      BY <2>1, <3>2 DEF KextInv, LoadedKext, Loading
  <2> QED
    BY <1>14, <2>3, <2>4 DEF KernelRunning, RollBack
<1>15. CASE FreeFileBuffers
  <2>1. pc = "ready" /\ pc' = "users" /\ UNCHANGED <<host, loadIndex, handlers, served, running>>
    BY <1>15 DEF FreeFileBuffers
  <2> DEFINE info == [kinfos[1] EXCEPT !.file_buf = Unknown, !.prelink_dict = Unknown]
  <2>2. kinfos # <<>> /\ kinfos' = [kinfos EXCEPT ![1] = info]
    BY <1>0, <1>15 DEF FreeFileBuffers, Shape, InfosOK
  <2> HIDE DEF info
  <2>3. Len(kinfos') = Len(kinfos) /\ \A i \in 2..Len(kinfos) : kinfos'[i] = kinfos[i]
    BY <1>0, <2>2 DEF InfosOK
  <2>4. KextInfos' /\ KextIndices' /\ ServedKexts'
    BY <1>0, <2>1, <2>3, KextFrame
  <2> QED
    BY <2>1, <2>4 DEF KextInv, LoadedKext, Loading
<1>16. CASE UserInit
  <2>1. pc = "users" /\ pc' \in {"up", "off"} /\ UNCHANGED <<host, loadIndex, handlers, served, running>>
        /\ \/ pc' = "up" /\ UNCHANGED kinfos
           \/ ~host.collection /\ pc' = "off" /\ kinfos' = <<>>
    BY <1>16 DEF UserInit, RollBack
  <2>2. served = {}
    BY <1>0, <2>1 DEF ServedKexts
  <2>3. CASE UNCHANGED kinfos /\ pc' = "up"
    BY <1>0, <2>1, <2>3, KextFrame DEF KextInv, LoadedKext, Loading
  <2>4. CASE kinfos' = <<>> /\ ~host.collection
    BY <1>0, <2>1, <2>2, <2>4, KextRollBack DEF Loading
  <2> QED
    BY <2>1, <2>3, <2>4
<1>17. ASSUME NEW k \in Kexts, LoadKext(k) PROVE KextInv'
  <2>1. pc = "ready" /\ UNCHANGED <<host, kinfos, loadIndex, served, running>>
        /\ \A i \in 1..Len(kinfos) : kinfos[i].id # k
    BY <1>17 DEF LoadKext
  <2>2. /\ handlers' = handlers \/ handlers' = handlers \cup {k}
        /\ \/ pc' = "ready"
           \/ /\ load' = NewInfo(k) /\ paths' = "kext" /\ pc' \in {"search", "pass", "fail"}
              /\ host.collection => pc' \in {"pass", "fail"}
              /\ ~host.collection => pc' \in {"search", "fail"}
    BY <1>17, MachImagesAssumption DEF LoadKext, BeginLoad
  <2>3. LoadedKext'
    BY <2>1, <2>2 DEF LoadedKext, NewInfo, KextGood, Loading, Unknown
  <2>4. KextInfos'
    BY <1>0, <2>1, <2>2 DEF KextInfos, KextGood
  <2>5. KextIndices'
    BY <1>0, <2>1, <2>2 DEF KextIndices
  <2>6. ServedKexts'
    BY <1>0, <2>1, <2>2 DEF ServedKexts, CallbackSound
  <2> QED
    BY <2>3, <2>4, <2>5, <2>6 DEF KextInv
<1>18. ASSUME NEW k \in Kexts, KextUnloads(k) PROVE KextInv'
  <2>1. pc = "up" /\ UNCHANGED <<pc, host, kinfos, loadIndex, handlers>>
        /\ running' = [running EXCEPT ![k] = NotRunning] /\ served' = served \ {k}
    BY <1>18 DEF KextUnloads
  <2>2. \A x \in served' : x \in served /\ running'[x] = running[x]
    BY <1>0, <2>1 DEF KextsOK
  <2>3. ServedKexts'
    BY <1>0, <2>1, <2>2 DEF ServedKexts, CallbackSound
  <2> QED
    BY <1>0, <2>1, <2>3 DEF KextInv, LoadedKext, KextInfos, KextGood, KextIndices, Loading
<1>19. ASSUME NEW k \in Kexts, NEW v \in Version, NEW p \in Place, KextLoads(k, v, p) PROVE KextInv'
  <2>0. /\ pc = "up" /\ UNCHANGED <<host, loadIndex>> /\ pc' \in {"up", "faulted"} /\ k \notin served
        /\ running' = [running EXCEPT ![k] = [version |-> v, place |-> p]]
        /\ \A x \in served : running'[x] = running[x]
    <3>1. k \notin served
      BY <1>0, <1>19 DEF KextLoads, ServedKexts
    <3> QED
      BY <1>0, <1>19, <3>1 DEF KextLoads, KextsOK
  <2>9. LoadedKext'
    BY <2>0 DEF LoadedKext, Loading
  <2>1. CASE UNCHANGED <<kinfos, handlers, served>>
    <3>1. ServedKexts'
      BY <1>0, <2>0, <2>1 DEF ServedKexts, CallbackSound
    <3> QED
      BY <1>0, <2>0, <2>1, <2>9, <3>1 DEF KextInv, KextInfos, KextGood, KextIndices
  <2>2. CASE k \in handlers /\ loadIndex[k] <= Len(kinfos) /\ IsCurrentKext(kinfos[loadIndex[k]], k, v)
             /\ ~UNCHANGED <<kinfos, handlers, served>>
    <3> DEFINE n == Len(kinfos)
               x == loadIndex[k]
               old == kinfos[x]
               force == k \in host.reloadable
    <3>1. x \in 2..n
      BY <1>0, <2>2 DEF Shape, KextsOK
    <3>2. old \in MachInfo
      BY <1>0, <3>1 DEF InfosOK
    <3>3. PICK info \in UpdateRunning(old, force, v, p) : kinfos' = [kinfos EXCEPT ![x] = info]
      BY <1>19, <2>2 DEF KextLoads
    <3>4. served' = served \cup {k} /\ handlers' = IF k \in host.reloadable THEN handlers ELSE handlers \ {k}
      BY <1>19, <2>2 DEF KextLoads
    <3>5. KextGood(old) /\ (old.slide # Unknown => old.id \in host.reloadable \/ old.id \notin handlers)
      BY <1>0, <3>1 DEF KextInfos
    <3>6. old.id = k /\ (~host.collection => old.uuid = v) /\ (host.collection => v = "now" /\ p = "prelinked")
      <4>1. x # 0
        BY <3>1
      <4> QED
        BY <1>0, <1>19, <2>2, <4>1 DEF IsCurrentKext, KextIndices, KextLoads
    <3>7. /\ KextGood(info) /\ info.id = k
          /\ info.slide # Unknown =>
              /\ info.header = v /\ info.sym_buf = v
              /\ info.slide = IF info.prelink_slid THEN "prelinked" ELSE p
      <4>1. k # Kernel
        BY MachImagesAssumption
      <4>2. old.slide # Unknown => force
        BY <2>2, <3>5, <3>6
      <4> HIDE DEF old, force
      <4> QED
        BY <3>2, <3>3, <3>5, <3>6, <4>1, <4>2, UpdateGood
    <3>8. Len(kinfos') = n /\ kinfos'[x] = info /\ \A i \in (1..n) \ {x} : kinfos'[i] = kinfos[i]
      BY <1>0, <3>1, <3>3 DEF InfosOK
    <3>9. \A i \in (1..n) \ {x} : kinfos[i].id # k
      BY <3>1, <3>6 DEF IdsOK
    <3>10. n \in Nat
      BY <1>0
    <3>11. k \in handlers => (k \in host.reloadable \/ k \notin handlers')
      BY <3>4
    <3> HIDE DEF x, old, force
    <3>12. KextInfos'
      <4> SUFFICES ASSUME NEW i \in 2..Len(kinfos')
                   PROVE  /\ KextGood(kinfos[i])'
                          /\ kinfos'[i].slide # Unknown =>
                               kinfos'[i].id \in host'.reloadable \/ kinfos'[i].id \notin handlers'
        BY DEF KextInfos
      <4>1. CASE i = x
        BY <2>0, <2>2, <3>7, <3>8, <3>11, <4>1 DEF KextGood
      <4>2. CASE i # x
        <5>1. i \in 2..n /\ kinfos'[i] = kinfos[i]
          BY <3>8, <3>10, <4>2
        <5>2. KextGood(kinfos[i]) /\ (kinfos[i].slide # Unknown =>
                                        kinfos[i].id \in host.reloadable \/ kinfos[i].id \notin handlers)
          BY <1>0, <5>1 DEF KextInfos
        <5> QED
          BY <2>0, <3>4, <5>1, <5>2 DEF KextGood
      <4> QED
        BY <4>1, <4>2
    <3>13. \A i \in 1..n : kinfos'[i].id = kinfos[i].id
      BY <3>6, <3>7, <3>8 DEF old
    <3>14. KextIndices'
      BY <1>0, <2>0, <3>8, <3>13 DEF KextIndices
    <3>15. running'[k] = [version |-> v, place |-> p]
      BY <1>0, <2>0 DEF KextsOK
    <3>16. ServedKexts'
      <4>1. ASSUME NEW y \in served'
            PROVE  LET z == kinfos'[loadIndex'[y]]
                   IN  /\ loadIndex'[y] \in 2..n /\ z.id = y /\ running'[y] # NotRunning
                       /\ z.slide # Unknown =>
                            /\ z.header = running'[y].version
                            /\ z.sym_buf = running'[y].version
                            /\ z.slide = IF z.prelink_slid THEN "prelinked" ELSE running'[y].place
        <5>1. CASE y = k
          <6>1. running'[k] # NotRunning
            BY <3>15 DEF NotRunning, Version, Unknown
          <6> QED
            BY <2>0, <3>1, <3>7, <3>8, <3>15, <5>1, <6>1 DEF x
        <5>2. CASE y # k
          <6>1. y \in served /\ loadIndex[y] \in 2..n /\ kinfos[loadIndex[y]].id = y
            BY <1>0, <3>4, <5>2 DEF ServedKexts, CallbackSound
          <6>2. loadIndex[y] # x
            BY <3>6, <5>2, <6>1 DEF old
          <6>3. kinfos'[loadIndex'[y]] = kinfos[loadIndex[y]]
            BY <2>0, <3>8, <3>10, <6>1, <6>2
          <6> QED
            BY <1>0, <2>0, <6>1, <6>3 DEF ServedKexts, CallbackSound
        <5> QED
          BY <5>1, <5>2
      <4> QED
        BY <2>0, <3>8, <4>1 DEF ServedKexts, CallbackSound
    <3> QED
      BY <2>9, <3>12, <3>14, <3>16 DEF KextInv
  <2> QED
    BY <1>19, <2>1, <2>2 DEF KextLoads
<1> QED
  BY <1>1, <1>2, <1>3, <1>4, <1>5, <1>6, <1>7, <1>8, <1>9, <1>10, <1>11, <1>12, <1>13, <1>14, <1>15, <1>16, <1>17, <1>18, <1>19 DEF Next

-----------------------------------------------------------------------------

\* All that is known of the images.
MachInv == TypesOK /\ Shape /\ SymInv /\ RetryInv /\ IdsOK /\ HeapInv /\ KextInv

\* The conjunction is inductive.
THEOREM MachInductive == Spec => []MachInv
<1>1. Init => MachInv
  BY InitTypes, InitShape, InitSym, InitRetry, InitIds, InitHeap, InitKexts DEF MachInv
<1>2. MachInv /\ [Next]_vars => MachInv'
  BY StepTypes, StepShape, StepSym, StepRetry, StepIds, StepHeap, StepKexts DEF MachInv
<1> QED
  BY <1>1, <1>2, PTL DEF Spec

\* Every variable keeps its type, whatever files, memory and the kernel do.
THEOREM MachTypes == Spec => []TypeOK
<1>1. MachInv => TypeOK
  BY Parts DEF MachInv
<1> QED
  BY <1>1, MachInductive, PTL

\* The symbols that plugins solve in the kernel are those of the running kernel at its
\* place, for any number of candidates and attempts, although isCurrentBinary is the
\* only check and a refused candidate leaves its buffer behind.
THEOREM KernelSymbolsGenuine == Spec => []SymbolsGenuine
<1>1. MachInv => SymbolsGenuine
  BY DEF MachInv, Shape, SymInv, KernelGood, SymbolsGenuine, KernelResolved, Clean, Good
<1> QED
  BY <1>1, MachInductive, PTL

\* A first attempt never follows a pointer to what is gone, and a later one only after
\* a prelinked kernel was used or kexts were loaded (FromPrelinked, KernelRunning,
\* KextLoads), however many attempts there are.
THEOREM FaultsAreRetries == Spec => []FaultsOnlyOnRetry
<1>1. MachInv => FaultsOnlyOnRetry
  BY DEF MachInv, RetryInv
<1> QED
  BY <1>1, MachInductive, PTL

\* Plugins are told of a kext with its own MachInfo, of the version that runs and with
\* the slide of the copy that runs, although the index in their KextInfo outlives an
\* attempt and kexts are unloaded and loaded again (processKextLoadCallbacks).
THEOREM CallbacksAreSound == Spec => []CallbackSound
<1>1. MachInv => CallbackSound
  BY DEF MachInv, KextInv, ServedKexts
<1> QED
  BY <1>1, MachInductive, PTL

\* During an attempt no buffer of MachInfo is lost and none is freed twice, whichever
\* read or allocation fails (MachInfo::init, deinit, freeFileBufferResources).
THEOREM BuffersAreOwned == Spec => []BuffersOwned
<1>1. MachInv => BuffersOwned
  BY DEF MachInv, HeapInv, HeapParts, Held, BuffersOwned
<1> QED
  BY <1>1, MachInductive, PTL

=============================================================================
