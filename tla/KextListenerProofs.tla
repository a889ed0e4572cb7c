------------------------- MODULE KextListenerProofs -------------------------
(***************************************************************************)
(* Proofs about KextListener for any requests of any plugins, any number   *)
(* of kexts and loads, and any combination of faults: the types, that      *)
(* khandlers has one user at a time although it has no lock, that the      *)
(* index of a handler stays that of its MachInfo, that a kext is handled   *)
(* once, and that from Big Sur on neither the kexts that were there before *)
(* activation nor those that come after it are missed.                     *)
(***************************************************************************)
EXTENDS KextListener, SequenceTheorems, TLAPS

USE RequestsAssumption, KextBoundsAssumption, KextFaultsAssumption

\* The hook looks at handlers only once activate is over, and stays there.
PhaseInv == (lpc = "scan" => activated = TRUE) /\ (activated = TRUE => pc = "done")

Named(x, id) == x \in DOMAIN kinfos /\ kinfos[x] = id

\* An object that was loaded has the index of a MachInfo of its kext, and the one
\* whose handler is about to be created was loaded.
LoadedInv ==
  bigSur = TRUE =>
    /\ \A i \in DOMAIN storedKexts :
         loadIndex[storedKexts[i].info] # 0 => Named(loadIndex[storedKexts[i].info], storedKexts[i].id)
    /\ pc \in {"listen", "setThat", "wait"} => loadIndex[Request.info] # 0

HandlersInv == bigSur = TRUE => \A i \in DOMAIN khandlers : Named(khandlers[i].index, khandlers[i].id)

KextInv ==
  /\ FlagsOK /\ ListsOK /\ KmodsOK
  /\ storedKexts \in RequestLists
  /\ PhaseInv /\ LoadedInv /\ HandlersInv

-----------------------------------------------------------------------------
(* What the operators do to the lists *)

\* The request the loop is at.
LEMMA RequestType ==
  ASSUME ListsOK, next <= Len(storedKexts)
  PROVE  Request \in Requests /\ Request.info \in Infos /\ next \in DOMAIN storedKexts
<1>1. next \in DOMAIN storedKexts
  BY LenProperties DEF ListsOK
<1> QED
  BY <1>1, ElementOfSeq DEF ListsOK, Request, Infos

\* evector::erase leaves the other elements, in their order.
LEMMA RemoveAtShifts ==
  ASSUME NEW S, NEW s \in Seq(S), NEW j \in DOMAIN s
  PROVE  /\ RemoveAt(s, j) \in Seq(S)
         /\ DOMAIN RemoveAt(s, j) = 1..(Len(s) - 1) /\ Len(s) \in Nat /\ j \in 1..Len(s)
         /\ \A i \in 1..(Len(s) - 1) :
              RemoveAt(s, j)[i] = IF i < j THEN s[i] ELSE s[i + 1]
<1> DEFINE a == SubSeq(s, 1, j - 1)
           b == SubSeq(s, j + 1, Len(s))
<1>1. j \in 1..Len(s) /\ Len(s) \in Nat
  BY LenProperties
<1>2. a \in Seq(S) /\ b \in Seq(S) /\ Len(a) = j - 1 /\ Len(b) = Len(s) - j
  BY <1>1, SubSeqProperties
<1>3. (\A k \in 1..(j - 1) : a[k] = s[k]) /\ (\A k \in 1..(Len(s) - j) : b[k] = s[j + k])
  BY <1>1, SubSeqProperties
<1> HIDE DEF a, b
<1>4. RemoveAt(s, j) = a \o b
  BY DEF RemoveAt, a, b
<1>5. a \o b \in Seq(S) /\ Len(a \o b) = Len(a) + Len(b)
  BY <1>2, ConcatProperties
<1>6. DOMAIN (a \o b) = 1..(Len(s) - 1)
  <2>1. Len(a) + Len(b) = Len(s) - 1
    BY <1>1, <1>2
  <2> QED
    BY <1>5, <2>1, LenProperties
<1>7. ASSUME NEW i \in 1..(Len(s) - 1) PROVE (a \o b)[i] = IF i < j THEN s[i] ELSE s[i + 1]
  <2>0. i \in 1..Len(a \o b)
    BY <1>1, <1>2, <1>5
  <2>1. (a \o b)[i] = IF i <= Len(a) THEN a[i] ELSE b[i - Len(a)]
    BY <1>2, <1>5, <2>0, ConcatProperties
  <2>2. CASE i < j
    BY <1>1, <1>2, <1>3, <2>1, <2>2
  <2>3. CASE ~(i < j)
    <3>1. i - (j - 1) \in 1..(Len(s) - j) /\ j + (i - (j - 1)) = i + 1
      BY <1>1, <2>3
    <3>2. ~(i <= Len(a)) /\ i - Len(a) = i - (j - 1)
      BY <1>1, <1>2, <2>3
    <3>3. b[i - (j - 1)] = s[i + 1]
      BY <1>3, <3>1
    <3> QED
      BY <2>1, <2>3, <3>2, <3>3
  <2> QED
    BY <2>2, <2>3
<1> QED
  BY <1>1, <1>4, <1>5, <1>6, <1>7

\* It leaves no others.
LEMMA RemoveAtKeeps ==
  ASSUME NEW S, NEW s \in Seq(S), NEW j \in DOMAIN s
  PROVE  /\ RemoveAt(s, j) \in Seq(S)
         /\ \A i \in DOMAIN RemoveAt(s, j) : \E k \in DOMAIN s : RemoveAt(s, j)[i] = s[k]
<1>1. DOMAIN s = 1..Len(s) /\ Len(s) \in Nat
  BY LenProperties
<1>2. \A i \in 1..(Len(s) - 1) : i \in DOMAIN s /\ i + 1 \in DOMAIN s
  BY <1>1
<1> QED
  BY <1>2, RemoveAtShifts

\* processKext changes no handler; it may erase one.
LEMMA ProcessKextKeeps ==
  ASSUME ListsOK, KmodsOK, NEW n \in DOMAIN kexts, NEW loaded, ProcessKext(n, loaded)
  PROVE  /\ khandlers' \in Seq(Handlers) /\ kexts' \in Seq(Kexts)
         /\ DOMAIN kexts' = DOMAIN kexts /\ panicked' \in BOOLEAN
         /\ \A i \in DOMAIN khandlers' : \E k \in DOMAIN khandlers : khandlers'[i] = khandlers[k]
<1>1. panicked' \in BOOLEAN
  BY DEF ProcessKext
<1>2. CASE UNCHANGED <<kexts, khandlers>>
  BY <1>1, <1>2 DEF ListsOK, KmodsOK
<1>3. ASSUME NEW i \in Candidates(n, loaded),
             kexts' = [kexts EXCEPT ![n].told = @ + 1],
             khandlers' = IF khandlers[i].reloadable THEN khandlers ELSE RemoveAt(khandlers, i)
      PROVE  /\ khandlers' \in Seq(Handlers) /\ kexts' \in Seq(Kexts)
             /\ DOMAIN kexts' = DOMAIN kexts
             /\ \A j \in DOMAIN khandlers' : \E k \in DOMAIN khandlers : khandlers'[j] = khandlers[k]
  <2>1. i \in DOMAIN khandlers /\ khandlers \in Seq(Handlers)
    BY <1>3 DEF Candidates, ListsOK
  <2>2. kexts \in Seq(Kexts) /\ kexts[n] \in Kexts
    BY ElementOfSeq DEF KmodsOK
  <2>3. [kexts[n] EXCEPT !.told = @ + 1] \in Kexts
    <3>1. kexts[n].told + 1 \in Nat
      BY <2>2 DEF Kexts
    <3> QED
      BY <2>2, <3>1 DEF Kexts
  <2>4. kexts' = [kexts EXCEPT ![n] = [kexts[n] EXCEPT !.told = @ + 1]]
    BY <1>3
  <2>5. kexts' \in Seq(Kexts) /\ DOMAIN kexts' = DOMAIN kexts
    BY <2>2, <2>3, <2>4, ExceptSeq
  <2>6. CASE khandlers' = khandlers
    BY <2>1, <2>5, <2>6
  <2>7. CASE khandlers' = RemoveAt(khandlers, i)
    BY <2>1, <2>5, <2>7, RemoveAtKeeps
  <2> QED
    BY <1>3, <2>6, <2>7
<1> QED
  BY <1>1, <1>2, <1>3 DEF ProcessKext

\* Widening the features of a handler leaves its kext and its index.
LEMMA UpdateKeeps ==
  ASSUME ListsOK, NEW r \in Requests, UpdateKextHandlerFeatures(r)
  PROVE  /\ khandlers' \in Seq(Handlers) /\ DOMAIN khandlers' = DOMAIN khandlers
         /\ \A i \in DOMAIN khandlers :
              khandlers'[i].index = khandlers[i].index /\ khandlers'[i].id = khandlers[i].id
<1> DEFINE wide(h) == [h EXCEPT !.loaded = @ \/ r.loaded, !.reloadable = @ \/ r.reloadable]
<1>1. ASSUME NEW h \in Handlers
      PROVE  wide(h) \in Handlers /\ wide(h).index = h.index /\ wide(h).id = h.id
  <2>1. r.loaded \in BOOLEAN /\ r.reloadable \in BOOLEAN
    BY DEF Requests
  <2> QED
    BY <2>1 DEF Handlers
<1>2. khandlers \in Seq(Handlers) /\ DOMAIN khandlers = 1..Len(khandlers) /\ Len(khandlers) \in Nat
  BY LenProperties DEF ListsOK
<1>3. \A i \in DOMAIN khandlers : khandlers[i] \in Handlers
  BY <1>2, ElementOfSeq
<1>4. /\ DOMAIN khandlers' = DOMAIN khandlers
      /\ \A i \in DOMAIN khandlers : khandlers'[i] \in {khandlers[i], wide(khandlers[i])}
  BY DEF UpdateKextHandlerFeatures
<1> HIDE DEF wide
<1>5. khandlers' \in [1..Len(khandlers) -> Handlers]
  <2>1. khandlers' = [i \in DOMAIN khandlers |-> khandlers'[i]]
    BY DEF UpdateKextHandlerFeatures
  <2> QED
    BY <1>1, <1>2, <1>3, <1>4, <2>1
<1>6. khandlers' \in Seq(Handlers)
  BY <1>2, <1>5, SeqDef
<1> QED
  BY <1>1, <1>3, <1>4, <1>6

-----------------------------------------------------------------------------
(* Initially nothing is queued. *)
LEMMA InitKext == Init => KextInv
<1> SUFFICES ASSUME Init PROVE KextInv
  OBVIOUS
<1>1. storedKexts \in Seq(Requests) /\ Len(storedKexts) \in Nat
  BY LenProperties DEF Init
<1>2. FlagsOK
  BY DEF Init, FlagsOK, InitPhases, LoaderPhases, Hooks
<1>3. ListsOK
  <2>1. kinfos \in Seq(Ids) /\ khandlers \in Seq(Handlers)
    BY EmptySeq DEF Init
  <2>2. loadIndex \in [Infos -> Nat]
    BY DEF Init
  <2> QED
    BY <1>1, <2>1, <2>2 DEF Init, ListsOK
<1>4. KmodsOK
  <2>1. kexts \in Seq(Kexts)
    BY EmptySeq DEF Init
  <2> QED
    BY <2>1 DEF Init, KmodsOK
<1>5. LoadedInv
  <2>1. \A i \in DOMAIN storedKexts : loadIndex[storedKexts[i].info] = 0
    BY DEF Init, Infos
  <2> QED
    BY <2>1 DEF Init, LoadedInv
<1>6. HandlersInv
  BY DEF Init, HandlersInv
<1> QED
  BY <1>2, <1>3, <1>4, <1>5, <1>6 DEF KextInv, PhaseInv, Init

-----------------------------------------------------------------------------
(* The steps keep the invariant *)

\* The initialising thread.
LEMMA StepInit == KextInv /\ InitThread => KextInv'
<1> SUFFICES ASSUME KextInv, InitThread PROVE KextInv'
  OBVIOUS
<1> USE DEF KextInv, QueueUnchanged, KernelUnchanged, queueVars, initVars, listenVars, kernelVars
<1>1. CASE SkipRequest
  <2> USE <1>1 DEF SkipRequest, Queueing
  <2>a. Request \in Requests /\ Request.info \in Infos /\ next \in DOMAIN storedKexts
    BY RequestType
  <2>0. FlagsOK' /\ ListsOK' /\ KmodsOK' /\ PhaseInv' /\ LoadedInv' /\ HandlersInv' /\ storedKexts' \in RequestLists
    BY DEF FlagsOK, InitPhases, LoaderPhases, ListsOK, Infos, KmodsOK, PhaseInv, LoadedInv, Named, Request, HandlersInv
  <2> QED
    BY <2>0
<1>2. CASE LoadKinfo
  <2> USE <1>2 DEF LoadKinfo, Queueing
  <2>a. Request \in Requests /\ Request.info \in Infos /\ next \in DOMAIN storedKexts
    BY RequestType
  <2>b. kinfos \in Seq(Ids) /\ Len(kinfos) \in Nat /\ DOMAIN kinfos = 1..Len(kinfos)
    BY LenProperties DEF ListsOK
  <2>c. Request.id \in Ids
    BY <2>a DEF Requests
  <2> DEFINE k == Append(kinfos, Request.id)
  <2>d. k \in Seq(Ids) /\ Len(k) = Len(kinfos) + 1 /\ k[Len(kinfos) + 1] = Request.id
        /\ \A i \in 1..Len(kinfos) : k[i] = kinfos[i]
    BY <2>b, <2>c, AppendProperties
  <2>e. DOMAIN k = 1..(Len(kinfos) + 1)
    BY <2>d, LenProperties
  <2> HIDE DEF k
  <2>f. \/ UNCHANGED <<loadIndex, kinfos>> /\ loadIndex[Request.info] # 0
        \/ /\ kinfos' = k
           /\ loadIndex' = [loadIndex EXCEPT ![Request.info] = Len(kinfos) + 1]
    BY DEF k
  <2>g. UNCHANGED storedKexts
    OBVIOUS
  <2>0. FlagsOK' /\ KmodsOK' /\ PhaseInv' /\ storedKexts' \in RequestLists
    BY DEF FlagsOK, InitPhases, LoaderPhases, KmodsOK, PhaseInv
  <2>2. ListsOK'
    <3>1. loadIndex' \in [Infos -> Nat] /\ kinfos' \in Seq(Ids)
      BY <2>a, <2>b, <2>d, <2>f DEF ListsOK
    <3>2. next' = next /\ next <= Len(storedKexts) /\ Infos' = Infos
      BY DEF Infos
    <3> QED
      BY <2>g, <3>1, <3>2 DEF ListsOK
  <2>5. LoadedInv'
    <3> SUFFICES ASSUME bigSur = TRUE PROVE LoadedInv'
      BY DEF LoadedInv
    <3>1. pc' = "listen" => loadIndex'[Request.info] # 0
      BY <2>a, <2>b, <2>f DEF ListsOK
    <3>2. ASSUME NEW i \in DOMAIN storedKexts, loadIndex'[storedKexts[i].info] # 0
          PROVE  Named(loadIndex[storedKexts[i].info], storedKexts[i].id)'
      <4>1. storedKexts[i].info \in Infos
        BY DEF Infos
      <4>2. CASE UNCHANGED <<loadIndex, kinfos>>
        BY <3>2, <4>2, <2>g DEF LoadedInv, Named
      <4>3. CASE kinfos' = k /\ loadIndex' = [loadIndex EXCEPT ![Request.info] = Len(kinfos) + 1]
        <5>1. CASE storedKexts[i].info = Request.info
          <6>1. storedKexts[i].id = Request.id
            BY <2>a, <5>1, InfosAssumption DEF Request
          <6>2. loadIndex'[storedKexts[i].info] = Len(kinfos) + 1
            BY <2>a, <4>3, <5>1 DEF ListsOK
          <6> QED
            BY <2>b, <2>d, <2>e, <2>g, <4>3, <6>1, <6>2 DEF Named
        <5>2. CASE storedKexts[i].info # Request.info
          <6>1. loadIndex'[storedKexts[i].info] = loadIndex[storedKexts[i].info]
            BY <4>1, <4>3, <5>2 DEF ListsOK
          <6>2. Named(loadIndex[storedKexts[i].info], storedKexts[i].id)
            BY <3>2, <6>1 DEF LoadedInv
          <6> QED
            BY <2>b, <2>d, <2>e, <2>g, <4>3, <6>1, <6>2 DEF Named
        <5> QED
          BY <5>1, <5>2
      <4> QED
        BY <2>f, <4>2, <4>3
    <3> QED
      BY <2>g, <3>1, <3>2 DEF LoadedInv, Request
  <2>6. HandlersInv'
    <3>1. ASSUME NEW x, NEW id, Named(x, id) PROVE Named(x, id)'
      BY <2>b, <2>d, <2>e, <2>f, <3>1 DEF Named
    <3> QED
      BY <3>1 DEF HandlersInv
  <2> QED
    BY <2>0, <2>2, <2>5, <2>6
<1>3. CASE AlreadyDone
  <2> USE <1>3 DEF AlreadyDone, Queueing
  <2>a. Request \in Requests /\ Request.info \in Infos /\ next \in DOMAIN storedKexts
    BY RequestType
  <2>b. /\ khandlers' \in Seq(Handlers) /\ DOMAIN khandlers' = DOMAIN khandlers
        /\ \A i \in DOMAIN khandlers :
             khandlers'[i].index = khandlers[i].index /\ khandlers'[i].id = khandlers[i].id
    BY <2>a, UpdateKeeps
  <2>c. kinfos \in Seq(Ids) /\ Len(kinfos) \in Nat /\ DOMAIN kinfos = 1..Len(kinfos)
    BY LenProperties DEF ListsOK
  <2>d. PICK e \in DOMAIN kinfos : /\ kinfos[e] = Request.id
                                  /\ loadIndex' = [loadIndex EXCEPT ![Request.info] = e]
    OBVIOUS
  <2>e. UNCHANGED <<storedKexts, kinfos>>
    OBVIOUS
  <2>0. FlagsOK' /\ KmodsOK' /\ PhaseInv' /\ storedKexts' \in RequestLists
    BY DEF FlagsOK, InitPhases, LoaderPhases, KmodsOK, PhaseInv
  <2>2. ListsOK'
    <3>1. loadIndex' \in [Infos -> Nat]
      BY <2>a, <2>c, <2>d DEF ListsOK
    <3>2. next' = next + 1 /\ next <= Len(storedKexts) /\ Len(storedKexts) \in Nat /\ Infos' = Infos
      BY LenProperties DEF Infos, ListsOK
    <3>3. pc' = "queue" /\ attempts' = attempts
      OBVIOUS
    <3>4. next' \in 1..(Len(storedKexts) + 1)
      BY <3>2 DEF ListsOK
    <3> QED
      BY <2>b, <2>e, <3>1, <3>2, <3>3, <3>4 DEF ListsOK
  <2>5. LoadedInv'
    <3>1. ASSUME bigSur = TRUE, NEW i \in DOMAIN storedKexts, loadIndex'[storedKexts[i].info] # 0
          PROVE  Named(loadIndex'[storedKexts[i].info], storedKexts[i].id)
      <4>1. storedKexts[i].info \in Infos
        BY DEF Infos
      <4>2. CASE storedKexts[i].info = Request.info
        <5>1. storedKexts[i].id = Request.id
          BY <2>a, <4>2, InfosAssumption DEF Request
        <5> QED
          BY <2>a, <2>d, <4>2, <5>1 DEF Named, ListsOK
      <4>3. CASE storedKexts[i].info # Request.info
        <5>1. loadIndex'[storedKexts[i].info] = loadIndex[storedKexts[i].info]
          BY <2>d, <4>1, <4>3 DEF ListsOK
        <5> QED
          BY <3>1, <5>1 DEF LoadedInv
      <4> QED
        BY <4>2, <4>3
    <3>2. pc' = "queue" /\ bigSur' = bigSur
      OBVIOUS
    <3> QED
      BY <2>e, <3>1, <3>2 DEF LoadedInv, Named
  <2>6. HandlersInv'
    BY <2>b DEF HandlersInv, Named
  <2> QED
    BY <2>0, <2>2, <2>5, <2>6
<1>4. CASE SetupKextListening
  <2> USE <1>4 DEF SetupKextListening
  <2>0. ListsOK' /\ KmodsOK' /\ PhaseInv' /\ LoadedInv' /\ HandlersInv' /\ storedKexts' \in RequestLists
    BY DEF ListsOK, Infos, KmodsOK, PhaseInv, LoadedInv, Named, Request, HandlersInv
  <2>1. FlagsOK'
    <3>1. routed' \subseteq Hooks
      BY DEF FlagsOK, Hooks
    <3>2. pc' \in {"wait", "setThat", "user"}
      OBVIOUS
    <3> QED
      BY <3>1, <3>2 DEF FlagsOK, InitPhases, LoaderPhases
  <2> QED
    BY <2>0, <2>1
<1>5. CASE SetThat
  <2> USE <1>5 DEF SetThat
  <2>0. FlagsOK' /\ ListsOK' /\ KmodsOK' /\ PhaseInv' /\ LoadedInv' /\ HandlersInv' /\ storedKexts' \in RequestLists
    BY DEF FlagsOK, InitPhases, LoaderPhases, ListsOK, Infos, KmodsOK, PhaseInv, LoadedInv, Named, Request, HandlersInv
  <2> QED
    BY <2>0
<1>6. CASE WaitOnKext
  <2> USE <1>6 DEF WaitOnKext
  <2>a. Request \in Requests /\ Request.info \in Infos /\ next \in DOMAIN storedKexts
    BY RequestType DEF ListsOK
  <2> DEFINE h == [id |-> Request.id, index |-> loadIndex[Request.info],
                   loaded |-> Request.loaded, reloadable |-> Request.reloadable]
  <2>b. h \in Handlers /\ khandlers \in Seq(Handlers)
    BY <2>a DEF Requests, Handlers, ListsOK
  <2>c. khandlers' = Append(khandlers, h)
    OBVIOUS
  <2>d. h.index = loadIndex[Request.info] /\ h.id = Request.id
    OBVIOUS
  <2> HIDE DEF h
  <2>e. /\ khandlers' \in Seq(Handlers) /\ Len(khandlers) \in Nat
        /\ DOMAIN khandlers = 1..Len(khandlers) /\ DOMAIN khandlers' = 1..(Len(khandlers) + 1)
        /\ khandlers'[Len(khandlers) + 1] = h
        /\ \A i \in 1..Len(khandlers) : khandlers'[i] = khandlers[i]
    BY <2>b, <2>c, AppendProperties, LenProperties
  <2>0. FlagsOK' /\ KmodsOK' /\ PhaseInv' /\ LoadedInv' /\ storedKexts' \in RequestLists
    BY DEF FlagsOK, InitPhases, LoaderPhases, KmodsOK, PhaseInv, LoadedInv, Named, Request
  <2>2. ListsOK'
    <3>1. next' = next + 1 /\ next <= Len(storedKexts) /\ Len(storedKexts) \in Nat
      BY LenProperties DEF ListsOK
    <3>2. next' \in 1..(Len(storedKexts) + 1)
      BY <3>1 DEF ListsOK
    <3>3. pc' = "queue" /\ UNCHANGED <<attempts, loadIndex, kinfos, storedKexts>>
      OBVIOUS
    <3> QED
      BY <2>e, <3>2, <3>3 DEF ListsOK, Infos
  <2>6. HandlersInv'
    <3> SUFFICES ASSUME bigSur = TRUE, NEW i \in DOMAIN khandlers'
                 PROVE  Named(khandlers'[i].index, khandlers'[i].id)
      BY DEF HandlersInv, Named
    <3>1. CASE i = Len(khandlers) + 1
      <4>1. Named(loadIndex[Request.info], Request.id)
        BY <2>a DEF LoadedInv, Request
      <4> QED
        BY <2>d, <2>e, <3>1, <4>1
    <3>2. CASE i # Len(khandlers) + 1
      <4>1. i \in 1..Len(khandlers)
        BY <2>e, <3>2
      <4> QED
        BY <2>e, <4>1 DEF HandlersInv
    <3> QED
      BY <3>1, <3>2
  <2> QED
    BY <2>0, <2>2, <2>6
<1>7. CASE WaitOnKextFails
  <2> USE <1>7 DEF WaitOnKextFails
  <2>a. Request \in Requests /\ Request.info \in Infos /\ next \in DOMAIN storedKexts
    BY RequestType DEF ListsOK
  <2>0. ListsOK' /\ KmodsOK' /\ PhaseInv' /\ LoadedInv' /\ HandlersInv' /\ storedKexts' \in RequestLists
    BY DEF ListsOK, Infos, KmodsOK, PhaseInv, LoadedInv, Named, Request, HandlersInv
  <2>1. FlagsOK'
    BY DEF FlagsOK, InitPhases, LoaderPhases
  <2> QED
    BY <2>0, <2>1
<1>8. CASE QueueDone
  <2> USE <1>8 DEF QueueDone
  <2>0. FlagsOK' /\ ListsOK' /\ KmodsOK' /\ PhaseInv' /\ LoadedInv' /\ HandlersInv' /\ storedKexts' \in RequestLists
    BY DEF FlagsOK, InitPhases, LoaderPhases, ListsOK, Infos, KmodsOK, PhaseInv, LoadedInv, Named, Request, HandlersInv
  <2> QED
    BY <2>0
<1>9. CASE UserInitFails
  <2> USE <1>9 DEF UserInitFails
  <2>0. FlagsOK' /\ ListsOK' /\ KmodsOK' /\ PhaseInv' /\ LoadedInv' /\ HandlersInv' /\ storedKexts' \in RequestLists
    BY DEF FlagsOK, InitPhases, LoaderPhases, ListsOK, Infos, KmodsOK, PhaseInv, LoadedInv, Named, Request, HandlersInv
  <2> QED
    BY <2>0
<1>10. CASE StartScan
  <2> USE <1>10 DEF StartScan
  <2>0. FlagsOK' /\ ListsOK' /\ KmodsOK' /\ PhaseInv' /\ LoadedInv' /\ HandlersInv' /\ storedKexts' \in RequestLists
    BY SMTT(60) DEF FlagsOK, InitPhases, LoaderPhases, ListsOK, Infos, KmodsOK, PhaseInv, LoadedInv, Named, Request, HandlersInv
  <2> QED
    BY <2>0
<1>11. CASE Scan
  <2> USE <1>11 DEF Scan
  <2>a. cursor \in DOMAIN kexts
    BY DEF KmodsOK
  <2>b. /\ khandlers' \in Seq(Handlers) /\ kexts' \in Seq(Kexts)
         /\ DOMAIN kexts' = DOMAIN kexts /\ panicked' \in BOOLEAN
         /\ \A i \in DOMAIN khandlers' : \E k \in DOMAIN khandlers : khandlers'[i] = khandlers[k]
    BY <2>a, ProcessKextKeeps
  <2>0. PhaseInv' /\ LoadedInv' /\ storedKexts' \in RequestLists
    BY DEF PhaseInv, LoadedInv, Named, Request
  <2>1. FlagsOK'
    BY <2>b DEF FlagsOK, InitPhases, LoaderPhases
  <2>2. ListsOK'
    BY <2>b DEF ListsOK, Infos
  <2>3. KmodsOK'
    BY <2>b DEF KmodsOK
  <2>6. HandlersInv'
    BY <2>b DEF HandlersInv, Named
  <2> QED
    BY <2>0, <2>1, <2>2, <2>3, <2>6
<1>12. CASE ScanFaults
  <2> USE <1>12 DEF ScanFaults
  <2>0. FlagsOK' /\ ListsOK' /\ KmodsOK' /\ PhaseInv' /\ LoadedInv' /\ HandlersInv' /\ storedKexts' \in RequestLists
    BY DEF FlagsOK, InitPhases, LoaderPhases, ListsOK, Infos, KmodsOK, PhaseInv, LoadedInv, Named, Request, HandlersInv
  <2> QED
    BY <2>0
<1>13. CASE ScanDone
  <2> USE <1>13 DEF ScanDone
  <2>0. ListsOK' /\ KmodsOK' /\ PhaseInv' /\ LoadedInv' /\ HandlersInv' /\ storedKexts' \in RequestLists
    BY DEF ListsOK, Infos, KmodsOK, PhaseInv, LoadedInv, Named, Request, HandlersInv
  <2>1. FlagsOK'
    BY DEF FlagsOK, InitPhases, LoaderPhases
  <2> QED
    BY <2>0, <2>1
<1>14. CASE SetActivated
  <2> USE <1>14 DEF SetActivated
  <2>0. FlagsOK' /\ ListsOK' /\ KmodsOK' /\ PhaseInv' /\ LoadedInv' /\ HandlersInv' /\ storedKexts' \in RequestLists
    BY DEF FlagsOK, InitPhases, LoaderPhases, ListsOK, Infos, KmodsOK, PhaseInv, LoadedInv, Named, Request, HandlersInv
  <2> QED
    BY <2>0
<1> QED
  BY <1>1, <1>2, <1>3, <1>4, <1>5, <1>6, <1>7, <1>8, <1>9, <1>10, <1>11, <1>12, <1>13, <1>14 DEF InitThread

\* The thread that loads and unloads kexts.
LEMMA StepLoader == KextInv /\ Loader => KextInv'
<1> SUFFICES ASSUME KextInv, Loader PROVE KextInv'
  OBVIOUS
<1> USE DEF KextInv, QueueUnchanged, KernelUnchanged, queueVars, initVars, listenVars, kernelVars
<1>1. ASSUME NEW id \in Ids, NEW genuine \in BOOLEAN, LoadKext(id, genuine) PROVE KextInv'
  <2> USE <1>1 DEF LoadKext
  <2> DEFINE new == [id |-> id, genuine |-> genuine, when |-> When, told |-> 0]
  <2>a. new \in Kexts
    BY DEF Kexts, When
  <2>b. kexts' = Append(kexts, new)
    OBVIOUS
  <2> HIDE DEF new
  <2>c. /\ kexts' \in Seq(Kexts) /\ Len(kexts) \in Nat
        /\ DOMAIN kexts = 1..Len(kexts) /\ DOMAIN kexts' = 1..(Len(kexts) + 1)
    BY <2>a, <2>b, AppendProperties, LenProperties DEF KmodsOK
  <2>0. FlagsOK' /\ ListsOK' /\ PhaseInv' /\ LoadedInv' /\ HandlersInv' /\ storedKexts' \in RequestLists
    BY DEF FlagsOK, InitPhases, LoaderPhases, ListsOK, Infos, PhaseInv, LoadedInv, Named, Request, HandlersInv
  <2>3. KmodsOK'
    <3>1. DOMAIN kexts \subseteq DOMAIN kexts' /\ Len(kexts) + 1 \in DOMAIN kexts'
      BY <2>c
    <3>2. live' = live \cup {Len(kexts) + 1} /\ UNCHANGED <<cursor, lcursor>>
      OBVIOUS
    <3> QED
      BY <2>c, <3>1, <3>2 DEF KmodsOK
  <2> QED
    BY <2>0, <2>3
<1>2. ASSUME NEW n \in live, OnOSKextUnload(n) PROVE KextInv'
  <2> USE <1>2 DEF OnOSKextUnload
  <2>0. FlagsOK' /\ ListsOK' /\ KmodsOK' /\ PhaseInv' /\ LoadedInv' /\ HandlersInv' /\ storedKexts' \in RequestLists
    BY DEF FlagsOK, InitPhases, LoaderPhases, ListsOK, Infos, KmodsOK, PhaseInv, LoadedInv, Named, Request, HandlersInv
  <2> QED
    BY <2>0
<1>3. CASE Ignored
  <2> USE <1>3 DEF Ignored
  <2>0. ListsOK' /\ KmodsOK' /\ PhaseInv' /\ LoadedInv' /\ HandlersInv' /\ storedKexts' \in RequestLists
    BY DEF ListsOK, Infos, KmodsOK, PhaseInv, LoadedInv, Named, Request, HandlersInv
  <2>1. FlagsOK'
    BY DEF FlagsOK, InitPhases, LoaderPhases
  <2> QED
    BY <2>0, <2>1
<1>4. CASE NewKext
  <2> USE <1>4 DEF NewKext
  <2>b. /\ khandlers' \in Seq(Handlers) /\ kexts' \in Seq(Kexts)
         /\ DOMAIN kexts' = DOMAIN kexts /\ panicked' \in BOOLEAN
         /\ \A i \in DOMAIN khandlers' : \E k \in DOMAIN khandlers : khandlers'[i] = khandlers[k]
    <3>1. CASE live = {} /\ UNCHANGED <<khandlers, kexts, panicked>>
      BY <3>1 DEF FlagsOK, ListsOK, KmodsOK
    <3>2. ASSUME NEW n \in live, ProcessKext(n, FALSE)
          PROVE  /\ khandlers' \in Seq(Handlers) /\ kexts' \in Seq(Kexts)
                 /\ DOMAIN kexts' = DOMAIN kexts /\ panicked' \in BOOLEAN
                 /\ \A i \in DOMAIN khandlers' : \E k \in DOMAIN khandlers : khandlers'[i] = khandlers[k]
      <4>1. n \in DOMAIN kexts
        BY DEF KmodsOK
      <4> QED
        BY <3>2, <4>1, ProcessKextKeeps
    <3> QED
      BY <3>1, <3>2
  <2>0. PhaseInv' /\ LoadedInv' /\ storedKexts' \in RequestLists
    BY DEF PhaseInv, LoadedInv, Named, Request
  <2>1. FlagsOK'
    BY <2>b DEF FlagsOK, InitPhases, LoaderPhases
  <2>2. ListsOK'
    BY <2>b DEF ListsOK, Infos
  <2>3. KmodsOK'
    BY <2>b DEF KmodsOK
  <2>6. HandlersInv'
    BY <2>b DEF HandlersInv, Named
  <2> QED
    BY <2>0, <2>1, <2>2, <2>3, <2>6
<1>5. CASE StartLateScan
  <2> USE <1>5 DEF StartLateScan
  <2>0. FlagsOK' /\ ListsOK' /\ KmodsOK' /\ LoadedInv' /\ HandlersInv' /\ storedKexts' \in RequestLists
    BY DEF FlagsOK, InitPhases, LoaderPhases, ListsOK, Infos, KmodsOK, LoadedInv, Named, Request, HandlersInv
  <2>4. PhaseInv'
    BY DEF PhaseInv, FlagsOK, PassPanicList
  <2> QED
    BY <2>0, <2>4
<1>6. CASE LateScan
  <2> USE <1>6 DEF LateScan
  <2>a. lcursor \in DOMAIN kexts
    BY DEF KmodsOK
  <2>b. /\ khandlers' \in Seq(Handlers) /\ kexts' \in Seq(Kexts)
         /\ DOMAIN kexts' = DOMAIN kexts /\ panicked' \in BOOLEAN
         /\ \A i \in DOMAIN khandlers' : \E k \in DOMAIN khandlers : khandlers'[i] = khandlers[k]
    BY <2>a, ProcessKextKeeps
  <2>0. PhaseInv' /\ LoadedInv' /\ storedKexts' \in RequestLists
    BY DEF PhaseInv, LoadedInv, Named, Request
  <2>1. FlagsOK'
    BY <2>b DEF FlagsOK, InitPhases, LoaderPhases
  <2>2. ListsOK'
    BY <2>b DEF ListsOK, Infos
  <2>3. KmodsOK'
    BY <2>b DEF KmodsOK
  <2>6. HandlersInv'
    BY <2>b DEF HandlersInv, Named
  <2> QED
    BY <2>0, <2>1, <2>2, <2>3, <2>6
<1>7. CASE LateScanDone
  <2> USE <1>7 DEF LateScanDone
  <2>0. ListsOK' /\ KmodsOK' /\ PhaseInv' /\ LoadedInv' /\ HandlersInv' /\ storedKexts' \in RequestLists
    BY DEF ListsOK, Infos, KmodsOK, PhaseInv, LoadedInv, Named, Request, HandlersInv
  <2>1. FlagsOK'
    BY DEF FlagsOK, InitPhases, LoaderPhases
  <2> QED
    BY <2>0, <2>1
<1> QED
  BY <1>1, <1>2, <1>3, <1>4, <1>5, <1>6, <1>7 DEF Loader

\* Every reachable state satisfies the invariant.
THEOREM KextInductive == Spec => []KextInv
<1>1. KextInv /\ [Next]_vars => KextInv'
  <2>1. KextInv /\ UNCHANGED vars => KextInv'
    BY DEF vars, KextInv, queueVars, initVars, listenVars, kernelVars, FlagsOK, ListsOK, Infos, KmodsOK,
       PhaseInv, LoadedInv, HandlersInv, Named, Request
  <2> QED
    BY <2>1, StepInit, StepLoader DEF Next
<1> QED
  BY <1>1, InitKext, PTL DEF Spec

\* Types: in particular the walks over the kmod list stay within the kmods there
\* ever were, and the queue within the requests.
THEOREM KextTypes == Spec => []TypeOK
<1>1. KextInv => TypeOK
  BY DEF KextInv, TypeOK
<1> QED
  BY <1>1, KextInductive, PTL

\* khandlers has no lock, and needs none: whatever the plugins request, and whenever
\* kexts are loaded, activate is over before the hook looks at the handlers.
THEOREM HandlersAreExclusive == Spec => []HandlersExclusive
<1>1. KextInv => HandlersExclusive
  BY DEF KextInv, PhaseInv, FlagsOK, HandlersExclusive
<1> QED
  BY <1>1, KextInductive, PTL

\* From Big Sur on a handler's index stays that of the MachInfo of its kext, however
\* many requests share a KextInfo object or a kext, and although handlers are erased.
THEOREM HandlersAreIndexed == Spec => []BigSurHandlersIndexed
<1>1. KextInv => BigSurHandlersIndexed
  BY DEF KextInv, HandlersInv, Named, FlagsOK, BigSurHandlersIndexed, HandlersIndexed
<1> QED
  BY <1>1, KextInductive, PTL

-----------------------------------------------------------------------------
(* Kexts loaded after activation *)

UnloadInv == isKextUnloading = TRUE => lpc = "unloading"

\* The kext being loaded is the head of the kmod list.
HeadInv == lpc = "loading" => Len(kexts) \in live

LateInv == \A n \in DOMAIN kexts : kexts[n].when = "late" => activated = TRUE

\* From Big Sur on nothing undoes the route of the load hook, also if that of the unload
\* hook failed, and activate leaves no walk for later.
HooksInv ==
  bigSur = TRUE =>
    /\ that = TRUE \/ pc = "setThat" => "save" \in routed
    /\ pc = "wait" \/ DOMAIN khandlers # {} => that = TRUE
    /\ pc \in {"activate", "done"} => waiting = FALSE

Unserved(n) == kexts[n].when = "late" /\ Watched(n) /\ kexts[n].told = 0

\* Only the kext whose load is not over may be waited for.
ServedInv ==
  bigSur = TRUE => \A n \in live : Unserved(n) => lpc = "loading" /\ n = Len(kexts)

ServeInv == UnloadInv /\ HeadInv /\ LateInv /\ HooksInv /\ ServedInv

\* processKext counts for the kext it is called with and changes nothing else.
LEMMA ProcessKextTells ==
  ASSUME ListsOK, KmodsOK, NEW n \in DOMAIN kexts, NEW loaded, ProcessKext(n, loaded)
  PROVE  /\ Len(kexts') = Len(kexts)
         /\ \A m \in DOMAIN kexts :
              /\ kexts'[m].id = kexts[m].id /\ kexts'[m].genuine = kexts[m].genuine
              /\ kexts'[m].when = kexts[m].when
              /\ kexts'[m].told = 0 => kexts[m].told = 0
         /\ kexts[n].genuine = TRUE /\ Candidates(n, loaded) # {} => kexts'[n].told # 0
<1>1. kexts \in Seq(Kexts) /\ DOMAIN kexts = 1..Len(kexts)
  BY LenProperties DEF KmodsOK
<1>2. \A m \in DOMAIN kexts : kexts[m] \in Kexts
  BY <1>1, ElementOfSeq
<1>3. CASE kexts' = [kexts EXCEPT ![n].told = @ + 1]
  <2>1. kexts[n].told \in Nat
    BY <1>2 DEF Kexts
  <2> DEFINE new == [kexts[n] EXCEPT !.told = @ + 1]
  <2>2. /\ new.id = kexts[n].id /\ new.genuine = kexts[n].genuine /\ new.when = kexts[n].when
        /\ new.told # 0 /\ new \in Kexts
    <3>1. kexts[n].told + 1 \in Nat /\ kexts[n].told + 1 # 0
      BY <2>1
    <3> QED
      BY <1>2, <3>1 DEF Kexts
  <2>3. kexts' = [kexts EXCEPT ![n] = new]
    BY <1>3
  <2> HIDE DEF new
  <2>4. Len(kexts') = Len(kexts)
    BY <1>1, <2>2, <2>3, ExceptSeq
  <2>5. kexts'[n] = new /\ \A m \in DOMAIN kexts : m # n => kexts'[m] = kexts[m]
    BY <2>3
  <2> QED
    BY <2>2, <2>4, <2>5
<1>4. CASE ~(kexts[n].genuine /\ Candidates(n, loaded) # {}) /\ UNCHANGED <<kexts, khandlers>>
  BY <1>4
<1> QED
  BY <1>3, <1>4 DEF ProcessKext

LEMMA InitServe == Init => ServeInv
  BY DEF Init, ServeInv, UnloadInv, HeadInv, LateInv, HooksInv, ServedInv

\* The initialising thread: no kext is late yet.
LEMMA ServeInit == KextInv /\ ServeInv /\ InitThread => ServeInv'
<1> SUFFICES ASSUME KextInv, ServeInv, InitThread PROVE ServeInv'
  OBVIOUS
<1> USE DEF KextInv, ServeInv, QueueUnchanged, queueVars, initVars, listenVars, kernelVars
<1>1. pc # "done" /\ activated = FALSE
  BY DEF InitThread, SkipRequest, LoadKinfo, AlreadyDone, Queueing, SetupKextListening, SetThat, WaitOnKext,
     WaitOnKextFails, QueueDone, UserInitFails, StartScan, Scan, ScanFaults, ScanDone, SetActivated,
     PhaseInv, FlagsOK
<1>2. UNCHANGED <<bigSur, live, lpc, isKextUnloading>>
  BY DEF InitThread, SkipRequest, LoadKinfo, AlreadyDone, SetupKextListening, SetThat, WaitOnKext,
     WaitOnKextFails, QueueDone, UserInitFails, StartScan, Scan, ScanFaults, ScanDone, SetActivated
<1>3. /\ Len(kexts') = Len(kexts) /\ DOMAIN kexts' = DOMAIN kexts
      /\ \A m \in DOMAIN kexts : kexts'[m].when = kexts[m].when
  <2>1. CASE Scan
    <3>1. cursor \in DOMAIN kexts
      BY <2>1 DEF Scan, KmodsOK
    <3> QED
      BY <2>1, <3>1, ProcessKextTells, ProcessKextKeeps DEF Scan
  <2>2. CASE UNCHANGED kexts
    BY <2>2
  <2>3. Scan \/ UNCHANGED kexts
    BY DEF InitThread, SkipRequest, LoadKinfo, AlreadyDone, SetupKextListening, SetThat, WaitOnKext,
       WaitOnKextFails, QueueDone, UserInitFails, StartScan, ScanFaults, ScanDone, SetActivated
  <2> QED
    BY <2>1, <2>2, <2>3
<1>4. \A n \in DOMAIN kexts : kexts[n].when # "late"
  BY <1>1 DEF LateInv
<1>5. UnloadInv' /\ HeadInv' /\ LateInv' /\ ServedInv'
  <2>1. UnloadInv' /\ HeadInv'
    BY <1>2, <1>3 DEF UnloadInv, HeadInv
  <2>2. LateInv'
    BY <1>3, <1>4 DEF LateInv
  <2>3. ServedInv'
    BY <1>2, <1>3, <1>4 DEF ServedInv, Unserved, KmodsOK
  <2> QED
    BY <2>1, <2>2, <2>3
<1>6. HooksInv'
  <2>1. CASE SkipRequest
    BY <2>1 DEF SkipRequest, Queueing, HooksInv
  <2>2. CASE LoadKinfo
    BY <2>2 DEF LoadKinfo, Queueing, HooksInv
  <2>3. CASE AlreadyDone
    <3>1. DOMAIN khandlers' = DOMAIN khandlers
      BY <2>3 DEF AlreadyDone, UpdateKextHandlerFeatures
    <3> QED
      BY <2>3, <3>1 DEF AlreadyDone, Queueing, HooksInv
  <2>4. CASE SetupKextListening
    BY <2>4 DEF SetupKextListening, HooksInv, FlagsOK, Hooks
  <2>5. CASE SetThat
    BY <2>5 DEF SetThat, HooksInv
  <2>6. CASE WaitOnKext
    BY <2>6 DEF WaitOnKext, HooksInv
  <2>7. CASE WaitOnKextFails
    BY <2>7 DEF WaitOnKextFails, HooksInv
  <2>8. CASE QueueDone
    BY <2>8 DEF QueueDone, HooksInv
  <2>9. CASE UserInitFails
    BY <2>9 DEF UserInitFails, HooksInv
  <2>10. CASE StartScan
    BY <2>10 DEF StartScan, HooksInv, FlagsOK
  <2>11. CASE Scan
    <3>1. cursor \in DOMAIN kexts
      BY <2>11 DEF Scan, KmodsOK
    <3>2. \A i \in DOMAIN khandlers' : \E k \in DOMAIN khandlers : khandlers'[i] = khandlers[k]
      BY <2>11, <3>1, ProcessKextKeeps DEF Scan
    <3> QED
      BY <2>11, <3>2 DEF Scan, HooksInv
  <2>12. CASE ScanFaults
    BY <2>12 DEF ScanFaults, HooksInv
  <2>13. CASE ScanDone
    BY <2>13 DEF ScanDone, HooksInv
  <2>14. CASE SetActivated
    BY <2>14 DEF SetActivated, HooksInv
  <2> QED
    BY <2>1, <2>2, <2>3, <2>4, <2>5, <2>6, <2>7, <2>8, <2>9, <2>10, <2>11, <2>12, <2>13, <2>14
       DEF InitThread
<1> QED
  BY <1>5, <1>6

\* A watched kext that waits stays watched only by handlers that were there.
LEMMA WatchedBefore ==
  ASSUME KextInv, NEW n \in DOMAIN kexts, NEW l, NEW m \in DOMAIN kexts, ProcessKext(n, l), Unserved(m)'
  PROVE  Unserved(m)
<1>1. /\ kexts'[m].id = kexts[m].id /\ kexts'[m].genuine = kexts[m].genuine
      /\ kexts'[m].when = kexts[m].when /\ (kexts'[m].told = 0 => kexts[m].told = 0)
  BY ProcessKextTells DEF KextInv
<1>2. \A i \in DOMAIN khandlers' : \E k \in DOMAIN khandlers : khandlers'[i] = khandlers[k]
  BY ProcessKextKeeps DEF KextInv
<1> QED
  BY <1>1, <1>2 DEF Unserved, Watched

\* The thread that loads and unloads kexts: once Lilu is active the hook handles the
\* head of the list before a load is over.
LEMMA ServeLoader == KextInv /\ ServeInv /\ Loader => ServeInv'
<1> SUFFICES ASSUME KextInv, ServeInv, Loader PROVE ServeInv'
  OBVIOUS
<1> USE DEF KextInv, ServeInv, KernelUnchanged, queueVars, initVars, listenVars, kernelVars
<1>1. UNCHANGED <<bigSur, pc, that, routed, activated>>
  BY DEF Loader, LoadKext, OnOSKextUnload, Ignored, NewKext, StartLateScan, LateScan, LateScanDone
<1>2. HooksInv'
  <2>1. waiting' \in {waiting, FALSE}
    BY DEF Loader, LoadKext, OnOSKextUnload, Ignored, NewKext, StartLateScan, LateScan, LateScanDone
  <2>2. DOMAIN khandlers' # {} => DOMAIN khandlers # {}
    <3>1. CASE UNCHANGED khandlers
      BY <3>1
    <3>2. ASSUME NEW n \in DOMAIN kexts, NEW l, ProcessKext(n, l)
          PROVE  DOMAIN khandlers' # {} => DOMAIN khandlers # {}
      BY <3>2, ProcessKextKeeps
    <3>3. UNCHANGED khandlers \/ \E n \in DOMAIN kexts, l \in BOOLEAN : ProcessKext(n, l)
      BY DEF Loader, LoadKext, OnOSKextUnload, Ignored, NewKext, StartLateScan, LateScan, LateScanDone, KmodsOK
    <3> QED
      BY <3>1, <3>2, <3>3
  <2> QED
    BY <1>1, <2>1, <2>2 DEF HooksInv
<1>3. ASSUME NEW id \in Ids, NEW genuine \in BOOLEAN, LoadKext(id, genuine) PROVE ServeInv'
  <2> DEFINE new == [id |-> id, genuine |-> genuine, when |-> When, told |-> 0]
  <2>1. kexts' = Append(kexts, new) /\ live' = live \cup {Len(kexts) + 1} /\ UNCHANGED khandlers
        /\ lpc' = "loading" /\ UNCHANGED <<isKextUnloading>> /\ lpc = "idle"
    BY <1>3 DEF LoadKext
  <2>2. new \in Kexts /\ (new.when = "late" => activated = TRUE)
    BY DEF Kexts, When
  <2> HIDE DEF new
  <2>3. /\ Len(kexts) \in Nat /\ Len(kexts') = Len(kexts) + 1 /\ kexts'[Len(kexts) + 1] = new
        /\ DOMAIN kexts = 1..Len(kexts) /\ DOMAIN kexts' = 1..(Len(kexts) + 1)
        /\ \A n \in 1..Len(kexts) : kexts'[n] = kexts[n]
    BY <2>1, <2>2, AppendProperties, LenProperties DEF KmodsOK
  <2>4. UnloadInv' /\ HeadInv'
    BY <2>1, <2>3 DEF UnloadInv, HeadInv
  <2>5. LateInv'
    <3>1. ASSUME NEW n \in DOMAIN kexts', kexts'[n].when = "late" PROVE activated = TRUE
      <4>1. CASE n = Len(kexts) + 1
        BY <2>2, <2>3, <3>1, <4>1
      <4>2. CASE n # Len(kexts) + 1
        <5>1. n \in 1..Len(kexts)
          BY <2>3, <4>2
        <5> QED
          BY <2>3, <3>1, <5>1 DEF LateInv
      <4> QED
        BY <4>1, <4>2
    <3> QED
      BY <1>1, <3>1 DEF LateInv
  <2>6. ServedInv'
    <3>1. ASSUME bigSur = TRUE, NEW n \in live, Unserved(n)' PROVE FALSE
      <4>1. n \in 1..Len(kexts)
        BY <2>3 DEF KmodsOK
      <4>2. Unserved(n)
        BY <2>1, <2>3, <3>1, <4>1 DEF Unserved, Watched
      <4> QED
        BY <2>1, <3>1, <4>2 DEF ServedInv
    <3> QED
      BY <1>1, <2>1, <2>3, <3>1 DEF ServedInv
  <2> QED
    BY <1>2, <2>4, <2>5, <2>6
<1>4. ASSUME NEW n \in live, OnOSKextUnload(n) PROVE ServeInv'
  <2> USE <1>4 DEF OnOSKextUnload
  <2>1. UnloadInv' /\ HeadInv' /\ LateInv'
    BY DEF UnloadInv, HeadInv, LateInv
  <2>2. ServedInv'
    BY DEF ServedInv, Unserved, Watched
  <2> QED
    BY <1>2, <2>1, <2>2
<1>5. CASE Ignored
  <2> USE <1>5 DEF Ignored
  <2>1. UnloadInv' /\ HeadInv' /\ LateInv'
    BY DEF UnloadInv, HeadInv, LateInv
  <2>2. ServedInv'
    <3>1. ASSUME bigSur = TRUE, NEW n \in live, Unserved(n)' PROVE FALSE
      <4>1. Unserved(n) /\ DOMAIN khandlers # {}
        BY <3>1 DEF Unserved, Watched
      <4>2. lpc = "loading" /\ activated = TRUE
        BY <3>1, <4>1 DEF ServedInv, LateInv, Unserved, KmodsOK
      <4>3. isKextUnloading = FALSE /\ that = TRUE /\ "save" \in routed
        BY <3>1, <4>1, <4>2 DEF UnloadInv, HooksInv, Hooks, FlagsOK
      <4> QED
        BY <4>2, <4>3 DEF PassPanicList
    <3> QED
      BY <3>1 DEF ServedInv
  <2> QED
    BY <1>2, <2>1, <2>2
<1>6. CASE NewKext
  <2> USE <1>6 DEF NewKext
  <2>1. UnloadInv'
    BY DEF UnloadInv, PassPanicList, FlagsOK
  <2>2. HeadInv'
    BY DEF HeadInv
  <2>3. CASE live = {} /\ UNCHANGED <<khandlers, kexts, panicked>>
    BY <1>1, <1>2, <2>1, <2>2, <2>3 DEF LateInv, ServedInv
  <2>4. ASSUME NEW n \in live, First(n), ProcessKext(n, FALSE) PROVE ServeInv'
    <3>1. n \in DOMAIN kexts
      BY DEF KmodsOK
    <3>2. /\ Len(kexts') = Len(kexts) /\ DOMAIN kexts' = DOMAIN kexts
          /\ \A m \in DOMAIN kexts : kexts'[m].when = kexts[m].when
      BY <2>4, <3>1, ProcessKextTells, ProcessKextKeeps
    <3>3. LateInv'
      BY <1>1, <3>2 DEF LateInv
    <3>4. ASSUME bigSur = TRUE, NEW m \in live, Unserved(m)' PROVE FALSE
      <4>1. Unserved(m)
        BY <2>4, <3>1, <3>4, WatchedBefore DEF KmodsOK
      <4>2. lpc = "loading" /\ m = Len(kexts)
        BY <3>4, <4>1 DEF ServedInv
      <4>3. n = m
        <5>1. n \in 1..Len(kexts) /\ Len(kexts) \in Nat
          BY <3>1, LenProperties DEF KmodsOK
        <5>2. Len(kexts) <= n
          BY <2>4, <3>4, <4>2 DEF First
        <5> QED
          BY <4>2, <5>1, <5>2
      <4>4. kexts[n].genuine /\ Candidates(n, FALSE) # {}
        BY <4>1, <4>3 DEF Unserved, Watched, Candidates
      <4>5. kexts[n].genuine = TRUE
        <5>1. n \in 1..Len(kexts)
          BY <3>1, LenProperties DEF KmodsOK
        <5>2. kexts[n] \in Kexts
          BY <5>1, ElementOfSeq DEF KmodsOK
        <5> QED
          BY <4>4, <5>2 DEF Kexts
      <4>6. kexts'[n].told # 0
        BY <2>4, <3>1, <4>4, <4>5, ProcessKextTells
      <4> QED
        BY <3>4, <4>3, <4>6 DEF Unserved
    <3>5. ServedInv'
      BY <1>1, <3>4 DEF ServedInv
    <3> QED
      BY <1>2, <2>1, <2>2, <3>3, <3>5
  <2> QED
    BY <2>3, <2>4
<1>7. CASE StartLateScan
  <2> USE <1>7 DEF StartLateScan
  <2>1. UnloadInv' /\ HeadInv' /\ LateInv'
    BY DEF UnloadInv, HeadInv, LateInv, PassPanicList, FlagsOK
  <2>2. bigSur = FALSE
    BY DEF PassPanicList, PhaseInv, HooksInv, FlagsOK
  <2> QED
    BY <1>1, <1>2, <2>1, <2>2 DEF ServedInv
<1>8. CASE LateScan
  <2> USE <1>8 DEF LateScan
  <2>1. lcursor \in DOMAIN kexts
    BY DEF KmodsOK
  <2>2. UnloadInv' /\ HeadInv'
    BY DEF UnloadInv, HeadInv
  <2>3. LateInv'
    BY <1>1, <2>1, ProcessKextTells, ProcessKextKeeps DEF LateInv
  <2>4. ServedInv'
    BY <1>1, <2>1, WatchedBefore DEF ServedInv, KmodsOK
  <2> QED
    BY <1>2, <2>2, <2>3, <2>4
<1>9. CASE LateScanDone
  <2> USE <1>9 DEF LateScanDone
  <2>1. UnloadInv' /\ HeadInv' /\ LateInv'
    BY DEF UnloadInv, HeadInv, LateInv
  <2>2. ServedInv'
    BY DEF ServedInv, Unserved, Watched
  <2> QED
    BY <1>2, <2>1, <2>2
<1> QED
  BY <1>3, <1>4, <1>5, <1>6, <1>7, <1>8, <1>9 DEF Loader

\* From Big Sur on no kext loaded after activate is missed by a handler that is still
\* waiting for it, however loads, unloads, requests and failures are interleaved.
THEOREM LateKextsAreServed == Spec => []LateKextsServed
<1>1. KextInv /\ ServeInv /\ [Next]_vars => ServeInv'
  <2>1. ServeInv /\ UNCHANGED vars => ServeInv'
    BY DEF vars, ServeInv, queueVars, initVars, listenVars, kernelVars, UnloadInv, HeadInv, LateInv, HooksInv,
       ServedInv, Unserved, Watched
  <2> QED
    BY <2>1, ServeInit, ServeLoader DEF Next
<1>2. KextInv /\ ServeInv => LateKextsServed
  <2> SUFFICES ASSUME KextInv, ServeInv, bigSur = TRUE, lpc = "idle", NEW n \in live,
                      kexts[n].when = "late", Watched(n)
               PROVE  kexts[n].told > 0
    BY DEF LateKextsServed, KextInv, FlagsOK
  <2>1. n \in 1..Len(kexts) /\ kexts \in Seq(Kexts)
    BY LenProperties DEF KextInv, KmodsOK
  <2>2. kexts[n].told \in Nat
    <3>1. kexts[n] \in Kexts
      BY <2>1, ElementOfSeq
    <3> QED
      BY <3>1 DEF Kexts
  <2>3. kexts[n].told # 0
    BY DEF ServeInv, ServedInv, Unserved
  <2> QED
    BY <2>2, <2>3
<1> QED
  BY <1>1, <1>2, InitServe, KextInductive, PTL DEF Spec

-----------------------------------------------------------------------------
(* What the requests have led to *)

Making == {"listen", "setThat", "wait"}

\* The requests that the loop has come to, in the last turn of it.
Begun == {j \in DOMAIN storedKexts : j < next \/ (j = next /\ pc # "queue")}

\* In the first initialisation every MachInfo, every object that was loaded and
\* every handler that stays goes back to a request.
KinfoSources == \A e \in DOMAIN kinfos : \E j \in Begun : storedKexts[j].id = kinfos[e]
InfoSources ==
  \A i \in DOMAIN storedKexts :
    loadIndex[storedKexts[i].info] # 0 => \E j \in Begun : storedKexts[j].info = storedKexts[i].info
Staying(id) ==
  \E j \in DOMAIN storedKexts :
    storedKexts[j].id = id /\ storedKexts[j].disabled = FALSE /\ storedKexts[j].reloadable = TRUE
HandlerSources == \A i \in DOMAIN khandlers : khandlers[i].reloadable = TRUE => Staying(khandlers[i].id)

Sources == attempts = 0 => KinfoSources /\ InfoSources /\ HandlerSources

Progress ==
    /\ bigSur = TRUE => attempts = 0
    /\ pc \in Making => Request.disabled = FALSE
    /\ pc = "done" => activated = TRUE

FirstInv == Progress /\ Sources

\* The loop comes to more and more requests, until it starts over.
LEMMA BegunGrows ==
  ASSUME KextInv, InitThread, ~UserInitFails
  PROVE  UNCHANGED <<storedKexts, attempts, bigSur>> /\ Begun \subseteq Begun'
<1>1. next \in Nat
  BY DEF KextInv, ListsOK
<1>2. UNCHANGED <<storedKexts, attempts, bigSur>>
  BY DEF InitThread, SkipRequest, LoadKinfo, AlreadyDone, SetupKextListening, SetThat, WaitOnKext,
     WaitOnKextFails, QueueDone, StartScan, Scan, ScanFaults, ScanDone, SetActivated,
     QueueUnchanged, queueVars
<1>3. \/ next' = next /\ (pc # "queue" => pc' # "queue")
      \/ next' = next + 1
  BY DEF InitThread, SkipRequest, LoadKinfo, AlreadyDone, SetupKextListening, SetThat, WaitOnKext,
     WaitOnKextFails, QueueDone, StartScan, Scan, ScanFaults, ScanDone, SetActivated,
     Queueing, queueVars, initVars
<1>4. \A j \in DOMAIN storedKexts : j \in Nat
  BY LenProperties DEF KextInv, ListsOK
<1>5. ASSUME NEW j \in Begun PROVE j \in Begun'
  <2>1. j \in Nat /\ j \in DOMAIN storedKexts'
    BY <1>2, <1>4 DEF Begun
  <2>2. j < next' \/ (j = next' /\ pc' # "queue")
    BY <1>1, <1>3, <2>1 DEF Begun
  <2> QED
    BY <2>1, <2>2 DEF Begun
<1> QED
  BY <1>2, <1>5

\* The sources of what was there do not go away.
LEMMA SourcesStay ==
  ASSUME KextInv, InitThread, ~UserInitFails
  PROVE  /\ KinfoSources /\ UNCHANGED kinfos => KinfoSources'
         /\ InfoSources /\ UNCHANGED loadIndex => InfoSources'
         /\ HandlerSources /\ UNCHANGED khandlers => HandlerSources'
<1>1. UNCHANGED storedKexts /\ Begun \subseteq Begun'
  BY BegunGrows
<1>2. ASSUME KinfoSources, UNCHANGED kinfos PROVE KinfoSources'
  BY <1>1, <1>2 DEF KinfoSources
<1>3. ASSUME InfoSources, UNCHANGED loadIndex PROVE InfoSources'
  BY <1>1, <1>3 DEF InfoSources
<1>4. ASSUME HandlerSources, UNCHANGED khandlers PROVE HandlerSources'
  BY <1>1, <1>4 DEF HandlerSources, Staying
<1> QED
  BY <1>2, <1>3, <1>4

\* The initialising thread keeps track of where things come from.
LEMMA FirstInit == KextInv /\ FirstInv /\ InitThread => FirstInv'
<1> SUFFICES ASSUME KextInv, FirstInv, InitThread PROVE FirstInv'
  OBVIOUS
<1> USE DEF FirstInv
<1>1. Progress'
  <2> USE DEF Progress, Making
  <2>1. CASE LoadKinfo
    <3>1. Request \in Requests /\ ~Request.disabled
      BY <2>1, RequestType DEF LoadKinfo, Queueing, KextInv
    <3>2. Request.disabled = FALSE
      BY <3>1 DEF Requests
    <3> QED
      BY <2>1, <3>2 DEF LoadKinfo, QueueUnchanged, Request
  <2>2. CASE SetupKextListening
    BY <2>2 DEF SetupKextListening, QueueUnchanged, Request
  <2>3. CASE SetThat
    BY <2>3 DEF SetThat, QueueUnchanged, Request
  <2>4. CASE SkipRequest \/ AlreadyDone \/ WaitOnKext
    BY <2>4 DEF SkipRequest, AlreadyDone, Queueing, WaitOnKext, QueueUnchanged
  <2>5. CASE WaitOnKextFails \/ QueueDone
    BY <2>5 DEF WaitOnKextFails, QueueDone, QueueUnchanged
  <2>6. CASE UserInitFails
    BY <2>6 DEF UserInitFails, KextInv, FlagsOK
  <2>7. CASE StartScan \/ Scan \/ ScanFaults \/ ScanDone \/ SetActivated
    BY <2>7 DEF StartScan, Scan, ScanFaults, ScanDone, SetActivated, queueVars, initVars
  <2> QED
    BY <2>1, <2>2, <2>3, <2>4, <2>5, <2>6, <2>7 DEF InitThread
<1>2. CASE UserInitFails
  <2>1. attempts' # 0
    BY <1>2 DEF UserInitFails, KextInv, ListsOK
  <2> QED
    BY <1>1, <2>1 DEF Sources
<1>3. ASSUME ~UserInitFails, attempts = 0 PROVE KinfoSources' /\ InfoSources' /\ HandlerSources'
  <2>0. KinfoSources /\ InfoSources /\ HandlerSources
    BY <1>3 DEF Sources
  <2>00. UNCHANGED storedKexts /\ Begun \subseteq Begun'
    BY <1>3, BegunGrows
  <2>1. CASE LoadKinfo
    <3>a. Request \in Requests /\ Request.info \in Infos /\ next \in DOMAIN storedKexts
      BY <2>1, RequestType DEF LoadKinfo, Queueing, KextInv
    <3>b. next \in Begun'
      BY <2>1, <3>a DEF LoadKinfo, QueueUnchanged, Begun
    <3>c. kinfos \in Seq(Ids) /\ Request.id \in Ids
      BY <3>a DEF Requests, KextInv, ListsOK
    <3>1. HandlerSources'
      BY <1>3, <2>0, <2>1, SourcesStay DEF LoadKinfo
    <3>2. CASE UNCHANGED <<loadIndex, kinfos>>
      BY <1>3, <2>0, <3>1, <3>2, SourcesStay
    <3>3. CASE /\ kinfos' = Append(kinfos, Request.id)
               /\ loadIndex' = [loadIndex EXCEPT ![Request.info] = Len(kinfos) + 1]
      <4>1. InfoSources'
        <5>1. ASSUME NEW i \in DOMAIN storedKexts, loadIndex'[storedKexts[i].info] # 0
              PROVE  \E j \in Begun' : storedKexts[j].info = storedKexts[i].info
          <6>1. CASE storedKexts[i].info = Request.info
            BY <3>b, <6>1 DEF Request
          <6>2. CASE storedKexts[i].info # Request.info
            <7>1. loadIndex'[storedKexts[i].info] = loadIndex[storedKexts[i].info]
              BY <3>3, <6>2 DEF KextInv, ListsOK, Infos
            <7> QED
              BY <2>0, <2>00, <5>1, <7>1 DEF InfoSources
          <6> QED
            BY <6>1, <6>2
        <5> QED
          BY <2>00, <5>1 DEF InfoSources
      <4>2. KinfoSources'
        <5> DEFINE k == Append(kinfos, Request.id)
        <5>1. /\ DOMAIN k = 1..(Len(kinfos) + 1) /\ Len(kinfos) \in Nat /\ DOMAIN kinfos = 1..Len(kinfos)
              /\ k[Len(kinfos) + 1] = Request.id /\ \A e \in 1..Len(kinfos) : k[e] = kinfos[e]
          BY <3>c, AppendProperties, LenProperties
        <5> HIDE DEF k
        <5>2. kinfos' = k
          BY <3>3 DEF k
        <5>3. ASSUME NEW e \in DOMAIN k PROVE \E j \in Begun' : storedKexts[j].id = k[e]
          <6>1. CASE e = Len(kinfos) + 1
            BY <3>b, <5>1, <6>1 DEF Request
          <6>2. CASE e # Len(kinfos) + 1
            <7>1. e \in DOMAIN kinfos /\ k[e] = kinfos[e]
              BY <5>1, <6>2
            <7> QED
              BY <2>0, <2>00, <7>1 DEF KinfoSources
          <6> QED
            BY <6>1, <6>2
        <5> QED
          BY <2>00, <5>2, <5>3 DEF KinfoSources
      <4> QED
        BY <3>1, <4>1, <4>2
    <3> QED
      BY <2>1, <3>2, <3>3 DEF LoadKinfo
  <2>2. CASE AlreadyDone
    <3>a. Request \in Requests /\ Request.info \in Infos /\ next \in DOMAIN storedKexts
      BY <2>2, RequestType DEF AlreadyDone, Queueing, KextInv
    <3>b. next \in Begun'
      <4>1. next \in Nat /\ next' = next + 1
        BY <2>2 DEF AlreadyDone, KextInv, ListsOK
      <4> QED
        BY <2>00, <3>a, <4>1 DEF Begun
    <3>1. KinfoSources'
      BY <1>3, <2>0, <2>2, SourcesStay DEF AlreadyDone
    <3>2. InfoSources'
      <4>1. ASSUME NEW i \in DOMAIN storedKexts, loadIndex'[storedKexts[i].info] # 0
            PROVE  \E j \in Begun' : storedKexts[j].info = storedKexts[i].info
        <5>1. CASE storedKexts[i].info = Request.info
          BY <3>b, <5>1 DEF Request
        <5>2. CASE storedKexts[i].info # Request.info
          <6>1. loadIndex'[storedKexts[i].info] = loadIndex[storedKexts[i].info]
            BY <2>2, <5>2 DEF AlreadyDone, KextInv, ListsOK, Infos
          <6> QED
            BY <2>0, <2>00, <4>1, <6>1 DEF InfoSources
        <5> QED
          BY <5>1, <5>2
      <4> QED
        BY <2>00, <4>1 DEF InfoSources
    <3>3. HandlerSources'
      <4> DEFINE r == Request
      <4>1. r.disabled = FALSE /\ r.reloadable \in BOOLEAN /\ r \in Requests
        BY <2>2, <3>a DEF AlreadyDone, Requests
      <4>2. UpdateKextHandlerFeatures(r)
        BY <2>2 DEF AlreadyDone
      <4>3. ASSUME NEW i \in DOMAIN khandlers
            PROVE  /\ khandlers'[i].id = khandlers[i].id
                   /\ \/ khandlers'[i] = khandlers[i]
                      \/ /\ khandlers[i].id = r.id
                         /\ khandlers'[i].reloadable = (khandlers[i].reloadable \/ r.reloadable)
        <5>1. khandlers[i] \in Handlers
          BY ElementOfSeq, LenProperties DEF KextInv, ListsOK
        <5>2. khandlers'[i] = khandlers[i]
              \/ /\ khandlers[i].id = r.id
                 /\ khandlers'[i] = [khandlers[i] EXCEPT !.loaded = @ \/ r.loaded,
                                                         !.reloadable = @ \/ r.reloadable]
          BY <4>2 DEF UpdateKextHandlerFeatures
        <5> QED
          BY <5>1, <5>2 DEF Handlers
      <4>4. DOMAIN khandlers' = DOMAIN khandlers
        BY <4>2 DEF UpdateKextHandlerFeatures
      <4>5. r.reloadable = TRUE => Staying(r.id)
        BY <3>a, <4>1 DEF Staying, Request
      <4> HIDE DEF r
      <4>6. ASSUME NEW i \in DOMAIN khandlers, khandlers'[i].reloadable = TRUE
            PROVE  Staying(khandlers'[i].id)
        <5>1. CASE khandlers'[i] = khandlers[i]
          BY <2>0, <4>6, <5>1 DEF HandlerSources
        <5>2. CASE khandlers[i].id = r.id
                   /\ khandlers'[i].reloadable = (khandlers[i].reloadable \/ r.reloadable)
          <6>1. khandlers[i].reloadable \in BOOLEAN
            <7>1. khandlers[i] \in Handlers
              BY ElementOfSeq, LenProperties DEF KextInv, ListsOK
            <7> QED
              BY <7>1 DEF Handlers
          <6>2. khandlers[i].reloadable = TRUE \/ r.reloadable = TRUE
            BY <4>1, <4>6, <5>2, <6>1
          <6> QED
            BY <2>0, <4>3, <4>5, <5>2, <6>2 DEF HandlerSources
        <5> QED
          BY <4>3, <5>1, <5>2
      <4> QED
        BY <2>00, <4>4, <4>6 DEF HandlerSources, Staying
    <3> QED
      BY <3>1, <3>2, <3>3
  <2>3. CASE WaitOnKext
    <3>a. Request \in Requests /\ Request.info \in Infos /\ next \in DOMAIN storedKexts
      BY <2>3, RequestType DEF WaitOnKext, KextInv, ListsOK
    <3>1. KinfoSources' /\ InfoSources'
      BY <1>3, <2>0, <2>3, SourcesStay DEF WaitOnKext
    <3>2. HandlerSources'
      <4> DEFINE h == [id |-> Request.id, index |-> loadIndex[Request.info],
                       loaded |-> Request.loaded, reloadable |-> Request.reloadable]
      <4>1. h \in Handlers /\ khandlers \in Seq(Handlers)
        BY <3>a DEF Requests, Handlers, KextInv, ListsOK
      <4>2. khandlers' = Append(khandlers, h)
        BY <2>3 DEF WaitOnKext
      <4>3. h.reloadable = TRUE => Staying(h.id)
        <5>1. Request.disabled = FALSE
          BY <2>3 DEF WaitOnKext, Progress, Making
        <5> QED
          BY <3>a, <5>1 DEF Staying, Request
      <4> HIDE DEF h
      <4>4. /\ Len(khandlers) \in Nat /\ DOMAIN khandlers = 1..Len(khandlers)
            /\ DOMAIN khandlers' = 1..(Len(khandlers) + 1) /\ khandlers'[Len(khandlers) + 1] = h
            /\ \A i \in 1..Len(khandlers) : khandlers'[i] = khandlers[i]
        BY <4>1, <4>2, AppendProperties, LenProperties
      <4>5. ASSUME NEW i \in DOMAIN khandlers', khandlers'[i].reloadable = TRUE
            PROVE  Staying(khandlers'[i].id)
        <5>1. CASE i = Len(khandlers) + 1
          BY <4>3, <4>4, <4>5, <5>1
        <5>2. CASE i # Len(khandlers) + 1
          <6>1. i \in DOMAIN khandlers /\ khandlers'[i] = khandlers[i]
            BY <4>4, <5>2
          <6> QED
            BY <2>0, <4>5, <6>1 DEF HandlerSources
        <5> QED
          BY <5>1, <5>2
      <4> QED
        BY <2>00, <4>5 DEF HandlerSources, Staying
    <3> QED
      BY <3>1, <3>2
  <2>4. CASE Scan
    <3>1. cursor \in DOMAIN kexts
      BY <2>4 DEF Scan, KextInv, KmodsOK
    <3>2. \A i \in DOMAIN khandlers' : \E k \in DOMAIN khandlers : khandlers'[i] = khandlers[k]
      BY <2>4, <3>1, ProcessKextKeeps DEF Scan, KextInv
    <3>3. HandlerSources'
      BY <2>0, <2>00, <3>2 DEF HandlerSources, Staying
    <3> QED
      BY <1>3, <2>0, <2>4, <3>3, SourcesStay DEF Scan, queueVars
  <2>5. CASE UNCHANGED <<kinfos, loadIndex, khandlers>>
    BY <1>3, <2>0, <2>5, SourcesStay
  <2> QED
    BY <1>3, <2>1, <2>2, <2>3, <2>4, <2>5
       DEF InitThread, SkipRequest, SetupKextListening, SetThat, WaitOnKextFails, QueueDone,
           StartScan, ScanFaults, ScanDone, SetActivated, queueVars
<1> QED
  <2>1. CASE ~UserInitFails
    <3>1. attempts' = attempts
      BY <2>1, BegunGrows
    <3> QED
      BY <1>1, <1>3, <2>1, <3>1 DEF Sources
  <2> QED
    BY <1>2, <2>1

\* The kernel's thread does not touch the requests.
LEMMA FirstLoader == KextInv /\ FirstInv /\ Loader => FirstInv'
<1> SUFFICES ASSUME KextInv, FirstInv, Loader PROVE FirstInv'
  OBVIOUS
<1> USE DEF FirstInv
<1>1. UNCHANGED <<initVars, queueVars, listenVars, activated>>
  BY DEF Loader, LoadKext, OnOSKextUnload, Ignored, NewKext, StartLateScan, LateScan, LateScanDone,
     KernelUnchanged
<1>2. Progress'
  BY <1>1 DEF Progress, Request, initVars, queueVars
<1>3. \A i \in DOMAIN khandlers' : \E k \in DOMAIN khandlers : khandlers'[i] = khandlers[k]
  <2>1. CASE UNCHANGED khandlers
    BY <2>1
  <2>2. ASSUME NEW n \in DOMAIN kexts, NEW l, ProcessKext(n, l)
        PROVE  \A i \in DOMAIN khandlers' : \E k \in DOMAIN khandlers : khandlers'[i] = khandlers[k]
    BY <2>2, ProcessKextKeeps DEF KextInv
  <2>3. UNCHANGED khandlers \/ \E n \in DOMAIN kexts, l \in BOOLEAN : ProcessKext(n, l)
    BY DEF Loader, LoadKext, OnOSKextUnload, Ignored, NewKext, StartLateScan, LateScan, LateScanDone,
       KextInv, KmodsOK
  <2> QED
    BY <2>1, <2>2, <2>3
<1>4. Begun' = Begun
  BY <1>1 DEF Begun, initVars, queueVars
<1>5. Sources'
  BY <1>1, <1>3, <1>4 DEF Sources, KinfoSources, InfoSources, HandlerSources, Staying, queueVars
<1> QED
  BY <1>2, <1>5

LEMMA InitFirst == Init => FirstInv
<1> SUFFICES ASSUME Init PROVE FirstInv
  OBVIOUS
<1>1. \A i \in DOMAIN storedKexts : loadIndex[storedKexts[i].info] = 0
  BY DEF Init, Infos
<1> QED
  BY <1>1 DEF Init, FirstInv, Progress, Making, Sources, KinfoSources, InfoSources, HandlerSources

LEMMA FirstInductive == Spec => []FirstInv
<1>1. FirstInv /\ UNCHANGED vars => FirstInv'
  BY DEF vars, queueVars, initVars, FirstInv, Progress, Request, Sources, KinfoSources, InfoSources,
     HandlerSources, Staying, Begun
<1>2. KextInv /\ FirstInv /\ [Next]_vars => FirstInv'
  BY <1>1, FirstInit, FirstLoader DEF Next
<1> QED
  BY <1>2, InitFirst, KextInductive, PTL DEF Spec

-----------------------------------------------------------------------------
(* Kexts are handled once *)

\* processKext tells the kext it is called with through one handler, which goes
\* unless it is to stay.
LEMMA ProcessKextUses ==
  ASSUME ListsOK, KmodsOK, NEW n \in DOMAIN kexts, NEW loaded, ProcessKext(n, loaded)
  PROVE  \/ UNCHANGED <<kexts, khandlers>>
         \/ \E i \in DOMAIN khandlers :
              /\ khandlers[i].id = kexts[n].id
              /\ kexts'[n].told = kexts[n].told + 1
              /\ \A m \in DOMAIN kexts : m # n => kexts'[m] = kexts[m]
              /\ \/ khandlers' = khandlers /\ khandlers[i].reloadable = TRUE
                 \/ khandlers' = RemoveAt(khandlers, i)
<1>1. CASE UNCHANGED <<kexts, khandlers>>
  BY <1>1
<1>2. ASSUME NEW i \in Candidates(n, loaded), kexts' = [kexts EXCEPT ![n].told = @ + 1],
             khandlers' = IF khandlers[i].reloadable THEN khandlers ELSE RemoveAt(khandlers, i)
      PROVE  \E j \in DOMAIN khandlers :
              /\ khandlers[j].id = kexts[n].id
              /\ kexts'[n].told = kexts[n].told + 1
              /\ \A m \in DOMAIN kexts : m # n => kexts'[m] = kexts[m]
              /\ \/ khandlers' = khandlers /\ khandlers[j].reloadable = TRUE
                 \/ khandlers' = RemoveAt(khandlers, j)
  <2>1. i \in DOMAIN khandlers /\ khandlers[i].id = kexts[n].id
    BY DEF Candidates
  <2>2. khandlers[i].reloadable \in BOOLEAN
    <3>1. khandlers[i] \in Handlers
      BY <2>1, ElementOfSeq, LenProperties DEF ListsOK
    <3> QED
      BY <3>1 DEF Handlers
  <2>3. kexts'[n].told = kexts[n].told + 1 /\ \A m \in DOMAIN kexts : m # n => kexts'[m] = kexts[m]
    <3>1. kexts[n] \in Kexts
      BY ElementOfSeq, LenProperties DEF KmodsOK
    <3>2. kexts[n] = [id |-> kexts[n].id, genuine |-> kexts[n].genuine, when |-> kexts[n].when,
                      told |-> kexts[n].told]
      BY <3>1 DEF Kexts
    <3> QED
      BY <1>2, <3>2
  <2> QED
    BY <1>2, <2>1, <2>2, <2>3
<1> QED
  BY <1>1, <1>2 DEF ProcessKext

HandlersOf(id) == {i \in DOMAIN khandlers : khandlers[i].id = id}
Told(id) == {n \in DOMAIN kexts : kexts[n].id = id /\ kexts[n].told # 0}
AboutTo(id) == pc \in Making /\ Request.id = id

\* There is one MachInfo for id, one handler for it, before that its creation, and
\* after that the one time it was used.
OneUse(id) ==
    /\ id \notin Range(kinfos) => HandlersOf(id) = {} /\ Told(id) = {} /\ ~AboutTo(id)
    /\ AboutTo(id) => HandlersOf(id) = {} /\ Told(id) = {}
    /\ \A i, j \in HandlersOf(id) : i = j
    /\ HandlersOf(id) # {} => Told(id) = {}
    /\ \A n, m \in Told(id) : n = m
    /\ \A n \in Told(id) : kexts[n].told <= 1

OnceInv == attempts = 0 => \A id \in Ids : AskedOnceOnly(id) => OneUse(id)

\* A handler of a kext nobody asked to be reloadable does not stay.
LEMMA NotStaying ==
  ASSUME NEW id, AskedOnceOnly(id) PROVE ~Staying(id)
  BY DEF AskedOnceOnly, Staying

\* processKext uses the only handler up.
LEMMA UsedOnce ==
  ASSUME KextInv, FirstInv, OnceInv, attempts = 0, pc \notin Making, pc' \notin Making,
         NEW n \in DOMAIN kexts, NEW l, ProcessKext(n, l),
         UNCHANGED kinfos, NEW id \in Ids, AskedOnceOnly(id)
  PROVE  OneUse(id)'
<1>0. OneUse(id) /\ ~AboutTo(id)'
  BY DEF OnceInv, AboutTo
<1>1. CASE UNCHANGED <<kexts, khandlers>>
  <2>1. HandlersOf(id)' = HandlersOf(id) /\ Told(id)' = Told(id)
    BY <1>1 DEF HandlersOf, Told
  <2> QED
    BY <1>0, <1>1, <2>1 DEF OneUse
<1>2. ASSUME NEW i \in DOMAIN khandlers,
             khandlers[i].id = kexts[n].id,
             kexts'[n].told = kexts[n].told + 1,
             \A m \in DOMAIN kexts : m # n => kexts'[m] = kexts[m],
             \/ khandlers' = khandlers /\ khandlers[i].reloadable = TRUE
             \/ khandlers' = RemoveAt(khandlers, i)
      PROVE  OneUse(id)'
  <2>1. /\ DOMAIN kexts' = DOMAIN kexts
        /\ \A m \in DOMAIN kexts : kexts'[m].id = kexts[m].id
    BY ProcessKextTells, ProcessKextKeeps DEF KextInv
  <2>2. kexts[n].told \in Nat
    <3>1. kexts[n] \in Kexts
      BY ElementOfSeq, LenProperties DEF KextInv, KmodsOK
    <3> QED
      BY <3>1 DEF Kexts
  <2>3. khandlers \in Seq(Handlers) /\ DOMAIN khandlers = 1..Len(khandlers)
    BY LenProperties DEF KextInv, ListsOK
  <2>4. CASE kexts[n].id = id
    <3>1. i \in HandlersOf(id) /\ Told(id) = {}
      BY <1>0, <1>2, <2>4 DEF HandlersOf, OneUse
    <3>2. khandlers' = RemoveAt(khandlers, i)
      <4>1. khandlers[i].reloadable # TRUE
        BY <1>2, <2>4, NotStaying DEF FirstInv, Sources, HandlerSources
      <4> QED
        BY <1>2, <4>1
    <3>3. HandlersOf(id)' = {}
      <4>1. ASSUME NEW k \in DOMAIN khandlers', khandlers'[k].id = id PROVE FALSE
        <5>1. k \in 1..(Len(khandlers) - 1) /\ Len(khandlers) \in Nat /\ i \in 1..Len(khandlers)
              /\ khandlers'[k] = IF k < i THEN khandlers[k] ELSE khandlers[k + 1]
          BY <2>3, <3>2, <4>1, RemoveAtShifts
        <5>2. CASE k < i
          <6>1. k \in HandlersOf(id) /\ k # i
            BY <2>3, <4>1, <5>1, <5>2 DEF HandlersOf
          <6> QED
            BY <1>0, <3>1, <6>1 DEF OneUse
        <5>3. CASE ~(k < i)
          <6>1. k + 1 \in HandlersOf(id) /\ k + 1 # i
            BY <2>3, <4>1, <5>1, <5>3 DEF HandlersOf
          <6> QED
            BY <1>0, <3>1, <6>1 DEF OneUse
        <5> QED
          BY <5>2, <5>3
      <4> QED
        BY <4>1 DEF HandlersOf
    <3>4. Told(id)' = {n} /\ kexts'[n].told <= 1
      <4>1. kexts[n].told = 0
        BY <2>4, <3>1 DEF Told
      <4>2. kexts'[n].told = 1
        BY <1>2, <4>1
      <4>3. \A m \in DOMAIN kexts : m # n /\ kexts[m].id = id => kexts'[m].told = 0
        BY <1>2, <3>1 DEF Told
      <4> QED
        BY <2>1, <2>4, <4>2, <4>3 DEF Told
    <3>5. id \in Range(kinfos)'
      <4>1. id \in Range(kinfos)
        BY <1>0, <3>1 DEF OneUse
      <4> QED
        BY <4>1
    <3> QED
      BY <1>0, <3>3, <3>4, <3>5 DEF OneUse
  <2>5. CASE kexts[n].id # id
    <3>1. Told(id)' = Told(id) /\ \A m \in Told(id) : kexts'[m] = kexts[m]
      BY <1>2, <2>1, <2>5 DEF Told
    <3>2. /\ HandlersOf(id) = {} => HandlersOf(id)' = {}
          /\ \A a, b \in HandlersOf(id)' : a = b
      <4>1. CASE khandlers' = khandlers
        BY <1>0, <4>1 DEF HandlersOf, OneUse
      <4>2. CASE khandlers' = RemoveAt(khandlers, i)
        <5> DEFINE src(k) == IF k < i THEN k ELSE k + 1
        <5>1. /\ Len(khandlers) \in Nat /\ i \in 1..Len(khandlers)
              /\ DOMAIN khandlers' = 1..(Len(khandlers) - 1)
              /\ \A k \in DOMAIN khandlers' :
                   khandlers'[k] = IF k < i THEN khandlers[k] ELSE khandlers[k + 1]
          BY <2>3, <4>2, RemoveAtShifts
        <5>2. \A k \in DOMAIN khandlers' : src(k) \in DOMAIN khandlers /\ khandlers'[k] = khandlers[src(k)]
          BY <2>3, <5>1
        <5>3. \A a, b \in DOMAIN khandlers' : src(a) = src(b) => a = b
          BY <5>1
        <5> HIDE DEF src
        <5>4. \A k \in HandlersOf(id)' : k \in DOMAIN khandlers' /\ src(k) \in HandlersOf(id)
          BY <5>2 DEF HandlersOf
        <5> QED
          BY <1>0, <5>3, <5>4 DEF OneUse
      <4> QED
        BY <1>2, <4>1, <4>2
    <3> QED
      BY <1>0, <3>1, <3>2 DEF OneUse
  <2> QED
    BY <2>4, <2>5
<1> QED
  BY <1>1, <1>2, ProcessKextUses DEF KextInv

\* Where nothing is used and nothing new is about to be created.
LEMMA OneUseStays ==
  ASSUME NEW id, OneUse(id), UNCHANGED <<kinfos, kexts>>,
         HandlersOf(id)' = HandlersOf(id), AboutTo(id)' => AboutTo(id)
  PROVE  OneUse(id)'
<1>1. Told(id)' = Told(id)
  BY DEF Told
<1> QED
  BY <1>1 DEF OneUse

\* The initialising thread creates no second handler.
LEMMA OnceInit == KextInv /\ FirstInv /\ OnceInv /\ InitThread => OnceInv'
<1> SUFFICES ASSUME KextInv, FirstInv, OnceInv, InitThread, attempts' = 0, NEW id \in Ids,
                    AskedOnceOnly(id)'
             PROVE  OneUse(id)'
  BY DEF OnceInv
<1>1. ~UserInitFails
  BY DEF UserInitFails, KextInv, ListsOK
<1>2. UNCHANGED <<storedKexts, attempts, bigSur>>
  BY <1>1, BegunGrows
<1>3. attempts = 0 /\ AskedOnceOnly(id) /\ OneUse(id)
  BY <1>2 DEF OnceInv, AskedOnceOnly
<1>4. KinfoSources /\ InfoSources
  BY <1>3 DEF FirstInv, Sources
<1>5. CASE LoadKinfo
  <2>a. Request \in Requests /\ next \in DOMAIN storedKexts /\ Request.info \in Infos
    BY <1>5, RequestType DEF LoadKinfo, Queueing, KextInv
  <2>b. kinfos \in Seq(Ids) /\ Request.id \in Ids
    BY <2>a DEF Requests, KextInv, ListsOK
  <2>c. UNCHANGED <<khandlers, kexts>> /\ pc' = "listen" /\ Request' = Request /\ pc = "queue"
    BY <1>5 DEF LoadKinfo, QueueUnchanged, Queueing, Request
  <2>d. HandlersOf(id)' = HandlersOf(id) /\ Told(id)' = Told(id)
    BY <2>c DEF HandlersOf, Told
  <2>1. CASE Request.id # id
    <3>1. id \notin Range(kinfos)' => id \notin Range(kinfos)
      <4>1. CASE UNCHANGED kinfos
        BY <4>1
      <4>2. CASE kinfos' = Append(kinfos, Request.id)
        <5>1. ASSUME NEW e \in DOMAIN kinfos PROVE e \in DOMAIN kinfos' /\ kinfos'[e] = kinfos[e]
          BY <2>b, <4>2, <5>1, AppendProperties, LenProperties
        <5> QED
          BY <5>1 DEF Range
      <4> QED
        BY <1>5, <4>1, <4>2 DEF LoadKinfo
    <3>2. ~AboutTo(id)'
      BY <2>1, <2>c DEF AboutTo
    <3> QED
      BY <1>3, <2>c, <2>d, <3>1, <3>2 DEF OneUse
  <2>2. CASE Request.id = id
    <3>1. loadIndex[Request.info] = 0
      <4>1. ASSUME loadIndex[Request.info] # 0 PROVE FALSE
        <5>1. PICK j \in Begun : storedKexts[j].info = Request.info
          BY <1>4, <2>a, <4>1 DEF InfoSources, Request
        <5>2. j = next
          BY <1>3, <2>2, <2>a, <5>1 DEF AskedOnceOnly, Request, Begun
        <5>3. next \in Nat
          BY DEF KextInv, ListsOK
        <5> QED
          BY <2>c, <5>2, <5>3 DEF Begun
      <4> QED
        BY <4>1
    <3>2. id \notin Range(kinfos) /\ kinfos' = Append(kinfos, id)
      BY <1>5, <2>2, <3>1 DEF LoadKinfo
    <3>3. id \in Range(kinfos)'
      <4>1. Len(kinfos) + 1 \in DOMAIN kinfos' /\ kinfos'[Len(kinfos) + 1] = id
        BY <2>2, <2>b, <3>2, AppendProperties, LenProperties
      <4> QED
        BY <4>1 DEF Range
    <3> QED
      BY <1>3, <2>d, <3>2, <3>3 DEF OneUse
  <2> QED
    BY <2>1, <2>2
<1>6. CASE AlreadyDone
  <2>1. UNCHANGED <<kinfos, kexts>> /\ ~AboutTo(id)'
    BY <1>6 DEF AlreadyDone, QueueUnchanged, Queueing, AboutTo, Making
  <2>2. Request \in Requests
    BY <1>6, RequestType DEF AlreadyDone, Queueing, KextInv
  <2>3. DOMAIN khandlers' = DOMAIN khandlers /\ \A i \in DOMAIN khandlers : khandlers'[i].id = khandlers[i].id
    BY <1>6, <2>2, UpdateKeeps DEF AlreadyDone, KextInv
  <2>4. HandlersOf(id)' = HandlersOf(id)
    BY <2>3 DEF HandlersOf
  <2> QED
    BY <1>3, <2>1, <2>4, OneUseStays
<1>7. CASE WaitOnKext
  <2>a. Request \in Requests /\ Request.info \in Infos
    BY <1>7, RequestType DEF WaitOnKext, KextInv, ListsOK
  <2> DEFINE h == [id |-> Request.id, index |-> loadIndex[Request.info],
                   loaded |-> Request.loaded, reloadable |-> Request.reloadable]
  <2>1. h \in Handlers /\ khandlers \in Seq(Handlers) /\ h.id = Request.id
    BY <2>a DEF Requests, Handlers, KextInv, ListsOK
  <2>2. khandlers' = Append(khandlers, h) /\ UNCHANGED <<kinfos, kexts>> /\ ~AboutTo(id)'
    BY <1>7 DEF WaitOnKext, QueueUnchanged, AboutTo, Making
  <2> HIDE DEF h
  <2>3. /\ Len(khandlers) \in Nat /\ DOMAIN khandlers = 1..Len(khandlers)
        /\ DOMAIN khandlers' = 1..(Len(khandlers) + 1) /\ khandlers'[Len(khandlers) + 1] = h
        /\ \A i \in 1..Len(khandlers) : khandlers'[i] = khandlers[i]
    BY <2>1, <2>2, AppendProperties, LenProperties
  <2>4. CASE Request.id # id
    <3>1. ASSUME NEW i \in DOMAIN khandlers' PROVE khandlers'[i].id = id => i \in DOMAIN khandlers /\ khandlers[i].id = id
      <4>1. CASE i = Len(khandlers) + 1
        BY <2>1, <2>3, <2>4, <4>1
      <4>2. CASE i # Len(khandlers) + 1
        BY <2>3, <4>2
      <4> QED
        BY <4>1, <4>2
    <3>2. HandlersOf(id)' = HandlersOf(id)
      BY <2>3, <3>1 DEF HandlersOf
    <3> QED
      BY <1>3, <2>2, <3>2, OneUseStays
  <2>5. CASE Request.id = id
    <3>1. AboutTo(id)
      BY <1>7, <2>5 DEF WaitOnKext, AboutTo, Making
    <3>2. HandlersOf(id) = {} /\ Told(id) = {} /\ id \in Range(kinfos)
      BY <1>3, <3>1 DEF OneUse
    <3>3. Told(id)' = {} /\ id \in Range(kinfos)'
      BY <2>2, <3>2 DEF Told
    <3>4. \A i \in HandlersOf(id)' : i = Len(khandlers) + 1
      <4>1. ASSUME NEW i \in HandlersOf(id)', i # Len(khandlers) + 1 PROVE FALSE
        <5>1. i \in DOMAIN khandlers /\ khandlers[i].id = id
          BY <2>3, <4>1 DEF HandlersOf
        <5> QED
          BY <3>2, <5>1 DEF HandlersOf
      <4> QED
        BY <4>1
    <3> QED
      BY <2>2, <3>3, <3>4 DEF OneUse
  <2> QED
    BY <2>4, <2>5
<1>8. CASE Scan
  <2>1. cursor \in DOMAIN kexts /\ ProcessKext(cursor, TRUE) /\ UNCHANGED kinfos
        /\ pc = "scan" /\ pc' = "scan"
    BY <1>8 DEF Scan, KextInv, KmodsOK, queueVars
  <2> QED
    BY <1>3, <2>1, UsedOnce DEF Making
<1>9. CASE SkipRequest \/ QueueDone \/ WaitOnKextFails
  <2>1. UNCHANGED <<kinfos, kexts, khandlers>> /\ ~AboutTo(id)'
    BY <1>9 DEF SkipRequest, Queueing, QueueDone, WaitOnKextFails, QueueUnchanged, AboutTo, Making
  <2>2. HandlersOf(id)' = HandlersOf(id)
    BY <2>1 DEF HandlersOf
  <2> QED
    BY <1>3, <2>1, <2>2, OneUseStays
<1>10. CASE SetupKextListening \/ SetThat
  <2>1. UNCHANGED <<kinfos, kexts, khandlers>> /\ pc \in Making /\ Request' = Request
    BY <1>10 DEF SetupKextListening, SetThat, QueueUnchanged, Making, Request
  <2>2. HandlersOf(id)' = HandlersOf(id) /\ (AboutTo(id)' => AboutTo(id))
    BY <2>1 DEF HandlersOf, AboutTo
  <2> QED
    BY <1>3, <2>1, <2>2, OneUseStays
<1>11. CASE StartScan \/ ScanFaults \/ ScanDone \/ SetActivated
  <2>1. UNCHANGED <<kinfos, kexts, khandlers>> /\ ~AboutTo(id)'
    BY <1>11 DEF StartScan, ScanFaults, ScanDone, SetActivated, AboutTo, Making, queueVars, initVars
  <2>2. HandlersOf(id)' = HandlersOf(id)
    BY <2>1 DEF HandlersOf
  <2> QED
    BY <1>3, <2>1, <2>2, OneUseStays
<1> QED
  BY <1>1, <1>5, <1>6, <1>7, <1>8, <1>9, <1>10, <1>11 DEF InitThread

\* Nor does the kernel's thread, and it handles no kext through a handler used up.
LEMMA OnceLoader == KextInv /\ FirstInv /\ OnceInv /\ Loader => OnceInv'
<1> SUFFICES ASSUME KextInv, FirstInv, OnceInv, Loader, attempts' = 0, NEW id \in Ids,
                    AskedOnceOnly(id)'
             PROVE  OneUse(id)'
  BY DEF OnceInv
<1>1. UNCHANGED <<initVars, queueVars, listenVars, activated>>
  BY DEF Loader, LoadKext, OnOSKextUnload, Ignored, NewKext, StartLateScan, LateScan, LateScanDone,
     KernelUnchanged
<1>2. attempts = 0 /\ AskedOnceOnly(id) /\ OneUse(id) /\ AboutTo(id)' = AboutTo(id)
  BY <1>1 DEF OnceInv, AskedOnceOnly, AboutTo, Request, queueVars, initVars
<1>3. ASSUME NEW k \in Ids, NEW genuine \in BOOLEAN, LoadKext(k, genuine) PROVE OneUse(id)'
  <2> DEFINE new == [id |-> k, genuine |-> genuine, when |-> When, told |-> 0]
  <2>1. kexts' = Append(kexts, new) /\ UNCHANGED khandlers
    BY <1>3 DEF LoadKext
  <2>2. new \in Kexts /\ new.told = 0
    BY DEF Kexts, When
  <2> HIDE DEF new
  <2>3. /\ Len(kexts) \in Nat /\ kexts'[Len(kexts) + 1] = new
        /\ DOMAIN kexts = 1..Len(kexts) /\ DOMAIN kexts' = 1..(Len(kexts) + 1)
        /\ \A n \in 1..Len(kexts) : kexts'[n] = kexts[n]
    BY <2>1, <2>2, AppendProperties, LenProperties DEF KextInv, KmodsOK
  <2>4. ASSUME NEW n \in DOMAIN kexts', kexts'[n].told # 0
        PROVE  n \in DOMAIN kexts /\ kexts'[n] = kexts[n]
    <3>1. n # Len(kexts) + 1
      BY <2>2, <2>3, <2>4
    <3> QED
      BY <2>3, <3>1
  <2>5. Told(id)' = Told(id) /\ \A n \in Told(id) : kexts'[n] = kexts[n]
    BY <2>3, <2>4 DEF Told
  <2>6. HandlersOf(id)' = HandlersOf(id) /\ UNCHANGED kinfos
    BY <1>1, <2>1 DEF HandlersOf, queueVars
  <2> QED
    BY <1>2, <2>5, <2>6 DEF OneUse
<1>4. ASSUME NEW n \in DOMAIN kexts, NEW l, ProcessKext(n, l), activated \/ lpc = "scan"
      PROVE  OneUse(id)'
  <2>1. pc = "done" /\ pc' = "done" /\ UNCHANGED kinfos
    BY <1>1, <1>4 DEF KextInv, PhaseInv, FlagsOK, queueVars, initVars
  <2> QED
    BY <1>2, <1>4, <2>1, UsedOnce DEF Making
<1>5. CASE UNCHANGED <<kexts, khandlers>>
  <2>1. HandlersOf(id)' = HandlersOf(id) /\ UNCHANGED kinfos
    BY <1>1, <1>5 DEF HandlersOf, queueVars
  <2> QED
    BY <1>2, <1>5, <2>1, OneUseStays
<1>6. \/ \E k \in Ids, genuine \in BOOLEAN : LoadKext(k, genuine)
      \/ \E n \in DOMAIN kexts, l \in BOOLEAN : ProcessKext(n, l) /\ (activated \/ lpc = "scan")
      \/ UNCHANGED <<kexts, khandlers>>
  BY DEF Loader, OnOSKextUnload, Ignored, NewKext, PassPanicList, StartLateScan, LateScan, LateScanDone,
     KextInv, KmodsOK
<1> QED
  BY <1>3, <1>4, <1>5, <1>6

LEMMA InitOnce == Init => OnceInv
  BY DEF Init, OnceInv, OneUse, HandlersOf, Told, AboutTo, Making

\* A kext nobody asked to be reloadable is handled for one load only, for any number
\* of plugins that ask for it, loads and unloads, if the initialisation is not repeated
\* and no plugin passes one KextInfo object twice.
THEOREM KextsAreHandledOnce == Spec => []HandledOnce
<1>1. KextInv /\ FirstInv /\ OnceInv /\ [Next]_vars => OnceInv'
  <2>1. ASSUME OnceInv, UNCHANGED vars PROVE OnceInv'
    <3>1. UNCHANGED <<storedKexts, attempts, kinfos, kexts, khandlers, pc, next>>
      BY <2>1 DEF vars, queueVars, initVars
    <3>2. ASSUME NEW id PROVE AskedOnceOnly(id)' = AskedOnceOnly(id) /\ OneUse(id)' = OneUse(id)
      BY <3>1 DEF AskedOnceOnly, OneUse, HandlersOf, Told, AboutTo, Request
    <3> QED
      BY <2>1, <3>1, <3>2 DEF OnceInv
  <2> QED
    BY <2>1, OnceInit, OnceLoader DEF Next
<1>2. KextInv /\ OnceInv => HandledOnce
  <2> SUFFICES ASSUME KextInv, OnceInv, attempts = 0,
                      NEW n \in DOMAIN kexts, NEW m \in DOMAIN kexts,
                      kexts[n].id = kexts[m].id, AskedOnceOnly(kexts[n].id)
               PROVE  /\ kexts[n].told <= 1
                      /\ kexts[n].told > 0 /\ kexts[m].told > 0 => n = m
    BY DEF HandledOnce
  <2>1. kexts[n] \in Kexts /\ kexts[m] \in Kexts
    BY ElementOfSeq, LenProperties DEF KextInv, KmodsOK
  <2>2. kexts[n].told \in Nat /\ kexts[m].told \in Nat /\ kexts[n].id \in Ids
    BY <2>1 DEF Kexts
  <2>3. OneUse(kexts[n].id)
    BY <2>2 DEF OnceInv
  <2>4. (kexts[n].told # 0 => n \in Told(kexts[n].id)) /\ (kexts[m].told # 0 => m \in Told(kexts[n].id))
    BY DEF Told
  <2> QED
    BY <2>2, <2>3, <2>4 DEF OneUse
<1> QED
  BY <1>1, <1>2, InitOnce, KextInductive, FirstInductive, PTL DEF Spec

-----------------------------------------------------------------------------
(* Kexts that are there before activation *)

Merged(id) ==
  \E i, j \in DOMAIN storedKexts : storedKexts[i].id = id /\ storedKexts[j].id = id /\ i # j

\* A handler that asked for loaded kexts has activate walk over them, unless it got
\* the wish from a second request.
FlaggedInv ==
  bigSur = TRUE =>
    \A i \in DOMAIN khandlers : khandlers[i].loaded = TRUE =>
      waiting = TRUE \/ pc \in {"activate", "done"} \/ Merged(khandlers[i].id)

Awaited(n) == kexts[n].when = "early" /\ LoadedWatched(n) /\ RequestedOnce(n) /\ kexts[n].told = 0

\* The kexts that should be handled and are not are those the walk still comes to.
WalkInv ==
  bigSur = TRUE /\ pc \in {"scan", "activate", "done"} =>
    \A n \in live : Awaited(n) => pc = "scan" /\ n <= cursor

EarlyInv == FlaggedInv /\ WalkInv

\* processKext makes nobody wait.
LEMMA AwaitedBefore ==
  ASSUME KextInv, NEW n \in DOMAIN kexts, NEW l, ProcessKext(n, l), UNCHANGED storedKexts,
         NEW m \in DOMAIN kexts, Awaited(m)'
  PROVE  Awaited(m)
<1>1. /\ kexts'[m].id = kexts[m].id /\ kexts'[m].genuine = kexts[m].genuine
      /\ kexts'[m].when = kexts[m].when /\ (kexts'[m].told = 0 => kexts[m].told = 0)
  BY ProcessKextTells DEF KextInv
<1>2. \A i \in DOMAIN khandlers' : \E k \in DOMAIN khandlers : khandlers'[i] = khandlers[k]
  BY ProcessKextKeeps DEF KextInv
<1>3. LoadedWatched(m)
  BY <1>1, <1>2 DEF Awaited, LoadedWatched
<1>4. RequestedOnce(m)
  BY <1>1 DEF Awaited, RequestedOnce
<1> QED
  BY <1>1, <1>3, <1>4 DEF Awaited

\* Handlers that were there keep what FlaggedInv says of them.
LEMMA FlaggedStays ==
  ASSUME FlaggedInv, UNCHANGED <<bigSur, storedKexts>>,
         waiting = TRUE => waiting' = TRUE \/ pc' \in {"activate", "done"},
         pc \in {"activate", "done"} => pc' \in {"activate", "done"},
         \A i \in DOMAIN khandlers' : \E k \in DOMAIN khandlers : khandlers'[i] = khandlers[k]
  PROVE  FlaggedInv'
<1>1. \A id : Merged(id)' = Merged(id)
  BY DEF Merged
<1> QED
  BY <1>1 DEF FlaggedInv

\* The initialising thread queues handlers and walks over the kmods.
LEMMA EarlyInit == KextInv /\ FirstInv /\ EarlyInv /\ InitThread => EarlyInv'
<1> SUFFICES ASSUME KextInv, FirstInv, EarlyInv, InitThread PROVE EarlyInv'
  OBVIOUS
<1> USE DEF EarlyInv
<1>1. CASE UserInitFails
  <2>1. bigSur' = FALSE
    BY <1>1 DEF UserInitFails, KextInv, FlagsOK
  <2> QED
    BY <2>1 DEF FlaggedInv, WalkInv
<1>2. ASSUME ~UserInitFails, bigSur = TRUE PROVE EarlyInv'
  <2>0. UNCHANGED <<storedKexts, attempts, bigSur>> /\ KinfoSources
    BY <1>2, BegunGrows DEF FirstInv, Progress, Sources
  <2>1. CASE AlreadyDone
    <3>a. Request \in Requests /\ Request.info \in Infos /\ next \in DOMAIN storedKexts
      BY <2>1, RequestType DEF AlreadyDone, Queueing, KextInv
    <3>b. pc' = "queue" /\ pc = "queue" /\ UNCHANGED waiting /\ UpdateKextHandlerFeatures(Request)
      BY <2>1 DEF AlreadyDone, Queueing
    <3>1. Merged(Request.id)
      <4>1. PICK e \in DOMAIN kinfos : kinfos[e] = Request.id
        BY <2>1 DEF AlreadyDone
      <4>2. PICK j \in Begun : storedKexts[j].id = Request.id
        BY <2>0, <4>1 DEF KinfoSources
      <4>3. j # next
        BY <3>b DEF Begun, KextInv, ListsOK
      <4> QED
        BY <3>a, <4>2, <4>3 DEF Merged, Begun, Request
    <3>2. \A i \in DOMAIN khandlers :
            \/ khandlers'[i] = khandlers[i]
            \/ khandlers'[i].id = Request.id
      <4>1. \A i \in DOMAIN khandlers : khandlers'[i] = khandlers[i] \/ khandlers[i].id = Request.id
        BY <3>b DEF UpdateKextHandlerFeatures
      <4>2. \A i \in DOMAIN khandlers : khandlers'[i].id = khandlers[i].id
        BY <3>a, <3>b, UpdateKeeps DEF KextInv
      <4> QED
        BY <4>1, <4>2
    <3>3. DOMAIN khandlers' = DOMAIN khandlers
      BY <3>b DEF UpdateKextHandlerFeatures
    <3>4. \A id : Merged(id)' = Merged(id)
      BY <2>0 DEF Merged
    <3>5. FlaggedInv'
      BY <1>2, <2>0, <3>b, <3>1, <3>2, <3>3, <3>4 DEF FlaggedInv
    <3> QED
      BY <3>b, <3>5 DEF WalkInv
  <2>2. CASE WaitOnKext
    <3>a. Request \in Requests /\ Request.info \in Infos
      BY <2>2, RequestType DEF WaitOnKext, KextInv, ListsOK
    <3> DEFINE h == [id |-> Request.id, index |-> loadIndex[Request.info],
                     loaded |-> Request.loaded, reloadable |-> Request.reloadable]
    <3>1. h \in Handlers /\ khandlers \in Seq(Handlers)
      BY <3>a DEF Requests, Handlers, KextInv, ListsOK
    <3>2. khandlers' = Append(khandlers, h) /\ waiting' = (waiting \/ Request.loaded)
          /\ pc' = "queue" /\ pc = "wait"
      BY <2>2 DEF WaitOnKext
    <3>3. (h.loaded = TRUE => waiting' = TRUE) /\ (waiting = TRUE => waiting' = TRUE)
      BY <3>2 DEF KextInv, FlagsOK
    <3> HIDE DEF h
    <3>4. /\ Len(khandlers) \in Nat /\ DOMAIN khandlers = 1..Len(khandlers)
          /\ DOMAIN khandlers' = 1..(Len(khandlers) + 1) /\ khandlers'[Len(khandlers) + 1] = h
          /\ \A i \in 1..Len(khandlers) : khandlers'[i] = khandlers[i]
      BY <3>1, <3>2, AppendProperties, LenProperties
    <3>5. \A id : Merged(id)' = Merged(id)
      BY <2>0 DEF Merged
    <3>6. ASSUME NEW i \in DOMAIN khandlers', khandlers'[i].loaded = TRUE
          PROVE  waiting' = TRUE \/ Merged(khandlers'[i].id)
      <4>1. CASE i = Len(khandlers) + 1
        BY <3>3, <3>4, <3>6, <4>1
      <4>2. CASE i # Len(khandlers) + 1
        <5>1. i \in DOMAIN khandlers /\ khandlers'[i] = khandlers[i]
          BY <3>4, <4>2
        <5> QED
          BY <1>2, <3>2, <3>3, <3>6, <5>1 DEF FlaggedInv
      <4> QED
        BY <4>1, <4>2
    <3> QED
      BY <3>2, <3>5, <3>6 DEF FlaggedInv, WalkInv
  <2>3. CASE SkipRequest \/ LoadKinfo \/ SetupKextListening \/ SetThat \/ WaitOnKextFails \/ QueueDone
    <3>1. UNCHANGED <<khandlers>> /\ pc' \notin {"scan", "activate", "done"}
          /\ pc \notin {"activate", "done"} /\ waiting' \in {waiting, waiting \/ Request.loaded}
      BY <2>3 DEF SkipRequest, LoadKinfo, Queueing, SetupKextListening, SetThat, WaitOnKextFails, QueueDone
    <3>2. waiting = TRUE => waiting' = TRUE
      BY <3>1
    <3>3. FlaggedInv'
      BY <2>0, <3>1, <3>2, FlaggedStays
    <3> QED
      BY <3>1, <3>3 DEF WalkInv
  <2>4. CASE StartScan
    <3>a. UNCHANGED <<khandlers, kexts, live, waiting>> /\ pc = "user" /\ pc' \in {"scan", "activate"}
      BY <2>4 DEF StartScan, kernelVars
    <3>1. FlaggedInv'
      BY <2>0, <3>a, FlaggedStays
    <3>2. \A n : Awaited(n)' = Awaited(n)
      BY <2>0, <3>a DEF Awaited, LoadedWatched, RequestedOnce
    <3>3. CASE First(cursor') /\ pc' = "scan"
      BY <3>a, <3>1, <3>2, <3>3 DEF WalkInv, First
    <3>4. CASE ~(bigSur /\ waiting)
      <4>1. waiting # TRUE
        BY <1>2, <3>4
      <4>2. ASSUME NEW n \in live, Awaited(n) PROVE FALSE
        <5>1. PICK i \in DOMAIN khandlers : khandlers[i].id = kexts[n].id /\ khandlers[i].loaded
          BY <4>2 DEF Awaited, LoadedWatched
        <5>2. khandlers[i].loaded = TRUE
          <6>1. khandlers[i] \in Handlers
            BY ElementOfSeq, LenProperties DEF KextInv, ListsOK
          <6> QED
            BY <5>1, <6>1 DEF Handlers
        <5>3. Merged(kexts[n].id)
          BY <1>2, <3>a, <4>1, <5>1, <5>2 DEF FlaggedInv
        <5> QED
          BY <4>2, <5>3 DEF Awaited, RequestedOnce, Merged
      <4> QED
        BY <3>a, <3>1, <3>2, <4>2 DEF WalkInv
    <3> QED
      BY <2>4, <3>1, <3>3, <3>4 DEF StartScan
  <2>5. CASE Scan
    <3>1. cursor \in DOMAIN kexts /\ ProcessKext(cursor, TRUE) /\ UNCHANGED <<live, waiting, pc>>
          /\ pc = "scan" /\ cursor' \in live \cup {0} /\ Follows(cursor', cursor)
      BY <2>5 DEF Scan, KextInv, KmodsOK, kernelVars
    <3>2. FlaggedInv'
      <4>1. \A i \in DOMAIN khandlers' : \E k \in DOMAIN khandlers : khandlers'[i] = khandlers[k]
        BY <3>1, ProcessKextKeeps DEF KextInv
      <4> QED
        BY <2>0, <3>1, <4>1, FlaggedStays
    <3>3. ASSUME NEW n \in live, Awaited(n)' PROVE n <= cursor'
      <4>1. n \in DOMAIN kexts
        BY DEF KextInv, KmodsOK
      <4>2. Awaited(n)
        BY <2>0, <3>1, <3>3, <4>1, AwaitedBefore
      <4>3. n <= cursor
        BY <1>2, <3>1, <4>2 DEF WalkInv
      <4>4. n # cursor
        <5>1. ASSUME n = cursor PROVE FALSE
          <6>1. Candidates(n, TRUE) # {} /\ kexts[n].genuine
            BY <4>2 DEF Awaited, LoadedWatched, Candidates
          <6>2. kexts[n].genuine = TRUE
            <7>1. kexts[n] \in Kexts
              BY <4>1, ElementOfSeq, LenProperties DEF KextInv, KmodsOK
            <7> QED
              BY <6>1, <7>1 DEF Kexts
          <6>3. kexts'[n].told # 0
            BY <3>1, <4>1, <5>1, <6>1, <6>2, ProcessKextTells DEF KextInv
          <6> QED
            BY <3>3, <6>3 DEF Awaited
        <5> QED
          BY <5>1
      <4>5. n \in Nat /\ n # 0 /\ cursor \in Nat /\ \A o \in live : o \in Nat
        BY <3>1, <4>1, LenProperties DEF KextInv, KmodsOK
      <4>6. n < cursor
        BY <4>3, <4>4, <4>5
      <4>7. CASE cursor' = 0 /\ \A o \in live : o >= cursor
        BY <4>5, <4>6, <4>7
      <4>8. CASE \A o \in live : o < cursor => o <= cursor'
        BY <4>6, <4>8
      <4> QED
        BY <3>1, <4>7, <4>8 DEF Follows
    <3> QED
      BY <3>1, <3>2, <3>3 DEF WalkInv
  <2>6. CASE ScanFaults \/ ScanDone \/ SetActivated
    <3>1. /\ UNCHANGED <<khandlers, kexts, live, cursor>>
          /\ pc \in {"scan", "activate"} /\ pc' \in {"scan", "activate", "done"}
          /\ waiting = TRUE => waiting' = TRUE \/ pc' \in {"activate", "done"}
          /\ pc \in {"activate", "done"} => pc' \in {"activate", "done"}
          /\ pc = "scan" /\ pc' # "scan" => cursor = 0
          /\ pc' = "scan" => pc = "scan"
      BY <2>6 DEF ScanFaults, ScanDone, SetActivated, initVars, kernelVars
    <3>2. FlaggedInv'
      BY <2>0, <3>1, FlaggedStays
    <3>3. \A n : Awaited(n)' = Awaited(n)
      BY <2>0, <3>1 DEF Awaited, LoadedWatched, RequestedOnce
    <3>4. \A n \in live : n \in Nat /\ n # 0
      BY LenProperties DEF KextInv, KmodsOK
    <3>5. ASSUME NEW n \in live, Awaited(n) PROVE pc' = "scan" /\ n <= cursor
      <4>1. pc = "scan" /\ n <= cursor
        BY <1>2, <3>1, <3>5 DEF WalkInv
      <4>2. cursor # 0
        BY <3>4, <4>1
      <4> QED
        BY <3>1, <4>1, <4>2
    <3> QED
      BY <3>1, <3>2, <3>3, <3>5 DEF WalkInv
  <2> QED
    BY <1>2, <2>1, <2>2, <2>3, <2>4, <2>5, <2>6 DEF InitThread
<1> QED
  <2>1. CASE ~UserInitFails /\ bigSur # TRUE
    <3>1. bigSur' = bigSur
      BY <2>1, BegunGrows
    <3> QED
      BY <2>1, <3>1 DEF FlaggedInv, WalkInv
  <2> QED
    BY <1>1, <1>2, <2>1

\* What the kernel loads from then on is not early, and what it unloads is gone.
LEMMA EarlyLoader == KextInv /\ FirstInv /\ EarlyInv /\ Loader => EarlyInv'
<1> SUFFICES ASSUME KextInv, FirstInv, EarlyInv, Loader PROVE EarlyInv'
  OBVIOUS
<1> USE DEF EarlyInv
<1>1. UNCHANGED <<initVars, queueVars, listenVars, activated, pc, cursor, bigSur, storedKexts>>
  BY DEF Loader, LoadKext, OnOSKextUnload, Ignored, NewKext, StartLateScan, LateScan, LateScanDone,
     KernelUnchanged, initVars, queueVars
<1>2. waiting = TRUE => waiting' = TRUE \/ pc' \in {"activate", "done"}
  <2>1. UNCHANGED waiting \/ lpc = "scan"
    BY DEF Loader, LoadKext, OnOSKextUnload, Ignored, NewKext, StartLateScan, LateScan, LateScanDone
  <2>2. lpc = "scan" => pc = "done"
    BY DEF KextInv, PhaseInv
  <2> QED
    BY <1>1, <2>1, <2>2
<1>3. ASSUME NEW k \in Ids, NEW genuine \in BOOLEAN, LoadKext(k, genuine) PROVE EarlyInv'
  <2> DEFINE new == [id |-> k, genuine |-> genuine, when |-> When, told |-> 0]
  <2>1. kexts' = Append(kexts, new) /\ UNCHANGED khandlers /\ live' = live \cup {Len(kexts) + 1}
    BY <1>3 DEF LoadKext
  <2>2. new \in Kexts /\ new.when = When
    BY DEF Kexts, When
  <2>3. pc \in {"scan", "activate", "done"} => When # "early"
    BY DEF When, FirstInv, Progress
  <2> HIDE DEF new
  <2>4. /\ Len(kexts) \in Nat /\ kexts'[Len(kexts) + 1] = new
        /\ DOMAIN kexts = 1..Len(kexts) /\ \A n \in 1..Len(kexts) : kexts'[n] = kexts[n]
    BY <2>1, <2>2, AppendProperties, LenProperties DEF KextInv, KmodsOK
  <2>5. FlaggedInv'
    BY <1>1, <1>2, <2>1, FlaggedStays
  <2>6. ASSUME bigSur = TRUE, pc \in {"scan", "activate", "done"}, NEW n \in live', Awaited(n)'
        PROVE  pc = "scan" /\ n <= cursor
    <3>1. n # Len(kexts) + 1
      BY <2>2, <2>3, <2>4, <2>6 DEF Awaited
    <3>2. n \in live /\ n \in 1..Len(kexts)
      BY <2>1, <2>4, <3>1 DEF KextInv, KmodsOK
    <3>3. Awaited(n)
      BY <1>1, <2>1, <2>4, <2>6, <3>2 DEF Awaited, LoadedWatched, RequestedOnce
    <3> QED
      BY <2>6, <3>2, <3>3 DEF WalkInv
  <2> QED
    BY <1>1, <2>5, <2>6 DEF WalkInv
<1>4. ASSUME NEW n \in DOMAIN kexts, NEW l, ProcessKext(n, l), UNCHANGED live PROVE EarlyInv'
  <2>1. FlaggedInv'
    <3>1. \A i \in DOMAIN khandlers' : \E k \in DOMAIN khandlers : khandlers'[i] = khandlers[k]
      BY <1>4, ProcessKextKeeps DEF KextInv
    <3> QED
      BY <1>1, <1>2, <3>1, FlaggedStays
  <2>2. \A m \in live : Awaited(m)' => Awaited(m)
    BY <1>1, <1>4, AwaitedBefore DEF KextInv, KmodsOK
  <2> QED
    BY <1>1, <1>4, <2>1, <2>2 DEF WalkInv
<1>5. CASE UNCHANGED <<kexts, khandlers>> /\ live' \subseteq live
  <2>1. FlaggedInv'
    BY <1>1, <1>2, <1>5, FlaggedStays
  <2>2. \A m : Awaited(m)' = Awaited(m)
    BY <1>1, <1>5 DEF Awaited, LoadedWatched, RequestedOnce
  <2> QED
    BY <1>1, <1>5, <2>1, <2>2 DEF WalkInv
<1>6. \/ \E k \in Ids, genuine \in BOOLEAN : LoadKext(k, genuine)
      \/ \E n \in DOMAIN kexts, l \in BOOLEAN : ProcessKext(n, l) /\ UNCHANGED live
      \/ UNCHANGED <<kexts, khandlers>> /\ live' \subseteq live
  BY DEF Loader, OnOSKextUnload, Ignored, NewKext, StartLateScan, LateScan, LateScanDone, KextInv, KmodsOK
<1> QED
  BY <1>3, <1>4, <1>5, <1>6

LEMMA InitEarly == Init => EarlyInv
  BY DEF Init, EarlyInv, FlaggedInv, WalkInv

\* From Big Sur on every kext that was there before activate, and still is, is handled
\* for a handler that asked for loaded kexts, for any number of kexts that are loaded and
\* unloaded during the walk, unless a second request for it was merged into the first.
THEOREM EarlyKextsAreServed == Spec => []EarlyKextsServed
<1>1. KextInv /\ FirstInv /\ EarlyInv /\ [Next]_vars => EarlyInv'
  <2>1. ASSUME EarlyInv, UNCHANGED vars PROVE EarlyInv'
    <3>1. UNCHANGED <<bigSur, storedKexts, waiting, pc, cursor, live, kexts, khandlers>>
      BY <2>1 DEF vars, queueVars, initVars, kernelVars
    <3>2. FlaggedInv'
      BY <2>1, <3>1, FlaggedStays DEF EarlyInv
    <3>3. \A m : Awaited(m)' = Awaited(m)
      BY <3>1 DEF Awaited, LoadedWatched, RequestedOnce
    <3> QED
      BY <2>1, <3>1, <3>2, <3>3 DEF EarlyInv, WalkInv
  <2> QED
    BY <2>1, EarlyInit, EarlyLoader DEF Next
<1>2. KextInv /\ EarlyInv => EarlyKextsServed
  <2> SUFFICES ASSUME KextInv, EarlyInv, bigSur, pc = "done", NEW n \in live, kexts[n].when = "early",
                      LoadedWatched(n), RequestedOnce(n)
               PROVE  kexts[n].told > 0
    BY DEF EarlyKextsServed
  <2>1. bigSur = TRUE
    BY DEF KextInv, FlagsOK
  <2>2. kexts[n].told # 0
    BY <2>1 DEF EarlyInv, WalkInv, Awaited
  <2>3. kexts[n].told \in Nat
    <3>1. kexts[n] \in Kexts
      BY ElementOfSeq, LenProperties DEF KextInv, KmodsOK
    <3> QED
      BY <3>1 DEF Kexts
  <2> QED
    BY <2>2, <2>3
<1> QED
  BY <1>1, <1>2, InitEarly, KextInductive, FirstInductive, PTL DEF Spec
=============================================================================
