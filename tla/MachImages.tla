------------------------------ MODULE MachImages ------------------------------
(***************************************************************************)
(* How the kernel patcher finds out what the running kernel and kexts look *)
(* like: KernelPatcher::init and loadKinfo choose an image for each of     *)
(* them, MachInfo reads its header and symbols from a file, from the       *)
(* prelinked kernel or from memory, and updateRunningInfo relates it to    *)
(* the place of the running copy.  An attempt that fails is rolled back by *)
(* KernelPatcher::deinit and may be repeated.                              *)
(*                                                                         *)
(* Start-up runs on one thread at a time (module LiluBoot), and so does    *)
(* the handling of a loaded kext once start-up is over: this module is one *)
(* sequential process.  Its nondeterminism is the file system (what a path *)
(* holds, which read fails), memory (which allocation fails) and the       *)
(* kernel (which kexts it loads, and where).                               *)
(*                                                                         *)
(* A binary is known by its version: "now" is the running one, "old" any   *)
(* other, and their LC_UUIDs differ.  The contents of headers, symbol      *)
(* tables and dictionaries are left out: what matters is the version that  *)
(* each of them was taken from.                                            *)
(***************************************************************************)
EXTENDS Naturals, Sequences

CONSTANTS Kexts,          \* the kexts plugins ask for
          Kernel,         \* the object id of the kernel
          MaxCandidates,  \* bound: paths tried for one binary
          MaxRounds       \* bound: attempts to start

ASSUME MachImagesAssumption ==
    /\ Kernel \notin Kexts
    /\ MaxCandidates \in Nat
    /\ MaxRounds \in Nat

Version == {"now", "old"}
Form == {"plain", "compressed"}
Unknown == "unknown"                       \* a null pointer, a zero field
Place == {"prelinked", "elsewhere"}        \* where a kext may be loaded
KernelPlace == "kernel"                    \* where the running kernel is
Slide == {Unknown, KernelPlace} \cup Place

Source == Version \cup {Unknown}
Ids == Kexts \cup {Kernel}

\* MachInfo: where file_buf, prelink_dict, sym_buf, the processed header and
\* self_uuid come from; sym_buf_ro; prelink_slid; kaslr_slide by the place it
\* leads to, Unknown while kaslr_slide_set is false.
MachInfo == [id : Ids, file_buf : Source, prelink_dict : Source, sym_buf : Source,
             sym_buf_ro : BOOLEAN, header : Source, uuid : Source,
             prelink_slid : BOOLEAN, slide : Slide]

NewInfo(id) == [id |-> id, file_buf |-> Unknown, prelink_dict |-> Unknown,
                sym_buf |-> Unknown, sym_buf_ro |-> FALSE, header |-> Unknown,
                uuid |-> Unknown, prelink_slid |-> FALSE, slide |-> Unknown]

Blank == NewInfo(Kernel)

VARIABLES host,        \* what does not change: see Host
          creds,       \* does this attempt run with credentials (kern_mach.cpp:53)
          round,       \* number of the attempt
          pc,          \* what the patcher is doing
          paths,       \* the list of paths in use
          left,        \* how many paths of it are still to be tried
          load,        \* the MachInfo that MachInfo::init works on
          kinfos,      \* KernelPatcher::kinfos; kinfos[1] is kinfos[KernelID]
          prelinkInfo, \* the attempt KernelPatcher::prelinkInfo points into, or 0
          imageArr,    \* the attempt whose dictionary findImage's static is part of, or 0
          loadIndex,   \* KextInfo::loadIndex plus one, 0 for Unloaded
          running,     \* the running copy of each kext
          handlers,    \* kexts a handler waits for (their list: module KextListener)
          served,      \* running kexts whose load the plugins were told of
          heap         \* the buffers that are allocated

vars == <<host, creds, round, pc, paths, left, load, kinfos, prelinkInfo, imageArr,
          loadIndex, running, handlers, served, heap>>

(***************************************************************************)
(* The host: does it run a kernel collection (macOS 11), is a prelinked    *)
(* cache in use, which forms do the prelinked kernels on disk have, and    *)
(* which kexts did plugins ask for with the Reloadable flag.               *)
(***************************************************************************)
Host == [collection : BOOLEAN, prelinkedCache : BOOLEAN,
         forms : SUBSET Form, reloadable : SUBSET Kexts]

NotRunning == [version |-> Unknown, place |-> Unknown]
Running == {NotRunning} \cup [version : Version, place : Place]

Loading == {"search", "read", "prelink", "fail", "pass"}

TypeOK ==
    /\ host \in Host
    /\ creds \in BOOLEAN
    /\ round \in Nat
    /\ pc \in Loading \cup {"off", "lock", "running", "ready", "users", "up", "faulted"}
    /\ paths \in {"caches", "kernels", "kext"}
    /\ left \in Nat
    /\ load \in MachInfo
    /\ kinfos \in Seq(MachInfo)
    /\ prelinkInfo \in Nat
    /\ imageArr \in Nat
    /\ loadIndex \in [Kexts -> Nat]
    /\ running \in [Kexts -> Running]
    /\ handlers \in SUBSET Kexts
    /\ served \in SUBSET Kexts
    /\ heap \subseteq Nat \X Ids \X {"file_buf", "prelink_dict", "sym_buf"}

Init ==
    /\ host \in {h \in Host : h.forms # {}}
    /\ creds = FALSE
    /\ round = 0
    /\ pc = "off"
    /\ paths = "caches"
    /\ left = 0
    /\ load = Blank
    /\ kinfos = <<>>
    /\ prelinkInfo = 0
    /\ imageArr = 0
    /\ loadIndex = [k \in Kexts |-> 0]
    /\ running = [k \in Kexts |-> NotRunning]
    /\ handlers = {}
    /\ served = {}
    /\ heap = {}

-----------------------------------------------------------------------------
(* Buffers *)

\* The buffer that a field of this attempt's MachInfo of id points to.
Buf(id, field) == <<round, id, field>>

\* The buffers MachInfo::deinit gives back: sym_buf only when it is a copy.
Owned(info) ==
    {Buf(info.id, f) : f \in {g \in {"file_buf", "prelink_dict", "sym_buf"} :
                                /\ info[g] # Unknown
                                /\ g = "sym_buf" => ~info.sym_buf_ro}}

FileBuffers(info) == Owned(info) \ {Buf(info.id, "sym_buf")}

-----------------------------------------------------------------------------
(* Loading one binary: KernelPatcher::loadKinfo and MachInfo::init *)

FromFile == UNCHANGED <<host, creds, round, kinfos, prelinkInfo, imageArr, loadIndex,
                        running, handlers, served>>

\* MachInfo::init up to its first read: a kext of a collection needs no file,
\* and without credentials no file can be read.  Creating the MachInfo may fail.
BeginLoad(id, list, trusted) ==
    /\ paths' = list
    /\ load' = NewInfo(id)
    /\ left' = MaxCandidates
    /\ pc' \in {IF host.collection /\ id # Kernel THEN "pass"
                ELSE IF trusted THEN "search"
                ELSE IF host.collection THEN "pass" ELSE "fail",
                "fail"}

\* Mutant of IsCurrentKernel: any kernel with a UUID will do, as for kexts.
IsCurrentKernel_Any(version) == version \in Version

\* MachInfo::isCurrentBinary for the kernel: in a collection there is no check.
IsCurrentKernel(version) == host.collection \/ version = "now"

\* The rest of the search loop for a file whose header could be read.
Candidate(version, buf) ==
    LET found == load.id = Kernel => IsCurrentKernel(version)
    IN  /\ load' = [load EXCEPT !.file_buf = buf,
                                !.uuid = version,
                                !.header = IF found THEN version ELSE @]
        /\ pc' = IF found THEN "read" ELSE "search"

\* vnode_lookup or readMachHeader fails: no file, a read error, another format,
\* a compressed file that may not, or could not, be decompressed.
TrySkip ==
    /\ pc = "search" /\ left > 0
    /\ left' = left - 1
    /\ FromFile /\ UNCHANGED <<pc, paths, load, heap>>

TryPlain ==
    /\ pc = "search" /\ left > 0
    /\ paths = "caches" => "plain" \in host.forms
    /\ left' = left - 1
    /\ \E v \in Version : Candidate(v, load.file_buf)
    /\ FromFile /\ UNCHANGED <<paths, heap>>

\* Only prelinked kernels are compressed.  The buffer of an earlier candidate is
\* given back before the new one is made.
TryCompressed ==
    /\ pc = "search" /\ left > 0
    /\ paths = "caches" /\ "compressed" \in host.forms
    /\ left' = left - 1
    /\ \/ \E v \in Version : Candidate(v, v)
       \/ pc' = pc /\ load' = [load EXCEPT !.file_buf = Unknown]
    /\ heap' = (heap \ FileBuffers(load)) \cup FileBuffers(load')
    /\ FromFile /\ UNCHANGED paths

\* No suitable file: initFromFileSystem fails, initFromPrelinked is next.
NoneLeft ==
    /\ pc = "search" /\ left = 0
    /\ pc' = "prelink"
    /\ FromFile /\ UNCHANGED <<paths, left, load, heap>>

\* MachInfo::readSymbols takes them from the decompressed file if there is one,
\* else from the file that was found.
ReadSymbols ==
    /\ pc = "read"
    /\ \/ /\ load' = [load EXCEPT !.sym_buf = IF load.file_buf # Unknown THEN load.file_buf
                                              ELSE load.header]
          /\ pc' = "pass"
       \/ /\ UNCHANGED load
          /\ pc' = "prelink"
    /\ heap' = heap \cup Owned(load')
    /\ FromFile /\ UNCHANGED <<paths, left>>

\* MachInfo::updatePrelinkInfo on the kernel's MachInfo: the dictionary is read
\* from its file_buf, once, and may turn out to be unusable.
Prelinked ==
    LET kernel == kinfos[1]
    IN  IF kernel.prelink_dict = Unknown /\ kernel.file_buf # Unknown
        THEN {kernel, [kernel EXCEPT !.prelink_dict = kernel.file_buf]}
        ELSE {kernel}

\* The array is kept in a static and belongs to the dictionary of one attempt.
ImageArr(kernel) ==
    IF kernel.prelink_dict = Unknown \/ imageArr # 0 THEN imageArr ELSE round

\* The kext is in the prelinked kernel: its image there is of the version of
\* the kernel around it, and its symbols are relative to the place it has there.
FoundIn(kernel) ==
    [load EXCEPT !.header = kernel.prelink_dict, !.uuid = kernel.prelink_dict,
                 !.sym_buf = kernel.prelink_dict, !.prelink_slid = TRUE]

\* MachInfo::initFromPrelinked with findImage.  prelink is null for the kernel
\* and while there is no prelinkInfo; file_buf is borrowed and set back to null.
FromPrelinked ==
    /\ pc = "prelink"
    /\ IF load.id = Kernel \/ kinfos = <<>> \/ prelinkInfo = 0
       THEN pc' = "fail" /\ UNCHANGED <<load, kinfos, imageArr, heap>>
       ELSE \E kernel \in Prelinked :
              /\ kinfos' = [kinfos EXCEPT ![1] = kernel]
              /\ imageArr' = ImageArr(kernel)
              /\ \/ /\ kernel.prelink_dict = Unknown
                    /\ pc' = "fail" /\ UNCHANGED load
                 \/ /\ kernel.prelink_dict # Unknown /\ imageArr' # round
                    /\ pc' = "faulted" /\ UNCHANGED load
                 \/ /\ kernel.prelink_dict # Unknown /\ imageArr' = round
                    /\ \/ pc' = "pass" /\ load' = FoundIn(kernel)
                       \/ pc' = "fail" /\ UNCHANGED load
              /\ heap' = heap \cup Owned(kernel) \cup Owned(load')
    /\ UNCHANGED <<host, creds, round, paths, left, prelinkInfo, loadIndex, running, handlers, served>>

\* kinfos.push_back fails: the MachInfo is given up like one that was not filled.
StoreFails ==
    /\ pc = "pass"
    /\ pc' = "fail"
    /\ FromFile /\ UNCHANGED <<paths, left, load, heap>>

\* KernelPatcher::init after its first loadKinfo.
StoreKernel ==
    /\ pc = "pass" /\ load.id = Kernel
    /\ kinfos' = Append(kinfos, load)
    /\ prelinkInfo' = IF paths = "caches" THEN round ELSE prelinkInfo
    /\ load' = Blank
    /\ pc' = "lock"
    /\ UNCHANGED <<host, creds, round, paths, left, imageArr, loadIndex, running, handlers, served, heap>>

\* loadKinfo(KextInfo *) keeps the index in the plugin's KextInfo, and a handler
\* with that index is made.
StoreKext ==
    /\ pc = "pass" /\ load.id # Kernel
    /\ kinfos' = Append(kinfos, load)
    /\ loadIndex' = [loadIndex EXCEPT ![load.id] = Len(kinfos')]
    /\ handlers' = handlers \cup {load.id}
    /\ load' = Blank
    /\ pc' = "ready"
    /\ UNCHANGED <<host, creds, round, paths, left, prelinkInfo, imageArr, running, served, heap>>

\* KernelPatcher::deinit: every MachInfo is deleted, and none of its buffers.
RollBack == kinfos' = <<>>

\* Mutant of LoadFails: whoever uses a prelinked cache does not try the plain kernels.
LoadFails_CachesOnly ==
    /\ pc = "fail"
    /\ heap' = heap \ Owned(load)
    /\ IF load.id # Kernel
       THEN pc' = "ready" /\ UNCHANGED kinfos
       ELSE IF paths = "caches" THEN pc' = "lock" /\ UNCHANGED kinfos
       ELSE pc' = "off" /\ RollBack
    /\ load' = Blank
    /\ UNCHANGED <<host, creds, round, paths, left, prelinkInfo, imageArr, loadIndex,
                   running, handlers, served>>

\* loadKinfo failed: MachInfo::deinit.  A prelinked kernel is given up silently,
\* and the plain ones are tried unless prelinkInfo is set.
LoadFails ==
    /\ pc = "fail"
    /\ heap' = heap \ Owned(load)
    /\ \/ /\ load.id # Kernel
          /\ pc' = "ready"
          /\ load' = Blank /\ UNCHANGED <<kinfos, paths, left>>
       \/ /\ load.id = Kernel /\ paths = "caches" /\ prelinkInfo = 0
          /\ BeginLoad(Kernel, "kernels", creds) /\ UNCHANGED kinfos
       \/ /\ load.id = Kernel /\ paths = "caches" /\ prelinkInfo # 0
          /\ pc' = "lock"
          /\ load' = Blank /\ UNCHANGED <<kinfos, paths, left>>
       \/ /\ load.id = Kernel /\ paths = "kernels"
          /\ pc' = "off"
          /\ RollBack /\ load' = Blank /\ UNCHANGED <<paths, left>>
    /\ UNCHANGED <<host, creds, round, prelinkInfo, imageArr, loadIndex, running, handlers, served>>

-----------------------------------------------------------------------------
(* One attempt to start: KernelPatcher::init, the plugins, UserPatcher::init *)

\* prelinkKernelPaths come first when the kernel uses a prelinked cache.
BeginRound ==
    /\ pc = "off" /\ round < MaxRounds
    /\ round' = round + 1
    /\ creds' \in BOOLEAN
    /\ IF host.prelinkedCache THEN BeginLoad(Kernel, "caches", creds')
       ELSE IF prelinkInfo = 0 THEN BeginLoad(Kernel, "kernels", creds')
       ELSE pc' = "lock" /\ UNCHANGED <<paths, load, left>>
    /\ UNCHANGED <<host, kinfos, prelinkInfo, imageArr, loadIndex, running, handlers, served, heap>>

Idle == UNCHANGED <<host, creds, round, paths, left, load, prelinkInfo, imageArr,
                    loadIndex, running, handlers, served>>

\* kernelWriteLock
AllocLock ==
    /\ pc = "lock"
    /\ \/ pc' = "running" /\ UNCHANGED kinfos
       \/ pc' = "off" /\ RollBack
    /\ UNCHANGED heap /\ Idle

\* MachInfo::getRunningAddresses of the running copy of version v at place p.
\* In a collection the symbols are in memory and already slid.  Else the slide
\* of the kernel is the distance from the link address in the header that was
\* read, that of a kext its load address, or what the prelinked kernel implied.
Located(info, v, p) ==
    IF host.collection /\ info.sym_buf = Unknown
    THEN [info EXCEPT !.sym_buf = v, !.sym_buf_ro = TRUE, !.header = v,
                      !.prelink_slid = TRUE, !.slide = p]
    ELSE [info EXCEPT !.slide = IF info.id # Kernel
                                THEN IF info.prelink_slid THEN "prelinked" ELSE p
                                ELSE IF host.collection \/ info.header # v THEN "elsewhere"
                                ELSE p]

\* kinfos[KernelID] is used whether or not there is one.
KernelRunning ==
    /\ pc = "running"
    /\ \/ /\ kinfos = <<>>
          /\ pc' = "faulted" /\ UNCHANGED kinfos
       \/ /\ kinfos # <<>>
          /\ pc' = "ready"
          /\ kinfos' = [kinfos EXCEPT ![1] = Located(@, "now", KernelPlace)]
       \/ /\ kinfos # <<>>
          /\ pc' = "off" /\ RollBack
    /\ UNCHANGED heap /\ Idle

\* LiluAPI::processPatcherLoadCallbacks asks for the kexts of the plugins.  One
\* that has a loadIndex already only gets another handler.
LoadKext(k) ==
    /\ pc = "ready"
    /\ \A i \in 1..Len(kinfos) : kinfos[i].id # k
    /\ IF loadIndex[k] # 0
       THEN /\ handlers' = handlers \cup {k}
            /\ UNCHANGED <<pc, paths, left, load>>
       ELSE BeginLoad(k, "kext", creds) /\ UNCHANGED handlers
    /\ UNCHANGED <<host, creds, round, kinfos, prelinkInfo, imageArr, loadIndex, running, served, heap>>

\* Mutant of FreeFileBuffers: the dictionary is forgotten, not released.
FreeFileBuffers_KeepsDict ==
    /\ pc = "ready"
    /\ pc' = "users"
    /\ kinfos' = [kinfos EXCEPT ![1].file_buf = Unknown, ![1].prelink_dict = Unknown]
    /\ heap' = heap \ {Buf(Kernel, "file_buf")}
    /\ Idle

\* KernelPatcher::freeFileBufferResources, at the end of the callbacks.
FreeFileBuffers ==
    /\ pc = "ready"
    /\ pc' = "users"
    /\ kinfos' = [kinfos EXCEPT ![1].file_buf = Unknown, ![1].prelink_dict = Unknown]
    /\ heap' = heap \ FileBuffers(kinfos[1])
    /\ Idle

\* UserPatcher::init, which has nothing to do (and cannot fail) from macOS 11 on.
UserInit ==
    /\ pc = "users"
    /\ \/ pc' = "up" /\ UNCHANGED kinfos
       \/ ~host.collection /\ pc' = "off" /\ RollBack
    /\ UNCHANGED heap /\ Idle

-----------------------------------------------------------------------------
(* Kexts come and go: processKext, processKextLoadCallbacks, updateRunningInfo *)

\* MachInfo::isCurrentBinary for a loaded kext
IsCurrentKext(info, k, version) ==
    host.collection \/ (info.id = k /\ info.uuid = version)

\* Mutant of UpdateRunning: addresses that are known are not calculated again.
UpdateRunning_NotForced(info, force, version, place) ==
    IF info.slide # Unknown THEN {info} ELSE {info, Located(info, version, place)}

\* getRunningAddresses(slide, size, force), which forgets the old slide first if
\* it is forced, and may fail.
UpdateRunning(info, force, version, place) ==
    LET known == IF force THEN [info EXCEPT !.slide = Unknown] ELSE info
    IN  IF known.slide # Unknown THEN {known}
        ELSE {known, Located(known, version, place)}

\* The kernel loads a kext: its handler looks at the MachInfo it has the index of.
\* The kexts of a collection are part of it and keep their place.
KextLoads(k, version, place) ==
    /\ pc = "up" /\ running[k] = NotRunning
    /\ host.collection => version = "now" /\ place = "prelinked"
    /\ running' = [running EXCEPT ![k] = [version |-> version, place |-> place]]
    /\ \/ /\ k \notin handlers
          /\ UNCHANGED <<pc, kinfos, handlers, served>>
       \/ /\ k \in handlers /\ loadIndex[k] > Len(kinfos)
          /\ pc' = "faulted"
          /\ UNCHANGED <<kinfos, handlers, served>>
       \/ /\ k \in handlers /\ loadIndex[k] <= Len(kinfos)
          /\ ~IsCurrentKext(kinfos[loadIndex[k]], k, version)
          /\ UNCHANGED <<pc, kinfos, handlers, served>>
       \/ /\ k \in handlers /\ loadIndex[k] <= Len(kinfos)
          /\ IsCurrentKext(kinfos[loadIndex[k]], k, version)
          /\ \E info \in UpdateRunning(kinfos[loadIndex[k]], k \in host.reloadable, version, place) :
               kinfos' = [kinfos EXCEPT ![loadIndex[k]] = info]
          /\ served' = served \cup {k}
          /\ handlers' = IF k \in host.reloadable THEN handlers ELSE handlers \ {k}
          /\ UNCHANGED pc
    /\ UNCHANGED <<host, creds, round, paths, left, load, prelinkInfo, imageArr, loadIndex, heap>>

KextUnloads(k) ==
    /\ pc = "up" /\ running[k] # NotRunning
    /\ running' = [running EXCEPT ![k] = NotRunning]
    /\ served' = served \ {k}
    /\ UNCHANGED <<host, creds, round, pc, paths, left, load, kinfos, prelinkInfo, imageArr,
                   loadIndex, handlers, heap>>

-----------------------------------------------------------------------------
Next ==
    \/ BeginRound \/ TrySkip \/ TryPlain \/ TryCompressed \/ NoneLeft \/ ReadSymbols
    \/ FromPrelinked \/ StoreFails \/ StoreKernel \/ StoreKext \/ LoadFails
    \/ AllocLock \/ KernelRunning \/ FreeFileBuffers \/ UserInit
    \/ \E k \in Kexts : LoadKext(k) \/ KextUnloads(k)
    \/ \E k \in Kexts, v \in Version, p \in Place : KextLoads(k, v, p)

Spec == Init /\ [][Next]_vars

-----------------------------------------------------------------------------
(* Properties *)

KernelResolved == kinfos # <<>> /\ kinfos[1].slide # Unknown

\* Symbols of the kernel are solved from the symbol table of the running kernel
\* and with its slide, unless compressed and plain prelinked kernels are mixed
\* (AnyOrder), or files are used although the kernel is part of a collection,
\* where isCurrentBinary checks nothing.
SymbolsGenuine ==
    KernelResolved /\ host.forms # Form /\ ~(host.collection /\ creds)
      => /\ kinfos[1].id = Kernel
         /\ kinfos[1].sym_buf = "now"
         /\ kinfos[1].header = "now"
         /\ kinfos[1].slide = KernelPlace

\* kern_patcher.hpp:863: "Since we always verify the LC_UUID value, trying the
\* kernels could be done in any order."  The symbols would have to be those of the
\* running kernel whatever the earlier candidates were.
AnyOrder == KernelResolved /\ ~host.collection => kinfos[1].sym_buf = "now"

\* When plugins are told of a kext, the MachInfo under the id they are given is that
\* of this kext in the version that runs, with symbols of that version, and its
\* slide, when it is known, leads to the copy that runs now, not to an earlier one.
\* (The slide of a prelinked image is taken to be the prelinked one.)
CallbackSound ==
    \A k \in served :
      LET info == kinfos[loadIndex[k]]
      IN  /\ info.id = k
          /\ info.slide # Unknown =>
               /\ info.header = running[k].version
               /\ info.sym_buf = running[k].version
               /\ info.slide = IF info.prelink_slid THEN "prelinked" ELSE running[k].place

\* During an attempt the buffers that are allocated are exactly those that a
\* MachInfo still points to and will give back: none is lost when an image is
\* refused, taken from the prelinked kernel or given up, and none is freed twice.
\* (What an attempt that is rolled back leaves behind is lost: RollBack.)
BuffersOwned ==
    pc # "off" =>
      {b \in heap : b[1] = round}
        = Owned(load) \cup UNION {Owned(kinfos[i]) : i \in 1..Len(kinfos)}

\* Pointers are only followed to what is gone (the MachInfo of the kernel, the
\* prelinked dictionary, the MachInfo of a handler) in an attempt that repeats
\* one that was rolled back after it had used a prelinked kernel or got as far as
\* loading kexts.
FaultsOnlyOnRetry ==
    pc = "faulted" => round > 1 /\ (host.prelinkedCache \/ \E k \in Kexts : loadIndex[k] # 0)

=============================================================================
