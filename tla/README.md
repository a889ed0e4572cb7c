# A verification development for Lilu

Lilu is a macOS kernel extension that lets other extensions (plugins) patch the kernel, kernel extensions and user
processes while the system starts. This directory holds TLA+ models of its own code under `src/Lilu`, the TLC
configurations that check them on small instances, and theorems about them proved with TLAPS. Paths below are relative
to `src/Lilu/Sources` unless they say otherwise; `PROJECT.json` gives, for every definition, the lines it models.

## 1. Inventory

| Part | State | Operations | What makes it hard |
|---|---|---|---|
| Start-up (`kern_start.cpp`, `PrivateHeaders/kern_config.hpp`) | `startSuccess`, `initialised`, `policyLock`, the installed hook | `kern_start`, `registerPolicy`, `performEarlyInit`, `initConsole`, `policyInit`, `performInit`, `performCommonInit` | hooks entered by several CPUs, work handed to a thread call outside the lock, failed attempts that are rolled back and retried |
| LiluAPI (`kern_api.cpp`, `Library/plugin_start.cpp`) | the access lock, `apiRequestsOver`, the lists of stored callbacks | `requestAccess`, `releaseAccess`, `shouldLoad`, `onPatcherLoad`, `onKextLoad`, ..., `finaliseRequests`, `activate` | plugins register while a hook fires; lists are iterated without the lock after they are closed |
| Kext listener (`kern_patcher.cpp`) | `kinfos`, `khandlers`, `that`, `waitingForAlreadyLoadedKexts`, `activated`, `isKextUnloading`; the kernel's kmod list | `loadKinfo`, `setupKextListening`, `onOSKextSaveLoadedKextPanicList`, `onOSKextUnload`, `processKext`, `processAlreadyLoadedKexts`, `activate` | no lock: the initialising thread and the loader share `khandlers` and are separated by two flags only |
| Function routing (`kern_patcher.cpp`) | `kpatches`, jumps in kernel text, address slots, trampolines | `routeFunction*`, `routeMultiple*`, `createTrampoline`, `readChain`, `deinit` | a jump may be taken the moment it is written; several plugins route one function; every step may fail |
| Binary patching (`kern_patcher.cpp`) | the code that is patched | `findPattern`, `findAndReplaceWithMask`, `applyLookupPatch` | boundaries of the search; the lock is taken between finding and writing |
| Memory protection (`kern_mach.cpp`) | CR0.WP and EFLAGS.IF of each CPU, two static variables, `kernelWriteLock` | `setKernelWriting`, `setInterrupts`, `setWPBit` | the saved register values are shared by all CPUs |
| MachInfo (`kern_mach.cpp`) | kernel and kext images, symbol tables, slides, buffers; a static pointer into a dictionary | `init`, `initFromFileSystem`, `initFromPrelinked`, `initFromMemory`, `readSymbols`, `getRunningAddresses`, `deinit`, with `loadKinfo` and `updateRunningInfo` of KernelPatcher | candidates that are refused half-way, buffers that are owned, borrowed or mapped, attempts that are rolled back |
| UserPatcher: executions (`kern_user.cpp`) | `pending` (`ThreadLocal`, `Headers/kern_util.hpp`), `PendingUser`s on the heap | `execListener`, `onPath`, `taskSetMainThreadQos`, `patchBinary` | a lock-free array used by all threads; a request crosses two kernel calls of one thread |
| UserPatcher: pages (`kern_user.cpp`) | `lookupStorage`, `lookup` | `loadFilesForPatching`, `loadLookups`, `hookMemoryAccess`, `performPagePatch` | a page is recognised from a few of its words; patches of several binaries meet |
| UserPatcher: shared cache, payloads (`kern_user.cpp`) | stored slide with its flag, one buffer for headers, the places to patch | `patchBinary`, `injectRestrict`, `injectPayload`, `patchSharedCache`, the shared region hooks | processes share slide and buffer without a lock; a header is rewritten in two calls |
| NVStorage (`kern_nvram.cpp`, `kern_crypto.cpp`) | NVRAM variables | `read`, `write`, `remove`, `compress`, `decompress` | conversions in a fixed order, stored bytes that may change, requirements of the reader |
| CircularBuffer (`Headers/kern_util.hpp`) | ring, two indices, a count, a recursive lock | `push`, `pop` | several threads; full and empty look alike |
| RTCStorage (`kern_rtc.cpp`) | the index ports of the clock, the service | `readDirect`, `writeDirect`, `read`, `write` | index and data port are two accesses, the clock belongs to the whole machine; a checksum |
| Debug log, EFI, CPU, devices, files, disassembler, compression, utilities | small or none | see `PROJECT.json` | mostly I/O or sequential code |

How they interact: `Configuration` calls `LiluAPI` to close the lists and to run the stored callbacks; the callbacks call
back into `KernelPatcher` and `UserPatcher` to queue kexts, to route functions and to patch; `KernelPatcher` uses
`MachInfo` to find images and symbols and to lift write protection; `UserPatcher` routes kernel functions with
`KernelPatcher` and is called by the kernel on every execution and every page validation. The kernel itself (its kmod
list, its thread calls, its locks, its MAC policies) appears in the models as the environment; such definitions are
external in `map`.

What must hold, by part: one initialisation at a time and none after success; every registered callback runs, exactly
once per initialisation, and no plugin touches a list that is iterated; every watched kext is handled once per load,
whichever way the race with `activate` goes; a routed function always reaches every plugin's wrapper and the original;
registers are given back as they were found; a thread finds its own request and no other's; a page of another file is
never taken for one that is to be patched, and such a page is recognised; what was written to NVRAM is read back or refused.

## 2. Modules

| Module | Models | Implements | Proofs |
|---|---|---|---|
| `LiluBoot` | start-up, LiluAPI and plugin start, composed | - | `LiluBootProofs` |
| `KextListener` | kext listener with the kernel's kmod list | - | `KextListenerProofs` |
| `UserPending` | `execListener`, `onPath`, `taskSetMainThreadQos` and `ThreadLocal` at the grain of its atomic operations | `ThreadMap` | `UserPendingProofs` |
| `Router` | function routing, chains, slots, trampolines, stored patches, `deinit` | - | `RouterProofs` |
| `KernelWriting` | `setKernelWriting` and what it calls, one action per register or lock access | - | `KernelWritingProofs` |
| `FindReplace` | binary patches, on top of `KernelWriting` | `KernelWriting` | `KernelWritingProofs` |
| `MachImages` | images of the kernel and of kexts, from the choice of a file to the slide of the running copy | - | `MachImagesProofs` |
| `PagePatch` | page patching from the registration of files to `performPagePatch` | - | `UserPatcherProofs` |
| `UserInjection` | what is done to a process: header, payload, shared cache | - | `UserPatcherProofs` |
| `NVStorage` | reading, writing and removing values | - | `StorageProofs` |
| `RTCStorage` | direct transfers to and from the memory of the clock | - | `StorageProofs` |
| `CircularBuffer` | `push` and `pop` under the lock, step by step | `BoundedQueue` | `StorageProofs` |

Each `MC...` module instantiates one of them for TLC, or several that share no variable, of which one is at work in each
behaviour: `MCKernelWriting` has `FindReplace`, which extends `KernelWriting`; `MCUserPatcher` has `PagePatch` and
`UserInjection`; `MCStorage` has `CircularBuffer`, `NVStorage` and `RTCStorage`. A definition named `X_Y` is a mutant of `X`: `X` as a plausible bug
would write it. It is used by no specification; it stands next to `X` so that a reader sees what each property rules
out (`mutants` in `PROJECT.json`).

### LiluBoot

Threads are the callers of the start-up hook, any number of them, and the `Worker` of the thread call that `initConsole`
fires from Big Sur on. `plugin[p]` is the place of each plugin in its `kern_start`; `phase[t]` that of each thread.
`access` and `policyLock` are owned by a plugin or a thread, so waiting is part of the model. `stored` is the list of
LiluAPI vectors in order. An initialisation may fail at the points where the code can (`Faults`), at most `MaxFailures`
times, and is then rolled back and retried by the next policy hook, as in `performCommonInit`. The one failure after which
nothing is retried is that of the thread call's allocation (`kern_start.cpp:104`): `initialised` is set by then. The parsing of boot
arguments is one choice: whether Lilu is disabled.

Boot goes on in steps as fine as the locks and shared flags: the callbacks are one step each, since a plugin may enter
between them if the code allowed it.

### KextListener

Three actors: the initialising thread (`pc`), the thread that loads and unloads kexts through the two hooked OSKext
functions (`lpc`), and the plugins' requests, a constant list. kmods are numbered in the order in which they were
loaded; `cursor` and `lcursor` are the two walks over the kmod list. The code separates the two users of `khandlers`
by `waitingForAlreadyLoadedKexts` and `activated`; the model keeps each access to those flags a step of its own.
`panicked` records that freed memory or the end of a vector was touched, after which nothing is claimed. `SetupKextListening`
has the case that the first route fails with EINVAL, which is taken for a wrapper, and the second one clears the error: set-up then
succeeds with the unload function unrouted. Loading one
kext at a time is the kernel's OSKext lock.

### UserPending and ThreadMap

`ThreadLocal` is two arrays, `threads` and `values`. `set` looks for its own slot, then tries to claim a free one by
compare-and-swap, slot by slot; `erase` resets the value and frees the slot in two steps. `heap` holds the `PendingUser`s
that are allocated, a request being the execution that made it. Which paths match a `ProcInfo` is a choice. `ThreadMap`
is the promise: in each step one thread changes its own entry only, to what it asked to store or to nothing.

### Router

A function (`Routables`) has a jump (none, short, medium, long) and its target; a request (`RouteIds`) has options: the
`reach` of its target (near, far, short, or a short jump that cannot reach it), the call it comes `via` (`routeMultiple`,
`routeFunction`, or `routeFunction` without reverting), and whether it wants a `wrapper`, that is, the original. Requests are made one after another (the API is used by one thread at a time) while other
CPUs may call the functions at any moment, which is why `ChainComplete` is an invariant of every state. `kpatches` is a sequence
with its allocated size, since its growth can fail between the parts of one jump. Once the code reaches a panic or
undefined behaviour `stopped` says so and nothing more happens. The jump is written in one step: the two stores of an
unaligned function are accepted by a comment in the code.

### KernelWriting

`pc[c]` walks each CPU through `setKernelWriting`, including the paths of a CPU whose CR0 cannot be changed
(`Stubborn`, a hypervisor): write protection may stay on, so that the call is refused, or stay off when it is to be set
again, which the callers report; `unset` remembers that it did. `interruptsDisabled` and `writeProtectionDisabled` are the static variables of the code,
shared by all CPUs. `found` is what the registers were when the call began, for the properties only.

### FindReplace

Extends `KernelWriting`: a CPU that is to write takes the lock and lifts the protection by that module's own actions. A byte is a bit; a
call is a record of the arguments. `findAndReplaceWithMask` looks for an occurrence one place after the other, takes the lock, and
writes without looking again; `applyLookupPatch` takes the lock once. `alone` remembers whether another CPU has changed the code
since a call began, and `places` where `applyLookupPatch` has written: a replacement may complete an occurrence that the search has
passed, and only such an occurrence may be left.

### MachImages

One sequential process, since start-up and the handling of kexts are (`LiluBoot`, `KextListener`); what varies is the file system, memory,
and where the kernel loads kexts. A binary is known by its version, "now" for the running one, and every field of a `MachInfo` by
the version it was taken from. `heap` holds the buffers that are allocated, marked with the attempt they belong to; `imageArr` is the
static of `findImage`, and `prelinkInfo` the member of `KernelPatcher`, each with the attempt whose objects it points into.

### PagePatch

Memory is cells of 8 bytes, the width of a lookup value. The sections of the binaries are chosen in the initial state. A page that the
kernel validates is any page at all, with any cells behind it (`Behind`): lookups may read there, and a replacement that begins at the end of a page is
written on into them. `loadFilesForPatching` is one action per place that is compared with a patch, `loadLookups` one per lookup offset.
An entry is looked up by the offset of its page alone, so findings of several binaries may meet in one, which has the page and the patches of the
first; `mods` remembers whose they are. Validating such a page writes the patches of the first binary at the places of both, or, if a
number is beyond its patches, whatever lies there (`Outcome`).

### UserInjection

One thread per process. The header pages of a process are a record that says whose counts, whose added command and whose contents
they hold, so that a mixture of two processes can be seen. `tmp` is `tmpBufferData`, shared by all threads. Every call of the kernel
(reading, writing, changing a protection) may fail. The places of the shared cache are a set.

### NVStorage

A stored value is a datum under layers of conversion, with the options its header records. Undoing the wrong layer, or with
the wrong key, is refused or yields garbage: both are explored. `Damage` is any change of the stored bytes. Calls are
answered one at a time; a sensitive removal is two steps with other calls in between.

### RTCStorage

One action per access to a port; between two accesses an interrupt (if it is enabled), or another CPU, may select another byte. `Accesses` is
the list of bytes that a request touches, including those that are read for the checksum. The checksum is the pair of halves of what is
hashed. Only the direct functions are modelled.

### CircularBuffer and BoundedQueue

A call begins, takes the lock, tests (the nested locking of `isFull` and `isEmpty` is no step for the owner), stores,
advances and unlocks. The refinement maps the elements between the two indices, in order, to the queue.

## 3. Runs

"violation" runs state what a comment, a document or a log line of the repository says and show that the code does
otherwise; `findings` in `PROJECT.json` quotes the line and tells the story of the counterexample.

| Run | Shows |
|---|---|
| `boot_safety` (`MCLiluBoot.cfg`) | `OneInitialiser`, `NoPluginInside`, `PatcherUp`, `ActivatedAfterCallbacks`, `NothingDangling`, `NoReinit`: Two plugins register while two threads race through the start-up hooks, with every call that can fail failing up to twice: one initialiser at a time, no registration while callbacks run, no repeated or half rolled back initialisation. |
| `boot_liveness` (`MCLiluBootLive.cfg`) | `HookReturns`, `EventuallyActive`, `PluginServed`: Hook calls that were entered, fired threads and plugin starts go on; no hook has to be entered. Every call returns, and a call that finds Lilu uninitialised leads to both patchers active and every registered plugin called, or to one more failed attempt, on either start-up path, with every call that can fail failing and after failed attempts. |
| `kext` (`MCKextListener.cfg`) | `HandlersExclusive`, `BigSurHandlersIndexed`, `HandledOnce`, `EarlyKextsServed`, `LateKextsServed`: Two requests of two plugins are queued, with every call that can fail failing and one repeated initialisation, while two kexts are loaded and unloaded at any moment: the unlocked handler list has one user at a time, its entries point at their MachInfo, no kext that nobody wants reloadable is handled for two loads, and from Big Sur on kexts that were there before activate and kexts loaded after it are handled. |
| `kext_gap` (`MCKextListenerGap.cfg`, violation) | `NoLoadedKextMissed`: A kext whose load ends after activate passed the head of the kmod list and before activated is set is never handled. |
| `pending` (`MCUserPending.cfg`) | `TypeOK`, `SlotsExclusive`, `ImplementsThreadMap`: Three threads execute binaries and race for two slots: no slot is shared, no thread has two, and the array behaves like a map in which every thread touches its own entry only. |
| `pending_freed` (`MCUserPendingFreed.cfg`, violation) | `StoredNotFreed`: taskSetMainThreadQos gives its slot back and then deletes what the slot holds, which by then may be the request of another thread. |
| `router` (`MCRouter.cfg`) | `TypeOK`, `ChainComplete`, `DeinitRestores`, `NeverGrows`: Three requests of every kind on two functions with two address slots, every failure and deinit at any moment: a call always finds the whole chain, a later jump never covers more bytes than the first, deinit gives every function back, and slots are not overrun. |
| `writing` (`MCKernelWriting.cfg`) | `RegistersRestored`, `WriterPrepared`, `ReplacedAsAsked`, `LockReleased`: Two CPUs patch the same code with findAndReplaceWithMask or applyLookupPatch, from any registers, and one has a CR0 that may refuse to clear write protection, or to set it again: registers come back as they were found but for that bit, a writer is alone, the lock is given back also after a failure, and the occurrences asked for are written over and nothing else. |
| `user_patcher` (`MCUserPatcher.cfg`) | `PlacesAsTold`, `PagesServed`, `ChangedAsAsked`, `SlideGiven`, `ProcessServed`: Two binaries whose findings may meet in one entry, with patches that overlap, straddle pages, are skipped, counted, switched off or for chosen processes, over every section of the first, and every page the kernel may validate with every memory behind it: the entries hold the places the patches are for, the pages are recognised, and what is written, in the page or behind it, is what was asked for. Or two processes executed at the same time, with every call of the kernel failing: the shared cache is patched at slides the kernel gave, and processes keep a header they can start with. |
| `storage` (`MCStorage.cfg`) | `ReadBack`, `ChecksumGuards`, `RequirementsKept`, `TransferExact`, `Implements`, `CallsReturn`: Every combination of options, keys, damage, wiping and missing memory on one variable: reading undoes writing, a required checksum rules garbage out, and required options are enforced. Or two direct transfers to and from the memory of the clock, with interrupts and another CPU using the same ports: the bytes and the checksum asked for arrive. Or two threads push and pop on a ring of three places, which implements a queue, and every call returns. |
| `kernel_images` (`MCMachImages.cfg`) | `SymbolsGenuine`, `CallbackSound`, `BuffersOwned`, `FaultsOnlyOnRetry`: One kernel and two kexts are loaded from files, the prelinked kernel or memory, with every read and allocation failing, one repeated attempt, and kexts that are loaded, unloaded and loaded elsewhere: symbols and slides are those of what runs, buffers are neither lost nor freed twice within an attempt, and only a repeated attempt follows dangling pointers. |
| `kernel_order` (`MCMachImagesOrder.cfg`, violation) | `AnyOrder`: A prelinked kernel that is compressed and refused, followed by a plain one that is accepted: the symbols are read from the refused one. |

### Bounds

* `LiluBoot`: two plugins, two callers and the worker. Two callers are enough for every race on `policyLock` and
  `initialised`, since a third could only repeat what the second does; two plugins for one that is inside the API while
  another has registered. Two failures make a retry after a retry. The liveness run has one plugin, and every fault.
* `KextListener`: two kexts, lists of requests in which an object may be passed twice, two loads, one repeated initialisation. Every load may end before, during or after `activate`;
  two of them give a first load and one that finds the flags as the first left them, an unload and a load of the same kext,
  and the race of each with the walk. `kext_gap` needs one load.
* `UserPending`: three threads and two slots, so that slots run out; four executions let a slot be used, released and
  used by another thread. Threads are interchangeable.
* `Router`: three requests give every order of the kinds of jump on top of each other; two functions show that slots and
  patches are not mixed up, and that one function's failure leaves the other's patches alone. Two slots run out.
  Requests, and functions, are interchangeable.
* `KernelWriting` and `FindReplace`: two CPUs, one of them stubborn; the lock serialises them. Five texts of four bits and five calls: occurrences
  that overlap, are passed over, counted, masked, made by a replacement, at either end, and a kext that is not loaded.
* `MachImages`: the kernel and two interchangeable kexts, two candidates per list, so that one is refused and the next accepted, and two attempts, since
  what an attempt leaves behind is met by the next one.
* `PagePatch`: two binaries with two pages of four cells over two values, so that findings of both meet in either page. All contents of the first are
  initial states, with two of the second: one with a patch up to the border of a page and across it, one with something in both pages.
  The patches overlap, straddle the border, are passed over, counted, switched off and `LocalOnly`, and the second binary has a patch with a
  number the first does not have. Three cells behind a page are what lookups and patches can reach. `matchNum` (`MatchNum`) keeps its value
  4. One page is validated in a behaviour: a validation leaves nothing behind but the memory.
* `UserInjection`: two processes at once, slides 0 and 1, one place of the shared cache. The second process maps a slid region with the place
  in it; the first an unslid region, with the place or without it. A third process could only overlap with one of two as they do with each other.
* `RTCStorage`: banks of four bytes, all requests of two bytes at offsets within a bank, across the banks, over the checksum and past the end, two
  requests in a row, one initial memory (the bytes are only moved), interrupts on or off.
* `NVStorage`: one variable, since variables do not share state, two data, two keys and no key, all sets of options.
* `CircularBuffer`: two threads, three places, two elements; the ring is full, empty and wrapped around.

### Fairness

* `LiluBoot` (`FairSpec`): a call of a hook that was entered, the worker once it was fired, and a plugin inside the API go on running (`CallStep`,
  `PerformCommonInit`, `ReleaseAccess`). All are straight line code without waiting for an event, apart from the two locks, which the model has. Nothing
  forces a hook to be entered (`EnterHook` has no fairness): that the kernel comes by once more after a failed attempt is
  nothing the code could see to. So `EventuallyActive` and `PluginServed` speak of a call that is under way (`Underway`): from it follow
  both patchers active, and every registered callback run, or one more failed attempt. What follows that attempt is the next
  call's, if there is one; after a thread call that could not be allocated there is none that would do anything.
* `KernelWriting` (`FairSpec`): a CPU inside `setKernelWriting` runs on; interrupts are off, so nothing can keep it from
  doing so. Taking the lock is not assumed fair. The safety properties of the run do not need fairness.
* `FindReplace` (`FRSpec`): that, and a CPU that is inside a call goes on with it (`Work`).
* `CircularBuffer` (`FairSpec`, repeated in `MCStorage`): the owner of the lock runs on (weak fairness) and a waiter is not passed over for ever (strong
  fairness of `Lock`), which is what the kernel's sleeping lock gives a finite number of threads.

No other run assumes fairness. `CHECK_DEADLOCK FALSE` stands where the system may come to rest: Lilu is started once, the
numbers of executions, loads and requests are bounded, and a page patcher that was not set up does nothing.

## 4. Proofs

The theorems hold for every value of the constants that satisfies the named assumptions. Each module of proofs states an
inductive invariant as a conjunction of named parts, shows that every action keeps it, and derives the properties.

* `LiluBootProofs`, for any number of plugins, callers and failures: `InitInv` is `TypeOK` with `LockInv` (who
  holds `policyLock` and `access` where), `HookInv` (which hook is installed at which stage of the boot), `WorkerInv`
  (when the thread call runs), `PatcherInv` (when the kernel patcher is up) and `NoPluginInside`. `OneInitialiser` alone is not
  inductive: `initConsole` sets `initialised` and gives the lock back before the worker has begun, so the invariant must
  say that the worker is the only thread that initialises from then on. From it: `Typing`, `MutualExclusion`,
  `NoRegistrationRace`, `CallbacksFindPatcher`, `ListsFrozen`, `InitialisedOnce`. Two more invariants rest on it. `StayInv` says which plugins
  have entries in the lists at all and when Lilu may still stop; it gives `NothingDangles`. `CallInv` says that the callbacks
  before the cursor of the loop have run, that the vector has no callback twice (`RemoveAtKeeps` for the erasure when a plugin is refused),
  and that on the console path those from the cursor on have not; it gives `ActivatedInOrder`.
* `KextListenerProofs`, for any requests, kexts and loads: `KextInv` is the type invariant with `PhaseInv` (the hook looks at handlers only once
  `activate` is over), `LoadedInv` (a `KextInfo` that was loaded, and the one in hand, has the index of a MachInfo of its kext) and
  `HandlersInv`. From it: `KextTypes`, `HandlersAreExclusive`, `HandlersAreIndexed`. `ServeInv` adds what a late kext needs: the save function is
  routed and `that` is set before there is a handler, `activate` leaves no walk for later, `isKextUnloading` is only set during an unload, and
  the only unserved kext is the head of the list while its load is not over. From it: `LateKextsAreServed`. `EarlyInv`, for the kexts that are there
  before: a handler that asked for loaded kexts has made the walk due, and the unserved kexts are those the cursor of the walk still comes to. From it:
  `EarlyKextsAreServed`. `KextsAreHandledOnce` needs two more. `FirstInv` traces every MachInfo, every loaded object and every reloadable handler of the
  first initialisation to a request of the loop; `OnceInv` gives a kext one MachInfo, before that nothing, with it one handler, and after that the
  one load for which the handler was used. Its hypotheses are those the code needs: a reloadable handler stays by design, an object that is
  passed twice adds a handler to a kext that may have been handled already, and a repeated initialisation starts over. Assumed is that requests of one
  `KextInfo` object are for one kext (`InfosAssumption`), the identifier being a field of it.
* `UserPendingProofs`, for any number of threads and slots: `PendingInv` is `TypeOK`, `SlotsExclusive` and `SlotlessInv`: a
  thread that has released its slot, or looks for one, has none, so that claiming one never gives it two. From it: `SlotTypes`, `SlotsAreExclusive`. `Refinement` shows that the array implements `ThreadMap`: the entry of a
  thread is the value in the slot that carries its name, if any.
* `RouterProofs`, for any number of functions, requests and slots: `RouteInv` is `Types`, with `OneAtATime` (a request at a time
  is being made, none after `deinit`), `Unrouted`, `Fitting` (the jump that is about to be written is not longer than the one in place, and the trampoline leads to what
  the function leads to), `Continuing` (a request whose jump is written has what it found as its original), `PristineStored` and `RoutesStored`
  (what is stored for `deinit` is the code before the first route, and every routed function has such a patch or a permanent route), `Chains`,
  and `DeinitRestores` itself. `Chains` says that the requests of a function can be listed, the latest first, so that each one continues with
  the next and the last one with the body; from the list `CallsPassTheChain` follows by walking along it. From the rest: `RouterTypes`, `DeinitGivesBack`,
  and, from `Fitting`, the action property `JumpsNeverGrow`. Much of the proof is about `kpatches`, whose growth may fail between the parts of one jump.
* `KernelWritingProofs`, for any number of CPUs: `KInv` is the conjunction of `PlaceOK` and `RegistersOK` (types), `Held` (a
  CPU inside holds the lock), and `InterruptsKnown` and `ProtectionKnown`, which say for every step what the registers
  of a CPU and the static variables are in terms of what it found. Without the ownership the shared
  statics could be anyone's. From it: `KernelTypes`, `RegistersAreRestored`, `WriterIsPrepared`. Then `FindReplace`, for any code, patterns, masks,
  counts and skips: `PatchingIsWriting` shows that its steps are steps of `KernelWriting` or leave it alone, so that `KInv` holds of
  them, and with it `CodeIsWrittenPrepared`, that no byte changes without the lock. `CodeIsReplacedAsAsked` is about what the search
  computes. The property defines the occurrences that count as the greedy choice from the left, with `CHOOSE`; `SpacedExists` shows that there is one
  choice for any code and pattern. The invariant, `Patches`, relates the loop to it while the call is alone with the code: the search is never inside
  an occurrence that counts, those behind it are as many as have been skipped and written over (`Numbers`), the code is already what is asked for
  behind the search and still what it was ahead of it (`PartDone`), and what has been found is still there when the lock is taken
  (`AtOccurrence`). For `applyLookupPatch` an occurrence that was passed has a replacement in it (`PassedHit`). Assumed of the calls is that pattern, replacement and
  masks have one length, which the code does not check, and that no pattern is empty (`CallsAssumption`).
* `StorageProofs`, `CircularBuffer`, for any number of threads and every capacity, 0 included: `BufferInv` says that the write index is the read
  index advanced by the count, once around the ring, that only the owner of the lock is inside, and that between its
  two steps a push has its element in the next place. `RoundOnce` removes the modulus. From it: `BufferTypes`, and
  `BufferIsQueue`, that `CircularBuffer` implements `BoundedQueue`; its steps are `PushAppends`, `PopRemoves`,
  `StoreHidden` (an element is invisible until it is counted) and `RefusalDue`.
* `StorageProofs`, `NVStorage`, for any data, keys and options: `FrameForm` computes what a write leaves, `Peeling` and `RoundTrip` that a read
  undoes it. `NVInv` says that an undamaged stored value is what `Frame` made of what was written, that a damaged one holds
  garbage, and that the answer in hand follows. From it: `StoredIsReadBack`, `ChecksumIsGuard`, `RequirementsAreKept`. They rest on
  `TermsAssumption`: contents, values and their absence are told apart.
* `StorageProofs`, `RTCStorage`, for banks of any size and any place of the checksum in them: `BankAndIndex` says that what is written to the index
  port of a bank names the byte, `AccessesAre` lists the accesses of a request, and `OneAccess` what each of them adds to the memory and to what was
  read (`MemoryAfter`, `GotAfter`). `RTCInv` says that a transfer with interrupts off, which no other CPU came into, is exactly that far at every
  access, and that the byte is still selected when it is moved. From it: `TransfersAreExact`. Assumed is that the checksum is two neighbours
  among the bytes that are hashed (`ClockAssumption`).
* `MachImagesProofs`, for any number of kexts, candidates and attempts: `TypesOK` (the type invariant in parts), `Shape` (where a MachInfo of
  the kernel is, it comes first, and a handler has an index) and `SymInv`: what `MachInfo::init` works on is good as far as it got, and
  so is `kinfos[1]`. The weakness behind `kernel_order` appears as the hypothesis `Clean`: without it a refused candidate leaves its
  buffer to the next. From it: `MachTypes`, `KernelSymbolsGenuine`. `RetryInv` says what an attempt may find of an earlier one: `prelinkInfo` and the
  static array only if a prelinked kernel is in use, an index of a MachInfo that is gone only if kexts were loaded; it gives
  `FaultsAreRetries`. `HeapInv`, with `IdsOK` (one MachInfo for a binary), says that the buffers of an attempt are those its MachInfos own, and that only the one being
  loaded owns what is not stored; it gives `BuffersAreOwned`. `KextInv` says that a MachInfo of a kext is of one version from header to symbols, that a
  slide that was found is not used for another load, and that an index a plugin is given belongs to this attempt; it gives `CallbacksAreSound`. Here
  lies the reason for the order of the code: in a kernel collection kexts are asked for only once nothing can be rolled back.
* `UserPatcherProofs`, for any processes and slides, and for any binaries, patches and pages. `SlideInv`: a thread between the test of
  `sharedCacheSlideStored` and its store keeps the slide it was called with, so the stored one is always one of those, although another thread may
  store its own over it. From it: `SlidesAreGiven`. `ProcessInv` says what a thread that met no other one has in `tmpBufferData` at every step
  (`BufferInv`), that the header is one command ahead between its two writes and until a failed one is reverted (`HeaderInv`), what is writable
  (`WritableInv`), and which places are still to be looked at (`CacheInv`). From it: `ProcessesAreServed`. `PageInv`: nothing is validated before the
  lookups are complete. `LookupInv` says that what `loadLookups`
  has gathered are offsets within a page with the values of the pages at them, the first of which tells the pages apart; then every page
  that was read is found under its value, which gives `PagesAreServed`. `FoundInv` follows a finding to the page: an entry
  refers only to enabled patches, at places where its page holds what they look for (`Hits`). `LastWrite` shows that of the writes to a cell one is the last,
  and so a cell that changed, in the page or behind it, is one of those: `ChangesAreAsked`. It holds for any number of binaries: `FoundInv` says what
  an entry refers to as long as its findings are of one binary (`mods`), and the property asks of a shared entry only that the page is one that was
  read, since the code keeps no more (section 5). `PlacesAsTold`, that the search records every place it is told to, is checked only.

Only model-checked: all liveness properties, since fairness and ENABLED are beyond the prover. Every safety property of the runs but
`PlacesAsTold` is stated by a theorem. What a fold computes is an induction over a parameter that is an operator, which no prover here can instantiate; where the code loops over a
sequence and a property is about the result, the model therefore says what the loop leaves at each place (`PatchRefs` of `PagePatch`, `Overlaid` and
`HashedSeq` of `RTCStorage`, `Wanted` of `FindReplace`). Induction is done with sets of numbers: `LeastNat` (a set of numbers has a least one) and
`NatSetInduction` follow from the well-foundedness of the numbers, and carry `SpacedExists`, `LastWrite`, `PagesAreServed` and `Chains`.
The types of `LiluBoot`, `KextListener`, `KernelWriting`, `CircularBuffer` and `MachImages` are proved and no longer checked by a run.

## 5. Known deviations

Three runs (`kext_gap`, `pending_freed`, `kernel_order`) show a disagreement between the code and what the repository says of it. Writing the models brought up more,
which no run is kept for; the properties of the passing runs are stated so that they do not claim the opposite.

* Start-up. `performCommonInit` sets `initialised` before the user patches are registered and before `activate`
  (`kern_start.cpp:124`), so another policy hook returns at once with nothing patched. `KernelPatcher::deinit` leaves `that`
  set, so an initialisation repeated after `UserPatcher::init` failed skips the routing of the kext functions
  (`kern_patcher.cpp:230`). A console route that failed with EINVAL is taken for a wrapper, and Lilu starts without a hook.
* Kext listener. If the first route of `setupKextListening` fails with EINVAL, the error of that route is taken for a wrapper and cleared by the
  next one, and unloads go unseen (`kern_patcher.cpp:265`). A second request for a kext that adds the Loaded flag does not make `activate` look at the loaded kexts
  (`kern_patcher.cpp:290`). Before Big Sur the first load after activation is treated as the walk over the loaded kexts, so
  a new kext without the flag is missed (`kern_patcher.cpp:862`). A reloadable kext that is linked already during the walk,
  and whose load ends after it, is handled twice. `KextInfo::loadIndex` outlives the `kinfos` it indexes
  (`kern_patcher.cpp:138`). The walk of `activate` does not look at `isKextUnloading`.
* Delayed patches. `erase` resets the value before `delete` reads it, so the `PendingUser` leaks (`kern_user.cpp:622`).
  A request whose execution did not happen is fired by the next execution of the thread if that one matches nothing.
* Images. `readSymbols` takes the symbols from `file_buf`, which a refused compressed candidate leaves behind (run `kernel_order`). `KernelPatcher::deinit`
  deletes each `MachInfo` without its `deinit`, although `kern_mach.hpp:226` says that it "must be called regardless of the init error", so a
  rolled back attempt loses its buffers. `prelinkInfo` and the static `imageArr` survive the attempt they belong to
  (`kern_patcher.cpp:45`, `kern_mach.cpp:746`). In a kernel collection `isCurrentBinary` checks nothing, and a missing file makes the load fail although
  the image could be taken from memory. A prelinked kext that is loaded again elsewhere keeps the prelinked slide.
* Binary patches. `findAndReplaceWithMask` finds an occurrence before it takes the lock and does not look again, returns false after earlier replacements
  when a later one is refused, and does not compare the sizes of pattern and replacement. `applyLookupPatch` does not look at the last position, and
  reports `MemoryIssue` when all occurrences were asked for (`count` 0); a replacement that contains the pattern would then not end.
* Processes. `tmpBufferData` is shared by all threads without a lock (`kern_user.cpp:352`), so two processes executed at once may be given each other's
  header. Only the first slide is stored, which may be that of a 32-bit region. `kern_user.hpp:406` documents a parameter `restore`; the code calls it
  `applyChanges` and means the opposite. Pages stay writable after a failure. The room for another load command is not checked (a TODO in the code).
* Clock. `init(false)` does not retain the service that `deinit` releases. The direct functions without the size check go on at address 0 after the last one.
* Routing. `routeMultiple` takes the EINVAL of a failed route for a wrapper address and reports success (`SuccessMeansRouted` in `Router` states
  what one would expect; no run checks it). Only `JumpType::Short` is refused on top of another route, but an automatic jump to a near target is short as
  well (`kern_patcher.cpp:492`). After a failed `push_back`, `erase` is called with the result of `push_back`, a Boolean, for an
  index (`kern_patcher.cpp:553`).
* Pages. An entry of `lookupStorage` is found by the page offset alone (`kern_user.cpp:889`), so patches of the first binary are written into its page
  at places found in the second, where they were not found, and a second binary's page at that offset is never recognised.
  A patch across two pages is written past the validated one (`kern_user.cpp:242`), into what was not compared. If no offset tells the pages apart, the first lookup offset and its values do
  not belong together (`kern_user.cpp:1014`); if only the last one does, the next offset is beyond the page
  (`kern_user.cpp:1029`). The last place of a section is not searched (`kern_user.cpp:873`). The search for the second arrow of a line in the map of the shared cache starts
  before the first one (`kern_user.cpp:731`).
* NVRAM. `OptSensitive` is not stored, but required by a reader who names it (`kern_nvram.cpp:80`). A null key, documented
  as the platform's default, is refused (`kern_nvram.cpp:185`).

## 6. Not modelled

`PROJECT.json` lists every component with the reason. Left out for good: third-party code (capstone, hde, lzvn, sha256,
umm_malloc, the sanitizer runtime), which is most of the repository's lines, pure I/O (files, registry, PCI and firmware calls), tables
(devices, CPU generations), assembly wrappers, and the debug log, whose buffer is set up once before anything else runs.

Inside the modelled parts:

* contents of log messages, parsing of boot arguments, matching of paths, symbol look-up in `Router` and `KextListener` (it succeeds or
  fails), instruction sizes and addresses;
* `routeBlock` and `routeVirtual`, the sticky error code of `KernelPatcher` across a batch;
* allocation failures in `loadFilesForPatching`;
* the parsing of Mach-O headers and of the symbol table, and `findKernelBase`, which is taken to find the kernel;
* `loadDyldSharedCacheMapping` and `mapAddresses`, which read the places of the shared cache from a text file when the patches are registered, and
  `injectSegment`, one allocation on behalf of a plugin;
* `RTCStorage::read` and `write`, which hand the request to AppleRTC, and `init` and `deinit`, which hold its service;
* `NVStorage::sync` and `save`, I/O without state of their own.

## 7. Plan

Done: the modules above, each with its runs, and the theorems of section 4. What would add most next:

1. `mapAddresses`: an abstract map of segments, the two arrows of a line, against the addresses that a patch needs.
2. A composition of `LiluBoot`, `KextListener` and `MachImages`: the retry after a failed attempt with the listener's state, `prelinkInfo` and
   `imageArr` kept together. The three models agree on what an attempt is; their product is large.
3. Proofs: completeness of the page patches (every finding that the search does not skip is written), which would join `FoundInv` and `LookupInv`;
   that `RTCStorage` restores interrupts in transfers that another CPU came into.
4. `LiluBoot` as an implementation of an abstract start-up (callbacks run at most once, in the order of registration, then activation).
