---------------------------- MODULE UserInjection ----------------------------
(***************************************************************************)
(* What UserPatcher does to a process that is being executed: patchBinary  *)
(* patches its dyld shared cache at the stored slide or, when that is not  *)
(* possible, rewrites its Mach-O header (injectRestrict); the callback of  *)
(* a plugin may put code behind the header (injectPayload); and the hooks  *)
(* of the shared region patch the cache when the process maps it.          *)
(*                                                                         *)
(* Every process is executed by a thread of its own and only its own map   *)
(* is changed.  What all of them share is in the UserPatcher object: the   *)
(* stored slide with its flag, and tmpBufferData, which are used without a *)
(* lock.  When patchBinary is called is the subject of module UserPending. *)
(*                                                                         *)
(* Plain loads and stores happen in the order of the source, as they do in *)
(* a build for x86.                                                        *)
(***************************************************************************)
EXTENDS Naturals, FiniteSets

CONSTANTS Procs,    \* processes
          Slides,   \* slides of shared regions
          Sites,    \* places of the shared cache that a patch is for
          None

ASSUME NoneAssumption == None \notin Slides

VARIABLES fast,         \* patchDyldSharedCache
          stored,       \* storedSharedCacheSlide
          slideStored,  \* sharedCacheSlideStored
          tmp,          \* tmpBufferData: what the bytes in it are
          pc,           \* what each thread is doing
          slide,        \* the slide patchSharedCache was called with, if it was
          todo,         \* places it has not looked at yet
          view,         \* what injectRestrict computed from tmpBufferData
          image,        \* header pages of each process
          cache,        \* places of its shared cache
          region,       \* slide of its shared region
          writable,     \* pages made writable and not restored
          given,        \* slides the kernel passed to the hooks so far
          met,          \* threads that used tmpBufferData at the same time
          failed,       \* threads for which a call of the kernel failed
          lost          \* processes whose header could not be reverted

shared == <<fast, stored, slideStored, tmp>>
local == <<pc, slide, todo, view, image, cache, region, writable>>
history == <<given, met, failed, lost>>
uiVars == <<shared, local, history>>

Owner == Procs \cup {None}

\* The pages that start with the Mach-O header of a process: whose counts of
\* load commands (ncmds and sizeofcmds) they have and by how many commands they
\* were raised; after whose commands, and with whose size, the added command was
\* written; whose contents the rest has; and whether a payload is part of them.
Image == [counts : Owner, added : 0..Cardinality(Procs) + 1, command : Owner,
          body : Owner, payload : BOOLEAN]

Original(p) == [counts |-> p, added |-> 0, command |-> None, body |-> p, payload |-> FALSE]

\* A process that dyld can run.
Intact(p) ==
    /\ image[p].counts = p /\ image[p].body = p
    /\ image[p].added # 0 => image[p].added = 1 /\ image[p].command = p

RestrictSteps == {"bounds", "counts", "command", "revert"}
PayloadSteps == {"edit", "inject"}
UsesTmp(p) == pc[p] \in RestrictSteps \cup PayloadSteps

AllAt(step) ==
    /\ stored = 0 /\ slideStored = FALSE
    /\ tmp = Original(None)
    /\ pc = [p \in Procs |-> step]
    /\ slide = [p \in Procs |-> None]
    /\ todo = [p \in Procs |-> {}]
    /\ view = [p \in Procs |-> None]
    /\ image = [p \in Procs |-> Original(p)]
    /\ writable = [p \in Procs |-> {}]
    /\ given = {} /\ met = {} /\ failed = {} /\ lost = {}

UIInit ==
    /\ AllAt("new")
    /\ fast \in BOOLEAN
    /\ cache \in [Procs -> [Sites -> {"find", "other"}]]
    /\ region \in [Procs -> Slides]

\* A machine on which nothing more is executed.
Idle ==
    /\ AllAt("done")
    /\ fast = TRUE
    /\ cache = [p \in Procs |-> [place \in Sites |-> "other"]]
    /\ region = [p \in Procs |-> 0]

Goto(p, step) == pc' = [pc EXCEPT ![p] = step]
Fail(p) == failed' = failed \cup {p}

-----------------------------------------------------------------------------
(* patchBinary *)

\* The path of the process matches none, or one, of the patched binaries.
Exec(p) ==
    /\ pc[p] = "new"
    /\ Goto(p, "run") \/ Goto(p, "patchBinary")
    /\ UNCHANGED <<shared, slide, todo, view, image, cache, region, writable, history>>

PatchBinary(p) ==
    /\ pc[p] = "patchBinary"
    /\ Goto(p, IF fast /\ slideStored THEN "storedSlide" ELSE "restrict")
    /\ UNCHANGED <<shared, slide, todo, view, image, cache, region, writable, history>>

ReadStored(p) ==
    /\ pc[p] = "storedSlide"
    /\ slide' = [slide EXCEPT ![p] = stored]
    /\ Goto(p, "patchAtExec")
    /\ todo' = [todo EXCEPT ![p] = Sites]
    /\ UNCHANGED <<shared, view, image, cache, region, writable, history>>

-----------------------------------------------------------------------------
(* injectRestrict *)

\* The header of the process is read into the buffer all threads share.
ReadHeader(p) ==
    /\ pc[p] = "restrict"
    /\ \/ /\ tmp' = [tmp EXCEPT !.counts = image[p].counts, !.added = image[p].added]
          /\ Goto(p, "bounds")
          /\ met' = IF \E q \in Procs : UsesTmp(q)
                    THEN met \cup {p} \cup {q \in Procs : UsesTmp(q)} ELSE met
          /\ UNCHANGED failed
       \/ /\ Goto(p, "callback") /\ Fail(p)
          /\ UNCHANGED <<tmp, met>>
    /\ UNCHANGED <<fast, stored, slideStored, slide, todo, view, image, cache, region,
                   writable, given, lost>>

\* The sizes of header and command are computed, and the pages made writable.
MakeWritable(p) ==
    /\ pc[p] = "bounds"
    /\ view' = [view EXCEPT ![p] = tmp.counts]
    /\ writable' = [writable EXCEPT ![p] = @ \cup {"header"}]
    /\ \/ Goto(p, "counts") /\ UNCHANGED failed
       \/ Goto(p, "callback") /\ Fail(p)
    /\ UNCHANGED <<shared, slide, todo, image, cache, region, given, met, lost>>

\* The header that was used so far, if the buffer still has it.
SameHeader(p) == IF tmp.counts = view[p] THEN view[p] ELSE None

\* ncmds and sizeofcmds are written together, from the buffer.
WriteCounts(p) ==
    /\ pc[p] = "counts"
    /\ \/ /\ image' = [image EXCEPT ![p].counts = tmp.counts, ![p].added = tmp.added + 1]
          /\ Goto(p, "command")
          /\ UNCHANGED failed
       \/ Goto(p, "callback") /\ Fail(p) /\ UNCHANGED image
    /\ view' = [view EXCEPT ![p] = SameHeader(p)]
    /\ UNCHANGED <<shared, slide, todo, cache, region, writable, given, met, lost>>

\* The command goes to the address computed with the counts, in the form that
\* the magic in the buffer asks for.  Then protections are restored; a
\* restoration that fails is not repeated.
WriteCommand(p) ==
    /\ pc[p] = "command"
    /\ \/ /\ image' = [image EXCEPT ![p].command = SameHeader(p)]
          /\ Goto(p, "callback")
          /\ \/ writable' = [writable EXCEPT ![p] = @ \ {"header"}] /\ UNCHANGED failed
             \/ UNCHANGED writable /\ Fail(p)
       \/ /\ Goto(p, "revert") /\ Fail(p)
          /\ UNCHANGED <<image, writable>>
    /\ UNCHANGED <<shared, slide, todo, view, cache, region, given, met, lost>>

\* Mutant of Revert: the counts stay raised for a command that is not there.
Revert_Skipped(p) ==
    /\ pc[p] = "revert"
    /\ Goto(p, "callback")
    /\ UNCHANGED <<shared, slide, todo, view, image, cache, region, writable, history>>

\* The old counts are written back; the pages stay writable.
Revert(p) ==
    /\ pc[p] = "revert"
    /\ \/ image' = [image EXCEPT ![p].added = @ - 1] /\ UNCHANGED lost
       \/ lost' = lost \cup {p} /\ UNCHANGED image
    /\ Goto(p, "callback")
    /\ UNCHANGED <<shared, slide, todo, view, cache, region, writable, given, met, failed>>

-----------------------------------------------------------------------------
(* The callback of the plugin, injectPayload *)

Callback(p) ==
    /\ pc[p] = "callback"
    /\ Goto(p, "run") \/ Goto(p, "payload")
    /\ UNCHANGED <<shared, slide, todo, view, image, cache, region, writable, history>>

\* All header pages are read.
ReadImage(p) ==
    /\ pc[p] = "payload"
    /\ \/ /\ tmp' = image[p]
          /\ Goto(p, "edit")
          /\ met' = IF \E q \in Procs : UsesTmp(q)
                    THEN met \cup {p} \cup {q \in Procs : UsesTmp(q)} ELSE met
          /\ UNCHANGED failed
       \/ /\ Goto(p, "run") /\ Fail(p)
          /\ UNCHANGED <<tmp, met>>
    /\ UNCHANGED <<fast, stored, slideStored, slide, todo, view, image, cache, region,
                   writable, given, lost>>

\* The new entry point is put in the buffer, the pages of the process are made
\* writable, and the code follows the commands in the buffer.
EditImage(p) ==
    /\ pc[p] = "edit"
    /\ \/ /\ tmp' = [tmp EXCEPT !.payload = TRUE]
          /\ Goto(p, "inject")
          /\ UNCHANGED failed
       \/ Goto(p, "run") /\ Fail(p) /\ UNCHANGED tmp
    /\ writable' = [writable EXCEPT ![p] = @ \cup {"header"}]
    /\ UNCHANGED <<fast, stored, slideStored, slide, todo, view, image, cache, region,
                   given, met, lost>>

WriteImage(p) ==
    /\ pc[p] = "inject"
    /\ \/ /\ image' = [image EXCEPT ![p] = tmp]
          /\ \/ writable' = [writable EXCEPT ![p] = @ \ {"header"}] /\ UNCHANGED failed
             \/ UNCHANGED writable /\ Fail(p)
       \/ UNCHANGED <<image, writable>> /\ Fail(p)
    /\ Goto(p, "run")
    /\ UNCHANGED <<shared, slide, todo, view, cache, region, given, met, lost>>

-----------------------------------------------------------------------------
(* The shared cache: vmSharedRegionMapFile, vmSharedRegionSlide, patchSharedCache *)

\* dyld maps the shared cache, unless the process is restricted or its region
\* was slid by an earlier process.  The hooks are installed in the fast mode.
MapCache(p) ==
    /\ pc[p] = "run"
    /\ \/ Goto(p, "done") /\ UNCHANGED <<slide, todo, given>>
       \/ /\ fast /\ image[p].added = 0
          /\ slide' = [slide EXCEPT ![p] = region[p]]
          /\ todo' = [todo EXCEPT ![p] = Sites]
          /\ given' = given \cup {region[p]}
          /\ Goto(p, "test")
    /\ UNCHANGED <<shared, view, image, cache, region, writable, met, failed, lost>>

\* Mutant of TestStored: the flag is set together with the test, before the slide.
TestStored_FlagFirst(p) ==
    /\ pc[p] = "test"
    /\ slideStored' = TRUE
    /\ Goto(p, IF slideStored THEN "patch" ELSE "store")
    /\ UNCHANGED <<fast, stored, tmp, slide, todo, view, image, cache, region, writable, history>>

\* Only the first slide is stored; test, slide and flag are accesses of their own.
TestStored(p) ==
    /\ pc[p] = "test"
    /\ Goto(p, IF slideStored THEN "patch" ELSE "store")
    /\ UNCHANGED <<shared, slide, todo, view, image, cache, region, writable, history>>

StoreSlide(p) ==
    /\ pc[p] = "store"
    /\ stored' = slide[p]
    /\ Goto(p, "flag")
    /\ UNCHANGED <<fast, slideStored, tmp, slide, todo, view, image, cache, region, writable, history>>

SetStored(p) ==
    /\ pc[p] = "flag"
    /\ slideStored' = TRUE
    /\ Goto(p, "patch")
    /\ UNCHANGED <<fast, stored, tmp, slide, todo, view, image, cache, region, writable, history>>

\* One place of one patch.  At another slide than that of the region there is
\* other memory, which does not compare equal.
PatchPlace(p) ==
    /\ pc[p] \in {"patch", "patchAtExec"} /\ todo[p] # {}
    /\ \E place \in todo[p] :
         /\ todo' = [todo EXCEPT ![p] = @ \ {place}]
         /\ IF slide[p] = region[p] /\ cache[p][place] = "find"
            THEN \/ /\ cache' = [cache EXCEPT ![p][place] = "replace"]
                    /\ UNCHANGED <<writable, failed>>
                 \/ \* made writable, written or not, protected or not
                    /\ cache' \in {cache, [cache EXCEPT ![p][place] = "replace"]}
                    /\ writable' \in {writable, [writable EXCEPT ![p] = @ \cup {place}]}
                    /\ Fail(p)
            ELSE \/ UNCHANGED <<cache, writable, failed>>
                 \/ UNCHANGED <<cache, writable>> /\ Fail(p)   \* it could not be read
    /\ UNCHANGED <<shared, pc, slide, view, image, region, given, met, lost>>

Patched(p) ==
    /\ pc[p] \in {"patch", "patchAtExec"} /\ todo[p] = {}
    /\ Goto(p, IF pc[p] = "patch" THEN "done" ELSE "callback")
    /\ UNCHANGED <<shared, slide, todo, view, image, cache, region, writable, history>>

-----------------------------------------------------------------------------
UINext ==
    \E p \in Procs :
      \/ Exec(p) \/ PatchBinary(p) \/ ReadStored(p)
      \/ ReadHeader(p) \/ MakeWritable(p) \/ WriteCounts(p) \/ WriteCommand(p) \/ Revert(p)
      \/ Callback(p) \/ ReadImage(p) \/ EditImage(p) \/ WriteImage(p)
      \/ MapCache(p) \/ TestStored(p) \/ StoreSlide(p) \/ SetStored(p)
      \/ PatchPlace(p) \/ Patched(p)

UISpec == UIInit /\ [][UINext]_uiVars

-----------------------------------------------------------------------------
(* Properties *)

\* patchBinary patches at a slide that the kernel passed to a hook, although slide
\* and flag are stored by several threads and read by others without a lock.
SlideGiven == \A p \in Procs : pc[p] = "patchAtExec" => slide[p] \in given

\* A process starts with a header that belongs together, whatever call failed on
\* the way, unless reverting it failed, which the code announces, or another
\* thread used tmpBufferData meanwhile, which nothing prevents.  If no call failed,
\* nothing stays writable, and at its slide no place keeps what it had to lose.
ProcessServed ==
    \A p \in Procs : pc[p] = "done" =>
      /\ p \notin lost \cup met => Intact(p)
      /\ p \notin failed => writable[p] = {}
      /\ p \notin failed /\ slide[p] = region[p]
           => \A place \in Sites : cache[p][place] # "find"
=============================================================================
