------------------------------ MODULE PagePatch ------------------------------
(***************************************************************************)
(* UserPatcher's page patching.  registerPatches reads the binaries to be  *)
(* patched, remembers every page that holds a patch (lookupStorage) and    *)
(* picks a few offsets by which such a page is recognised (lookup).  Later *)
(* every code page the kernel validates is compared and patched.           *)
(*                                                                         *)
(* Memory is counted in cells of 8 bytes, the width of a lookup value;     *)
(* patches start and end at cells.  Sections start at a page.  Memory for  *)
(* the entries is there, and the kernel can be made writable (see          *)
(* KernelWriting).  A page is validated together with the cells behind it, *)
(* which lookups may read and patches may write: those of the next page of *)
(* the range, or of whatever lies there.                                   *)
(***************************************************************************)
EXTENDS Integers, Sequences, FiniteSets, Functions

CONSTANTS
  Cells,        \* values of a cell
  PageCells,    \* cells of a page (PAGE_SIZE)
  MatchNum,     \* Lookup::matchNum
  NumMods,      \* binaryModSize
  Pages,        \* pages of each binary's section
  Patches,      \* the patches of each binary, see Patch
  Behind        \* bound: how many cells behind a validated page are modelled

Mods == 1..NumMods
Patch == [find : Seq(Cells), replace : Seq(Cells), skip : Nat, count : Nat,
          disabled : BOOLEAN, local : BOOLEAN]

ASSUME SizesAssumption == PageCells \in Nat \ {0} /\ MatchNum \in Nat \ {0} /\ NumMods \in Nat
ASSUME PatchesAssumption ==
  /\ Patches \in [Mods -> Seq(Patch)]
  /\ \A m \in Mods : \A p \in DOMAIN Patches[m] :
       Len(Patches[m][p].find) = Len(Patches[m][p].replace)
\* Nothing that is read or written behind a page is left out.
ASSUME BehindAssumption ==
  /\ Behind \in Nat /\ Behind >= MatchNum - 1
  /\ \A m \in Mods : \A p \in DOMAIN Patches[m] : Len(Patches[m][p].find) <= Behind + 1

VARIABLES
  section,        \* the contents of each binary's section
  phase,          \* "files", "lookups", "hook", then "ready" or "off"
  at,             \* the binary and the patch that are looked at
  scan,           \* the search for the patch: place, skip and count, <<>> for none
  lookupStorage,  \* pages that hold a patch, with references to the patches
  off,            \* the running offset of loadLookups
  offs, c,        \* Lookup: the offsets, and the pages' values there
  before, after   \* the page validated last and the cells behind it, as they
                  \* came and as they were left

loaded == <<section, lookupStorage>>
looked == <<off, offs, c>>
validated == <<before, after>>
progress == <<phase, at, scan>>
vars == <<loaded, progress, looked, validated>>

Memory == [1..(PageCells + Behind) -> Cells]

Empty ==
  /\ at = <<1, 1>> /\ scan = <<>>
  /\ lookupStorage = <<>>
  /\ off = 0 /\ offs = <<>> /\ c = <<>>
  /\ before = <<>> /\ after = <<>>

Init ==
  /\ section \in [Mods -> [1..(Pages * PageCells) -> Cells]]
  /\ phase = "files"
  /\ Empty

\* Page patching that was given up.
Off == phase = "off" /\ Empty

-----------------------------------------------------------------------------
(* loadFilesForPatching                                                    *)

OccursAt(find, sect, o) == SubSeq(sect, o + 1, o + Len(find)) = find

FirstIndex(seq, Test(_)) ==
  LET found == {k \in DOMAIN seq : Test(seq[k])}
  IN  IF found = {} THEN Len(seq) + 1 ELSE CHOOSE k \in found : \A j \in found : k <= j

\* A reference from one page to patch p, for one more place in the page.
AddRef(refs, p, o) ==
  LET r == FirstIndex(refs, LAMBDA x : x.i = p)
  IN  IF r > Len(refs) THEN Append(refs, [i |-> p, pageOffs |-> <<o>>])
      ELSE [refs EXCEPT ![r].pageOffs = Append(@, o)]

\* The entry of the page is looked up by its offset in the section alone, so the
\* findings of several binaries may meet in one entry.  mods is history: the
\* binaries whose findings the entry holds.
AddFinding(storage, m, p, place) ==
  LET pageOff == place - (place % PageCells)
      e == FirstIndex(storage, LAMBDA x : x.pageOff = pageOff)
      page == SubSeq(section[m], pageOff + 1, pageOff + PageCells)
  IN  IF e > Len(storage)
      THEN Append(storage, [mod |-> m, pageOff |-> pageOff, page |-> page, mods |-> {m},
                            refs |-> AddRef(<<>>, p, place % PageCells)])
      ELSE [storage EXCEPT ![e].refs = AddRef(@, p, place % PageCells), ![e].mods = @ \cup {m}]

HasPatches(m) == \E p \in DOMAIN Patches[m] : ~Patches[m][p].disabled

NextMod == at' = <<at[1] + 1, 1>>
NextPatch == at' = <<at[1], at[2] + 1>>

\* A binary without enabled patches is not read; one that cannot be read is
\* passed over.
SkipFile ==
  /\ phase = "files" /\ at[1] \in Mods /\ at[2] = 1 /\ scan = <<>>
  /\ NextMod
  /\ UNCHANGED <<loaded, phase, scan, looked, validated>>

\* A disabled patch is passed over; else its search begins.
LoadPatch ==
  /\ phase = "files" /\ at[1] \in Mods /\ at[2] \in DOMAIN Patches[at[1]]
  /\ HasPatches(at[1]) /\ scan = <<>>
  /\ LET patch == Patches[at[1]][at[2]] IN
       IF patch.disabled THEN NextPatch /\ UNCHANGED scan
       ELSE scan' = [o |-> 0, skip |-> patch.skip, count |-> patch.count] /\ UNCHANGED at
  /\ UNCHANGED <<loaded, phase, looked, validated>>

\* The search goes on; the last place the patch could be at is not looked at.
Scanning(patch) ==
  /\ phase = "files" /\ scan # <<>>
  /\ scan.o < Len(section[at[1]]) - Len(patch.find) /\ scan.count > 0

\* Mutant of ScanPlace: a finding that is passed over is counted.
ScanPlace_CountSkipped ==
  LET patch == Patches[at[1]][at[2]]
      found == OccursAt(patch.find, section[at[1]], scan.o)
  IN  /\ Scanning(patch)
      /\ scan' = [scan EXCEPT !.o = @ + 1,
                              !.skip = IF found /\ scan.skip > 0 THEN @ - 1 ELSE @,
                              !.count = IF found THEN @ - 1 ELSE @]
      /\ lookupStorage' = IF found /\ scan.skip = 0
                          THEN AddFinding(lookupStorage, at[1], at[2], scan.o) ELSE lookupStorage
      /\ UNCHANGED <<section, phase, at, looked, validated>>

\* One place.  The first skip findings are passed over.
ScanPlace ==
  LET patch == Patches[at[1]][at[2]]
      found == OccursAt(patch.find, section[at[1]], scan.o)
  IN  /\ Scanning(patch)
      /\ \/ ~found /\ scan' = [scan EXCEPT !.o = @ + 1] /\ UNCHANGED lookupStorage
         \/ /\ found /\ scan.skip > 0
            /\ scan' = [scan EXCEPT !.o = @ + 1, !.skip = @ - 1] /\ UNCHANGED lookupStorage
         \/ /\ found /\ scan.skip = 0
            /\ scan' = [scan EXCEPT !.o = @ + 1, !.count = @ - 1]
            /\ lookupStorage' = AddFinding(lookupStorage, at[1], at[2], scan.o)
      /\ UNCHANGED <<section, phase, at, looked, validated>>

PatchLoaded ==
  /\ scan # <<>> /\ phase = "files" /\ ~Scanning(Patches[at[1]][at[2]])
  /\ scan' = <<>> /\ NextPatch
  /\ UNCHANGED <<loaded, phase, looked, validated>>

NextFile ==
  /\ phase = "files" /\ at[1] \in Mods /\ at[2] > Len(Patches[at[1]])
  /\ NextMod
  /\ UNCHANGED <<loaded, phase, scan, looked, validated>>

FilesLoaded ==
  /\ phase = "files" /\ at[1] \notin Mods
  /\ phase' = "lookups"
  /\ UNCHANGED <<loaded, at, scan, looked, validated>>

-----------------------------------------------------------------------------
(* loadLookups                                                             *)

InPage(o) == o < PageCells
PageValues(o) == [k \in DOMAIN lookupStorage |-> lookupStorage[k].page[o + 1]]

\* What obtainValues may read at o: past the page that is anything.
Values(o) == IF InPage(o) THEN {PageValues(o)} ELSE [DOMAIN lookupStorage -> Cells]

TellsApart(o) == IsInjective(PageValues(o))

\* Mutant of FirstLookup: the pages need not be told apart.
FirstLookup_AnyOffset ==
  /\ phase = "lookups" /\ offs = <<>>
  /\ off' = 0 /\ offs' = <<0>> /\ c' = <<PageValues(0)>>
  /\ UNCHANGED <<loaded, progress, validated>>

\* The first offset is one at which no two pages agree.  If there is none, the
\* values of the last offset stay and the offset itself is left at 0.
FirstLookup ==
  /\ phase = "lookups" /\ offs = <<>>
  /\ LET apart == {o \in 0..(PageCells - 1) : TellsApart(o)}
         first == CHOOSE o \in apart : \A q \in apart : o <= q
     IN  IF apart # {}
         THEN off' = first /\ offs' = <<first>> /\ c' = <<PageValues(first)>>
         ELSE off' = PageCells /\ offs' = <<0>> /\ c' = <<PageValues(PageCells - 1)>>
  /\ UNCHANGED <<loaded, progress, validated>>

\* The offset is set back to 0 at the end of the page, and then moved off the
\* first one.
NextOffset ==
  LET o == IF off = PageCells THEN 0 ELSE off
  IN  IF o = offs[1] THEN o + 1 ELSE o

NextLookup ==
  /\ phase = "lookups" /\ Len(offs) \in 1..(MatchNum - 1)
  /\ offs' = Append(offs, NextOffset)
  /\ \E v \in Values(NextOffset) : c' = Append(c, v)
  /\ off' = NextOffset + 1
  /\ UNCHANGED <<loaded, progress, validated>>

LookupsLoaded ==
  /\ phase = "lookups" /\ Len(offs) = MatchNum
  /\ phase' = "hook"
  /\ UNCHANGED <<loaded, at, scan, looked, validated>>

\* hookMemoryAccess: the validation of code pages is hooked, or a symbol is
\* missing and registerPatches fails.
HookMemoryAccess ==
  /\ phase = "hook"
  /\ phase' \in {"ready", "off"}
  /\ UNCHANGED <<loaded, at, scan, looked, validated>>

-----------------------------------------------------------------------------
(* performPagePatch                                                        *)

\* The entry a page is taken for: the first one that has the page's value at the
\* first offset, and only if it has the page's values at the others, which may
\* lie behind the page.
Candidate(mem) ==
  LET maybe == {e \in DOMAIN lookupStorage : c[1][e] = mem[offs[1] + 1]}
  IN  {e \in maybe : /\ \A d \in maybe : e <= d
                     /\ \A i \in 2..MatchNum : c[i][e] = mem[offs[i] + 1]}

\* Mutant of Applied: LocalOnly patches are applied to every process.
Applied_Local(entry) == DOMAIN entry.refs

\* The references of an entry that are applied, with the patch the entry's own
\* binary has under that number.
Applied(entry) ==
  {r \in DOMAIN entry.refs : ~Patches[entry.mod][entry.refs[r].i].local}

\* References are written one after the other, each at all its places, so a cell
\* keeps what was written last.  A replacement is written in full, behind the
\* page that was validated if it has to be.
PatchRefs(mem, entry) ==
  LET replace(r) == Patches[entry.mod][entry.refs[r].i].replace
      place(w) == entry.refs[w[1]].pageOffs[w[2]]
      writes == UNION {{r} \X DOMAIN entry.refs[r].pageOffs : r \in Applied(entry)}
      to(k) == {w \in writes : k - place(w) \in DOMAIN replace(w[1])}
      last(k) == CHOOSE w \in to(k) :
                   \A v \in to(k) : v[1] < w[1] \/ (v[1] = w[1] /\ v[2] <= w[2])
  IN  [k \in DOMAIN mem |->
         IF to(k) = {} THEN mem[k] ELSE replace(last(k)[1])[k - place(last(k))]]

\* A patch of another binary may have a number the entry's own does not have:
\* what lies behind the array is taken for a patch.
Outcome(mem, entry) ==
  IF \A r \in DOMAIN entry.refs : entry.refs[r].i \in DOMAIN Patches[entry.mod]
  THEN {PatchRefs(mem, entry)} ELSE Memory

HasPage(mem, e) == SubSeq(mem, 1, PageCells) = lookupStorage[e].page

\* One page of those that are validated.
PerformPagePatch(mem) ==
  /\ phase = "ready"
  /\ before' = mem
  /\ LET hit == {e \in Candidate(mem) : HasPage(mem, e)} IN
       after' \in IF hit = {} THEN {mem} ELSE Outcome(mem, lookupStorage[CHOOSE e \in hit : TRUE])
  /\ UNCHANGED <<loaded, progress, looked>>

Next ==
  \/ SkipFile \/ LoadPatch \/ ScanPlace \/ PatchLoaded \/ NextFile \/ FilesLoaded
  \/ FirstLookup \/ NextLookup \/ LookupsLoaded
  \/ HookMemoryAccess
  \/ \E mem \in Memory : PerformPagePatch(mem)

Spec == Init /\ [][Next]_vars

-----------------------------------------------------------------------------
(* Properties.                                                             *)

\* Where the search is told to find a patch in a section: the occurrences without
\* the first skip ones, count of them at most.  The last place of the section is
\* not one, see Scanning.
Told(m, p) ==
  LET patch == Patches[m][p]
      occur == {o \in 0..(Len(section[m]) - Len(patch.find) - 1) :
                  OccursAt(patch.find, section[m], o)}
      nth(o) == Cardinality({q \in occur : q < o})
  IN  IF patch.disabled THEN {}
      ELSE {o \in occur : patch.skip <= nth(o) /\ nth(o) < patch.skip + patch.count}

\* Where an entry says that patch p is.
Recorded(entry, p) ==
  LET refs == {r \in DOMAIN entry.refs : entry.refs[r].i = p}
  IN  {entry.pageOff + o : o \in UNION {Range(entry.refs[r].pageOffs) : r \in refs}}

InPageAt(pageOff) == pageOff..(pageOff + PageCells - 1)

\* Once the files are loaded the entries of a binary that was read hold the places of
\* its patches, each in the page it begins in, overlapping and straddling ones too; an
\* entry in which findings of several binaries met still stands for a page in which
\* its binaries have something to patch, but no longer says whose places it holds.
PlacesAsTold ==
  phase \in {"lookups", "hook", "ready"} =>
    \A m \in Mods :
      LET of(e) == m \in lookupStorage[e].mods IN
        (\E e \in DOMAIN lookupStorage : of(e)) =>
          /\ \A p \in DOMAIN Patches[m] : \A o \in Told(m, p) :
               \E e \in DOMAIN lookupStorage : of(e) /\ o \in InPageAt(lookupStorage[e].pageOff)
          /\ \A e \in DOMAIN lookupStorage : lookupStorage[e].mods = {m} =>
               \A p \in DOMAIN Patches[m] :
                 Recorded(lookupStorage[e], p) = Told(m, p) \cap InPageAt(lookupStorage[e].pageOff)

\* A page that was read from a binary is recognised when it is validated (before is
\* empty until a page is): if the pages can be told apart at an offset before the
\* last, none of them is left unpatched.
PagesServed ==
  (phase = "ready" /\ \E o \in 0..(PageCells - 2) : TellsApart(o)) =>
    \A e \in DOMAIN lookupStorage :
      before # <<>> /\ HasPage(before, e) => after \in Outcome(before, lookupStorage[e])

\* Patch p of binary m, for every process, occurs at o in the binary and puts v
\* into the kth cell from the start of the page at pageOff.
Puts(m, p, pageOff, o, k, v) ==
  LET patch == Patches[m][p] IN
    /\ ~patch.disabled /\ ~patch.local
    /\ OccursAt(patch.find, section[m], pageOff + o)
    /\ k - o \in DOMAIN patch.replace /\ patch.replace[k - o] = v

\* The change of cell k of the memory is what entry e asks for.  Only of an entry
\* in which findings of several binaries met it cannot be said.
Asked(e, k) ==
  LET entry == lookupStorage[e] IN
    /\ HasPage(before, e)
    /\ entry.mods = {entry.mod} =>
         \E p \in DOMAIN Patches[entry.mod], o \in 0..(PageCells - 1) :
           Puts(entry.mod, p, entry.pageOff, o, k, after[k])

\* Whatever a validation changes, the page is one that was read from a binary; and
\* unless findings of several binaries met in its entry, each changed cell holds what
\* an enabled patch for every process puts there that occurs in the binary and begins
\* in this page.  A cell behind the page is changed only by a patch that straddles the
\* end of the page in the binary, though the cell itself was not compared.
ChangedAsAsked ==
  \A k \in DOMAIN before :
    before[k] # after[k] => \E e \in DOMAIN lookupStorage : Asked(e, k)

=============================================================================
