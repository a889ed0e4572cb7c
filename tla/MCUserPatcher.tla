---------------------------- MODULE MCUserPatcher ----------------------------
(***************************************************************************)
(* Instances of PagePatch and UserInjection for TLC.  The two parts of     *)
(* UserPatcher share no variable, so they need not be interleaved: in a    *)
(* behaviour either page patching is at work and no process is being       *)
(* executed, or it is off and processes are.                               *)
(***************************************************************************)
EXTENDS PagePatch, UserInjection

Basic(f, r, s, n) ==
  [find |-> f, replace |-> r, skip |-> s, count |-> n, disabled |-> FALSE, local |-> FALSE]

\* Two of the pairs of ones are cleared, the first passed over, and zeros are for
\* chosen processes only.  The second binary has one patch more: its first is switched
\* off, and its third has a number the first binary does not have.
TwoBinaries ==
  << << Basic(<<1, 1>>, <<0, 0>>, 1, 2),
        [Basic(<<0>>, <<1>>, 0, 1) EXCEPT !.local = TRUE] >>,
     << [Basic(<<0>>, <<1>>, 0, 1) EXCEPT !.disabled = TRUE],
        Basic(<<0, 1>>, <<1, 0>>, 0, 1),
        Basic(<<1, 0, 0>>, <<0, 1, 1>>, 0, 1) >> >>

CONSTANTS p1, p2, site

\* The second binary has something to patch in its first page only, up to the border
\* and across it, or in both pages.
SecondSections == {<<0, 0, 0, 1, 0, 0, 0, 0>>, <<1, 1, 1, 1, 0, 0, 1, 1>>}

\* One process has the place the patch is for and a region that was slid; the other
\* one maps the region unslid, with the place or without it.
MCInit ==
  \/ /\ Init /\ section[2] \in SecondSections
     /\ Idle
  \/ /\ section = [m \in Mods |-> [k \in 1..(Pages * PageCells) |-> 0]]
     /\ Off
     /\ UIInit
     /\ region[p1] = 0 /\ region[p2] = 1 /\ cache[p2][site] = "find"

\* One page is validated in a behaviour: before and after are all that a validation
\* changes, and the next one would start from neither.
MCNext ==
  \/ before = <<>> /\ Next /\ UNCHANGED uiVars
  \/ UINext /\ UNCHANGED vars

MCSpec == MCInit /\ [][MCNext]_<<vars, uiVars>>
=============================================================================
