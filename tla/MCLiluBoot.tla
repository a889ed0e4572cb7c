----------------------------- MODULE MCLiluBoot -----------------------------
(* Instances of LiluBoot for TLC. *)
EXTENDS LiluBoot, TLC

CONSTANTS p1, p2, c1, c2

MCPlugins == {p1, p2}
MCCallers == {c1, c2}
MCOnePlugin == {p1}

\* Plugins are interchangeable, and so are callers.
MCSymmetry == Permutations(MCPlugins) \cup Permutations(MCCallers)

\* Every call that can fail may fail.
AllFaults == FaultKinds
=============================================================================
