------------------------------ MODULE MCRouter ------------------------------
(* Instances of Router for TLC. *)
EXTENDS Router, TLC

CONSTANTS f1, f2, r1, r2, r3

TwoFunctions == {f1, f2}
ThreeRoutes == {r1, r2, r3}
AllRouteFaults == RouteFaultKinds

\* Requests are interchangeable, and so are functions.
MCSymmetry == Permutations(ThreeRoutes) \cup Permutations(TwoFunctions)
=============================================================================
