---------------------------- MODULE MCUserPending ---------------------------
(* Instances of UserPending for TLC. *)
EXTENDS UserPending, TLC

CONSTANTS t1, t2, t3

TwoThreads == {t1, t2}
ThreeThreads == {t1, t2, t3}

\* Threads are interchangeable.
MCSymmetry == Permutations(ThreeThreads)
=============================================================================
