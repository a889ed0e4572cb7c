----------------------------- MODULE MCMachImages -----------------------------
(* Instances of MachImages for TLC. *)
EXTENDS MachImages, TLC

CONSTANTS k1, k2

TwoKexts == {k1, k2}

\* Kexts are interchangeable.
MCSymmetry == Permutations(TwoKexts)
=============================================================================
