--------------------------- MODULE MCKextListener ---------------------------
(* Instances of KextListener for TLC. *)
EXTENDS KextListener, TLC

CONSTANTS k1, k2

MCIds == {k1, k2}

R(info, id, loaded, reloadable, disabled) ==
  [info |-> info, id |-> id, loaded |-> loaded, reloadable |-> reloadable,
   disabled |-> disabled]

\* Two requests of different KextInfo objects for the same kext or for two,
\* or after one that a plugin switched off, or one object passed twice.
TwoInfos ==
  {<<R(1, k1, l, r, FALSE), R(2, id, m, s, FALSE)>> : id \in MCIds, l, r, m, s \in BOOLEAN}
    \cup {<<R(1, k1, TRUE, TRUE, TRUE), R(2, k1, l, r, FALSE)>> : l, r \in BOOLEAN}
    \cup {<<R(1, k1, l, r, FALSE), R(1, k1, l, r, FALSE)>> : l, r \in BOOLEAN}

\* Two requests for different kexts, none disabled.
TwoKexts == {<<R(1, k1, l, r, FALSE), R(2, k2, m, s, FALSE)>> : l, r, m, s \in BOOLEAN}

\* Every call that can fail may fail, or none does.
AllFaults == KextFaults
NoFaults == {}
=============================================================================
