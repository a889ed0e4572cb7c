SPECIFICATION Spec
CONSTANTS
    k1 = k1
    k2 = k2
    Kexts <- TwoKexts
    Kernel = kernel
    MaxCandidates = 2
    MaxRounds = 2
SYMMETRY MCSymmetry
CHECK_DEADLOCK FALSE
INVARIANT AnyOrder
