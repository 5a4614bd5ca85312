CONSTANTS
    NoData = NoData
    Q = 5
    H = 2
    Blinding = {1, 2}
    Alteration = {0, 1, 4}
    Inputs <- MC_Inputs
    Challenge <- MC_Challenge
SPECIFICATION Spec
INVARIANT VerifiedIsShuffle
CHECK_DEADLOCK FALSE
