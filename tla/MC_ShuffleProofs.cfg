CONSTANTS
    NoData = NoData
    Q = 5
    H = 2
    Blinding = {1, 2}
    Alteration = {0, 1, 4}
    Inputs <- MC_InputsWithEmpty
    Challenge <- MC_Challenge
SPECIFICATION Spec
INVARIANT HonestProofVerifies
CHECK_DEADLOCK FALSE
