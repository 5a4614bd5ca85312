CONSTANTS
    ProofLists <- MC_ProofLists
    Percents <- MC_Percents
    VPARALLELIZE = 2
    NoData = NoData

INIT Init
NEXT Next

INVARIANTS
    ListProofsInOrder
    BatchVerdictSound
    PanicsOnlyBeyondAll

CHECK_DEADLOCK FALSE
