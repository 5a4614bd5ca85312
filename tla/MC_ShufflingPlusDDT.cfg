CONSTANTS
    n1 = n1
    n2 = n2
    n3 = n3
    NoData = NoData
    Q = 5
    EncRandom = {1, 2}
    Blinding = {1, 3}
    Proofs = TRUE
    VPARALLELIZE = 2
    NodeList <- MC_NodeList
    Priv <- MC_Priv
    SurveySecret <- MC_SurveySecret
    Records <- MC_Records
    Precompute <- MC_PrecomputeFirst
SPECIFICATION Spec
INVARIANTS ProvedTagsCorrect RingInvariant
CHECK_DEADLOCK FALSE
