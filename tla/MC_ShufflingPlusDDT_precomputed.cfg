CONSTANTS
    n1 = n1
    n2 = n2
    n3 = n3
    NoData = NoData
    Q = 5
    EncRandom = {1, 2}
    Blinding = {1, 3}
    Proofs = FALSE
    VPARALLELIZE = 2
    NodeList <- MC_NodeList
    Priv <- MC_Priv
    SurveySecret <- MC_SurveySecret
    Records <- MC_Records
    Precompute <- MC_PrecomputeLast
SPECIFICATION Spec
INVARIANT TagsCorrect
CHECK_DEADLOCK FALSE
