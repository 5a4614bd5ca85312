CONSTANTS
    r = r
    a = a
    b = b
    c = c
    k1 = k1
    k2 = k2
    NoData = NoData
    Node = {r, a, b, c}
    Root = r
    Key = {k1, k2}
    EMPTYKEY = ""
    CipherTextByteSize = 2
    Parent <- MC_Parent
    KeyByteLen <- MC_KeyByteLen
    InputsOf <- InputsChildError
    Proofs = TRUE
    ProofFuncSet = TRUE
SPECIFICATION Spec
PROPERTY RoundEnds
CHECK_DEADLOCK FALSE
