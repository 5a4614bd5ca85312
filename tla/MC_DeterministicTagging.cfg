CONSTANTS
    c1 = c1
    c2 = c2
    Clients = {c1, c2}
    Q = 5
    Cols = 2
    Plain = {1, 2}
    EncRandom = {1, 2}
    Priv = 3
    Secret = 2
    Proofs = TRUE
    NoData = NoData
    NoProof = NoProof
SPECIFICATION Spec
INVARIANT TagDeterminism
CHECK_DEADLOCK FALSE
