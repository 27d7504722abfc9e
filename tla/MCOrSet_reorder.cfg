\* Two connected peers and a network that only reorders.
CONSTANTS
    Node = {1, 2}
    InitConn <- FullMesh
    InitKnown <- FullMesh
    InitDeclared = {1, 2}
    MaxLoss = 0
    Duplicates = FALSE
    Elem = {a}
    MaxAdds <- OneEach
SPECIFICATION Spec
INVARIANT QuiescentAgreement
CHECK_DEADLOCK FALSE
