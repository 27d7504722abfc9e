\* One datagram is lost.
CONSTANTS
    Node = {1, 2}
    InitConn <- FullMesh
    InitKnown <- FullMesh
    InitDeclared = {1, 2}
    MaxLoss = 1
    Duplicates = FALSE
    Type = "G_COUNTER"
    Amounts = {1}
    Writers <- GWriters
    MaxCount = 1
SPECIFICATION LossySpec
PROPERTIES EventualAgreement
CHECK_DEADLOCK FALSE
