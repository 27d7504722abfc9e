\* Two peers that connect, disconnect and write; the network
\* loses and reorders.
CONSTANTS
    Node = {1, 2}
    InitConn <- FullMesh
    InitKnown <- OneKey
    InitDeclared = {1}
    MaxLoss = 1
    Duplicates = FALSE
    InitEpoch <- SameEpoch
    InitTime = 1
    MaxTime = 2
    TsMod = 3
    MaxWrites <- TwoByFirst
SPECIFICATION Spec
INVARIANTS LwwInv LastWriterWins
PROPERTIES OnlySetRegresses
CHECK_DEADLOCK FALSE
