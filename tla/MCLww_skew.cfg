\* One connection, whose accepting end has the later epoch; nothing wraps.
CONSTANTS
    Node = {1, 2}
    InitConn <- FullMesh
    InitKnown <- FullMesh
    InitDeclared = {1, 2}
    MaxLoss = 0
    Duplicates = FALSE
    InitEpoch <- LateAcceptor
    InitTime = 1
    MaxTime = 3
    TsMod = 8
    MaxWrites <- OneEach
SPECIFICATION Spec
INVARIANT AgreementUnlessTied
CHECK_DEADLOCK FALSE
