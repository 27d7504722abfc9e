\* Two peers that connect and disconnect while they add and remove.
CONSTANTS
    Node = {1, 2}
    InitConn <- FullMesh
    InitKnown <- FullMesh
    InitDeclared = {1}
    MaxLoss = 1
    Duplicates = TRUE
    Elem = {a}
    MaxAdds <- OneEach
SPECIFICATION Spec
INVARIANTS OrSetInv AddWins ConvergesUnlessResurrected
PROPERTIES OnlyObservedRemoved
