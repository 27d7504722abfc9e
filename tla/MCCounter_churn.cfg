\* Two peers that declare, register keys, connect and disconnect at any time.
CONSTANTS
    Node = {1, 2}
    InitConn = {}
    InitKnown = {}
    InitDeclared = {}
    MaxLoss = 1
    Duplicates = TRUE
    Type = "G_COUNTER"
    Amounts = {1, 2}
    Writers <- GWriters
    MaxCount = 3
SPECIFICATION Spec
INVARIANTS TypeOK NoPhantomCounts
PROPERTIES ViewsSpec
