\* Counter: three peers in a full mesh; the network reorders and duplicates.
\* Paths of up to four characters; two subscriptions of two connections; two
\* watches; one filtered path; two paths with routes to three nodes; two
\* tokens in hand, two issuers; a server and a client with two writes to each log;
\* every frame layout and packets of up to four deltas.
CONSTANTS
    Node = {1, 2, 3}
    InitConn <- FullMesh
    InitKnown <- FullMesh
    InitDeclared = {1, 2, 3}
    MaxLoss = 0
    Duplicates = TRUE
    Type = "PN_COUNTER"
    Amounts = {1}
    Writers <- PnWriters
    MaxCount = 1
    PathChar = {"/", "*", "a"}
    MaxPathLen = 4
    SubConn = {c1, c2}
    SubPattern <- ExactAndAny
    SubPath <- TwoPaths
    SubCredit <- Credits
    MaxSubs = 2
    MaxCredits = 2
    MaxSubHits = 3
    WatchChoice <- WatchKinds
    EventPath <- TwoPaths
    EventType = {"LWW", "SET"}
    NoFilter = NoFilter
    MaxWatches = 2
    MaxNotices = 3
    FilterPath = {p1}
    UpdatesPerSec = 2
    MinChange = 2
    Second = 2
    FilterUpdate = {1, 2, 3}
    MaxFilterTime = 4
    MaxFlushes = 5
    RoutePath = {p1, p2}
    RouteNode = {1, 2, 3}
    LocalNode = 1
    RouterConfig <- SmallRouter
    MaxTicks = 1
    CapLimits <- Limits
    CapPath <- TwoPaths
    CapPerm = {"READ", "WRITE"}
    CapSelf = 1
    CapIssuer = {1, 2}
    CapConn = {1, 2}
    MaxTokens = 2
    CapTurn = 4
    CountBits = 2
    RecPath = {7, 8}
    Versioned = {7}
    RecServer = 1
    RecClient = {2}
    max_delta_entries = 1
    MaxRecWrites = 2
    MaxLog = 3
    MAX_PACKET_SIZE = 46
    SIGNATURE_SIZE = 2
    LengthBytes = 1
    FieldValue = {258, 66051}
    PatternBytes <- Patterns
    DeltaSize = {0, 1, 18, 19, 260}
    MaxBatch = 4
SPECIFICATION PeerSpec
INVARIANTS NoUpdateStranded PathsCompare SubInv ObserverInv ResolutionInv
    RoutingInv CapInv RecoveryInv WireInv GcInvisible
PROPERTIES EventualAgreement WeightIsEarned
CHECK_DEADLOCK FALSE
