\* Acknowledgements: packet numbers wrap; a packet may fall out of the window.
\* FEC: groups of two, three of them and two ids.  Outbox: two paths, a clock
\* that turns over.  Congestion: four packets.  Loopback: three transports,
\* two ids, two endpoints, and buses that die and are made again.
CONSTANTS
    SeqMod = 16
    BITMAP_SIZE = 4
    MaxRanges = 2
    First = 14
    MaxPackets = 19
    MaxLag = 4
    group_size = 2
    FecLen = {1}
    GroupIds = 2
    MaxGroups = 3
    FecWindow = 2
    OutPath = {p1, p2}
    Deadline = {0, 1}
    ClockTurn = 3
    MaxOutTime = 4
    MaxPushes = 3
    MIN_RATE = 10
    INITIAL_RATE = 300
    MAX_RATE = 1000
    MIN_CWND = 2400
    INITIAL_CWND = 15000
    ADDITIVE_INCREASE = 8
    OVERUSE_TIME_THRESHOLD = 1
    PacketSize = {1000, 1452}
    Elapsed = {0, 1000}
    Rtt = {0, 10}
    MaxSent = 4
    MaxResets = 1
    LoopHandle = {h1, h2, h3}
    BusId = {1, 2}
    LoopEndpoint = {e1, e2}
    MaxBuses = 3
    MaxLoopSends = 1
SPECIFICATION ReliabilitySpec
INVARIANTS AckInv SackExact FecInv FreshnessInv CongestionInv LoopbackInv
PROPERTIES BackOffHolds
CHECK_DEADLOCK FALSE
