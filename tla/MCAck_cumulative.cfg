\* One lost packet below the largest received one, from the first packet on.
CONSTANTS
    SeqMod = 16
    BITMAP_SIZE = 4
    MaxRanges = 2
    First = 0
    MaxPackets = 2
    MaxLag = 1
SPECIFICATION Spec
INVARIANT AckedMeansReceived
CHECK_DEADLOCK FALSE
