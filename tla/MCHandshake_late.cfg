\* A peer gives up one connection attempt and starts another.
CONSTANTS
    Node = {1, 2, 3}
    Programs <- Retrying
    MaxData = 0
    MaxAuto = 0
    MaxFaults = 0
SPECIFICATION Spec
INVARIANT ConnectedMeansAnswered
CHECK_DEADLOCK FALSE
