\* Four kinds of applications; a packet may be lost or repeated, a send refused.
CONSTANTS
    Node = {1, 2, 3}
    Programs <- Applications
    MaxData = 1
    MaxAuto = 1
    MaxFaults = 1
SPECIFICATION Spec
INVARIANTS HandshakeInv SymmetricWhenQuiet
CHECK_DEADLOCK FALSE
