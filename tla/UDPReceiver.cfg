SPECIFICATION FairSpec
CONSTANTS
    NumSockets = 2
    Workers = {w1, w2}
    Modes <- MCModes
    Packets = {d1, d2}
    Buffers = {b1, b2, b3, b4, b5}
    None = None
INVARIANTS TypeOK Accounted OneOwner StopQuiesces NeverPanics
PROPERTIES StopReturns QueuedDecoded
