SPECIFICATION Spec
CONSTANTS
    NumSockets = 1
    Workers = {w1}
    Modes <- MCModes
    Packets = {d1}
    Buffers = {b1, b2, b3}
    None = None
INVARIANTS BlockingNeverDrops
