\* Overlapping polls of one source, one reload, one crash.
CONSTANTS
    Poller = {a1, a2}
    Threshold = 2
    Listening = TRUE
    MaxEvent = 2
    MaxInstance = 2
    MaxCrash = 1
SPECIFICATION Spec
SYMMETRY PollerSymmetry
INVARIANTS
    TypeOK
    OpenCircuitIsRetried
    CheckpointCovered
    OutageOpensCircuit
CHECK_DEADLOCK FALSE
