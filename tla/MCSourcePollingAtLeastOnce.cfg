\* A crash or an exception between the checkpoint and the last event.
CONSTANTS
    Poller = {a1}
    Threshold = 2
    Listening = TRUE
    MaxEvent = 2
    MaxInstance = 1
    MaxCrash = 1
SPECIFICATION Spec
INVARIANT AtLeastOnce
CHECK_DEADLOCK FALSE
