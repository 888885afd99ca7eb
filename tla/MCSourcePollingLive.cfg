\* Two activations, an outage and a reload, with fairness.
CONSTANTS
    Poller = {a1, a2}
    Threshold = 2
    Listening = TRUE
    MaxEvent = 1
    MaxInstance = 2
    MaxCrash = 0
SPECIFICATION FairSpec
PROPERTY EventsHandled
CHECK_DEADLOCK FALSE
