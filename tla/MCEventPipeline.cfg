\* Two calls, two modules, a WAL that may fail, one crash.
CONSTANTS
    Call = {c1, c2}
    Event = {e1}
    Module = {1, 2}
    Route = {1, 2}
    Match <- MCMatch
    Manned <- MCManned
    Durable = TRUE
    Listening = TRUE
    MaxCrash = 1
SPECIFICATION FairSpec
INVARIANTS
    TypeOK
    AckedIsResolved
    EveryRouteAnswered
 
