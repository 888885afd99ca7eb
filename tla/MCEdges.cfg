\* Small instances of the command line and the connectors; see README.md.
CONSTANTS
    Explored <- AllParts
    Command = {c1, c2, c3}
    Dir = {d1, d2}
    NoCommand = nobody
    Overlap = FALSE
    Post = {p1, p2}
    Connector <- MCConnectors
    Session = {s1}
    Cap = 1
    Poller = poller
    Agent = {a1}
    Poll = {l1, l2}
    MaxPolls = 3
    Comment = {k1, k2}
    MaxText = 2
    Pass = {r1, r2}
    MaxSeen = 1
    PruneTarget = 1
    Filters <- MCFilters
    Feeds <- MCFeeds
    MaxNow = 6
    MaxItems = 2
    Interval = 2
    Issue = {i1, i2}
    MaxChanges = 3
    MaxMail = 2
    MaxPerPoll = 1
    GogPoll = {q1, q2}
    Queries = {TRUE, FALSE}
    MaxTime = 12
    Highest = 5
    CronFields <- MCCronFields
    Every = 3
    Delivery = {e1, e2}
SPECIFICATION EdgesSpec
INVARIANTS
    EdgesTypeOK
    
    
    WrittenIsKept
    
    NoGhostSession
    
    
    
    
    SchedulesKept
    AnswersAreTrue
CHECK_DEADLOCK FALSE
