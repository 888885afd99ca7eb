\* Liveness of delivery: one session, two senders, two entries.
CONSTANTS
    Key = {k1}
    Sender = {s1, s2}
    Reader = {r1}
    Limit = {0, 1}
    MaxEntry = 2
    NoCall = NoCall
SPECIFICATION FairSpec
PROPERTY EntriesReachAgent
