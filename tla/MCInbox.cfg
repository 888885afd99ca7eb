\* One session, two senders, two readers, two entries.
CONSTANTS
    Key = {k1}
    Sender = {s1, s2}
    Reader = {r1, r2}
    Limit = {0, 1}
    MaxEntry = 2
    NoCall = NoCall
SPECIFICATION Spec
SYMMETRY CallSymmetry
INVARIANTS
    TypeOK
    NoLostWakeup
    NothingVanishes
    DrainsTakeTurns
PROPERTY ImplementsMailbox
