\* Small instances of the components of the host; see README.md.
CONSTANTS
    v1 = v1  yes = yes  no = no  absent = absent
    Explored <- AllParts
    MaxRestarts = 3
    CrashWindow = 9
    InitialBackoff = 1
    MaxBackoff = 2
    StableThreshold = 7
    StopGrace = 2
    QuickDeath = 1
    Trace = {t1, t2, t3}
    BreakDepth = 2
    Window = 1
    MaxTraces = 1
    Modules = 2
    Rec = {r1, r2, r3}
    RingSize = 4
    Empty = empty
    Conn = {c1, c2, c3, c4}
    WaitingMax = 1
    Flush = {f1, f2}
    MaxEntries = 3
    Stamp = {s1, s2}
    MaxSize = 1
    MaxFiles = 1
    Compress = TRUE
    Datum = {v1, yes, no}
    Absent = absent
    Yes = yes
    No = no
    Setups <- MCSetups
    Validators <- MCValidators
    Telling <- MCTelling
SPECIFICATION HostSpec
INVARIANTS
    HostTypeOK
    ChildAccountedFor
    CrashLoopBounded
    
    LoopsAreBroken
    NeverStranded
    
    DeliveredIsVetted
PROPERTIES
    
    RingIsRecentLog
CHECK_DEADLOCK FALSE
