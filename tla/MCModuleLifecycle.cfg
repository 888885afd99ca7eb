\* Two modules, two calls at a time, three instances.
CONSTANTS
    mod1 = mod1
    mod2 = mod2
    feed = feed
    hook1 = hook1
    Caller = {c1, c2}
    Name = {mod1, mod2}
    Source = {feed, hook1}
    Polled <- MCPolled
    Hooked <- MCHooked
    MaxInstance = 3
SPECIFICATION Spec
SYMMETRY CallerSymmetry
INVARIANTS
    TypeOK
    
    
CHECK_DEADLOCK FALSE
