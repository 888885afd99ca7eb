\* Two projects with a webhook source of the same id.
CONSTANTS
    mod1 = mod1
    mod2 = mod2
    feed = feed
    hook1 = hook1
    Caller = {c1}
    Name = {mod1, mod2}
    Source = {feed, hook1}
    Polled <- MCPolled
    Hooked <- MCShared
    MaxInstance = 2
SPECIFICATION Spec
INVARIANT OthersUnaffected
CHECK_DEADLOCK FALSE
