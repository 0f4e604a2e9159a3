SPECIFICATION CoroutinesSpec
CONSTANTS
    p1 = p1  p2 = p2  a1 = a1  c1 = c1  c2 = c2  f1 = f1  f2 = f2  f3 = f3
    Pausers <- MCPausers
    Callers <- MCCallers
    Amount <- MCAmount
    Start = 3
    Null = Null
    Unpaused = Unpaused
    Nobody = Nobody
    Frames <- MCFrames
    Scenarios <- SomeStay
    Ops = {o1, o2, o3}
    Depth = 3
    MaxItems = 2
    MaxDefers = 2
    Observers = {v1, v2}
    Emissions = {e1, e2}
    Free = Free
    Threads = {1, 2, 3}
    AnyThread = 0
    MaxCalls = 3
    MaxRounds = 3
INVARIANT
    LinkReadInTime
CHECK_DEADLOCK FALSE
