SPECIFICATION IoSpec
CONSTANTS
    Parts = {"transfer"}
    p1 = p1  p2 = p2  p3 = p3  c1 = c1  c2 = c2
    Pausers <- MCPausers
    Callers <- MCCallers
    Null = Null
    Unpaused = Unpaused
    Nobody = Nobody
    MaxIo = 2
    Size = 2
    MaxReads = 1
    OwnerWaits = TRUE
    Files = {f1, f2}
    Closers = {b1}
    MaxFd = 2
    Garbage = {0, 1}
    Content <- MCContent
    Source <- MCSource
    Half = 5
    Threads_ = 2
    Signals = {s1}
    MaxStops = 2
    MaxHandlers = 2
INVARIANTS
    WritesWhole
CHECK_DEADLOCK FALSE
