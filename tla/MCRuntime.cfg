SPECIFICATION RuntimeFairSpec
CONSTANTS
    Parts = {"event_loop", "timer", "binary", "counting", "spin_lock", "recursive"}
    e1 = e1  e2 = e2  e3 = e3  d1 = d1  d2 = d2  o1 = o1  o2 = o2
    Events <- MCEvents
    Dispatchers <- MCDispatchers
    Ops <- TwoOps
    Restarting <- OneOp
    SqSize = 2
    MaxBatch = 2
    MayInterrupt = TRUE
    h1 = h1  h2 = h2  t1 = t1  t2 = t2
    Handles <- MCHandles
    Threads <- MCThreads
    This = t1
    Delays <- MCDelays
    MaxMark = 4
    MaxTicks = 2
    Lockers = {k1, k2, k3}
    MaxDepth = 2
    w1 = w1  w2 = w2  w3 = w3  w4 = w4  r1 = r1  r2 = r2
    Coros <- MCCoros
    Unlocked = Unlocked
    LockFlag = LockFlag
    Nobody = Nobody
    Acquirers <- MCAcquirers
    Releasers <- MCReleasers
    Start = 0
    MaxReleased = 3
    Null = Null
INVARIANTS
    NoLostWakeup
    InOrderExactlyOnce
    TimerSafe
    MutualExclusion
    OneController
    PermitsRespected
    PlainExclusion
    RecursiveExclusion
PROPERTIES
    DispatchedIsExecuted
    StopIsHeard
    SleeperWakes
    WaiterEnters
    ImplementsFairLock
    ControlReturns
CHECK_DEADLOCK FALSE
