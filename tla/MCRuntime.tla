------------------------------ MODULE MCRuntime -------------------------------
(* The event loop, the timer service and the locks, one of them at a time: the
   parts that are not chosen stay as they are.

   One loop with two dispatching threads, three events and up to two I/O
   operations, whose small queues put the full submission queue and the second
   batch within reach.  Two coroutines that ask a timer service for no, a short
   and a long delay, to be resumed in one of two threads.  Four coroutines on
   the binary semaphore: one holds, one waits in transfer_, two race on the
   word.  Three coroutines and two releasing threads on the counting one, which
   starts with no permit and gets three, one, two or three at a time.  Three
   threads on either spin lock. *)
EXTENDS EventLoop, TimerService, BinarySemaphore, CountingSemaphore, SpinLock

CONSTANTS Parts,   \* which of them
          e1, e2, e3, d1, d2, o1, o2, h1, h2, t1, t2, w1, w2, w3, w4, r1, r2

VARIABLE part

MCEvents == {e1, e2, e3}
MCDispatchers == {d1, d2}
TwoOps == {o1, o2}
OneOp == {o1}
NoOps == {}
MCHandles == {h1, h2}
MCThreads == {t1, t2}
MCDelays == {0, 1, 3}
MCCoros == {w1, w2, w3, w4}
MCAcquirers == {w1, w2, w3}
MCReleasers == {r1, r2}

(* The loop of the runs of another part: it has returned already. *)
NoLoop ==
    /\ writeQ = <<>> /\ readQ = <<>> /\ size = 0 /\ waking = {} /\ readable = FALSE
    /\ sq = {} /\ kernel = {} /\ cq = <<>> /\ batch = <<>>
    /\ loop = "returned" /\ starting = TRUE /\ userSpace = "looking" /\ stop = FALSE
    /\ dispatched = <<>> /\ executed = <<>>

RuntimeInit ==
    /\ part \in Parts
    /\ IF part = "event_loop" THEN LoopInit ELSE NoLoop
    /\ Init /\ (part # "binary" => ~held)
    /\ CountingInit /\ TimerInit /\ SpinInit

RuntimeNext ==
    /\ \/ /\ part = "event_loop" /\ LoopNext
          /\ UNCHANGED <<timerVars, vars, countingVars, spinVars>>
       \/ /\ part = "timer" /\ TimerNext
          /\ UNCHANGED <<loopVars, vars, countingVars, spinVars>>
       \/ /\ part = "binary" /\ Next
          /\ UNCHANGED <<loopVars, timerVars, countingVars, spinVars>>
       \/ /\ part = "counting" /\ CountingNext
          /\ UNCHANGED <<loopVars, timerVars, vars, spinVars>>
       \/ /\ \/ part = "spin_lock" /\ PlainNext
             \/ part = "recursive" /\ RecursiveNext
          /\ UNCHANGED <<loopVars, timerVars, vars, countingVars>>
    /\ UNCHANGED part

RuntimeSpec ==
    RuntimeInit /\ [][RuntimeNext]_<<part, loopVars, timerVars, vars, countingVars, spinVars>>

(* The fairness of each part; that of the others asks for nothing, since no
   fair action changes their state. *)
RuntimeFairSpec ==
    RuntimeSpec /\ LoopFairness /\ TimerFairness /\ Fairness /\ CountingFairness
=============================================================================
