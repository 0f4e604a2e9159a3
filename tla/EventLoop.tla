------------------------------ MODULE EventLoop ------------------------------
(***************************************************************************)
(* zab::event_loop (src/event_loop.cpp): one thread, an io_uring and a     *)
(* queue of user events.  Any thread may dispatch a user event: it appends *)
(* to the write deque under a lock and, when the deque was empty, writes   *)
(* to an eventfd after it has unlocked.  The loop's own coroutine,         *)
(* run_user_space(), swaps the deques, executes the events, and reads the  *)
(* eventfd through the ring like any other I/O operation.  run() takes     *)
(* completions off the ring in batches until a stop is requested.          *)
(*                                                                         *)
(* A step of the loop's thread is one access to what it shares with other  *)
(* threads or with the kernel, or the execution of one event.  An event    *)
(* that dispatches another to its own loop does what a Dispatcher does.    *)
(***************************************************************************)
EXTENDS Naturals, Sequences, FiniteSets, Functions

CONSTANTS Events,       \* user events, each dispatched at most once
          Dispatchers,  \* threads that dispatch
          Ops,          \* I/O operations that coroutines of this loop use
          Restarting,   \* those that are begun again whenever they complete
          SqSize,       \* kQueueSize: entries of the submission queue
          MaxBatch,     \* kMaxBatch
          MayInterrupt  \* can a signal interrupt io_uring_wait_cqe()?

UserRead == "eventfd"   \* the ring operation of run_user_space()

ASSUME EventLoopAssumption ==
    /\ UserRead \notin Ops
    /\ Restarting \subseteq Ops
    /\ SqSize \in Nat \ {0}
    /\ MaxBatch \in Nat \ {0}
    /\ MayInterrupt \in BOOLEAN

VARIABLES
    writeQ,      \* handles_[kWriteIndex]
    readQ,       \* what is left to execute of handles_[kReadIndex]
    size,        \* size_
    waking,      \* dispatchers (and the stopper) between unlock and wake()
    readable,    \* is the count of user_space_event_fd_ non-zero?
    sq,          \* operations prepared and not submitted
    kernel,      \* operations submitted and not complete
    cq,          \* completions not yet taken off the ring
    batch,       \* to_resume[], what is left of it
    loop,        \* where the thread of run() stands
    starting,    \* is run() still before its while loop?
    userSpace,   \* where the coroutine run_user_space() stands
    stop,        \* _st.stop_requested()
    dispatched,  \* history: the events in the order of their dispatch
    executed     \* history: the events in the order of their execution

queueVars == <<writeQ, size, dispatched>>
userVars == <<readQ, userSpace, executed>>
ringVars == <<sq, kernel, cq>>
runVars == <<batch, loop, starting>>
loopVars == <<queueVars, userVars, ringVars, runVars, waking, readable, stop>>

LoopInit ==
    /\ writeQ = <<>> /\ readQ = <<>> /\ size = 0
    /\ waking = {} /\ readable = FALSE
    /\ sq = {} /\ kernel = {} /\ cq = <<>> /\ batch = <<>>
    /\ loop = "user" /\ starting = TRUE /\ userSpace = "looking"
    /\ stop = FALSE
    /\ dispatched = <<>> /\ executed = <<>>

Stopper == "stopper"    \* the thread that calls request_stop()

(***************************************************************************)
(* Other threads.                                                          *)
(***************************************************************************)

(* Mutant: the second event in the deque wakes the loop, not the first. *)
DispatchUserEventLate(d, e) ==
    /\ d \notin waking
    /\ e \notin Range(dispatched)
    /\ writeQ' = Append(writeQ, e)
    /\ size' = size + 1
    /\ waking' = IF Len(writeQ') = 2 THEN waking \cup {d} ELSE waking
    /\ dispatched' = Append(dispatched, e)
    /\ UNCHANGED <<userVars, ringVars, runVars, readable, stop>>

(* dispatch_user_event(): what it does under the lock. *)
DispatchUserEvent(d, e) ==
    /\ d \notin waking
    /\ e \notin Range(dispatched)
    /\ writeQ' = Append(writeQ, e)
    /\ size' = size + 1
    /\ waking' = IF Len(writeQ') = 1 THEN waking \cup {d} ELSE waking
    /\ dispatched' = Append(dispatched, e)
    /\ UNCHANGED <<userVars, ringVars, runVars, readable, stop>>

(* wake(): after the lock is released, or from the stop callback. *)
Wake(d) ==
    /\ d \in waking
    /\ waking' = waking \ {d}
    /\ readable' = TRUE
    /\ UNCHANGED <<queueVars, userVars, ringVars, runVars, stop>>

(* request_stop() raises the flag and then calls get_stop_function()'s
   lambda, which wakes the loop. *)
RequestStop ==
    /\ ~stop
    /\ stop' = TRUE
    /\ waking' = waking \cup {Stopper}
    /\ UNCHANGED <<queueVars, userVars, ringVars, runVars, readable>>

(***************************************************************************)
(* The kernel's side of the ring (external).                               *)
(***************************************************************************)

CompleteOp(o) ==
    /\ o \in kernel
    /\ kernel' = kernel \ {o}
    /\ cq' = Append(cq, o)
    /\ UNCHANGED <<queueVars, userVars, sq, runVars, waking, readable, stop>>

(* Reading an eventfd takes its whole count. *)
CompleteUserRead ==
    /\ UserRead \in kernel
    /\ readable
    /\ readable' = FALSE
    /\ kernel' = kernel \ {UserRead}
    /\ cq' = Append(cq, UserRead)
    /\ UNCHANGED <<queueVars, userVars, sq, runVars, waking, stop>>

(***************************************************************************)
(* run_user_space()                                                        *)
(***************************************************************************)

(* Mutant: the read deque is filled with a copy. *)
SwapQueuesCopy ==
    /\ loop = "user"
    /\ userSpace = "looking"
    /\ readQ' = writeQ
    /\ size' = 0
    /\ userSpace' = "executing"
    /\ UNCHANGED <<writeQ, dispatched, executed, ringVars, runVars, waking, readable, stop>>

SwapQueues ==
    /\ loop = "user"
    /\ userSpace = "looking"
    /\ readQ' = writeQ
    /\ writeQ' = <<>>
    /\ size' = 0
    /\ userSpace' = "executing"
    /\ UNCHANGED <<dispatched, executed, ringVars, runVars, waking, readable, stop>>

(* do_op_impl(): with no free entry in the submission queue the operation
   ends at once with -ENOMEM and its coroutine goes on. *)
Prepare(op) == sq' = IF Cardinality(sq) < SqSize THEN sq \cup {op} ELSE sq

(* A coroutine begins an operation that is not under way: open_at, close,
   read, write, recv, send, accept, connect or cancel_event. *)
BeginOp(o) ==
    /\ o \notin sq \cup kernel \cup Range(cq) \cup Range(batch)
    /\ Prepare(o)

(* One user event, which may begin an I/O operation. *)
ExecuteUserEvent ==
    /\ loop = "user"
    /\ userSpace = "executing"
    /\ readQ # <<>>
    /\ readQ' = Tail(readQ)
    /\ executed' = Append(executed, Head(readQ))
    /\ \/ UNCHANGED sq
       \/ \E o \in Ops : BeginOp(o)
    /\ UNCHANGED <<queueVars, userSpace, kernel, cq, runVars, waking, readable, stop>>

(* co_await read(user_space_event_fd_, ...): when the read cannot be
   prepared the coroutine resumes inside the call with an error, and breaks
   out of its loop for good. *)
AwaitUserRead ==
    /\ loop = "user"
    /\ userSpace = "executing"
    /\ readQ = <<>>
    /\ Prepare(UserRead)
    /\ userSpace' = IF UserRead \in sq' THEN "waiting" ELSE "failed"
    /\ loop' = "batch"
    /\ UNCHANGED <<queueVars, readQ, executed, kernel, cq, batch, starting, waking, readable, stop>>

(***************************************************************************)
(* run()                                                                   *)
(***************************************************************************)

(* The completion of the eventfd's read resumes run_user_space(), which goes
   round its loop unless a stop was requested. *)
ResumeUserSpace ==
    /\ loop = "batch"
    /\ batch # <<>> /\ Head(batch) = UserRead
    /\ batch' = Tail(batch)
    /\ IF stop
       THEN userSpace' = "ended" /\ UNCHANGED loop
       ELSE userSpace' = "looking" /\ loop' = "user"
    /\ UNCHANGED <<queueVars, readQ, executed, ringVars, starting, waking, readable, stop>>

(* Any other completion resumes the coroutine that awaits it. *)
ResumeOp ==
    /\ loop = "batch"
    /\ batch # <<>> /\ Head(batch) # UserRead
    /\ batch' = Tail(batch)
    /\ IF Head(batch) \in Restarting THEN Prepare(Head(batch)) ELSE UNCHANGED sq
    /\ UNCHANGED <<queueVars, userVars, kernel, cq, loop, starting, waking, readable, stop>>

(* io_uring_submit(), after run_user_space() first suspends and after each
   batch. *)
SubmitRing ==
    /\ loop = "batch"
    /\ batch = <<>>
    /\ kernel' = kernel \cup sq
    /\ sq' = {}
    /\ loop' = IF starting THEN "check" ELSE "peek"
    /\ starting' = FALSE
    /\ UNCHANGED <<queueVars, userVars, cq, batch, waking, readable, stop>>

(* Mutant: run() does not test the token. *)
CheckStopNever ==
    /\ loop = "check"
    /\ loop' = "wait"
    /\ UNCHANGED <<queueVars, userVars, ringVars, batch, starting, waking, readable, stop>>

(* while (!_st.stop_requested() && ... *)
CheckStop ==
    /\ loop = "check"
    /\ loop' = IF stop THEN "returned" ELSE "wait"
    /\ UNCHANGED <<queueVars, userVars, ringVars, batch, starting, waking, readable, stop>>

WaitCqe ==
    /\ loop = "wait"
    /\ cq # <<>>
    /\ loop' = "peek"
    /\ UNCHANGED <<queueVars, userVars, ringVars, batch, starting, waking, readable, stop>>

(* A signal handler ran on this thread: io_uring_wait_cqe() fails with
   -EINTR and the while condition is false. *)
WaitInterrupted ==
    /\ loop = "wait"
    /\ MayInterrupt
    /\ loop' = "returned"
    /\ UNCHANGED <<queueVars, userVars, ringVars, batch, starting, waking, readable, stop>>

(* The inner while: copy a batch off the ring, or go back to the outer one. *)
PeekBatch ==
    /\ loop = "peek"
    /\ IF cq = <<>>
       THEN loop' = "check" /\ UNCHANGED <<cq, batch>>
       ELSE LET n == IF Len(cq) < MaxBatch THEN Len(cq) ELSE MaxBatch
            IN  /\ batch' = SubSeq(cq, 1, n)
                /\ cq' = SubSeq(cq, n + 1, Len(cq))
                /\ loop' = "batch"
    /\ UNCHANGED <<queueVars, userVars, sq, kernel, starting, waking, readable, stop>>

-----------------------------------------------------------------------------

LoopStep ==
    \/ SwapQueues \/ ExecuteUserEvent \/ AwaitUserRead
    \/ ResumeUserSpace \/ ResumeOp \/ SubmitRing \/ CheckStop \/ WaitCqe \/ PeekBatch

LoopNext ==
    \/ LoopStep \/ WaitInterrupted
    \/ CompleteUserRead \/ \E o \in Ops : CompleteOp(o)
    \/ RequestStop
    \/ \E d \in Dispatchers : \E e \in Events : DispatchUserEvent(d, e)
    \/ \E d \in Dispatchers \cup {Stopper} : Wake(d)

LoopSpec == LoopInit /\ [][LoopNext]_loopVars

(* The loop's thread and a thread inside wake() keep running, and the kernel
   completes the read of a readable eventfd.  Other I/O may never complete,
   nobody has to dispatch or to stop. *)
LoopFairness == /\ WF_loopVars(LoopStep)
            /\ WF_loopVars(CompleteUserRead)
            /\ \A d \in Dispatchers \cup {Stopper} : WF_loopVars(Wake(d))

LoopFairSpec == LoopSpec /\ LoopFairness

-----------------------------------------------------------------------------

RingOps == Ops \cup {UserRead}

LoopTypeOK ==
    /\ writeQ \in Seq(Events) /\ readQ \in Seq(Events) /\ size \in Nat
    /\ waking \subseteq Dispatchers \cup {Stopper} /\ readable \in BOOLEAN
    /\ sq \subseteq RingOps /\ kernel \subseteq RingOps
    /\ cq \in Seq(RingOps) /\ batch \in Seq(RingOps)
    /\ loop \in {"user", "batch", "check", "wait", "peek", "returned"}
    /\ starting \in BOOLEAN
    /\ userSpace \in {"looking", "executing", "waiting", "ended", "failed"}
    /\ stop \in BOOLEAN
    /\ dispatched \in Seq(Events) /\ executed \in Seq(Events)

(* No lost wake-up: events in the write deque while run_user_space() waits
   for its read, or is about to, imply that the eventfd is readable, that a
   thread is about to make it so, or that the read has completed.  Only the
   dispatch that finds the deque empty wakes the loop, outside the lock, and
   the count it writes may be consumed by a read begun for earlier events. *)
NoLostWakeup ==
    writeQ # <<>> /\ userSpace \in {"executing", "waiting"} =>
        \/ readable
        \/ waking # {}
        \/ UserRead \in Range(cq) \cup Range(batch)

(* Every dispatched event is executed at most once, in the order of
   dispatch, and none is dropped between the two deques. *)
InOrderExactlyOnce == dispatched = executed \o readQ \o writeQ

(* run_user_space() has broken out of its loop, because its read found no
   free entry in the submission queue: nothing reads the eventfd any more. *)
Deaf == userSpace = "failed"

(* Every event dispatched to a loop that is neither stopped nor deaf, and
   whose run() has not ended on an interrupted wait, is executed, however many
   others arrive and whatever other operations the ring completes in between. *)
DispatchedIsExecuted ==
    \A e \in Events :
        e \in Range(dispatched) ~> (e \in Range(executed) \/ stop \/ Deaf \/ loop = "returned")

(* A requested stop ends the run() of a loop that is not deaf, even when it
   sleeps and its wake-up races with others.  The inner loop of run() does not
   test the token, so operations that are begun again for ever may keep it
   there; once no more are begun, it ends. *)
StopIsHeard ==
    <>[](sq \subseteq {UserRead}) => (stop ~> (loop = "returned" \/ Deaf))

(* "Run the event loop until until signaled be the stop token": a requested
   stop ends run(). *)
StopEndsRun == stop ~> loop = "returned"

-----------------------------------------------------------------------------
(* The inductive invariant behind the theorems of EventLoopProofs: the read
   deque and the batch hold something only while they are being executed. *)
InUse ==
    /\ readQ # <<>> => userSpace = "executing" /\ loop = "user"
    /\ batch # <<>> => loop \in {"user", "batch"}

LoopInv == LoopTypeOK /\ NoLostWakeup /\ InOrderExactlyOnce /\ InUse
==============================================================================
