# zab in TLA+

zab is a C++20 coroutine framework on top of io_uring. This directory holds TLA+
modules for it, the TLC configurations that check them and TLAPS proofs about them.
Paths below are relative to the repository root.

## The system

An `engine` owns one `event_loop` and one `timer_service` per thread, and a
`signal_handler`. A coroutine runs on a loop's thread until it suspends; whoever
resumes it hands its handle to `engine::thread_resume`, which appends it to the user
queue of a loop. Synchronisation primitives keep intrusive lists of suspended
coroutines in one atomic word and never block a thread. Streams and files begin
operations on the ring of their thread and are resumed by its completions. Promises and
futures decide who owns a coroutine frame; awaitables connect a suspended coroutine to
the event that resumes it.

| component | state | operations | hard because |
|---|---|---|---|
| `event_loop` | two deques under a spin lock, `size_`, an eventfd, an io_uring | `dispatch_user_event`, `wake`, `run`, `run_user_space`, one function per ring operation, `cancel_event` | wake-up outside the lock, one wake-up per batch, full queues, stop racing with sleep |
| `engine` | loops, timers, threads | `start`, `stop`, `thread_resume`, `delayed_resume`, `get_any_thread`, `execute` | stop racing with start, choice of thread from stale sizes |
| `signal_handler` | handlers under a mutex, a pipe | `handle`, `run`, `stop` | signals at any instruction, registration racing with stop |
| `timer_service` | map mark -> bucket, `current_`, a periodic timerfd | `wait`, `change_timer`, `run` | its own clock lags; re-arming races with a completed read |
| `pause_token` | `resuming_`: flag, null or list head | `pause`, `unpause`, `co_await` | lock-free list, address re-use, walk over frames that are being resumed |
| `async_latch` | `count_`, a pause token | `count_down`, `wait`, `arrive_and_wait` | several callers cross zero, a waiter destroys the latch |
| `async_binary_semaphore`, `async_mutex` | `resuming_`, `transfer_` | `try_aquire`, `release`, `co_await` | ownership hand-over through an event loop, unprotected `transfer_` |
| `async_counting_semaphore` | `active_count_`, `release_count_`, `resuming_`, `transfer_` | `try_aquire`, `release`, `control`, `co_await` | subtract and link are two steps |
| `async_barrier` | `working_set_`, `count_`, `expected_` | `arrive_and_wait`, `arrive_and_drop`, `complete_phase` | cutting a window out of a list under pushes; early arrivals for the next phase |
| `observable` | observers, per-observer result lists | `emit`, `connect`, `disconnect`, `co_await` | results live in the emitter's frame |
| `wait_for`, `first_of`, `pause` | a counter; a shared cell | completion callbacks | completion inside the starting call and on other threads |
| promises, futures, `for_each`, deferred blocks | coroutine frame, result, continuation | await, yield, return, destroy | who owns the frame |
| awaitables | a functor, an event | ready, suspend, notify, resume | the awaiter may be resumed below `await_suspend` |
| `engine_enabled` | an engine pointer | `proxy` and forwards | which thread a coroutine is on |
| `network_operation`, `tcp_stream`, `tcp_acceptor`, `tcp_connect` | descriptor, cancel tokens, error | read, write, accept, connect, cancel, shutdown, close | cancellation racing completion and destruction |
| `async_file` | descriptor | open, close, move, read and write loops | short transfers, descriptors used again |
| `spin_lock`, `recursive_spin_lock` | an atomic, a plain counter | `lock`, `try_lock`, `unlock` | plain counter guarded by the word |

## The modules

| module | models | source |
|---|---|---|
| `Gate` | what a pause token promises (abstract) | |
| `PauseToken` | `pause_token`, pointer by pointer | `includes/zab/pause_token.hpp` |
| `AsyncLatch` | `async_latch`; extends `PauseToken` and composes its actions | `includes/zab/async_latch.hpp` |
| `EventLoop` | `event_loop` with its ring and its eventfd | `src/event_loop.cpp` |
| `FairLock` | what the binary semaphore and the mutex promise (abstract) | |
| `BinarySemaphore` | `async_counting_semaphore<1>` as `async_mutex` uses it | `includes/zab/async_semaphore.hpp`, `async_mutex.hpp` |
| `CountingSemaphore` | `async_counting_semaphore` | `includes/zab/async_semaphore.hpp` |
| `TimerService` | `timer_service` and `engine::delayed_resume` | `src/timer_service.cpp`, `src/engine.cpp` |
| `Engine` | `engine::start`, `stop`, its threads, and `signal_handler` | `src/engine.cpp`, `src/signal_handler.cpp` |
| `SpinLock` | both spin locks | `includes/zab/spin_lock.hpp` |
| `AsyncBarrier` | `async_barrier` | `includes/zab/async_barrier.hpp` |
| `Combinators` | `wait_for`, `first_of`, `pause` | `includes/zab/wait_for.hpp`, `first_of.hpp`, `pause.hpp`, `src/pause.cpp` |
| `Futures` | ownership along a chain of coroutines, generators, deferred blocks | `includes/zab/*_promise.hpp`, `*_future.hpp`, `async_function.hpp`, `for_each.hpp` |
| `Observable` | `observable` | `includes/zab/observable.hpp` |
| `Proxy` | `engine_enabled::proxy` | `includes/zab/engine_enabled.hpp` |
| `Awaitables` | `suspension_point` over both awaitables | `includes/zab/generic_awaitable.hpp`, `stateful_awaitable.hpp`, `event.hpp` |
| `Streams` | `tcp_stream` on `network_operation`, connecting and accepting | `includes/zab/tcp_stream.hpp`, `network_operation.hpp`, `tcp_networking.hpp`, `src/network_operation.cpp` |
| `AsyncFile` | `async_file` | `includes/zab/async_file.hpp` |
| `PauseTokenProofs` | theorems about `PauseToken` and `AsyncLatch` | |
| `EventLoopProofs`, `SpinLockProofs`, `CombinatorsProofs`, `FuturesProofs` | theorems about the module each is named after | |
| `SemaphoreProofs` | theorems about `BinarySemaphore` and `CountingSemaphore` | |
| `CoroutinesProofs` | theorems about `Proxy`, `Observable`, `AsyncBarrier`, `Awaitables` | |
| `IoProofs` | theorems about `AsyncFile`, `Streams`, `TimerService`, `Engine` | |
| `MC*` | the finite instances for TLC | |

`PROJECT.json` maps each definition to its lines. A definition whose comment begins
with *Mutant* is a version of the next definition with a plausible bug; it is not part of
any specification and exists to show that a property would notice the bug.

The modules for a primitive are used by those above it: `AsyncLatch` extends
`PauseToken` and is built from its actions; `Observable` takes its mutex as the lock
that `BinarySemaphore` implements and its latch as a count that opens at zero, which is
what `AsyncLatch` establishes; the vector form of `wait_for` likewise; `Engine` takes
a worker's loop as `EventLoop` shows it to be. `Awaitables` explains why a full submission
queue (`EventLoop`) may resume a coroutine below its own `await_suspend`.

**PauseToken.** One action is one atomic access to `resuming_` or one access to a
shared pauser: loading the word, the compare-exchange that pushes, its failure, the
two halves of `pause()`, and of `unpause()` the exchange, the read of a link and the
queueing of a handle. A coroutine has one address for its pausers, so that awaiting
again re-uses the memory. `posted` holds the handles given to `thread_resume`;
`Resume` is the event loop running one. `owner` and `depth` are history variables
that name the list a pauser is in; no guard reads them.

**AsyncLatch.** `count_down` is the subtraction (`CountDown`) and then, for the caller
that crossed zero, the token's `unpause` (`LatchUnpause`, `LatchWalk`). A coroutine
that is also a caller does `arrive_and_wait`. `Destroy` is a waiter that owns the latch
in its frame, as in `wait_for` and `observable::emit`: it knows that every
`count_down` was called, not that it returned.

**EventLoop.** `DispatchUserEvent` is the critical section, `Wake` the later write to
the eventfd. `SwapQueues`, `ExecuteUserEvent` and `AwaitUserRead` are
`run_user_space`; `SubmitRing`, `CheckStop`, `WaitCqe`, `PeekBatch`, `ResumeOp` and
`ResumeUserSpace` are `run`. `Prepare` is `do_op_impl`: without a free entry the
operation fails inside the call. The kernel (`CompleteOp`, `CompleteUserRead`) is
external: an operation completes at any time or never, which includes completion by
cancellation; a `cancel_event` is one more operation. An operation in `Restarting` is
begun again by its coroutine whenever it completes, until it cannot be prepared.

**BinarySemaphore.** The word is kept as `held` and `stack`; threads load and compare
only its `Top`, so an address that reappears compares equal, as in the code. The local
reversal of a list that only the releasing thread can see is one step with the
exchange that took it.

**CountingSemaphore.** Load, compare-exchange, `fetch_sub` and linking are separate
steps of a coroutine. `control()` is a coroutine that starts on the releasing thread:
its yield lets `release()` return, and what that caller releases afterwards is a
release by another member of `Releasers`.

**TimerService.** `waiting` maps marks to buckets, `left`/`interval`/`ticks` are the
timerfd. Everything but the kernel runs on one thread, so each function is one step.
`CompleteRead` and `RunTick` are separate because other events run between the
completion and the resumption of `run()`. A read that fails ends `run()`: at once when the ring has no
free entry for it (the choice of `running'` in `RunTick`, and `RunBreaks`), or when it is resumed with an
error. `kAnyThread` is resolved before the call.
`owed` and `wanted` are history variables.

**Engine.** `StartEngine`, `CreateWorker`, `AllCreated` and `StartReturn` are `start()`, which
holds `mtx_` while it creates; `WorkerArrive`, `WorkerRun` and `WorkerStop` are the body
of a thread. A loop may become deaf (`WorkerDeaf`), as `EventLoop` shows: it then executes nothing that is
queued, and sees a stop only if some other operation completes (`DeafStop`). `stop()` is `StopSignals` (the signal handler's `stop`) and, once `mtx_` is free,
`RequestStops`. A stop that was requested before a worker has its `stop_callback` wakes the worker's
loop at once. `Handle` and `Install` are the two halves of `handle()`, which holds the
handlers' mutex over both; `Raise` is the process handler writing to the pipe, or following a null `handler_` after
`DestroyEngine`; `ReadSignal` is one round of `signal_handler::run()`, `PipeReadFails` the failed read that ends
it; `CallHandler` the functor executed by its thread's loop. `due` counts the calls still owed. A signal is taken by the thread that
is blocked in `start()`.

**SpinLock.** One step per access to the word or to the plain counter. Ids come from
`get_id()`, which begins at 1 so that no id is the word of a free lock.

**AsyncBarrier.** Arriving is the subtraction, and linking is a second step.
`complete_phase()` is a sequence of steps of an execution in `completions`: acquire the
window, trim it from the list, call the function, reduce `expected_`, refill
`count_`, resume, and begin again if the next phase is full. Scenarios give a barrier
its size, who may leave, and how often a frame arrives.

**Combinators.** An operation is started, produces its result, arrives and, if last,
executes the event; the starting call arrives too. For `first_of`, an operation
elects itself by the exchange, writes the result and unpauses; the caller suspends only
after starting all of them.

**Futures.** Frames form a chain, each held by a future in the one before it. `kind`
selects the promise. Destruction is a stack of frames being unwound, in the order of
C++: locals, then the promise, then the memory, so that the future of a half-destroyed
frame is destroyed before what it refers to. `Park` suspends a leaf in an event loop,
`DestroyParked` is the loop destroying what it holds. `registered` is a history of the blocks that were deferred
and not purged.

**Observable.** `emit` is locking, one step per observer, arriving at the latch, and
returning. `~internal_observer` is one step for a `count_down` and one for the link it
reads afterwards. `Disconnect` may be called by anybody, while the observer runs, reads or waits; a coroutine
that waited is destroyed with the internal observer (`Gone`) unless an `emit` has resumed it before, in which case
it dereferences a null pointer (`ResumeAbandoned`) and the behaviour ends, with `crashed`.

**Proxy.** Which thread the caller, the proxy and the member are on, for the three kinds of
overload; the member may end on any thread.

**Awaitables.** `stack` holds the functions of the awaitable that have not returned; an
operation that cannot be submitted resumes the awaiter on top of them.

**Streams.** A token is the number of the operation whose address the code stores.
`Begin`, `SubmitAgain` and `ResumeIo` are the four transfer operations; `Cancel`,
`KernelCancel` and `ResumeCancel` a cancellation, whose kernel half may come after the
operation has completed; `ShutdownWrite`/`ShutdownRead` the loop of `shutdown()`;
`closer` is who asked the ring to close. `OwnerWaits` tells owners that destroy a stream only
when nothing is under way from those that rely on the destructor.

**AsyncFile.** Descriptors are numbers; the kernel hands out the lowest free one and closes whatever is
open under the number it is given. `file_` starts as anything in `Garbage`. An `open()` on an object that has
a descriptor overwrites it, a `close()` without one closes number 0, a background close that reports an error
closes the number once more (`ResumeClose`), by which time it may be somebody else's. `ownerOf` and `strays` are
histories: whose a descriptor is, and who holds a number without owning it. `job` is a whole-file
transfer. `Request` has the limit of 2^31 - 2 bytes and `OffSet` the conversion of the place in the file to 32
bits, with `Half` for 2^31; the kernel moves any part of what is asked. `turn` tells a transfer of one request from
a longer one. A write that has gone past its total, as it may after a short one, reads behind the buffer; the
model ends there (`overrun`).

## Runs

| run | bounds | shows |
|---|---|---|
| `runtime` | 3 events, 2 dispatchers, 2 operations, submission queue and batch of 2, signals; 2 sleepers with delays 0, 1, 3; 4 coroutines on the binary, 3 coroutines, 2 releasers and 3 permits on the counting semaphore; 3 threads on either spin lock | loop (`NoLostWakeup`, `InOrderExactlyOnce`, `DispatchedIsExecuted`; `StopIsHeard`: a stop ends `run()` unless `run_user_space()` has failed or operations are begun for ever), timer (`TimerSafe`; `SleeperWakes`: until a read of the timerfd fails), semaphores (`MutualExclusion`, `FairLock` implemented, `WaiterEnters`; `OneController`, `PermitsRespected`, `ControlReturns`), spin locks (`PlainExclusion`, `RecursiveExclusion`) |
| `io` | 3 coroutines and 2 callers of a pause token; 2 stream operations and a shutdown; 2 file objects, 1 close at a time, 3 descriptors; a file of 6 bytes, 3 bytes to write, offsets of -5 to 4; 2 workers, 2 stops, 1 signal with 2 functors | pause token (`WalkTouchesOnlySuspended`, `Gate` implemented, `TakenIsResumed`), streams (`TokenNamesPending`, `WholeOrReason`, `ClosedExactlyOnce`), files (`DescriptorsOwned`, `TransferCorrect`), engine and signals (`StopHeard`, `SignalReaches`) |
| `coroutines` | latch of 3 with amounts 2, 1, 1; barriers of 3, 2 and 1 for 3 frames; 3 operations; chains of 3 with 2 deferred blocks; 2 observers and 2 emissions; 3 threads; 3 rounds | latch (`LatchSafe`, `WaitersPass`), barrier (`PhaseAccounted`, `NobodyAhead`, `WaitersResumed`), `wait_for` and `first_of` (`WaitForComplete`, `OneWinner`, `CallersResumed`), futures (`FramesOwned`, `ItemsInOrder`, `DefersOnce`), observable (`ResultsLive`, `HeardInOrder`, `EmitEnds`), proxy (`ProxyKeepsThreads`), awaitables (`ContinuedExactlyOnce`) |
| `event_loop_sq_full` | submission queue of 1 | **violated**: a full queue ends `run_user_space()`, and a stop no longer ends `run()` |
| `counting_semaphore_stranded` | as `runtime` | **violated**: a released permit can miss a coroutine that is about to wait |
| `async_barrier_stale_expected` | 2 of 3 frames expected, one may leave | **violated**: a `complete_phase()` that the next phase has overtaken compares the count it refilled with an `expected_` that a departure has reduced since, and begins a phase nobody waits for |
| `observable_link` | as `coroutines` | **violated**: a departing observer reads the link of a result that is gone |
| `timer_service_early` | as `runtime` | **violated**: a wait can end early |
| `timer_service_thread` | as `runtime` | **violated**: a coroutine can wake in another thread than it asked for |
| `async_file_short_read` | as `io` | **violated**: what follows a short read overwrites it |
| `async_file_short_write` | as `io` | **violated**: after a short write the beginning of the data is written in place of its end |
| `tcp_stream_destroyed` | owners do not wait | **violated**: a destroyed stream is still referred to |

The three passing runs hold several parts that share no state. Each
behaviour chooses one part and explores it in full, the rest stays as it was initially;
the parts are not interleaved, since no step of one can affect another.

A property that needs several facts is a conjunction of named parts: `LatchSafe` is
`OneTrigger`, `PassedMeansZero` and `NoAccessAfterDestroy`; `PhaseAccounted`, `FramesOwned`,
`ProxyKeepsThreads`, `TimerSafe`, `TokenNamesPending`, `ClosedExactlyOnce`, `DescriptorsOwned`,
`TransferCorrect`, `ContinuedExactlyOnce` and `SignalReaches` are built in the same way, and the parts are named in
their modules.

Why the bounds are enough. Three coroutines are the least for a list in which one
pauser is walked, one is re-used and one is pushed, and two callers let two walks
overlap. Four coroutines let one hold the semaphore while one waits in `transfer_` and
two race on the word. Three events make a batch, a second batch behind it, and a wake-up
consumed on behalf of earlier events; a queue of 2 can be full with one operation
pending. Three releases exceed what one `control()` call is started for. A barrier of two
with three frames has arrivals for the next phase while one is completed; one with
three, two of whom may leave, changes its size between phases; a barrier of one completes
in the arriving call. Three operations have a first, a last and one between. A chain of
three has a frame that both awaits and is awaited. Two overlapping emissions and two
observers give lists of two results and a departure with pending ones. Three threads tell
the caller's, the required and any other apart. Two transfers let one be cancelled while
the next is begun, and a size of 2 lets it be short. Three descriptors let a number be used
again while its former owner's close is under way. Two workers are one with and one
without the signal handler; two stops overlap. Delays 1 and 3 give equal marks,
overtaking, and expiries handled late. `MaxMark` and `MaxTicks` bound only how long the
timer's clock runs without being reset and how late a read may be; `MaxReleased`,
`MaxIo`, `MaxItems`, `MaxDefers`, `MaxCalls`, `MaxRounds`, `MaxStops`, `MaxHandlers`,
`MaxDepth` and the `arrivals` of a scenario bound how often somebody asks for something.
`MaxReads` is 1 in place of 5: the loop of `shutdown()` treats every read alike. Deadlock
checking is off because the parts may stop: a loop that has returned, a latch that is used
once, bounds used up. Two file objects and one close at a time suffice for an object to
be given a number that a failed close is about to close again; a `Half` of 5 lets the offset of a file of
6 bytes turn negative, and the limit of a request be less than the file.

Restrictions on inputs. An `async_file` has one `open()` under way at a time and is not destroyed during it, and the awaitable
of `close()` is awaited. A file is not changed by others during a transfer: a read of zero bytes is not the
end for `read_file()` (`includes/zab/async_file.hpp:458`); `write_to_file()` starts on a file just
truncated. A failed close of a stream leaves its descriptor open, because a socket has nothing to
flush and fails only before the number is released; `AsyncFile` has both outcomes, a file being flushed on its last close. An observer holds one guard at a time, and its
coroutine is destroyed only through its internal observer. `PendingCancellable` speaks of operations that
began alone on their side, since a later one overwrites the token. `BodyInThread` and
`CallerInThread` exempt a generator whose caller changes threads between items, which keeps
comparing with the thread of the first call (`includes/zab/engine_enabled.hpp:460`).
`NothingLeft` exempts chains with a void generator, whose promise has no destructor
(`includes/zab/reusable_promise.hpp:286`). `RegisteredIsInstalled` and `SignalReaches` hold until a
`stop()`, after which a signal is never installed again (`src/signal_handler.cpp:169`), and until the destruction;
`SignalReaches` also ends with a failed read of the pipe and with a deaf loop. A
`stop()` before `start()` stops nobody, so `StopHeard` begins with `start()`. The `stop()` of a
`signal_handler` walks the handlers in one step although it does not take their mutex (`src/signal_handler.cpp:147`).

Further observations have no run of their own: the inner loop of `run()`
(`src/event_loop.cpp:436`) does not test the stop token while completions keep
arriving, so an operation in `Restarting` can keep `run()` from ending; a signal that
interrupts `io_uring_wait_cqe()` ends `run()` without a stop; `size_`
(`src/event_loop.cpp:469`) is zero while swapped events are still being executed,
although `event_size()` is documented as the number of events waiting to be handled;
when every frame leaves a barrier in one phase, `expected_` and the refilled count are both zero and
`complete_phase()` begins again with nobody left (`includes/zab/async_barrier.hpp:593`; `BegunWhenWaiting` is violated with
`Scenarios <- AllLeave` in `MCBarrierStaleExpected.cfg`);
a full submission queue also ends `timer_service::run()` (`src/timer_service.cpp:160`) and
`signal_handler::run()` (`src/signal_handler.cpp:129`), which nothing begins again;
the destructor of `signal_handler` leaves its handler installed, which then follows a null pointer,
although `includes/zab/signal_handler.hpp:82` says that it resets the callbacks to default; `disconnect()` of an
observer that waits, racing with an `emit()`, has the resumed coroutine dereference a null `internal_`
(`includes/zab/observable.hpp:179`); `accept(address)` clears the pointer it was given and not what it points to
(`includes/zab/tcp_networking.hpp:168`);
`pause_token` is constructed paused (`includes/zab/pause_token.hpp:212`), although the
comment at line 86 says unpaused, and the latch relies on the code.

## Fairness

Threads keep executing what they have begun, and event loops run what is queued:
weak fairness of the steps inside `unpause`, `count_down`, `release`, `control`, `wake`,
`start`, `stop`, `complete_phase`, `emit`, the loops' own steps, and of every step that
executes a queued handle. Nothing is assumed of who calls `pause`, `unpause`,
`dispatch_user_event`, `request_stop`, `co_await`, `arrive_and_wait`, `emit`, `handle` or
`cancel`, nor of a coroutine that keeps losing a compare-exchange. A holder of a
semaphore or of the observable's mutex eventually releases it, and
operations under `wait_for` and `first_of` finish. An observer keeps observing
or leaves, which the library leaves to its user; that it gets the mutex it waits for is strong fairness, which
`WaiterEnters` justifies. The kernel completes the read of a readable eventfd or timerfd, a
request to cancel or to close and a file transfer, and time passes; a peer may never
send, and other operations may never complete: in `Awaitables` a completion is not fair, and
`AwaitEnds`, the liveness part of `ContinuedExactlyOnce`, speaks of behaviours in which no operation is submitted for
ever. `StopIsHeard` likewise speaks of loops to which no more operations are added from some time on.
The failures (`RunBreaks`, `PipeReadFails`, `WorkerDeaf`, a close that reports an error) may happen at any
time or never; nothing is fair about them, nor about the way out of a deaf loop.

## Proofs

Every theorem holds for all values of the constants that satisfy the named assumptions of
its module. They say no more than the code or its use guarantees: special words differ
from coroutines and from each other (`DistinctAssumption`, `SemaphoreAssumption`,
`CountingAssumption`, `ObservableAssumption`, `ProxyAssumption`), sizes and amounts are
positive (`EventLoopAssumption`, `FuturesAssumption`, `StreamAssumption`,
`AwaitAssumption`), delays, bounds and file contents are natural numbers (`TimerAssumption`,
`FileAssumption`, which also says that 2^31 is at least 3 and what an object or a close is not called), a thread id fits 16 bits with one value kept for "any"
(`EngineAssumption`), and where a proof counts, there are finitely many
threads, operations, frames or observers (`SpinAssumption`, `OpsAssumption`,
`CountingAssumption`, `BarrierAssumption`, `ObservableAssumption`). `LatchAssumption` has
a positive count and somebody who may wait.

One hypothesis belongs to single theorems and names how the library must be used: `ProperUse` (the three
theorems of the barrier), nobody leaves, or the barrier expects
every frame and one of them stays. `async_barrier_stale_expected` and
the barrier that all leave, below the table of runs, show what happens otherwise. Every barrier of the run `coroutines`
satisfies it.

Each theorem `Spec => []P` is proved from an inductive invariant; these are stated at the end of
the component's module or at the head of its proofs, were checked with TLC on the bounds of the runs before they were proved, and have no
run of their own.

| theorem | property | inductive invariant |
|---|---|---|
| `ListsWellFormed`, `WalkIsSafe`, `TokenImplementsGate` | `WalkTouchesOnlySuspended`, `ImplementsGate` | `ListInv` |
| `LatchIsSafe` | `LatchSafe` | `ListInv`, `LatchInv` |
| `TypeCorrect`, `WakeupsAreKept`, `EventsInOrder` | `LoopTypeOK`, `NoLostWakeup`, `InOrderExactlyOnce` | `LoopInv` |
| `SemaphoreInvariant`, `MutualExclusionHolds`, `SemaphoreImplementsFairLock` | `MutualExclusion`, `ImplementsFairLock` | `SemaphoreInv` |
| `CountingInvariant`, `OneControllerHolds`, `PermitsAreRespected` | `OneController`, `PermitsRespected` | `CountingInv` |
| `SpinLockExcludes`, `WordNamesOwner`, `RecursiveLockExcludes` | `PlainExclusion`, `RecursiveExclusion` | `SpinInv`, with `RecursiveInv` |
| `WaitForCounts`, `WaitForIsComplete` | `WaitForComplete` | `WaitInv`, with `CounterInv` |
| `FirstOfHasOneWinner` | `OneWinner` | `FirstInv` |
| `ProxyKeepsThreadsHolds` | `ProxyKeepsThreads` | `ProxyInv` |
| `HeardInOrderHolds`, `ResultsLiveHolds` | `HeardInOrder`, `ResultsLive` | `ObservableInv` |
| `PhasesAreAccounted`, `NobodyGetsAhead`, `BeginsWithAPhase` | `PhaseAccounted`, `NobodyAhead`, `BegunWhenWaiting` | `BarrierInv` |
| `ContinuedAtMostOnce` | `ContinuedOnce`, the safety half of `ContinuedExactlyOnce` | `AwaitInv` |
| `FramesAreOwned`, `ItemsArriveInOrder`, `DefersRunOnce` | `FramesOwned`, `ItemsInOrder`, `DefersOnce` | `FuturesInv` |
| `DescriptorsAreOwned` | `DescriptorsOwned` | `DescriptorInv` |
| `TransfersAreCounted` | `TransferCounted`, the safety half of `TransferCorrect` | `TransferInv` |
| `TokensNamePending` | `TokenNamesPending` | `TokenInv` |
| `WholeOrReasonHolds` | `WholeOrReason` | `MovedInv` |
| `ClosedAtMostOnce` | `ClosedOnce`, the safety half of `ClosedExactlyOnce` | `CloseInv` |
| `TimerIsSafe` | `TimerSafe` | `TimerInv` |
| `StopsAreNotLost` | `StopNotLost`, which `StopHeard` rests on | `StopInv` |
| `RegisteredAreInstalled` | `RegisteredIsInstalled`, a part of `SignalReaches` | `HandlersInv` |

*Pause token.* "A walk touches only suspended coroutines" is not inductive: after a step of
the walk one must know that the link just followed leads to a coroutine that is suspended
too, and that no other walk owns it. `ListInv` says who owns each suspended pauser, that
links stay within a list and go one shallower (so lists are finite and end in null), that
no two pausers of a list have the same depth, and that the word and each walk head the
deepest pauser they own. A push preserves it although it compares only the head: the head
names the deepest pauser of the token's list whatever happened before, which is why address
re-use is harmless. `TokenImplementsGate` shows each step to be a step of `Gate` or a stutter.

*Latch.* Nobody pauses the token of a latch, so it is shut until the one `unpause()` and open
ever after: between the subtraction that crosses zero and that `unpause()` exactly one caller
is the trigger. `ListInv` is preserved because every step of a latch is a step of its token
or leaves the token alone. That a waiter may destroy the latch needs that all
have passed, so no walk has anything left to read.

*Event loop.* `LoopInv` adds that the read deque and the batch hold something only while they
are being executed. The wake-up argument is a case split on who has the token that the
first dispatch of a batch creates: the thread about to write, the eventfd, the
completion queue or the batch.

*Semaphores.* In the binary semaphore the word is non-zero exactly while there is an owner, every
suspended coroutine is linked in exactly one place, and what is linked is suspended. The
refinement maps the two lists to one queue, `transfer_` followed by the reversed stack; lemmas about
`Reverse` and concatenation show that taking the list over does not change the queue, and that a
push appends to it. For the counting semaphore the election by `release_count_` leaves
one controller at a time (`Elected`), a waiter is linked once (`LinkedOncePerWait`), and
`PermitsBalance` is an equation over permits: free ones, granted ones and those set against somebody
who waits are what was put in. A controller that spins owes a permit, so by the equation somebody has
subtracted and not been served, and is linked or about to link.

*Spin locks.* That a relaxed load of one's own id implies ownership is inductive only with
ids that are distinct and non-zero, the counter equal to the depth of the owner, and
threads on their way in holding nothing.

*Combinators.* The counter is the number of operations still to arrive plus one for the
starting call, and the one subtraction that reaches zero makes exactly one actor the last.
While the cell of `first_of` holds the pack nobody has won, and afterwards exactly one
operation is between the exchange and the resumption of the caller.

*Proxy, observable, awaitables.* `ProxyInv` is a table of where each stage of a call
executes. `ObservableInv` counts: the latch of an emission is the number of observers that
still owe it a release, plus the emitter until it arrives, so the results live in the emitter's frame while
anybody can read them. In `AwaitInv` only the innermost function on the stack has something
to do, and while it has, nothing is submitted, so nobody else can continue the awaiter.

*Barrier.* Windows are cut from the old end of a list that grows at the other, so
`aquire_window()` and a push do not meet; no frame is in two windows or in a window and in
the list. `CountMatchesList` relates the count to the list and to those about to link. With
`OneInCharge` it gives that whoever begins `complete_phase()` finds the frames of a phase. When everybody
is expected, a phase takes all who are left, which fixes how often each frame has arrived
and passed by the number of windows cut so far (`InPhase`); `NobodyAhead` follows.

*Futures.* `FramesInv` lists the shapes a chain can have: one frame runs, one is parked, the running one
destroys the next, a leaf is unwound and then those that awaited it, or all is over. In each of them the frames
that exist are an initial part of the chain, linked both ways. Every step of the model leads from one shape to another.
`DefersRunOnce` counts against the history `registered`: the blocks a live coroutine holds are those it has deferred and
not purged, newest first, and they move to `ran` in one step, at its end or its destruction.

*Files and streams.* `DescriptorInv`: a number that an object or a close holds is its own and open, unless the
holder is a stray, and what is owned is held. Strays enter in four ways: an object whose `file_` is what the memory
held, a `close()` with nothing to close, a background close whose request failed after the release, and
whoever is robbed of a number by one of these. The theorem has no hypothesis about any of them. `TransferInv`:
what is counted is what was moved, the vector is as long as the file, the file as long as what was
written, and while a single request has moved anything the bytes are in place. That the place
in the file stays below 2^32 - 1 follows from the limit of a request and from the
failure of one at a negative offset. `TokenInv`: a token names an operation that is under way on its own side. Of
two operations under way on one side neither can count on its token, which is why
`PendingCancellable` speaks of those that began alone. `MovedInv`: what was moved is what the loop
has counted plus the result it has not seen. `CloseInv`: a descriptor that anybody can still ask
to close has not been closed.

*Timer and engine.* `TimerInv`: every sleeper is in one bucket, once, and the timer is armed
while a bucket is left. Both re-arming and the late handling of an expiry preserve it. `StopInv`:
`start()` holds its lock until all threads are created, so a stop reaches all of them
or none; a worker overtaken by it is woken by its `stop_callback`. `HandlersInv`: of
several registrations for a signal, the one that found no functor is the one that
installs it.

Only model-checked. Liveness is out of the prover's reach: `TakenIsResumed`,
`DispatchedIsExecuted`, `StopIsHeard`, `WaiterEnters`, `ControlReturns`, `WaitersPass`,
`WaitersResumed`, `CallersResumed`, `EmitEnds`, `SleeperWakes`, `StopHeard`, and the
liveness halves of `ContinuedExactlyOnce`, `ClosedExactlyOnce`, `TransferCorrect` and
`SignalReaches`. The counterexamples of the runs that expect a violation are TLC's. No proof uses
induction over data: lists are handled by their indices and by the library's facts about
sequences and cardinalities.

## Not modelled

Memory orders: every atomic access is sequentially consistent. Two places look weaker
than the algorithm needs (`includes/zab/pause_token.hpp:137`,
`includes/zab/async_semaphore.hpp:400`); they are listed as hazards. Spurious failures of
`compare_exchange_weak` are retries with an unchanged word and change nothing. The contents of I/O
operations and emitted values are data. `async_barrier::arrive()` and the awaitable
`timer_service::wait(ns)` cannot be instantiated. Moving, assigning and swapping a
`network_operation`, `listen()`, `last_error_`, the cursor of a file, thread affinity, `register_engine()`,
`await_disconnect()`, which polls, and the construction and destruction of the timer
service are left out, as are a second `start()` of an engine and the value types. A
missing `return` in two assignment operators (`includes/zab/async_file.hpp:194`,
`generic_awaitable.hpp:343`) is taken to return. The full submission queue is explored for the loop's own
read and, in `Awaitables`, for any awaited operation; that the read of the timerfd or of the signal pipe
meets it is a choice in `TimerService` and `Engine`, not composed with a ring.

## Plan

1. Done: the components above, their runs, and a theorem for every invariant that a run
   checks.
2. Further proofs: that every signal raised is still owed to its functors, read from the pipe or
   called (`due`), the safety half of `SignalReaches`; that `StopNotLost` composes with
   `NoLostWakeup` of the loop.
3. A composition of `TimerService` and `Engine` with `EventLoop` on one ring.
