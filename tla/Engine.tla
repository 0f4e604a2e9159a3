------------------------------- MODULE Engine --------------------------------
(***************************************************************************)
(* zab::engine (src/engine.cpp): start(), the threads it creates, stop(),  *)
(* and zab::signal_handler (src/signal_handler.cpp), which thread 0 runs.  *)
(* A worker's event loop is taken as EventLoop shows it to be: it executes *)
(* what is queued and ends once its stop function has woken it, unless it  *)
(* has become deaf, for want of an entry for the read of its eventfd.  One *)
(* thread calls start(), another one stop(), anybody registers handlers.   *)
(* A signal is taken by the thread that is not blocked in the ring, the    *)
(* one in start(); EventLoop has the interrupted wait.                     *)
(***************************************************************************)
EXTENDS Integers, Sequences, FiniteSetsExt, SequencesExt

CONSTANTS Threads_,   \* configs_.threads_: how many workers, at least one
          Signals,    \* signals that are registered and raised
          MaxStops,   \* bound: calls of stop()
          MaxHandlers \* bound: functors of a signal

ASSUME EngineAssumption ==
    Threads_ \in 1 .. 65535 /\ MaxStops \in Nat /\ MaxHandlers \in Nat

Workers == 0 .. Threads_ - 1     \* validate() leaves at least one
SignalThread == 0                \* kSignalThread
AnyWorker == 65535               \* thread_t::kAnyThread
Kill == "kill"                   \* the byte that stop() writes

VARIABLES starter,      \* where start() stands; it holds mtx_ while "creating"
          created,      \* how many threads_ and timers_ exist
          latch_,       \* std::latch lat
          worker,       \* where a worker stands
          stop_source,  \* workers with a requested stop
          woken,        \* workers whose stop function has run
          stopper,      \* where stop() stands
          stops,        \* how often it was called
          is_active,    \* handler_ == this
          handlers,     \* handlers_: the threads of the functors of a signal
          installing,   \* signals in handle(), which holds handlers_mtx_
          os,           \* what the process does on a signal
          pipe,         \* bytes in fds_
          reader,       \* where signal_handler::run() stands
          running_,     \* running_
          crashed,      \* has a signal been taken without a signal_handler?
          queue,        \* signals whose functors are queued to a worker
          raised,       \* history: signals that were raised
          due           \* history: calls owed to the functors of a signal

startVars == <<starter, created, latch_, worker, woken>>
stopVars == <<stop_source, stopper, stops>>
signalVars == <<is_active, handlers, installing, os, pipe, reader, running_, crashed, queue, raised, due>>
engineVars == <<startVars, stopVars, signalVars>>

LatchOpen == latch_ = 0

(* The constructor of signal_handler: only one handler is active. *)
EngineInit ==
    /\ starter = "new" /\ created = 0 /\ latch_ = 0
    /\ worker = [w \in Workers |-> "none"]
    /\ stop_source = {} /\ woken = {}
    /\ stopper = "idle" /\ stops = 0
    /\ is_active = TRUE
    /\ handlers = [s \in Signals |-> <<>>]
    /\ installing = {}
    /\ os = [s \in Signals |-> "default"]
    /\ pipe = <<>> /\ reader = "none" /\ running_ = FALSE /\ crashed = FALSE
    /\ queue = [w \in Workers |-> <<>>]
    /\ raised = {} /\ due = [s \in Signals |-> 0]

-----------------------------------------------------------------------------
(* start() *)

StartEngine ==
    /\ starter = "new"
    /\ is_active
    /\ starter' = "creating"
    /\ latch_' = Threads_ + 1
    /\ UNCHANGED <<created, worker, woken, stopVars, signalVars>>

(* emplace_back() of a timer_service and of a thread, which begins to run. *)
CreateWorker ==
    /\ starter = "creating"
    /\ created < Threads_
    /\ worker' = [worker EXCEPT ![created] = "started"]
    /\ created' = created + 1
    /\ UNCHANGED <<starter, latch_, woken, stopVars, signalVars>>

(* The mutex is released and start() arrives at the latch. *)
AllCreated ==
    /\ starter = "creating"
    /\ created = Threads_
    /\ latch_' = latch_ - 1
    /\ starter' = "waiting"
    /\ UNCHANGED <<created, worker, woken, stopVars, signalVars>>

(* The stop_callback calls the stop function at once when a stop was
   requested already; then the worker arrives at the latch. *)
WorkerArrive(w) ==
    /\ worker[w] = "started"
    /\ worker' = [worker EXCEPT ![w] = "latch"]
    /\ woken' = IF w \in stop_source THEN woken \cup {w} ELSE woken
    /\ latch_' = latch_ - 1
    /\ UNCHANGED <<starter, created, stopVars, signalVars>>

(* Behind the latch: sig_handler_.run() in its thread, timers_[i].run(), and
   event_loop_[i].run() as far as its first look at the stop token. *)
WorkerRun(w) ==
    /\ worker[w] = "latch"
    /\ LatchOpen
    /\ worker' = [worker EXCEPT ![w] = IF w \in stop_source THEN "done" ELSE "loop"]
    /\ IF w = SignalThread /\ is_active
       THEN running_' = TRUE /\ reader' = "reading"
       ELSE UNCHANGED <<running_, reader>>
    /\ UNCHANGED <<starter, created, latch_, woken, stopVars,
                   is_active, handlers, installing, os, pipe, crashed, queue, raised, due>>

(* run_user_space() found no free entry for its read (Deaf of EventLoop):
   the loop goes on with what its ring completes, and with nothing else. *)
WorkerDeaf(w) ==
    /\ worker[w] = "loop"
    /\ worker' = [worker EXCEPT ![w] = "deaf"]
    /\ UNCHANGED <<starter, created, latch_, woken, stopVars, signalVars>>

(* Some other operation completes, and the loop looks at its stop token. *)
DeafStop(w) ==
    /\ worker[w] = "deaf"
    /\ w \in stop_source
    /\ worker' = [worker EXCEPT ![w] = "done"]
    /\ UNCHANGED <<starter, created, latch_, woken, stopVars, signalVars>>

(* The loop is woken, sees the stop and returns; what is queued stays. *)
WorkerStop(w) ==
    /\ worker[w] = "loop"
    /\ w \in woken
    /\ worker' = [worker EXCEPT ![w] = "done"]
    /\ UNCHANGED <<starter, created, latch_, woken, stopVars, signalVars>>

(* All threads are joined and cleared. *)
StartReturn ==
    /\ starter = "waiting"
    /\ LatchOpen
    /\ \A w \in Workers : worker[w] = "done"
    /\ starter' = "returned"
    /\ created' = 0
    /\ UNCHANGED <<latch_, worker, woken, stopVars, signalVars>>

-----------------------------------------------------------------------------
(* stop() *)

(* sig_handler_.stop(): the default action for every signal in handlers_,
   which is walked without its mutex, and a byte that ends the read. *)
StopSignals ==
    /\ stopper = "idle"
    /\ is_active
    /\ stops < MaxStops
    /\ stops' = stops + 1
    /\ stopper' = "lock"
    /\ running_' = FALSE
    /\ os' = [s \in Signals |-> IF handlers[s] # <<>> THEN "default" ELSE os[s]]
    /\ pipe' = Append(pipe, Kill)
    /\ UNCHANGED <<startVars, stop_source, is_active, handlers, installing,
                   reader, crashed, queue, raised, due>>

(* Mutant: stop() does not take mtx_. *)
MtxFreeAlways == TRUE

MtxFree == starter # "creating"

(* request_stop() of every thread there is, and with it the stop functions
   that are registered. *)
RequestStops ==
    /\ stopper = "lock"
    /\ MtxFree
    /\ stop_source' = stop_source \cup (0 .. created - 1)
    /\ woken' = woken \cup {w \in 0 .. created - 1 : worker[w] \notin {"none", "started"}}
    /\ stopper' = "idle"
    /\ UNCHANGED <<starter, created, latch_, worker, stops, signalVars>>

-----------------------------------------------------------------------------
(* signal_handler *)

(* handle(): the functor is added under the mutex ... *)
Handle(s, w) ==
    /\ is_active
    /\ installing = {}
    /\ Len(handlers[s]) < MaxHandlers
    /\ handlers' = [handlers EXCEPT ![s] = Append(@, w)]
    /\ installing' = {s}
    /\ UNCHANGED <<startVars, stopVars, is_active, os, pipe, reader, running_, crashed, queue, raised, due>>

(* handlers_[_sig].size() == 1 *)
IsNew(s) == Len(handlers[s]) = 1

(* ... and a first one has ::signal() called. *)
Install(s) ==
    /\ s \in installing
    /\ os' = [os EXCEPT ![s] = IF IsNew(s) THEN "pipe" ELSE @]
    /\ installing' = {}
    /\ UNCHANGED <<startVars, stopVars, is_active, handlers, pipe, reader, running_, crashed, queue, raised, due>>

(* A signal is raised; the installed handler loads handler_ and writes to the
   pipe of that signal_handler.  After its destruction handler_ is null, and
   is followed all the same: undefined, taken as the crash that it is. *)
Raise(s) ==
    /\ s \notin raised
    /\ os[s] = "pipe"
    /\ raised' = raised \cup {s}
    /\ IF is_active
       THEN pipe' = Append(pipe, s) /\ UNCHANGED crashed
       ELSE crashed' = TRUE /\ UNCHANGED pipe
    /\ UNCHANGED <<startVars, stopVars, is_active, handlers, installing, os, reader, running_, queue, due>>

(* get_any_thread(): the first loop without events, or else the first of
   those with the fewest. *)
GetAnyThread(q) ==
    LET least == Min({Len(q[w]) : w \in Workers})
    IN  Min({w \in Workers : Len(q[w]) = least})

(* execute(): dispatched to the worker that was asked for. *)
Execute(q, w, s) ==
    LET to == IF w = AnyWorker THEN GetAnyThread(q) ELSE w
    IN  [q EXCEPT ![to] = Append(@, s)]

(* Mutant: only the first functor of a signal is called. *)
ExecuteHandlersFirst(s) ==
    IF handlers[s] = <<>> THEN queue ELSE Execute(queue, handlers[s][1], s)

(* Every functor of the signal, in the order of registration. *)
ExecuteHandlers(s) ==
    FoldLeft(LAMBDA q, w : Execute(q, w, s), queue, handlers[s])

(* run() is resumed with a byte, looks its functors up under the mutex and
   reads again, unless stop() has been called.  That read may find no free
   entry in the ring, which ends run() too. *)
ReadSignal ==
    /\ reader = "reading"
    /\ worker[SignalThread] \in {"loop", "deaf"}
    /\ pipe # <<>>
    /\ installing = {}
    /\ queue' = IF Head(pipe) = Kill THEN queue ELSE ExecuteHandlers(Head(pipe))
    /\ pipe' = Tail(pipe)
    /\ due' = IF Head(pipe) = Kill THEN due
              ELSE [due EXCEPT ![Head(pipe)] = @ + Len(handlers[Head(pipe)])]
    /\ \/ running_ /\ UNCHANGED <<reader, running_>>
       \/ reader' = "ended" /\ running_' = FALSE
    /\ UNCHANGED <<startVars, stopVars, is_active, handlers, installing, os, crashed, raised>>

(* run() is resumed with a read that failed. *)
PipeReadFails ==
    /\ reader = "reading"
    /\ worker[SignalThread] \in {"loop", "deaf"}
    /\ reader' = "ended"
    /\ running_' = FALSE
    /\ UNCHANGED <<startVars, stopVars, is_active, handlers, installing, os, pipe, crashed,
                   queue, raised, due>>

(* A worker executes the next functor. *)
CallHandler(w) ==
    /\ worker[w] = "loop"
    /\ queue[w] # <<>>
    /\ due' = [due EXCEPT ![Head(queue[w])] = @ - 1]
    /\ queue' = [queue EXCEPT ![w] = Tail(@)]
    /\ UNCHANGED <<startVars, stopVars, is_active, handlers, installing, os, pipe, reader, running_, crashed, raised>>

(* The destructor of signal_handler, with the engine, which is not running:
   handler_ becomes null, the pipe is closed, the coroutine destroyed; what
   the process does on a signal stays as it is. *)
DestroyEngine ==
    /\ is_active
    /\ starter \in {"new", "returned"}
    /\ stopper = "idle" /\ installing = {}
    /\ is_active' = FALSE
    /\ pipe' = <<>>
    /\ reader' = "none"
    /\ UNCHANGED <<startVars, stopVars, handlers, installing, os, running_, crashed, queue, raised, due>>

EngineNext ==
    \/ StartEngine \/ CreateWorker \/ AllCreated \/ StartReturn
    \/ StopSignals \/ RequestStops \/ ReadSignal \/ PipeReadFails \/ DestroyEngine
    \/ \E w \in Workers : \/ WorkerArrive(w) \/ WorkerRun(w) \/ WorkerStop(w)
                          \/ WorkerDeaf(w) \/ DeafStop(w) \/ CallHandler(w)
    \/ \E s \in Signals : \/ Install(s) \/ Raise(s)
                          \/ \E w \in Workers \cup {AnyWorker} : Handle(s, w)

EngineSpec == EngineInit /\ [][EngineNext]_engineVars

(* Threads run, and loops that are not deaf execute what is queued to them and
   end when they are woken, as EventLoop shows; nobody has to start, to stop,
   to register or to raise. *)
EngineFairness ==
    /\ WF_engineVars(CreateWorker \/ AllCreated \/ StartReturn)
    /\ WF_engineVars(RequestStops) /\ WF_engineVars(ReadSignal)
    /\ \A s \in Signals : WF_engineVars(Install(s))
    /\ \A w \in Workers :
        WF_engineVars(WorkerArrive(w) \/ WorkerRun(w) \/ WorkerStop(w) \/ CallHandler(w))

-----------------------------------------------------------------------------

SomeDeaf == \E w \in Workers : worker[w] = "deaf"

(* A stop() that comes while start() is creating its threads or later ends
   all of them, and with them start(): also one that overtakes a worker
   before its stop_callback exists.  A stop() before start() stops nobody,
   and a deaf loop may never end. *)
StopHeard ==
    (stopper = "lock" /\ starter # "new") ~> (starter = "returned" \/ SomeDeaf)

(* Until a stop() or the destruction, a signal with a functor is sent to the
   pipe, so that registering two at the same time leaves none of them dead. *)
RegisteredIsInstalled ==
    \A s \in Signals :
        is_active /\ stops = 0 /\ handlers[s] # <<>> /\ s \notin installing => os[s] = "pipe"

(* Unless a stop() came, a registered signal gets into the pipe, and one in
   the pipe of a started engine reaches every functor that was registered when
   it was read, except where a failed read has ended signal_handler::run() or
   a loop has become deaf. *)
SignalReaches ==
    /\ []RegisteredIsInstalled
    /\ \A s \in Signals :
        (starter # "new" /\ s \in ToSet(pipe))
            ~> \/ stops > 0 \/ reader = "ended" \/ SomeDeaf
               \/ s \notin ToSet(pipe) /\ due[s] = 0

-----------------------------------------------------------------------------
(* The safety behind StopHeard, and the inductive invariants of the theorems
   in IoProofs. *)

(* A stop() reaches all the threads or none of them, never start() half way;
   and a worker that has been asked to stop has been woken when it gets to its
   loop, also one that was overtaken before its stop_callback existed. *)
StopNotLost ==
    /\ stop_source \in {{}, Workers}
    /\ \A w \in stop_source : worker[w] \in {"latch", "loop"} => w \in woken

StopInv ==
    /\ created \in 0 .. Threads_
    /\ starter \in {"new", "creating", "waiting", "returned"}
    /\ starter \in {"new", "returned"} => created = 0
    /\ starter = "waiting" => created = Threads_
    /\ worker \in [Workers -> {"none", "started", "latch", "loop", "deaf", "done"}]
    /\ StopNotLost

(* A functor that was added before the last one of its signal found it
   installed, and one signal at a time is being installed. *)
HandlersInv ==
    /\ stops \in Nat
    /\ handlers \in [Signals -> Seq(Workers \cup {AnyWorker})]
    /\ os \in [Signals -> {"default", "pipe"}]
    /\ \A s, t \in installing : s = t
    /\ \A s \in Signals :
          stops = 0 /\ handlers[s] # <<>> /\ (s \in installing => Len(handlers[s]) > 1) =>
              os[s] = "pipe"
=============================================================================
