----------------------------- MODULE Observable -----------------------------
(***************************************************************************)
(* zab::observable (includes/zab/observable.hpp).  emit() puts a pending   *)
(* result, which lives in its own frame, into the list of every connected  *)
(* observer, and blocks on an async_latch until each of them has released  *)
(* it.  An observer takes the oldest result of its list or suspends, and   *)
(* releases a result when its observer_guard is destroyed.  Connecting,    *)
(* disconnecting and the distribution of a result happen under an          *)
(* async_mutex, taken here as the lock that BinarySemaphore shows it to    *)
(* be, and the latch as the count that AsyncLatch shows it to be.          *)
(*                                                                         *)
(* An observer holds one guard at a time.  Whoever may call disconnect()   *)
(* for it, while it executes, reads, or waits for a result; a coroutine    *)
(* that waited is destroyed with the internal observer, unless an emit()   *)
(* resumes it first, and it finds a null pointer then.                     *)
(***************************************************************************)
EXTENDS Integers, Sequences, FiniteSets, SequencesExt

CONSTANTS Observers,   \* coroutines that connect, observe and disconnect
          Emissions,   \* the calls of emit()
          Free         \* the async_mutex is not held

ASSUME ObservableAssumption ==
    /\ IsFiniteSet(Observers)
    /\ Observers \cap Emissions = {}
    /\ Free \notin Observers \cup Emissions

VARIABLES mutex,       \* who holds mtx_
          members,     \* observers_
          pending,     \* the list from result_ of an observer
          obs,         \* where an observer stands
          reading,     \* the result its guard refers to
          abandoned,   \* how a coroutine waited whose observer is disconnected
          crashed,     \* has a null internal_ been dereferenced?
          emitting,    \* where an emit() stands
          todo,        \* the observers its loop has still to reach
          latch,       \* the count of its latch
          addressed,   \* history: the emissions an observer was put on the list of
          heard        \* history: the emissions an observer has taken

observerVars == <<pending, obs, reading, abandoned, crashed, addressed, heard>>
emitVars == <<emitting, todo, latch>>
observableVars == <<mutex, members, observerVars, emitVars>>

ObservableInit ==
    /\ mutex = Free
    /\ members = <<>>
    /\ pending = [o \in Observers |-> <<>>]
    /\ obs = [o \in Observers |-> "out"]
    /\ reading = [o \in Observers |-> Free]
    /\ abandoned = [o \in Observers |-> "no"]
    /\ crashed = FALSE
    /\ emitting = [e \in Emissions |-> "idle"]
    /\ todo = [e \in Emissions |-> <<>>]
    /\ latch = [e \in Emissions |-> 0]
    /\ addressed = [o \in Observers |-> <<>>]
    /\ heard = [o \in Observers |-> <<>>]

-----------------------------------------------------------------------------

(* connect() *)
Connect(o) ==
    /\ obs[o] = "out"
    /\ mutex = Free
    /\ members' = Append(members, o)
    /\ obs' = [obs EXCEPT ![o] = "running"]
    /\ UNCHANGED <<mutex, pending, reading, abandoned, crashed, addressed, heard, emitVars>>

(* Mutants: the emitter is not counted, or twice. *)
LatchCountMembers == Len(members)
LatchCountMore == Len(members) + 2

(* latch.emplace(engine_, observers_.size() + 1) *)
LatchCount == Len(members) + 1

(* emit() up to its loop, or to its end when nobody is connected. *)
Emit(e) ==
    /\ emitting[e] = "idle"
    /\ mutex = Free
    /\ IF members = <<>>
       THEN /\ emitting' = [emitting EXCEPT ![e] = "over"]
            /\ UNCHANGED <<mutex, todo, latch>>
       ELSE /\ emitting' = [emitting EXCEPT ![e] = "posting"]
            /\ mutex' = e
            /\ todo' = [todo EXCEPT ![e] = members]
            /\ latch' = [latch EXCEPT ![e] = LatchCount]
    /\ UNCHANGED <<members, observerVars>>

(* Mutant: the result is put in front of the list. *)
EnqueueFront(list, e) == <<e>> \o list

(* The result goes to the end of the list. *)
Enqueue(list, e) == Append(list, e)

(* if (o->handle_) { ... } *)
Woken(s) == IF s = "suspended" THEN "posted" ELSE s

(* One round of the loop: the result is linked and the observer resumed if
   it is suspended.  After the last round the mutex is released. *)
PostResult(e) ==
    /\ emitting[e] = "posting"
    /\ LET o == Head(todo[e])
       IN  /\ pending' = [pending EXCEPT ![o] = Enqueue(@, e)]
           /\ obs' = [obs EXCEPT ![o] = Woken(@)]
           /\ abandoned' = [abandoned EXCEPT ![o] = Woken(@)]
           /\ addressed' = [addressed EXCEPT ![o] = Append(@, e)]
    /\ todo' = [todo EXCEPT ![e] = Tail(@)]
    /\ IF Len(todo[e]) = 1
       THEN /\ emitting' = [emitting EXCEPT ![e] = "arriving"]
            /\ mutex' = Free
       ELSE UNCHANGED <<emitting, mutex>>
    /\ UNCHANGED <<members, reading, crashed, heard, latch>>

(* latch->arrive_and_wait() *)
EmitArrive(e) ==
    /\ emitting[e] = "arriving"
    /\ latch' = [latch EXCEPT ![e] = @ - 1]
    /\ emitting' = [emitting EXCEPT ![e] = "waiting"]
    /\ UNCHANGED <<mutex, members, observerVars, todo>>

(* The latch is open: emit() returns and its results are gone. *)
EmitReturn(e) ==
    /\ emitting[e] = "waiting"
    /\ latch[e] <= 0
    /\ emitting' = [emitting EXCEPT ![e] = "over"]
    /\ UNCHANGED <<mutex, members, observerVars, todo, latch>>

-----------------------------------------------------------------------------

(* await_resume(): the head of the list is taken into a guard. *)
Take(o) ==
    /\ pending[o] # <<>>
    /\ reading' = [reading EXCEPT ![o] = Head(pending[o])]
    /\ heard' = [heard EXCEPT ![o] = Append(@, Head(pending[o]))]
    /\ pending' = [pending EXCEPT ![o] = Tail(@)]
    /\ obs' = [obs EXCEPT ![o] = "reading"]
    /\ UNCHANGED <<mutex, members, abandoned, crashed, addressed, emitVars>>

(* co_await of an observer with a result in its list, and its resumption. *)
TakeReady(o) == obs[o] = "running" /\ Take(o)
ResumeObserver(o) == obs[o] = "posted" /\ Take(o)

(* co_await of an observer without one. *)
SuspendObserver(o) ==
    /\ obs[o] = "running"
    /\ pending[o] = <<>>
    /\ obs' = [obs EXCEPT ![o] = "suspended"]
    /\ UNCHANGED <<mutex, members, pending, reading, abandoned, crashed, addressed, heard, emitVars>>

(* ~observer_guard(), also after the observer has been disconnected. *)
DropGuard(o) ==
    /\ reading[o] # Free
    /\ latch' = [latch EXCEPT ![reading[o]] = @ - 1]
    /\ reading' = [reading EXCEPT ![o] = Free]
    /\ obs' = [obs EXCEPT ![o] = IF @ = "reading" THEN "running" ELSE @]
    /\ UNCHANGED <<mutex, members, pending, abandoned, crashed, addressed, heard, emitting, todo>>

(* disconnect(), called by anybody or by ~observer(): it has taken internal_
   out of the observer and waits for the mutex ... *)
Disconnect(o) ==
    /\ obs[o] \in {"running", "reading", "suspended", "posted"}
    /\ obs' = [obs EXCEPT ![o] = "leaving"]
    /\ abandoned' = [abandoned EXCEPT ![o] =
          IF obs[o] \in {"suspended", "posted"} THEN obs[o] ELSE "no"]
    /\ UNCHANGED <<mutex, members, pending, reading, crashed, addressed, heard, emitVars>>

(* await_resume() of a coroutine whose observer has lost its internal_. *)
ResumeAbandoned(o) ==
    /\ abandoned[o] = "posted"
    /\ crashed' = TRUE
    /\ UNCHANGED <<mutex, members, pending, obs, reading, abandoned, addressed, heard, emitVars>>

(* Where the loop of disconnect() finds the internal observer. *)
Position(o) == CHOOSE i \in DOMAIN members : members[i] = o

(* ... and erases the internal observer, whose destructor begins. *)
Erase(o) ==
    /\ obs[o] = "leaving"
    /\ mutex = Free
    /\ mutex' = o
    /\ members' = RemoveAt(members, Position(o))
    /\ obs' = [obs EXCEPT ![o] = "dying"]
    /\ UNCHANGED <<pending, reading, abandoned, crashed, addressed, heard, emitVars>>

(* ~internal_observer(): a pending result is released ... *)
ReleasePending(o) ==
    /\ obs[o] = "dying"
    /\ pending[o] # <<>>
    /\ latch' = [latch EXCEPT ![Head(pending[o])] = @ - 1]
    /\ obs' = [obs EXCEPT ![o] = "released"]
    /\ UNCHANGED <<mutex, members, pending, reading, abandoned, crashed, addressed, heard, emitting, todo>>

(* ... and then its link to the next one is read. *)
ReadLink(o) ==
    /\ obs[o] = "released"
    /\ pending' = [pending EXCEPT ![o] = Tail(@)]
    /\ obs' = [obs EXCEPT ![o] = "dying"]
    /\ UNCHANGED <<mutex, members, reading, abandoned, crashed, addressed, heard, emitVars>>

(* The destructor ends with the coroutine that waits, and disconnect() is
   over. *)
Gone(o) ==
    /\ obs[o] = "dying"
    /\ pending[o] = <<>>
    /\ obs' = [obs EXCEPT ![o] = "gone"]
    /\ abandoned' = [abandoned EXCEPT ![o] = IF @ = "suspended" THEN "no" ELSE @]
    /\ mutex' = Free
    /\ UNCHANGED <<members, pending, reading, crashed, addressed, heard, emitVars>>

EmitStep(e) == Emit(e) \/ PostResult(e) \/ EmitArrive(e) \/ EmitReturn(e)
ObserveStep(o) == TakeReady(o) \/ ResumeObserver(o) \/ SuspendObserver(o) \/ DropGuard(o)
LeaveStep(o) == Erase(o) \/ ReleasePending(o) \/ ReadLink(o) \/ Gone(o)

ObservableNext ==
    /\ ~crashed
    /\ \/ \E e \in Emissions : EmitStep(e)
       \/ \E o \in Observers : \/ Connect(o) \/ ObserveStep(o) \/ Disconnect(o) \/ LeaveStep(o)
                               \/ ResumeAbandoned(o)

(* Emitters and departing observers go on, and observers keep observing,
   which the library leaves to its user.  Connecting is nobody's duty. *)
ObservableFairness ==
    /\ \A e \in Emissions :
           WF_observableVars(~crashed /\ (PostResult(e) \/ EmitArrive(e) \/ EmitReturn(e)))
    /\ \A o \in Observers : /\ WF_observableVars(~crashed /\ ObserveStep(o))
                            /\ SF_observableVars(~crashed /\ LeaveStep(o))

ObservableSpec == ObservableInit /\ [][ObservableNext]_observableVars /\ ObservableFairness

-----------------------------------------------------------------------------

(* An emission is over only when every observer it was addressed to has
   taken it and dropped its guard, or has left and released it: no list and
   no guard refers to a result that is gone. *)
ResultsLive ==
    \A o \in Observers :
        /\ reading[o] # Free => emitting[reading[o]] # "over"
        /\ \A i \in 1..Len(pending[o]) :
               emitting[pending[o][i]] = "over" => i = 1 /\ obs[o] = "released"

(* An observer takes every emission it was addressed by once, in the order
   in which they were made, as long as it stays; and one that is suspended
   has nothing to take, so a result that comes while it is about to suspend
   is not missed. *)
HeardInOrder ==
    \A o \in Observers :
        /\ obs[o] \notin {"dying", "released", "gone"} =>
              heard[o] \o pending[o] = addressed[o]
        /\ obs[o] = "suspended" => pending[o] = <<>>

(* Every emit() ends when its observers go on observing, drop their guards
   or are disconnected, as long as it resumes none that is disconnected. *)
EmitEnds ==
    \A e \in Emissions : (emitting[e] = "posting") ~> (emitting[e] = "over" \/ crashed)

(* "Block until all observers have read the result": an observer that leaves
   reads the link of a pending result before the result is gone. *)
LinkReadInTime ==
    \A o \in Observers : obs[o] = "released" => emitting[Head(pending[o])] # "over"

-----------------------------------------------------------------------------
(***************************************************************************)
(* The inductive invariants behind the theorems of CoroutinesProofs.       *)
(***************************************************************************)

(* An observer that is connected. *)
Staying == {"running", "suspended", "posted", "reading", "leaving"}

(* An observer that has no guard. *)
Unguarded == {"out", "running", "suspended", "posted"}

ObservableTypeOK ==
    /\ mutex \in Observers \cup Emissions \cup {Free}
    /\ members \in Seq(Observers)
    /\ pending \in [Observers -> Seq(Emissions)]
    /\ obs \in [Observers -> Staying \cup {"out", "dying", "released", "gone"}]
    /\ reading \in [Observers -> Emissions \cup {Free}]
    /\ abandoned \in [Observers -> {"no", "suspended", "posted"}]
    /\ crashed \in BOOLEAN
    /\ emitting \in [Emissions -> {"idle", "posting", "arriving", "waiting", "over"}]
    /\ todo \in [Emissions -> Seq(Observers)]
    /\ latch \in [Emissions -> Int]
    /\ addressed \in [Observers -> Seq(Emissions)]
    /\ heard \in [Observers -> Seq(Emissions)]

(* The mutex: nobody leaves while a result is distributed, so the loop of
   emit() reaches connected observers only, each of them once. *)
MutexInv ==
    /\ \A o \in Observers : obs[o] \in Staying <=> \E i \in DOMAIN members : members[i] = o
    /\ \A i, j \in DOMAIN members : members[i] = members[j] => i = j
    /\ \A e \in Emissions : emitting[e] = "posting" <=> mutex = e
    /\ \A e \in Emissions : emitting[e] = "posting" <=> todo[e] # <<>>
    /\ \A e \in Emissions : \A i \in DOMAIN todo[e] : obs[todo[e][i]] \in Staying
    /\ \A e \in Emissions : \A i, j \in DOMAIN todo[e] : todo[e][i] = todo[e][j] => i = j
    /\ \A o \in Observers : obs[o] \in {"dying", "released"} => mutex = o

(* An observer still owes the release of a result: it reads it, has it in
   its list, or is about to be given it. *)
InPending(o, e) ==
    \E i \in DOMAIN pending[o] : pending[o][i] = e /\ ~(i = 1 /\ obs[o] = "released")
InTodo(o, e) == \E i \in DOMAIN todo[e] : todo[e][i] = o
Owes(e) == {o \in Observers : reading[o] = e \/ InPending(o, e) \/ InTodo(o, e)}

(* Nobody owes a result twice. *)
OwedOnceInv ==
    \A o \in Observers :
        /\ obs[o] \in Unguarded => reading[o] = Free
        /\ obs[o] = "reading" => reading[o] # Free
        /\ obs[o] = "released" => pending[o] # <<>>
        /\ \A i, j \in DOMAIN pending[o] : pending[o][i] = pending[o][j] => i = j
        /\ \A i \in DOMAIN pending[o] : /\ reading[o] # pending[o][i]
                                        /\ emitting[pending[o][i]] # "idle"
        /\ \A e \in Emissions : InTodo(o, e) =>
              reading[o] # e /\ \A i \in DOMAIN pending[o] : pending[o][i] # e

(* The latch of an emission counts who owes its release, and the emitter. *)
LatchCountInv ==
    \A e \in Emissions :
        IF emitting[e] \in {"idle", "over"} THEN Owes(e) = {}
        ELSE latch[e] = Cardinality(Owes(e))
                        + IF emitting[e] \in {"posting", "arriving"} THEN 1 ELSE 0

ObservableInv ==
    ObservableTypeOK /\ MutexInv /\ OwedOnceInv /\ HeardInOrder /\ LatchCountInv
=============================================================================
