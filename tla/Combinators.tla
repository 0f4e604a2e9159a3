---------------------------- MODULE Combinators -----------------------------
(***************************************************************************)
(* zab::wait_for (includes/zab/wait_for.hpp) and zab::first_of             *)
(* (includes/zab/first_of.hpp): one coroutine starts several operations    *)
(* and is resumed by all, or by the first, of them.  An operation may      *)
(* finish inside the call that starts it, or later on any thread.          *)
(*                                                                         *)
(* The operations of a wait_for share a counter in the frame of the        *)
(* waiting coroutine; the tuple form counts in wait_for_data_pack, the     *)
(* vector form in an async_latch, taken here as the count that AsyncLatch  *)
(* shows it to be.  The operations of a first_of share a heap cell with    *)
(* the address of the waiting coroutine's pause_pack.  In both the frame   *)
(* is gone once the coroutine has been resumed.                            *)
(***************************************************************************)
EXTENDS Integers, FiniteSets

CONSTANT Ops       \* the operations

None == "none"

ASSUME OpsAssumption == IsFiniteSet(Ops) /\ Ops # {} /\ None \notin Ops

VARIABLES counter,     \* wait_data.counter_, or the count of the latch
          op,          \* where an operation of the wait_for stands
          starter,     \* where the call that starts them stands
          resumes,     \* history: how often the waiting coroutine was resumed
          handle,      \* does the shared cell of first_of hold the pause_pack?
          race,        \* where an operation of the first_of stands
          result,      \* whose result the first_of returns
          caller       \* where the coroutine in first_of stands

waitVars == <<counter, op, starter, resumes>>
firstVars == <<handle, race, result, caller>>
combinatorVars == <<waitVars, firstVars>>

(* Mutant: the call itself is not counted. *)
StartCountOps == Cardinality(Ops)

(* sizeof...(Promises) + 1, futures.size() + 1 *)
StartCount == Cardinality(Ops) + 1

WaitInit ==
    /\ counter = StartCount
    /\ op = [o \in Ops |-> "idle"]
    /\ starter = "starting"
    /\ resumes = 0

FirstInit ==
    /\ handle = TRUE
    /\ race = [o \in Ops |-> "idle"]
    /\ result = None
    /\ caller = "starting"

-----------------------------------------------------------------------------
(* wait_for *)

(* inline_co_await() of the next operation. *)
StartOp(o) ==
    /\ starter = "starting"
    /\ op[o] = "idle"
    /\ op' = [op EXCEPT ![o] = "running"]
    /\ UNCHANGED <<counter, starter, resumes, firstVars>>

(* The operation has its result, in its own promise or in the vector. *)
Produce(o) ==
    /\ op[o] = "running"
    /\ op' = [op EXCEPT ![o] = "produced"]
    /\ UNCHANGED <<counter, starter, resumes, firstVars>>

(* fetch_sub(1) == 1 *)
WasLast == counter = 1

(* The callback of the pack, or count_down(): the subtraction. *)
Arrive(o) ==
    /\ op[o] = "produced"
    /\ counter' = counter - 1
    /\ op' = [op EXCEPT ![o] = IF WasLast THEN "last" ELSE "done"]
    /\ UNCHANGED <<starter, resumes, firstVars>>

(* The last one reads the event from the pack and resumes the coroutine. *)
ExecuteEvent(o) ==
    /\ op[o] = "last"
    /\ op' = [op EXCEPT ![o] = "done"]
    /\ resumes' = resumes + 1
    /\ UNCHANGED <<counter, starter, firstVars>>

(* The call has started everything: its own subtraction, after which it
   goes on with the coroutine, or suspends it without a further access. *)
StarterArrive ==
    /\ starter = "starting"
    /\ \A o \in Ops : op[o] # "idle"
    /\ counter' = counter - 1
    /\ starter' = "done"
    /\ resumes' = IF WasLast THEN resumes + 1 ELSE resumes
    /\ UNCHANGED <<op, firstVars>>

WaitForNext ==
    \/ \E o \in Ops : StartOp(o) \/ Produce(o) \/ Arrive(o) \/ ExecuteEvent(o)
    \/ StarterArrive

-----------------------------------------------------------------------------
(* first_of *)

(* The functor of pause() starts the next operation in an async_function
   of its own, which owns the moved future. *)
StartRace(o) ==
    /\ caller = "starting"
    /\ race[o] = "idle"
    /\ race' = [race EXCEPT ![o] = "running"]
    /\ UNCHANGED <<handle, result, caller, waitVars>>

(* The functor returns and the coroutine is suspended. *)
SuspendFirstOf ==
    /\ caller = "starting"
    /\ \A o \in Ops : race[o] # "idle"
    /\ caller' = "suspended"
    /\ UNCHANGED <<handle, race, result, waitVars>>

(* Mutant: a load in place of the exchange. *)
HandleAfterLoad == handle

(* exchange(nullptr) *)
HandleAfterExchange == FALSE

(* co_await _future is over: the exchange elects the winner. *)
Elect(o) ==
    /\ race[o] = "running"
    /\ race' = [race EXCEPT ![o] = IF handle THEN "won" ELSE "done"]
    /\ handle' = HandleAfterExchange
    /\ UNCHANGED <<result, caller, waitVars>>

(* The winner writes the result into the frame ... *)
WriteResult(o) ==
    /\ race[o] = "won"
    /\ result' = o
    /\ race' = [race EXCEPT ![o] = "written"]
    /\ UNCHANGED <<handle, caller, waitVars>>

(* Mutant: only a coroutine that is already suspended is queued. *)
UnpauseSuspended(o) ==
    /\ race[o] = "written"
    /\ race' = [race EXCEPT ![o] = IF caller = "suspended" THEN "posted" ELSE "done"]
    /\ UNCHANGED <<handle, result, caller, waitVars>>

(* ... and unpauses: the coroutine is queued in the thread it was suspended
   in, which may still be in the functor. *)
Unpause(o) ==
    /\ race[o] = "written"
    /\ race' = [race EXCEPT ![o] = "posted"]
    /\ UNCHANGED <<handle, result, caller, waitVars>>

(* The thread resumes it, once for each time it was queued. *)
ResumeFirstOf(o) ==
    /\ race[o] = "posted"
    /\ caller # "starting"
    /\ race' = [race EXCEPT ![o] = "done"]
    /\ caller' = IF caller = "suspended" THEN "resumed" ELSE "resumed twice"
    /\ UNCHANGED <<handle, result, waitVars>>

FirstOfNext ==
    \/ SuspendFirstOf
    \/ \E o \in Ops : \/ StartRace(o) \/ Elect(o) \/ WriteResult(o)
                      \/ Unpause(o) \/ ResumeFirstOf(o)

-----------------------------------------------------------------------------

(* Threads go on, operations finish, event loops run what is queued. *)
CombinatorFairness ==
    /\ WF_combinatorVars(StarterArrive) /\ WF_combinatorVars(SuspendFirstOf)
    /\ \A o \in Ops :
        /\ WF_combinatorVars(Produce(o) \/ Arrive(o) \/ ExecuteEvent(o))
        /\ WF_combinatorVars(Elect(o) \/ WriteResult(o) \/ Unpause(o) \/ ResumeFirstOf(o))

WaitForSpec == WaitInit /\ FirstInit /\ [][WaitForNext]_combinatorVars
FirstOfSpec == WaitInit /\ FirstInit /\ [][FirstOfNext]_combinatorVars

(* The coroutine goes on, and destroys what the operations share, only when
   every operation has its result and nobody is still to touch the counter
   or the event: not the starting call, which may be overtaken by the last
   operation, and not an operation that was counted earlier. *)
WaitForComplete ==
    /\ resumes <= 1
    /\ resumes = 1 => starter = "done" /\ \A o \in Ops : op[o] = "done"

(* What keeps it so: the counter is the number of those still to come. *)
CounterInv ==
    /\ counter = Cardinality({o \in Ops : op[o] \in {"idle", "running", "produced"}})
                     + (IF starter = "starting" THEN 1 ELSE 0)
    /\ starter = "done" => \A o \in Ops : op[o] # "idle"

(* first_of is resumed once, with the result of the one that won, and no
   operation that finishes later touches its frame. *)
OneWinner ==
    /\ caller # "resumed twice"
    /\ caller = "resumed" => /\ result # None
                             /\ \A o \in Ops : race[o] \notin {"won", "written", "posted"}

(* The coroutine in wait_for is resumed once everything was started, and
   that in first_of once it is suspended. *)
CallersResumed ==
    /\ (starter = "done") ~> (resumes = 1)
    /\ (caller = "suspended") ~> (caller = "resumed")

=============================================================================
