-------------------------- MODULE CountingSemaphore --------------------------
(***************************************************************************)
(* zab::async_counting_semaphore (includes/zab/async_semaphore.hpp).       *)
(* active_count_ is the number of free permits, or below zero the number   *)
(* of coroutines that wait.  A coroutine that finds no permit first        *)
(* subtracts and then links itself into resuming_, in two steps.  Releases *)
(* are funnelled through release_count_: the thread that raises it from    *)
(* zero runs control() on behalf of all others, and only it may touch      *)
(* transfer_.                                                              *)
(*                                                                         *)
(* The compare-exchange loop of suspend() retries until it has pushed and  *)
(* shows nothing before that, so a push is one step.                       *)
(***************************************************************************)
EXTENDS Integers, Sequences, FiniteSets, SequencesExt

CONSTANTS Acquirers,   \* coroutines, which acquire again and again
          Releasers,   \* threads that call release()
          Start,       \* permits the semaphore is constructed with
          MaxReleased, \* bound: permits released altogether
          Null

ASSUME CountingAssumption ==
    /\ Null \notin Acquirers
    /\ IsFiniteSet(Acquirers)
    /\ Start \in Nat
    /\ MaxReleased \in Nat

VARIABLES active,    \* active_count_
          resuming_, \* resuming_: waiters, newest first
          pending,   \* release_count_
          transfer_, \* transfer_: waiters, oldest first
          at,        \* where a coroutine stands
          result,    \* local result of await_suspend() or try_aquire()
          control,   \* where a releasing thread stands
          resume,    \* local resume of control()
          queued,    \* handles given to engine::thread_resume, not yet run
          released,  \* history: permits released
          admitted   \* history: permits granted

coroVars == <<at, result, admitted>>
controlVars == <<control, resume, released>>
countingVars == <<active, resuming_, pending, transfer_, coroVars, controlVars, queued>>

CountingInit ==
    /\ active = Start
    /\ resuming_ = <<>>
    /\ pending = 0
    /\ transfer_ = <<>>
    /\ at = [w \in Acquirers |-> "out"]
    /\ result = [w \in Acquirers |-> 0]
    /\ control = [r \in Releasers |-> "idle"]
    /\ resume = [r \in Releasers |-> Null]
    /\ queued = {}
    /\ released = 0
    /\ admitted = 0

(***************************************************************************)
(* co_await semaphore and try_aquire()                                     *)
(***************************************************************************)

(* The load, then the test of the loop: a positive count is worth a
   compare-exchange; otherwise await_suspend() goes on to subtract and
   try_aquire() returns false. *)
Examine(w, cas, giveUp) ==
    IF active > 0
    THEN /\ at' = [at EXCEPT ![w] = cas]
         /\ result' = [result EXCEPT ![w] = active]
    ELSE /\ at' = [at EXCEPT ![w] = giveUp]
         /\ result' = [result EXCEPT ![w] = 0]

AwaitLoad(w) ==
    /\ at[w] = "out"
    /\ Examine(w, "cas", "subtract")
    /\ UNCHANGED <<active, resuming_, pending, transfer_, admitted, controlVars, queued>>

TryLoad(w) ==
    /\ at[w] = "out"
    /\ active > 0
    /\ Examine(w, "tryCas", "out")
    /\ UNCHANGED <<active, resuming_, pending, transfer_, admitted, controlVars, queued>>

(* Mutant: a decrement in place of the compare-exchange. *)
TakePermitBlind(w) ==
    /\ at[w] \in {"cas", "tryCas"}
    /\ active' = active - 1
    /\ at' = [at EXCEPT ![w] = "in"]
    /\ result' = [result EXCEPT ![w] = 0]
    /\ admitted' = admitted + 1
    /\ UNCHANGED <<resuming_, pending, transfer_, controlVars, queued>>

(* The compare-exchange of either. *)
TakePermit(w) ==
    /\ at[w] \in {"cas", "tryCas"}
    /\ active = result[w]
    /\ active' = active - 1
    /\ at' = [at EXCEPT ![w] = "in"]
    /\ result' = [result EXCEPT ![w] = 0]
    /\ admitted' = admitted + 1
    /\ UNCHANGED <<resuming_, pending, transfer_, controlVars, queued>>

MissPermit(w) ==
    /\ at[w] \in {"cas", "tryCas"}
    /\ active # result[w]
    /\ IF at[w] = "cas" THEN Examine(w, "cas", "subtract") ELSE Examine(w, "tryCas", "out")
    /\ UNCHANGED <<active, resuming_, pending, transfer_, admitted, controlVars, queued>>

(* The fetch_sub of await_suspend(), whose result nobody looks at. *)
Subtract(w) ==
    /\ at[w] = "subtract"
    /\ active' = active - 1
    /\ at' = [at EXCEPT ![w] = "push"]
    /\ UNCHANGED <<resuming_, pending, transfer_, result, admitted, controlVars, queued>>

(* suspend() *)
Push(w) ==
    /\ at[w] = "push"
    /\ resuming_' = <<w>> \o resuming_
    /\ at' = [at EXCEPT ![w] = "parked"]
    /\ UNCHANGED <<active, pending, transfer_, result, admitted, controlVars, queued>>

(* The event loop resumes a coroutine that control() handed to it. *)
Run(w) ==
    /\ w \in queued
    /\ queued' = queued \ {w}
    /\ at' = [at EXCEPT ![w] = "in"]
    /\ UNCHANGED <<active, resuming_, pending, transfer_, result, admitted, controlVars>>

(* The coroutine has used its permit and will come back for another. *)
Finish(w) ==
    /\ at[w] = "in"
    /\ at' = [at EXCEPT ![w] = "out"]
    /\ UNCHANGED <<active, resuming_, pending, transfer_, result, admitted, controlVars, queued>>

(***************************************************************************)
(* release() and control()                                                 *)
(***************************************************************************)

(* Mutant: every release() runs control(). *)
ReleaseAlways(r, n) ==
    /\ control[r] = "idle"
    /\ released + n <= MaxReleased
    /\ pending' = pending + n
    /\ released' = released + n
    /\ control' = [control EXCEPT ![r] = "transfer"]
    /\ UNCHANGED <<active, resuming_, transfer_, coroVars, resume, queued>>

(* release(n): whoever raises release_count_ from zero runs control(). *)
Release(r, n) ==
    /\ control[r] = "idle"
    /\ released + n <= MaxReleased
    /\ pending' = pending + n
    /\ released' = released + n
    /\ control' = [control EXCEPT ![r] = IF pending = 0 THEN "transfer" ELSE "idle"]
    /\ UNCHANGED <<active, resuming_, transfer_, coroVars, resume, queued>>

(* transfer(): the first waiter of transfer_, which is refilled from the
   word when it is empty; Null if nobody is linked. *)
Transfer(r) ==
    LET line == IF transfer_ # <<>> THEN transfer_ ELSE Reverse(resuming_)
    IN  /\ resuming_' = IF transfer_ # <<>> THEN resuming_ ELSE <<>>
        /\ IF line = <<>>
           THEN UNCHANGED <<transfer_, resume>>
           ELSE /\ resume' = [resume EXCEPT ![r] = Head(line)]
                /\ transfer_' = Tail(line)

ControlTransfer(r) ==
    /\ control[r] = "transfer"
    /\ Transfer(r)
    /\ control' = [control EXCEPT ![r] = "add"]
    /\ UNCHANGED <<active, pending, coroVars, released, queued>>

(* active_count_.fetch_add(1).  With nobody linked and a count below zero
   somebody has subtracted and is about to link. *)
ControlAdd(r) ==
    /\ control[r] = "add"
    /\ active' = active + 1
    /\ control' = [control EXCEPT ![r] = IF resume[r] # Null THEN "post"
                                         ELSE IF active < 0 THEN "spin" ELSE "next"]
    /\ UNCHANGED <<resuming_, pending, transfer_, coroVars, resume, released, queued>>

(* Mutant: the spin waits without looking at the lists. *)
ControlSpinBlind(r) ==
    /\ control[r] = "spin"
    /\ control' = [control EXCEPT ![r] = IF resume[r] = Null THEN "spin" ELSE "post"]
    /\ UNCHANGED <<active, resuming_, pending, transfer_, coroVars, resume, released, queued>>

(* Yield, and look again. *)
ControlSpin(r) ==
    /\ control[r] = "spin"
    /\ Transfer(r)
    /\ control' = [control EXCEPT ![r] = IF resume'[r] = Null THEN "spin" ELSE "post"]
    /\ UNCHANGED <<active, pending, coroVars, released, queued>>

ControlPost(r) ==
    /\ control[r] = "post"
    /\ queued' = queued \cup {resume[r]}
    /\ resume' = [resume EXCEPT ![r] = Null]
    /\ admitted' = admitted + 1
    /\ control' = [control EXCEPT ![r] = "next"]
    /\ UNCHANGED <<active, resuming_, pending, transfer_, at, result, released>>

(* release_count_.fetch_sub(1), and round again unless that was the last.
   The yield on every 64th round changes nothing here. *)
ControlNext(r) ==
    /\ control[r] = "next"
    /\ pending' = pending - 1
    /\ control' = [control EXCEPT ![r] = IF pending = 1 THEN "idle" ELSE "transfer"]
    /\ UNCHANGED <<active, resuming_, transfer_, coroVars, resume, released, queued>>

-----------------------------------------------------------------------------

CoroStep(w) == \/ AwaitLoad(w) \/ TryLoad(w) \/ TakePermit(w) \/ MissPermit(w)
               \/ Subtract(w) \/ Push(w) \/ Run(w) \/ Finish(w)

ControlStep(r) == \/ ControlTransfer(r) \/ ControlAdd(r) \/ ControlSpin(r)
                  \/ ControlPost(r) \/ ControlNext(r)

CountingNext ==
    \/ \E w \in Acquirers : CoroStep(w)
    \/ \E r \in Releasers : ControlStep(r) \/ \E n \in 1 .. MaxReleased : Release(r, n)

CountingSpec == CountingInit /\ [][CountingNext]_countingVars

(* Threads keep executing what they have begun, and event loops run what is
   queued. *)
CountingFairness ==
    /\ \A w \in Acquirers : WF_countingVars(Subtract(w) \/ Push(w)) /\ WF_countingVars(Run(w))
    /\ \A r \in Releasers : WF_countingVars(ControlStep(r))

CountingFairSpec == CountingSpec /\ CountingFairness

-----------------------------------------------------------------------------

Controllers == {r \in Releasers : control[r] # "idle"}

(* The field transfer_ has no lock: at any time at most one thread runs
   control(), and one does exactly while released permits are pending, so
   that no release() is left to a thread that has already decided to
   return.  And it spins only while a coroutine that has subtracted has yet
   to link itself, or just has: never for nobody. *)
OneController ==
    /\ Cardinality(Controllers) = IF pending > 0 THEN 1 ELSE 0
    /\ \A r \in Releasers : control[r] = "spin" =>
          resuming_ # <<>> \/ transfer_ # <<>> \/ \E w \in Acquirers : at[w] = "push"

(* Never more permits granted than there are, whatever waits, retries and
   releases overlap. *)
PermitsRespected == admitted <= Start + released - pending + Cardinality(Controllers)

(* control() works off the pending releases and returns. *)
ControlReturns == pending > 0 ~> pending = 0

(* When nothing moves, nobody waits while a permit is free: released permits
   reach the coroutines that wait for them. *)
PermitsReachWaiters ==
    (Controllers = {} /\ queued = {} /\ \A w \in Acquirers : at[w] \in {"out", "in", "parked"})
        => ((\E w \in Acquirers : at[w] = "parked") => admitted = Start + released)

-----------------------------------------------------------------------------
(***************************************************************************)
(* The inductive invariant behind the theorems of SemaphoreProofs.         *)
(***************************************************************************)

CountingTypeOK ==
    /\ active \in Int
    /\ pending \in Nat
    /\ released \in Nat
    /\ admitted \in Nat
    /\ resuming_ \in Seq(Acquirers)
    /\ transfer_ \in Seq(Acquirers)
    /\ at \in [Acquirers -> {"out", "cas", "tryCas", "subtract", "push", "parked", "in"}]
    /\ result \in [Acquirers -> Int]
    /\ control \in [Releasers -> {"idle", "transfer", "add", "spin", "post", "next"}]
    /\ resume \in [Releasers -> Acquirers \cup {Null}]
    /\ queued \subseteq Acquirers

(* release_count_ elects: there is one controller while it is positive, none
   while it is zero.  resume is set where transfer() has set it. *)
Elected ==
    /\ \A r, q \in Releasers : control[r] # "idle" /\ control[q] # "idle" => r = q
    /\ pending > 0 <=> \E r \in Releasers : control[r] # "idle"
    /\ \A r \in Releasers :
          /\ resume[r] # Null => control[r] \in {"add", "post"}
          /\ control[r] = "post" => resume[r] # Null

(* A coroutine is linked once: in one of the lists, at one place, or in the
   hands of the controller. *)
LinkedOncePerWait ==
    /\ \A i, j \in 1 .. Len(resuming_) : resuming_[i] = resuming_[j] => i = j
    /\ \A i, j \in 1 .. Len(transfer_) : transfer_[i] = transfer_[j] => i = j
    /\ \A i \in 1 .. Len(resuming_), j \in 1 .. Len(transfer_) : resuming_[i] # transfer_[j]
    /\ \A r \in Releasers : resume[r] # Null =>
          /\ \A i \in 1 .. Len(resuming_) : resuming_[i] # resume[r]
          /\ \A i \in 1 .. Len(transfer_) : transfer_[i] # resume[r]

(* What is linked is suspended and not yet queued ... *)
LinkedWaits ==
    /\ \A i \in 1 .. Len(resuming_) : at[resuming_[i]] = "parked" /\ resuming_[i] \notin queued
    /\ \A i \in 1 .. Len(transfer_) : at[transfer_[i]] = "parked" /\ transfer_[i] \notin queued
    /\ \A r \in Releasers : resume[r] # Null => at[resume[r]] = "parked" /\ resume[r] \notin queued
    /\ \A w \in queued : at[w] = "parked"

(* ... and what is suspended and not yet queued is linked. *)
WaiterIsLinked ==
    \A w \in Acquirers : at[w] = "parked" /\ w \notin queued =>
        \/ \E i \in 1 .. Len(resuming_) : resuming_[i] = w
        \/ \E i \in 1 .. Len(transfer_) : transfer_[i] = w
        \/ \E r \in Releasers : resume[r] = w

(* Who has subtracted and been given nothing yet. *)
Unserved == {w \in Acquirers : at[w] \in {"push", "parked"}} \ queued

(* The release that the controller is working on: 1 once it has been added
   to active_count_; and 1 while it is still to be handed to somebody. *)
Added == IF \E r \in Releasers : control[r] \in {"spin", "post", "next"} THEN 1 ELSE 0
Owed == IF \E r \in Releasers : control[r] \in {"spin", "post"} THEN 1 ELSE 0

(* Every permit is free, granted, or set against somebody who waits; and
   active_count_ goes below zero by no more than the number of those. *)
PermitsBalance ==
    /\ active + admitted + Cardinality(Unserved) = Start + released - pending + Added
    /\ active + Cardinality(Unserved) >= Owed
    /\ Owed = 1 => Unserved # {}
    /\ \A w \in Acquirers : at[w] \in {"cas", "tryCas"} => result[w] > 0

CountingInv == /\ CountingTypeOK /\ Elected /\ LinkedOncePerWait /\ LinkedWaits
               /\ WaiterIsLinked /\ PermitsBalance
=============================================================================
