--------------------------- MODULE BinarySemaphore ---------------------------
(***************************************************************************)
(* zab::async_binary_semaphore, the specialisation                         *)
(* async_counting_semaphore<1> (includes/zab/async_semaphore.hpp), used as *)
(* a lock: every release() is by the coroutine that holds it, as in        *)
(* async_mutex (includes/zab/async_mutex.hpp), which adds the guard that   *)
(* releases when it goes out of scope.                                     *)
(*                                                                         *)
(* The word resuming_ is 0, kLockFlag, or the newest of a list of waiters  *)
(* that ends at kLockFlag.  It is kept here as held (the word is not 0)    *)
(* and stack (the waiters, newest first); what a thread loads and compares *)
(* is only its Top.  transfer_ is the list of waiters, oldest first, that  *)
(* the holder took off the word.  A local variable is reset when its       *)
(* function returns.                                                       *)
(***************************************************************************)
EXTENDS Naturals, Sequences, FiniteSets, SequencesExt

CONSTANTS Coros,     \* coroutines
          Unlocked,  \* the word 0
          LockFlag,  \* kLockFlag
          Nobody

ASSUME SemaphoreAssumption ==
    /\ Unlocked \notin Coros
    /\ LockFlag \notin Coros
    /\ Unlocked # LockFlag
    /\ Nobody \notin Coros

VARIABLES held, stack,  \* resuming_
          transfer,     \* transfer_
          pc,           \* where a coroutine stands
          previous,     \* local previous of suspend()
          head,         \* local head of release()
          ready         \* handles given to engine::thread_resume, not yet run

vars == <<held, stack, transfer, pc, previous, head, ready>>

(* Constructed unlocked, or locked for a coroutine that will signal with the
   first release(). *)
Init ==
    /\ \/ held = FALSE /\ pc = [w \in Coros |-> "out"]
       \/ held = TRUE /\ \E v \in Coros : pc = [w \in Coros |-> IF w = v THEN "in" ELSE "out"]
    /\ stack = <<>>
    /\ transfer = <<>>
    /\ previous = [w \in Coros |-> Unlocked]
    /\ head = [w \in Coros |-> Nobody]
    /\ ready = {}

Top == IF stack # <<>> THEN Head(stack) ELSE IF held THEN LockFlag ELSE Unlocked

(***************************************************************************)
(* co_await semaphore, and try_aquire()                                    *)
(***************************************************************************)

(* try_aquire(), which is also await_ready(): a failed try_aquire() has no
   effect, a failed await_ready() leads to suspend(). *)
TryAquire(w) ==
    /\ pc[w] = "out"
    /\ Top = Unlocked
    /\ held' = TRUE
    /\ pc' = [pc EXCEPT ![w] = "in"]
    /\ UNCHANGED <<stack, transfer, previous, head, ready>>

AwaitSuspend(w) ==
    /\ pc[w] = "out"
    /\ Top # Unlocked
    /\ pc' = [pc EXCEPT ![w] = "load"]
    /\ UNCHANGED <<held, stack, transfer, previous, head, ready>>

SuspendLoad(w) ==
    /\ pc[w] = "load"
    /\ previous' = [previous EXCEPT ![w] = Top]
    /\ pc' = [pc EXCEPT ![w] = "cas"]
    /\ UNCHANGED <<held, stack, transfer, head, ready>>

(* Mutant: a store in place of the compare-exchange. *)
SuspendTakeStore(w) ==
    /\ pc[w] = "cas"
    /\ previous[w] = Unlocked
    /\ held' = TRUE
    /\ pc' = [pc EXCEPT ![w] = "in"]
    /\ previous' = [previous EXCEPT ![w] = Unlocked]
    /\ UNCHANGED <<stack, transfer, head, ready>>

(* The semaphore was released meanwhile. *)
SuspendTake(w) ==
    /\ pc[w] = "cas"
    /\ previous[w] = Unlocked
    /\ Top = previous[w]
    /\ held' = TRUE
    /\ pc' = [pc EXCEPT ![w] = "in"]
    /\ previous' = [previous EXCEPT ![w] = Unlocked]
    /\ UNCHANGED <<stack, transfer, head, ready>>

SuspendPush(w) ==
    /\ pc[w] = "cas"
    /\ previous[w] # Unlocked
    /\ Top = previous[w]
    /\ stack' = <<w>> \o stack
    /\ pc' = [pc EXCEPT ![w] = "parked"]
    /\ previous' = [previous EXCEPT ![w] = Unlocked]
    /\ UNCHANGED <<held, transfer, head, ready>>

SuspendRetry(w) ==
    /\ pc[w] = "cas"
    /\ Top # previous[w]
    /\ previous' = [previous EXCEPT ![w] = Top]
    /\ UNCHANGED <<held, stack, transfer, pc, head, ready>>

(* The event loop runs a handle: the coroutine returns from its co_await,
   holding the semaphore. *)
Resume(w) ==
    /\ w \in ready
    /\ ready' = ready \ {w}
    /\ pc' = [pc EXCEPT ![w] = "in"]
    /\ UNCHANGED <<held, stack, transfer, previous, head>>

(***************************************************************************)
(* release()                                                               *)
(***************************************************************************)

(* There is a transferred waiter: unlink it, then resume it. *)
ReleasePop(w) ==
    /\ pc[w] = "in"
    /\ transfer # <<>>
    /\ head' = [head EXCEPT ![w] = Head(transfer)]
    /\ transfer' = Tail(transfer)
    /\ pc' = [pc EXCEPT ![w] = "post"]
    /\ UNCHANGED <<held, stack, previous, ready>>

(* There is none: the word is just locked and becomes unlocked ... *)
ReleaseUnlock(w) ==
    /\ pc[w] = "in"
    /\ transfer = <<>>
    /\ Top = LockFlag
    /\ held' = FALSE
    /\ pc' = [pc EXCEPT ![w] = "out"]
    /\ UNCHANGED <<stack, transfer, previous, head, ready>>

(* ... or somebody is on it. *)
ReleaseContended(w) ==
    /\ pc[w] = "in"
    /\ transfer = <<>>
    /\ Top # LockFlag
    /\ pc' = [pc EXCEPT ![w] = "take"]
    /\ UNCHANGED <<held, stack, transfer, previous, head, ready>>

(* Mutant: the list is handed over newest first. *)
ReleaseTakeNewest(w) ==
    /\ pc[w] = "take"
    /\ stack' = <<>>
    /\ head' = [head EXCEPT ![w] = Head(stack)]
    /\ transfer' = Tail(stack)
    /\ pc' = [pc EXCEPT ![w] = "post"]
    /\ UNCHANGED <<held, previous, ready>>

(* Mutant: all but the first waiter are left behind. *)
ReleaseTakeOne(w) ==
    /\ pc[w] = "take"
    /\ stack' = <<>>
    /\ head' = [head EXCEPT ![w] = Head(Reverse(stack))]
    /\ pc' = [pc EXCEPT ![w] = "post"]
    /\ UNCHANGED <<held, transfer, previous, ready>>

(* Take the whole list, leaving kLockFlag, reverse it, and keep all but its
   first waiter in transfer_. *)
ReleaseTake(w) ==
    /\ pc[w] = "take"
    /\ stack' = <<>>
    /\ head' = [head EXCEPT ![w] = Head(Reverse(stack))]
    /\ transfer' = Tail(Reverse(stack))
    /\ pc' = [pc EXCEPT ![w] = "post"]
    /\ UNCHANGED <<held, previous, ready>>

ReleasePost(w) ==
    /\ pc[w] = "post"
    /\ ready' = ready \cup {head[w]}
    /\ pc' = [pc EXCEPT ![w] = "out"]
    /\ head' = [head EXCEPT ![w] = Nobody]
    /\ UNCHANGED <<held, stack, transfer, previous>>

-----------------------------------------------------------------------------

SuspendStep(w) == SuspendLoad(w) \/ SuspendTake(w) \/ SuspendPush(w) \/ SuspendRetry(w)
ReleaseStep(w) == \/ ReleasePop(w) \/ ReleaseUnlock(w) \/ ReleaseContended(w)
                  \/ ReleaseTake(w) \/ ReleasePost(w)

Next == \E w \in Coros :
            TryAquire(w) \/ AwaitSuspend(w) \/ SuspendStep(w) \/ Resume(w) \/ ReleaseStep(w)

Spec == Init /\ [][Next]_vars

(* A holder eventually releases, and the event loop runs what is queued.
   Nobody has to ask for the semaphore, and a coroutine that keeps losing the
   compare-exchange of suspend() is not helped. *)
Fairness == \A w \in Coros : WF_vars(ReleaseStep(w)) /\ WF_vars(Resume(w))

FairSpec == Spec /\ Fairness

-----------------------------------------------------------------------------

TypeOK ==
    /\ held \in BOOLEAN
    /\ stack \in Seq(Coros)
    /\ transfer \in Seq(Coros)
    /\ pc \in [Coros -> {"out", "load", "cas", "parked", "in", "take", "post"}]
    /\ previous \in [Coros -> Coros \cup {Unlocked, LockFlag}]
    /\ head \in [Coros -> Coros \cup {Nobody}]
    /\ ready \subseteq Coros

(* Who may touch transfer_ and enter the critical section: a coroutine from
   its acquisition to the hand-over in release(), and a coroutine whose
   resumption is queued. *)
Owner(w) == pc[w] \in {"in", "take", "post"} \/ w \in ready

(* Mutual exclusion, of the critical sections and of the unprotected field
   transfer_: at no time are there two owners, although a release() overlaps
   with the resumption of the next holder and with new arrivals. *)
MutualExclusion == \A v, w \in Coros : Owner(v) /\ Owner(w) => v = w

(* A coroutine that waits gets the semaphore, whoever else keeps asking for
   it. *)
WaiterEnters == \A w \in Coros : pc[w] = "parked" ~> pc[w] = "in"

(* Who holds the fair lock: the coroutine that a release() is about to post,
   or else the owner. *)
LockHolder ==
    IF \E w \in Coros : pc[w] = "post"
    THEN head[CHOOSE w \in Coros : pc[w] = "post"]
    ELSE IF \E w \in Coros : Owner(w) THEN CHOOSE w \in Coros : Owner(w)
    ELSE Nobody

(* Who queues for it, oldest first. *)
LockQueue == transfer \o Reverse(stack)

(* The semaphore implements the fair lock: release() hands over in the order
   in which the compare-exchanges of suspend() succeeded, across the reversal
   of the list and the waiters left in transfer_. *)
TheLock == INSTANCE FairLock WITH holder <- LockHolder, queue <- LockQueue

ImplementsFairLock == TheLock!Spec

-----------------------------------------------------------------------------
(***************************************************************************)
(* The inductive invariant behind the theorems of SemaphoreProofs.         *)
(***************************************************************************)

(* The word is non-zero exactly while there is an owner; only then may
   somebody wait; the owner that goes for the word's list finds one. *)
HeldWhileOwned ==
    /\ held <=> \E w \in Coros : Owner(w)
    /\ stack # <<>> => held
    /\ transfer # <<>> => held
    /\ \A w \in Coros : pc[w] = "take" => stack # <<>> /\ transfer = <<>>

(* No coroutine is linked twice. *)
LinkedOnce ==
    /\ \A i, j \in 1 .. Len(stack) : stack[i] = stack[j] => i = j
    /\ \A i, j \in 1 .. Len(transfer) : transfer[i] = transfer[j] => i = j
    /\ \A i \in 1 .. Len(stack), j \in 1 .. Len(transfer) : stack[i] # transfer[j]
    /\ \A w \in Coros : pc[w] = "post" =>
          /\ head[w] \in Coros
          /\ \A i \in 1 .. Len(stack) : stack[i] # head[w]
          /\ \A i \in 1 .. Len(transfer) : transfer[i] # head[w]

(* What is linked, or about to be resumed, is suspended. *)
LinkedIsParked ==
    /\ \A i \in 1 .. Len(stack) : pc[stack[i]] = "parked" /\ stack[i] \notin ready
    /\ \A i \in 1 .. Len(transfer) : pc[transfer[i]] = "parked" /\ transfer[i] \notin ready
    /\ \A w \in Coros : pc[w] = "post" => pc[head[w]] = "parked" /\ head[w] \notin ready
    /\ \A w \in ready : pc[w] = "parked"

(* What is suspended is linked, or about to be resumed. *)
ParkedIsLinked ==
    \A w \in Coros : pc[w] = "parked" =>
        \/ \E i \in 1 .. Len(stack) : stack[i] = w
        \/ \E i \in 1 .. Len(transfer) : transfer[i] = w
        \/ \E v \in Coros : pc[v] = "post" /\ head[v] = w
        \/ w \in ready

SemaphoreInv == /\ TypeOK /\ MutualExclusion /\ HeldWhileOwned
                /\ LinkedOnce /\ LinkedIsParked /\ ParkedIsLinked
=============================================================================
