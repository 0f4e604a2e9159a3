------------------------------ MODULE FairLock ------------------------------
(***************************************************************************)
(* What async_binary_semaphore and async_mutex promise: one holder; a      *)
(* coroutine that finds the lock held joins a queue; a release hands the   *)
(* lock directly to the first of the queue, and frees it only when nobody  *)
(* waits, so that a newcomer never overtakes a queued coroutine.           *)
(***************************************************************************)
EXTENDS Sequences

CONSTANTS Coros, Nobody

VARIABLES holder, queue

vars == <<holder, queue>>

Init == holder \in Coros \cup {Nobody} /\ queue = <<>>

Take(w) == /\ holder = Nobody
           /\ holder' = w
           /\ UNCHANGED queue

Join(w) == /\ holder # Nobody
           /\ queue' = Append(queue, w)
           /\ UNCHANGED holder

HandOver == /\ holder # Nobody
            /\ queue # <<>>
            /\ holder' = Head(queue)
            /\ queue' = Tail(queue)

Free == /\ holder # Nobody
        /\ queue = <<>>
        /\ holder' = Nobody
        /\ UNCHANGED queue

Next == \/ HandOver
        \/ Free
        \/ \E w \in Coros : Take(w) \/ Join(w)

Spec == Init /\ [][Next]_vars
=============================================================================
