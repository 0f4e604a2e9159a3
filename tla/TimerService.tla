---------------------------- MODULE TimerService ----------------------------
(***************************************************************************)
(* zab::timer_service (src/timer_service.cpp) of one engine thread, and    *)
(* engine::delayed_resume(), its only user.  Handles wait in a map from    *)
(* sleep marks to buckets; marks are on a clock of the service's own,      *)
(* current_, that moves only when an expiry of the timerfd is handled.     *)
(* The timerfd is periodic and is re-armed whenever the first mark         *)
(* changes.                                                                *)
(*                                                                         *)
(* Everything but the kernel runs on one thread, so a function is one      *)
(* step.  Between the completion of the read of the timerfd and the        *)
(* resumption of run() the event loop may execute anything, further waits  *)
(* included.  A read may fail, at once when the ring has no free entry for *)
(* it or later; run() then breaks out of its loop and is over.             *)
(***************************************************************************)
EXTENDS Naturals, Sequences, FiniteSetsExt, SequencesExt

CONSTANTS Handles,   \* coroutines
          Threads,   \* engine threads
          This,      \* the thread of this service
          Delays,    \* orders, in units of time, that are asked for
          MaxMark,   \* bound: sleep marks
          MaxTicks   \* bound: expiries that a late read finds

ASSUME TimerAssumption ==
    /\ This \in Threads
    /\ Delays \subseteq Nat
    /\ MaxMark \in Nat
    /\ MaxTicks \in Nat \ {0}

VARIABLES waiting,    \* waiting_: sleep mark |-> sequence of <<handle, thread>>
          current,    \* current_
          left,       \* timerfd: time to the next expiry, 0 if disarmed
          interval,   \* timerfd: it_interval
          ticks,      \* timerfd: expiries since it was last read or set
          buffer,     \* read_buffer_ of a completed read, 0 while it is pending
          running,    \* has run() not broken out of its loop?
          sleeping,   \* coroutines that are suspended
          thread,     \* the thread a coroutine was last resumed in
          wanted,     \* history: the thread it asked to be resumed in
          owed        \* history: what is left of the time it asked for

timerHistory == <<wanted, owed>>
timerVars == <<waiting, current, left, interval, ticks, buffer, running, sleeping, thread,
              timerHistory>>

TimerInit ==
    /\ waiting = <<>>
    /\ current = 0
    /\ left = 0 /\ interval = 0 /\ ticks = 0
    /\ buffer = 0
    /\ running = TRUE
    /\ sleeping = {}
    /\ thread = [h \in Handles |-> This]
    /\ wanted = [h \in Handles |-> This]
    /\ owed = [h \in Handles |-> 0]

Marks == DOMAIN waiting

(* change_timer(): timerfd_settime() forgets the expiries nobody has read,
   and a time of zero disarms. *)
change_timer(ns) ==
    /\ left' = ns
    /\ interval' = ns
    /\ ticks' = 0

(* Mutant: a new first bucket does not re-arm the timer. *)
waitUnarmed(h, ns, t) ==
    LET mark == current + ns
        new  == mark \notin Marks
    IN  /\ waiting' = [m \in Marks \cup {mark} |->
                         IF m # mark THEN waiting[m]
                         ELSE IF new THEN << <<h, This>> >>
                         ELSE Append(waiting[m], <<h, t>>)]
        /\ UNCHANGED <<left, interval, ticks>>

(* wait(): a handle joins the bucket of its mark or opens it; a bucket that
   becomes the first one re-arms the timer.  A new bucket's first handle is
   stored with the thread of the caller, later ones with the thread asked
   for. *)
wait(h, ns, t) ==
    LET mark == current + ns
        new  == mark \notin Marks
    IN  /\ waiting' = [m \in Marks \cup {mark} |->
                         IF m # mark THEN waiting[m]
                         ELSE IF new THEN << <<h, This>> >>
                         ELSE Append(waiting[m], <<h, t>>)]
        /\ IF new /\ \A m \in Marks : mark < m
           THEN change_timer(ns)
           ELSE UNCHANGED <<left, interval, ticks>>

(* engine::delayed_resume(): an order of zero goes straight to the thread. *)
DelayedResume(h, ns, t) ==
    /\ h \notin sleeping
    /\ current + ns <= MaxMark
    /\ IF ns = 0
       THEN /\ thread' = [thread EXCEPT ![h] = t]
            /\ UNCHANGED <<waiting, left, interval, ticks, sleeping>>
       ELSE /\ wait(h, ns, t)
            /\ sleeping' = sleeping \cup {h}
            /\ UNCHANGED thread
    /\ wanted' = [wanted EXCEPT ![h] = t]
    /\ owed' = [owed EXCEPT ![h] = ns]
    /\ UNCHANGED <<current, buffer, running>>

(* Mutant: a bucket whose mark is reached exactly is left for the next
   expiry. *)
RunTickBefore ==
    LET moved == current + interval * buffer
        due   == {m \in Marks : m < moved}
        rest  == Marks \ due
        resumed == UNION {ToSet(waiting[m]) : m \in due}
    IN  /\ buffer > 0
        /\ buffer' = 0
        /\ running' \in BOOLEAN
        /\ waiting' = [m \in rest |-> waiting[m]]
        /\ sleeping' = sleeping \ {r[1] : r \in resumed}
        /\ IF rest = {}
           THEN current' = 0 /\ change_timer(0)
           ELSE current' = moved /\ change_timer(Min(rest) - moved)
        /\ UNCHANGED <<thread, timerHistory>>

(* run(), resumed with the number of expiries it read: it moves current_ on
   by as many of the intervals now set, resumes the buckets that are due in
   the order of their marks, and disarms or re-arms the timer.  It then goes
   round its loop, where the next read may find no free entry in the ring. *)
RunTick ==
    LET moved == current + interval * buffer
        due   == {m \in Marks : m <= moved}
        rest  == Marks \ due
        resumed == UNION {ToSet(waiting[m]) : m \in due}
    IN  /\ buffer > 0
        /\ buffer' = 0
        /\ running' \in BOOLEAN
        /\ waiting' = [m \in rest |-> waiting[m]]
        /\ sleeping' = sleeping \ {r[1] : r \in resumed}
        /\ thread' = [h \in Handles |->
                        IF \E r \in resumed : r[1] = h
                        THEN (CHOOSE r \in resumed : r[1] = h)[2] ELSE thread[h]]
        /\ IF rest = {}
           THEN current' = 0 /\ change_timer(0)
           ELSE current' = moved /\ change_timer(Min(rest) - moved)
        /\ UNCHANGED timerHistory

(* run(), at its first read without a free entry in the ring, or resumed with
   a read that failed: "else { break; }". *)
RunBreaks ==
    /\ running /\ buffer = 0
    /\ running' = FALSE
    /\ UNCHANGED <<waiting, current, left, interval, ticks, buffer, sleeping, thread, timerHistory>>

(***************************************************************************)
(* The kernel: the timerfd and the read of it (external).                  *)
(***************************************************************************)

(* A unit of time passes. *)
Advance ==
    /\ ticks < MaxTicks
    /\ owed' = [h \in Handles |-> IF owed[h] = 0 THEN 0 ELSE owed[h] - 1]
    /\ left' = IF left = 1 THEN interval ELSE IF left = 0 THEN 0 ELSE left - 1
    /\ ticks' = IF left = 1 THEN ticks + 1 ELSE ticks
    /\ UNCHANGED <<waiting, current, interval, buffer, running, sleeping, thread, wanted>>

(* The pending read completes: it returns the expiries and resets them. *)
CompleteRead ==
    /\ running /\ buffer = 0
    /\ ticks > 0
    /\ buffer' = ticks
    /\ ticks' = 0
    /\ UNCHANGED <<waiting, current, left, interval, running, sleeping, thread, timerHistory>>

-----------------------------------------------------------------------------

TimerNext == \/ RunTick \/ RunBreaks \/ Advance \/ CompleteRead
             \/ \E h \in Handles, ns \in Delays, t \in Threads : DelayedResume(h, ns, t)

TimerSpec == TimerInit /\ [][TimerNext]_timerVars

(* Time passes, the kernel completes the read of an expired timer, and the
   event loop resumes run().  Nobody has to ask for a delay. *)
TimerFairness == WF_timerVars(Advance) /\ WF_timerVars(CompleteRead) /\ WF_timerVars(RunTick)

TimerFairSpec == TimerSpec /\ TimerFairness

-----------------------------------------------------------------------------

(* The service never goes to sleep on its waiters.  Marks lie strictly ahead
   of current_, so that "begin()->first - current_" neither wraps nor is the
   zero that would disarm the timer; and while anybody waits the timer is
   running with a positive interval, which every later expiry, one already
   read included, will move current_ on by. *)
ArmedWhileWaiting ==
    /\ \A m \in Marks : m > current
    /\ Marks # {} <=> left > 0
    /\ left > 0 <=> interval > 0
    /\ left <= interval

(* A sleeping coroutine is in exactly one bucket, once, and nobody else is:
   it is resumed once, whatever shares its mark. *)
InOneBucket ==
    \A h \in Handles :
        Cardinality({e \in UNION {{m} \X DOMAIN waiting[m] : m \in Marks} :
                        waiting[e[1]][e[2]][1] = h})
            = IF h \in sleeping THEN 1 ELSE 0

(* Every coroutine that waits is resumed, however often other waits re-arm
   the timer in front of it, unless run() is over: it has no way to begin
   again, and whoever sleeps then, or later, is not woken. *)
SleeperWakes == \A h \in Handles : h \in sleeping ~> (h \notin sleeping \/ ~running)

(* "Will be resumed by the engine in _thread after _order nanoseconds have
   passed": never before. *)
NotEarly == \A h \in Handles : h \notin sleeping => owed[h] = 0

(* "The thread to resume in": a coroutine wakes in the thread that was given
   to wait(). *)
WakesInThread == \A h \in Handles : h \notin sleeping => thread[h] = wanted[h]

(* The timer runs while anybody sleeps, and wakes each sleeper once. *)
TimerSafe == ArmedWhileWaiting /\ InOneBucket

-----------------------------------------------------------------------------
(***************************************************************************)
(* The inductive invariant behind TimerIsSafe of IoProofs.                 *)
(***************************************************************************)

TimerTypeOK ==
    /\ Marks \subseteq Nat
    /\ \A m \in Marks : waiting[m] \in Seq(Handles \X Threads)
    /\ current \in Nat /\ left \in Nat /\ interval \in Nat
    /\ ticks \in Nat /\ buffer \in Nat
    /\ sleeping \subseteq Handles

(* Whoever is in a bucket sleeps; nobody is in two places; every sleeper is
   in some bucket. *)
BucketsInv ==
    /\ \A m \in Marks : \A i \in DOMAIN waiting[m] :
          waiting[m][i][1] \in sleeping
    /\ \A m, n \in Marks : \A i \in DOMAIN waiting[m], j \in DOMAIN waiting[n] :
          waiting[m][i][1] = waiting[n][j][1] => m = n /\ i = j
    /\ \A h \in sleeping : \E m \in Marks : \E i \in DOMAIN waiting[m] : waiting[m][i][1] = h

TimerInv == TimerTypeOK /\ ArmedWhileWaiting /\ BucketsInv
=============================================================================
