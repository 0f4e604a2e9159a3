----------------------------- MODULE AsyncLatch -----------------------------
(***************************************************************************)
(* zab::async_latch (includes/zab/async_latch.hpp): an atomic count in     *)
(* front of a pause_token that starts paused.  count_down() subtracts, and *)
(* the one call that takes the count to zero or below unpauses the token.  *)
(* Coroutines wait(), or arrive_and_wait(): a count_down() and then a      *)
(* wait by the same coroutine.                                             *)
(*                                                                         *)
(* The latch usually lives in the frame of a coroutine that waits on it    *)
(* (wait_for.hpp, observable.hpp), which destroys it as soon as it has     *)
(* passed, while the last count_down() may still be executing.             *)
(***************************************************************************)
EXTENDS PauseToken

CONSTANTS Start,    \* the count the latch is constructed with
          Amount    \* Amount[c]: what caller c counts down by

(* A coroutine in Pausers \cap Callers calls arrive_and_wait().  The latch
   has a waiter: the coroutine that owns it waits on it before it destroys
   it. *)
ASSUME LatchAssumption ==
    /\ Start \in Nat \ {0}
    /\ Amount \in [Callers -> Nat \ {0}]
    /\ Pausers # {}

VARIABLES count,      \* count_
          arrival,    \* where a caller stands in count_down()
          visit,      \* where a coroutine stands with respect to its wait
          destroyed   \* has the latch been destroyed?

latchVars == <<count, arrival, visit, destroyed>>
allVars == <<vars, latchVars>>

LatchInit ==
    /\ Init
    /\ count = Start
    /\ arrival = [c \in Callers |-> "before"]
    /\ visit = [p \in Pausers |-> "before"]
    /\ destroyed = FALSE

(* Mutant: any result at or below zero unpauses. *)
CountDownBelow(c) ==
    /\ arrival[c] = "before"
    /\ count' = count - Amount[c]
    /\ arrival' = [arrival EXCEPT ![c] =
                      IF count <= Amount[c] THEN "trigger" ELSE "after"]
    /\ UNCHANGED <<vars, visit, destroyed>>

(* Mutant: only a result of exactly zero unpauses. *)
CountDownExact(c) ==
    /\ arrival[c] = "before"
    /\ count' = count - Amount[c]
    /\ arrival' = [arrival EXCEPT ![c] =
                      IF count = Amount[c] THEN "trigger" ELSE "after"]
    /\ UNCHANGED <<vars, visit, destroyed>>

(* count_down(): the subtraction, and whether its result makes this caller
   the one that unpauses. *)
CountDown(c) ==
    /\ arrival[c] = "before"
    /\ count' = count - Amount[c]
    /\ arrival' = [arrival EXCEPT ![c] =
                      IF count > 0 /\ count <= Amount[c] THEN "trigger" ELSE "after"]
    /\ UNCHANGED <<vars, visit, destroyed>>

(* complete_.unpause() *)
LatchUnpause(c) ==
    /\ arrival[c] = "trigger"
    /\ UnpauseExchange(c)
    /\ arrival' = [arrival EXCEPT ![c] = "after"]
    /\ UNCHANGED <<count, visit, destroyed>>

LatchWalk(c) ==
    /\ UnpauseRead(c) \/ UnpausePost(c)
    /\ UNCHANGED latchVars

(* wait(), or the second half of arrive_and_wait(), which follows the
   return of its own count_down(). *)
Wait(p) ==
    /\ visit[p] = "before"
    /\ p \in Callers => arrival[p] = "after" /\ call[p] = "idle"
    /\ IF paused
       THEN /\ CoAwait(p)
            /\ visit' = [visit EXCEPT ![p] = "waiting"]
       ELSE /\ visit' = [visit EXCEPT ![p] = "passed"]
            /\ UNCHANGED vars
    /\ UNCHANGED <<count, arrival, destroyed>>

WaitStep(p) ==
    /\ PauseLoad(p) \/ PausePush(p) \/ PauseRetry(p) \/ Resume(p)
    /\ visit' = [visit EXCEPT ![p] = IF pc'[p] = "running" THEN "passed" ELSE @]
    /\ UNCHANGED <<count, arrival, destroyed>>

(* The coroutine that owns the latch destroys it once every waiter has
   passed and every count_down() has been called: it cannot know whether the
   calls have returned. *)
Destroy ==
    /\ ~destroyed
    /\ \A p \in Pausers : visit[p] = "passed"
    /\ \A c \in Callers : arrival[c] # "before"
    /\ destroyed' = TRUE
    /\ UNCHANGED <<vars, count, arrival, visit>>

LatchNext == \/ Destroy
             \/ \E c \in Callers : CountDown(c) \/ LatchUnpause(c) \/ LatchWalk(c)
             \/ \E p \in Pausers : Wait(p) \/ WaitStep(p)

LatchSafety == LatchInit /\ [][LatchNext]_allVars

(* Threads keep executing what they have begun; event loops run what is
   queued. *)
LatchFairness ==
    /\ \A c \in Callers : WF_allVars(LatchUnpause(c)) /\ WF_allVars(LatchWalk(c))
    /\ \A p \in Pausers : WF_allVars(WaitStep(p))

LatchSpec == LatchSafety /\ LatchFairness

-----------------------------------------------------------------------------

(* The latch opens only at zero, and for good: a coroutine that has passed
   saw a count that was used up, however the amounts overshoot and whichever
   of several count_down() calls ran last. *)
PassedMeansZero ==
    \A p \in Pausers : visit[p] = "passed" => count <= 0 /\ ~paused

(* Below zero the latch is open, or exactly one count_down() is on its way
   to open it: the window "number > 0 && number <= _amount" is hit once. *)
OneTrigger ==
    LET triggers == {c \in Callers : arrival[c] = "trigger"}
    IN  IF count > 0 THEN paused /\ triggers = {}
        ELSE IF paused THEN Cardinality(triggers) = 1 ELSE triggers = {}

(* A destroyed latch is not touched again: the count_down() that opened it
   has made its last access to the token when the last waiter passes, so a
   waiter may own the latch on its frame. *)
NoAccessAfterDestroy ==
    destroyed => \A c \in Callers : arrival[c] = "after" /\ call[c] = "idle"

(* The latch opens once, at zero, and can be destroyed by who has passed. *)
LatchSafe == PassedMeansZero /\ OneTrigger /\ NoAccessAfterDestroy

(* The inductive invariant behind LatchSafe, next to ListInv of the token.
   Nobody calls pause() on the latch's token, so it is shut until the one
   unpause() and open ever after. *)
LatchInv ==
    /\ count \in Int
    /\ arrival \in [Callers -> {"before", "trigger", "after"}]
    /\ visit \in [Pausers -> {"before", "waiting", "passed"}]
    /\ \A c \in Callers : call[c] # "pausing"
    /\ paused => posted = {} /\ \A c \in Callers : call[c] = "idle"
    /\ \A p \in Pausers : visit[p] = "waiting" <=> pc[p] # "running"
    /\ count > 0 => paused
    /\ paused /\ count <= 0 => \E c \in Callers : arrival[c] = "trigger"
    /\ \A c \in Callers : arrival[c] = "trigger" =>
          /\ paused /\ count <= 0
          /\ \A d \in Callers : arrival[d] = "trigger" => d = c
    /\ \A p \in Pausers : visit[p] = "passed" => ~paused
    /\ destroyed => /\ ~paused
                    /\ \A p \in Pausers : visit[p] = "passed"
                    /\ \A c \in Callers : arrival[c] # "before"

(* When the count is used up every coroutine that waits gets through. *)
WaitersPass ==
    \A p \in Pausers : (count <= 0 /\ visit[p] = "waiting") ~> visit[p] = "passed"
=============================================================================
