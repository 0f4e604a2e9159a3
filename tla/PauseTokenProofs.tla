-------------------------- MODULE PauseTokenProofs --------------------------
(***************************************************************************)
(* Theorems about PauseToken, for any sets of coroutines and callers: the  *)
(* lists are well formed in every reachable state (ListInv), hence         *)
(* unpause() never touches a pauser whose coroutine may have run, and the  *)
(* token implements the Gate.  One lemma per action shows that it keeps    *)
(* ListInv.                                                                *)
(***************************************************************************)
EXTENDS AsyncLatch, FiniteSetTheorems, TLAPS

(* A token is constructed with empty lists. *)
LEMMA InitListInv == Init => ListInv
BY DistinctAssumption
   DEF Init, ListInv, TypeOK, Words, Links, SuspendedSomewhere, ListShape, TokenHead,
       WalkHead, Walking

(* A coroutine that finds the token paused is in no list yet. *)
LEMMA CoAwaitKeeps ==
  ASSUME ListInv, NEW p \in Pausers, CoAwait(p)
  PROVE  ListInv'
<1> USE DistinctAssumption DEF ListInv, TypeOK, Words, Links, Walking, CoAwait, callerVars, historyVars
<1>1. TypeOK'
  OBVIOUS
<1>2. SuspendedSomewhere'
  BY DEF SuspendedSomewhere, ListShape, TokenHead, WalkHead
<1>3. ListShape'
  BY DEF SuspendedSomewhere, ListShape, TokenHead, WalkHead
<1>4. TokenHead'
  BY DEF SuspendedSomewhere, ListShape, TokenHead, WalkHead
<1>5. WalkHead'
  BY DEF SuspendedSomewhere, ListShape, TokenHead, WalkHead
<1>6. QED
  BY <1>1, <1>2, <1>3, <1>4, <1>5

(* Loading resuming_ disturbs no list. *)
LEMMA PauseLoadKeeps ==
  ASSUME ListInv, NEW p \in Pausers, PauseLoad(p)
  PROVE  ListInv'
<1> USE DistinctAssumption DEF ListInv, TypeOK, Words, Links, Walking, PauseLoad, Observe, callerVars, historyVars
<1>1. TypeOK'
  OBVIOUS
<1>2. SuspendedSomewhere'
  BY DEF SuspendedSomewhere, ListShape, TokenHead, WalkHead
<1>3. ListShape'
  BY DEF SuspendedSomewhere, ListShape, TokenHead, WalkHead
<1>4. TokenHead'
  BY DEF SuspendedSomewhere, ListShape, TokenHead, WalkHead
<1>5. WalkHead'
  BY DEF SuspendedSomewhere, ListShape, TokenHead, WalkHead
<1>6. QED
  BY <1>1, <1>2, <1>3, <1>4, <1>5

(* A successful compare-exchange puts a fresh pauser on top of the token's list, also
   when the word has left and come back since it was loaded: only the equality of the
   word with previous is used, never its history. *)
LEMMA PausePushKeeps ==
  ASSUME ListInv, NEW p \in Pausers, PausePush(p)
  PROVE  ListInv'
<1> USE DistinctAssumption DEF ListInv, TypeOK, Words, Links, Walking, PausePush, callerVars
<1>1. TypeOK'
  OBVIOUS
<1>2. SuspendedSomewhere'
  BY DEF SuspendedSomewhere, ListShape, TokenHead, WalkHead
<1>3. ListShape'
  BY DEF SuspendedSomewhere, ListShape, TokenHead, WalkHead
<1>4. TokenHead'
  BY DEF SuspendedSomewhere, ListShape, TokenHead, WalkHead
<1>5. WalkHead'
  BY DEF SuspendedSomewhere, ListShape, TokenHead, WalkHead
<1>6. QED
  BY <1>1, <1>2, <1>3, <1>4, <1>5

(* A failed compare-exchange wrote next_waiting_ of a pauser no list owns. *)
LEMMA PauseRetryKeeps ==
  ASSUME ListInv, NEW p \in Pausers, PauseRetry(p)
  PROVE  ListInv'
<1> USE DistinctAssumption DEF ListInv, TypeOK, Words, Links, Walking, PauseRetry, Observe, callerVars, historyVars
<1>1. TypeOK'
  OBVIOUS
<1>2. SuspendedSomewhere'
  BY DEF SuspendedSomewhere, ListShape, TokenHead, WalkHead
<1>3. ListShape'
  BY DEF SuspendedSomewhere, ListShape, TokenHead, WalkHead
<1>4. TokenHead'
  BY DEF SuspendedSomewhere, ListShape, TokenHead, WalkHead
<1>5. WalkHead'
  BY DEF SuspendedSomewhere, ListShape, TokenHead, WalkHead
<1>6. QED
  BY <1>1, <1>2, <1>3, <1>4, <1>5

(* A coroutine that runs again was in no list: its handle was queued. *)
LEMMA ResumeKeeps ==
  ASSUME ListInv, NEW p \in Pausers, Resume(p)
  PROVE  ListInv'
<1> USE DistinctAssumption DEF ListInv, TypeOK, Words, Links, Walking, Resume, callerVars, historyVars
<1>1. TypeOK'
  OBVIOUS
<1>2. SuspendedSomewhere'
  BY DEF SuspendedSomewhere, ListShape, TokenHead, WalkHead
<1>3. ListShape'
  BY DEF SuspendedSomewhere, ListShape, TokenHead, WalkHead
<1>4. TokenHead'
  BY DEF SuspendedSomewhere, ListShape, TokenHead, WalkHead
<1>5. WalkHead'
  BY DEF SuspendedSomewhere, ListShape, TokenHead, WalkHead
<1>6. QED
  BY <1>1, <1>2, <1>3, <1>4, <1>5

(* pause() looks at the word. *)
LEMMA CallPauseKeeps ==
  ASSUME ListInv, NEW c \in Callers, CallPause(c)
  PROVE  ListInv'
<1> USE DistinctAssumption DEF ListInv, TypeOK, Words, Links, Walking, CallPause, coroutineVars, historyVars
<1>1. TypeOK'
  BY DEF WalkHead
<1>2. SuspendedSomewhere'
  BY DEF SuspendedSomewhere, ListShape, TokenHead, WalkHead
<1>3. ListShape'
  BY DEF SuspendedSomewhere, ListShape, TokenHead, WalkHead
<1>4. TokenHead'
  BY DEF SuspendedSomewhere, ListShape, TokenHead, WalkHead
<1>5. WalkHead'
  BY DEF SuspendedSomewhere, ListShape, TokenHead, WalkHead
<1>6. QED
  BY <1>1, <1>2, <1>3, <1>4, <1>5

(* pause() replaces the flag only, so it drops no list. *)
LEMMA PauseCasKeeps ==
  ASSUME ListInv, NEW c \in Callers, PauseCas(c)
  PROVE  ListInv'
<1> USE DistinctAssumption DEF ListInv, TypeOK, Words, Links, Walking, PauseCas, coroutineVars, historyVars
<1>1. TypeOK'
  BY DEF WalkHead
<1>2. SuspendedSomewhere'
  BY DEF SuspendedSomewhere, ListShape, TokenHead, WalkHead
<1>3. ListShape'
  BY DEF SuspendedSomewhere, ListShape, TokenHead, WalkHead
<1>4. TokenHead'
  BY DEF SuspendedSomewhere, ListShape, TokenHead, WalkHead
<1>5. WalkHead'
  BY DEF SuspendedSomewhere, ListShape, TokenHead, WalkHead
<1>6. QED
  BY <1>1, <1>2, <1>3, <1>4, <1>5

(* The exchange makes the whole list the caller's. *)
LEMMA UnpauseExchangeKeeps ==
  ASSUME ListInv, NEW c \in Callers, UnpauseExchange(c)
  PROVE  ListInv'
<1> USE DistinctAssumption DEF ListInv, TypeOK, Words, Links, Walking, UnpauseExchange, coroutineVars
<1>1. TypeOK'
  BY DEF WalkHead
<1>2. SuspendedSomewhere'
  BY DEF SuspendedSomewhere, ListShape, TokenHead, WalkHead
<1>3. ListShape'
  BY DEF SuspendedSomewhere, ListShape, TokenHead, WalkHead
<1>4. TokenHead'
  BY DEF SuspendedSomewhere, ListShape, TokenHead, WalkHead
<1>5. WalkHead'
  BY DEF SuspendedSomewhere, ListShape, TokenHead, WalkHead
<1>6. QED
  BY <1>1, <1>2, <1>3, <1>4, <1>5

(* tmp is the rest of the caller's own list. *)
LEMMA UnpauseReadKeeps ==
  ASSUME ListInv, NEW c \in Callers, UnpauseRead(c)
  PROVE  ListInv'
<1> USE DistinctAssumption DEF ListInv, TypeOK, Words, Links, Walking, UnpauseRead, coroutineVars, historyVars
<1>1. TypeOK'
  BY DEF WalkHead
<1>2. SuspendedSomewhere'
  BY DEF SuspendedSomewhere, ListShape, TokenHead, WalkHead
<1>3. ListShape'
  BY DEF SuspendedSomewhere, ListShape, TokenHead, WalkHead
<1>4. TokenHead'
  BY DEF SuspendedSomewhere, ListShape, TokenHead, WalkHead
<1>5. WalkHead'
  BY DEF SuspendedSomewhere, ListShape, TokenHead, WalkHead
<1>6. QED
  BY <1>1, <1>2, <1>3, <1>4, <1>5

(* Posting the head leaves the rest, headed by tmp, to the caller; a null tmp means depth 1,
   so nothing is left. *)
LEMMA UnpausePostKeeps ==
  ASSUME ListInv, NEW c \in Callers, UnpausePost(c)
  PROVE  ListInv'
<1> USE DistinctAssumption DEF ListInv, TypeOK, Words, Links, Walking, UnpausePost, coroutineVars
<1>1. TypeOK'
  BY DEF WalkHead
<1>2. SuspendedSomewhere'
  BY DEF SuspendedSomewhere, ListShape, TokenHead, WalkHead
<1>3. ListShape'
  BY DEF SuspendedSomewhere, ListShape, TokenHead, WalkHead
<1>4. TokenHead'
  BY DEF SuspendedSomewhere, ListShape, TokenHead, WalkHead
<1>5. WalkHead'
  BY DEF SuspendedSomewhere, ListShape, TokenHead, WalkHead
<1>6. QED
  BY <1>1, <1>2, <1>3, <1>4, <1>5

(* Every step of a coroutine or of a caller, and a stuttering step, keeps the
   list invariant. *)
LEMMA NextListInv == ListInv /\ [Next]_vars => ListInv'
<1> SUFFICES ASSUME ListInv, [Next]_vars PROVE ListInv'
  OBVIOUS
<1>1. ASSUME NEW p \in Pausers, CoroutineStep(p) PROVE ListInv'
  BY <1>1, CoAwaitKeeps, PauseLoadKeeps, PausePushKeeps, PauseRetryKeeps, ResumeKeeps
     DEF CoroutineStep
<1>2. ASSUME NEW c \in Callers, CallerStep(c) PROVE ListInv'
  BY <1>2, CallPauseKeeps, PauseCasKeeps, UnpauseExchangeKeeps, UnpauseReadKeeps,
     UnpausePostKeeps
     DEF CallerStep
<1>3. CASE UNCHANGED vars
  BY <1>3 DEF vars, coroutineVars, callerVars, historyVars, ListInv, TypeOK, Words, Links,
     SuspendedSomewhere, ListShape, TokenHead, WalkHead, Walking
<1>4. QED
  BY <1>1, <1>2, <1>3 DEF Next

(* In every reachable state of pause_token the intrusive lists are well
   formed: each suspended pauser is in the token's list, in the part of a list
   that one unpause() still has to walk, or queued for resumption, and in only
   one of them. *)
THEOREM ListsWellFormed == Spec => []ListInv
BY InitListInv, NextListInv, PTL DEF Spec

(* unpause() reads next_waiting_, handle_ and thread_ of suspended pausers
   only: no interleaving lets it touch a pauser after the coroutine that owns
   it could have been resumed. *)
THEOREM WalkIsSafe == Spec => []WalkTouchesOnlySuspended
<1>1. ListInv => WalkTouchesOnlySuspended
  BY DistinctAssumption
     DEF ListInv, TypeOK, WalkTouchesOnlySuspended, SuspendedSomewhere, WalkHead, Walking
<1>2. QED
  BY <1>1, ListsWellFormed, PTL

(* The steps of pause_token are steps of the Gate or leave it alone: a
   successful push is Wait, the exchange of unpause() is Unpause, a successful
   exchange of pause() is Pause, and running a queued handle is Wake. *)
LEMMA StepImplementsGate ==
  ASSUME ListInv, [Next]_vars
  PROVE  [TheGate!Next]_(TheGate!vars)
<1> USE DistinctAssumption DEF ListInv, TypeOK, Words, Links, TheGate!vars, TheGate!Next
<1>1. ASSUME NEW p \in Pausers, CoAwait(p) \/ PauseLoad(p) \/ PauseRetry(p)
      PROVE  UNCHANGED TheGate!vars
  BY <1>1 DEF CoAwait, PauseLoad, PauseRetry, Observe, callerVars, historyVars
<1>2. ASSUME NEW p \in Pausers, PausePush(p) PROVE TheGate!Wait(p)
  BY <1>2 DEF PausePush, callerVars, TheGate!Wait, SuspendedSomewhere
<1>3. ASSUME NEW p \in Pausers, Resume(p) PROVE TheGate!Wake(p)
  BY <1>3 DEF Resume, callerVars, historyVars, TheGate!Wake, SuspendedSomewhere
<1>4. ASSUME NEW c \in Callers, CallPause(c) \/ UnpauseRead(c) PROVE UNCHANGED TheGate!vars
  BY <1>4 DEF CallPause, UnpauseRead, coroutineVars, historyVars
<1>5. ASSUME NEW c \in Callers, PauseCas(c) PROVE TheGate!Pause \/ UNCHANGED TheGate!vars
  BY <1>5 DEF PauseCas, coroutineVars, historyVars, TheGate!Pause
<1>6. ASSUME NEW c \in Callers, UnpauseExchange(c) PROVE TheGate!Unpause
  BY <1>6 DEF UnpauseExchange, coroutineVars, TheGate!Unpause
<1>7. ASSUME NEW c \in Callers, UnpausePost(c) PROVE UNCHANGED TheGate!vars
  BY <1>7 DEF UnpausePost, coroutineVars, WalkHead, Walking
<1>8. ASSUME UNCHANGED vars PROVE UNCHANGED TheGate!vars
  BY <1>8 DEF vars, historyVars
<1>9. QED
  BY <1>1, <1>2, <1>3, <1>4, <1>5, <1>6, <1>7, <1>8 DEF Next, CoroutineStep, CallerStep

(* pause_token implements the Gate: unpause() takes effect at its exchange,
   resumes exactly the coroutines suspended at that instant, and resumes each
   of them once. *)
THEOREM TokenImplementsGate == Spec => ImplementsGate
<1>1. Init => TheGate!Init
  BY DistinctAssumption DEF Init, TheGate!Init
<1>2. ListInv /\ [Next]_vars => [TheGate!Next]_(TheGate!vars)
  BY StepImplementsGate
<1>3. QED
  BY <1>1, <1>2, ListsWellFormed, PTL DEF Spec, ImplementsGate, TheGate!Spec

-----------------------------------------------------------------------------
(***************************************************************************)
(* async_latch.  Its token's steps keep ListInv by the lemmas above; each  *)
(* step of the latch keeps LatchInv.                                       *)
(***************************************************************************)

(* count_down() opens the latch's window once: the subtraction that takes
   the count to zero or below finds it above zero. *)
LEMMA CountDownKeeps ==
  ASSUME ListInv, LatchInv, NEW c \in Callers, CountDown(c)
  PROVE  LatchInv'
<1>1. Amount[c] \in Nat \ {0}
  BY LatchAssumption
<1> USE <1>1 DEF LatchInv, CountDown, paused, vars, coroutineVars, callerVars
<1>2. CASE count > 0 /\ count <= Amount[c]
  BY <1>2
<1>3. CASE ~(count > 0 /\ count <= Amount[c])
  <2>1. arrival' = [arrival EXCEPT ![c] = "after"]
    BY <1>3
  <2>2. count' \in Int /\ count' <= count /\ (count' <= 0 <=> count <= 0)
    BY <1>3
  <2>3. \A d \in Callers : arrival'[d] = "trigger" <=> arrival[d] = "trigger"
    BY <2>1
  <2>4. QED
    BY <2>1, <2>2, <2>3
<1>4. QED
  BY <1>2, <1>3

(* The trigger's exchange opens the token. *)
LEMMA LatchUnpauseKeeps ==
  ASSUME ListInv, LatchInv, NEW c \in Callers, LatchUnpause(c)
  PROVE  LatchInv'
BY LatchAssumption, DistinctAssumption
   DEF ListInv, TypeOK, LatchInv, LatchUnpause, UnpauseExchange, paused, coroutineVars

(* The walk of unpause() posts handles while the token is open. *)
LEMMA LatchWalkKeeps ==
  ASSUME ListInv, LatchInv, NEW c \in Callers, LatchWalk(c)
  PROVE  LatchInv'
BY LatchAssumption, DistinctAssumption
   DEF ListInv, TypeOK, LatchInv, LatchWalk, UnpauseRead, UnpausePost, paused, coroutineVars,
       latchVars, historyVars

(* A coroutine that comes to wait passes or suspends by the same word. *)
LEMMA WaitKeeps ==
  ASSUME ListInv, LatchInv, NEW p \in Pausers, Wait(p)
  PROVE  LatchInv'
BY LatchAssumption, DistinctAssumption
   DEF ListInv, TypeOK, LatchInv, Wait, CoAwait, paused, vars, coroutineVars, callerVars,
       historyVars

(* A waiter leaves co_await on the flag or when its handle was queued: both
   mean that the latch is open. *)
LEMMA WaitStepKeeps ==
  ASSUME ListInv, LatchInv, NEW p \in Pausers, WaitStep(p)
  PROVE  LatchInv'
<1> USE LatchAssumption, DistinctAssumption
    DEF ListInv, TypeOK, LatchInv, WaitStep, paused, callerVars, historyVars
<1>1. CASE PauseLoad(p)
  BY <1>1 DEF PauseLoad, Observe
<1>2. CASE PausePush(p)
  <2>1. paused /\ paused'
    BY <1>2 DEF PausePush, Links
  <2>2. pc' = [pc EXCEPT ![p] = "suspended"]
    BY <1>2 DEF PausePush
  <2>3. visit' = visit
    BY <2>2
  <2>4. QED
    BY <1>2, <2>1, <2>2, <2>3 DEF PausePush
<1>3. CASE PauseRetry(p)
  BY <1>3 DEF PauseRetry, Observe
<1>4. CASE Resume(p)
  BY <1>4 DEF Resume, SuspendedSomewhere
<1>5. QED
  BY <1>1, <1>2, <1>3, <1>4

(* Every step of a latch keeps both invariants. *)
LEMMA LatchNextInv == ListInv /\ LatchInv /\ [LatchNext]_allVars => (ListInv /\ LatchInv)'
<1> SUFFICES ASSUME ListInv, LatchInv, [LatchNext]_allVars PROVE ListInv' /\ LatchInv'
  OBVIOUS
<1>1. ListInv /\ UNCHANGED vars => ListInv'
  BY NextListInv
<1>2. CASE Destroy
  <2>1. LatchInv'
    BY <1>2, LatchAssumption
       DEF Destroy, LatchInv, paused, vars, coroutineVars, callerVars
  <2>2. QED
    BY <1>1, <1>2, <2>1 DEF Destroy
<1>3. ASSUME NEW c \in Callers, CountDown(c) PROVE ListInv' /\ LatchInv'
  BY <1>1, <1>3, CountDownKeeps DEF CountDown
<1>4. ASSUME NEW c \in Callers, LatchUnpause(c) PROVE ListInv' /\ LatchInv'
  BY <1>4, LatchUnpauseKeeps, UnpauseExchangeKeeps DEF LatchUnpause
<1>5. ASSUME NEW c \in Callers, LatchWalk(c) PROVE ListInv' /\ LatchInv'
  BY <1>5, LatchWalkKeeps, UnpauseReadKeeps, UnpausePostKeeps DEF LatchWalk
<1>6. ASSUME NEW p \in Pausers, Wait(p) PROVE ListInv' /\ LatchInv'
  BY <1>1, <1>6, WaitKeeps, CoAwaitKeeps DEF Wait
<1>7. ASSUME NEW p \in Pausers, WaitStep(p) PROVE ListInv' /\ LatchInv'
  BY <1>7, WaitStepKeeps, PauseLoadKeeps, PausePushKeeps, PauseRetryKeeps, ResumeKeeps
     DEF WaitStep
<1>8. CASE UNCHANGED allVars
  BY <1>1, <1>8 DEF allVars, latchVars, LatchInv, paused, vars, coroutineVars, callerVars
<1>9. QED
  BY <1>2, <1>3, <1>4, <1>5, <1>6, <1>7, <1>8 DEF LatchNext

(* Exactly one count_down() is the trigger while the count is used up and
   the token still shut. *)
LEMMA LatchInvOneTrigger == LatchInv => OneTrigger
<1> SUFFICES ASSUME LatchInv PROVE OneTrigger
  OBVIOUS
<1> DEFINE triggers == {c \in Callers : arrival[c] = "trigger"}
<1>1. CASE count > 0
  BY <1>1 DEF LatchInv, OneTrigger
<1>2. CASE count <= 0 /\ ~paused
  BY <1>2 DEF LatchInv, OneTrigger
<1>3. CASE count <= 0 /\ paused
  <2>1. PICK c \in Callers : arrival[c] = "trigger"
    BY <1>3 DEF LatchInv
  <2>2. triggers = {c}
    BY <2>1 DEF LatchInv
  <2>3. Cardinality(triggers) = 1
    BY <2>2, FS_Singleton
  <2>4. QED
    BY <1>3, <2>3 DEF LatchInv, OneTrigger
<1>4. QED
  BY <1>1, <1>2, <1>3 DEF LatchInv

(* A walk in progress owns a suspended pauser, whose coroutine has not
   passed: once every waiter has passed, count_down() has finished. *)
LEMMA LatchInvNoAccess == ListInv /\ LatchInv => NoAccessAfterDestroy
<1> SUFFICES ASSUME ListInv, LatchInv, destroyed, NEW c \in Callers
             PROVE  arrival[c] = "after" /\ call[c] = "idle"
  BY DEF NoAccessAfterDestroy
<1>1. arrival[c] = "after"
  BY DEF LatchInv
<1>2. ~Walking(c)
  BY DistinctAssumption
     DEF ListInv, TypeOK, LatchInv, WalkHead, SuspendedSomewhere, Walking
<1>3. QED
  BY <1>1, <1>2 DEF Walking, ListInv, TypeOK, LatchInv

(* async_latch opens exactly once, when its count is used up, whatever the
   amounts and the interleaving of count_down() calls; who has passed it saw
   it open; and a waiter that owns the latch may destroy it as soon as all
   waiters have passed, because the opening count_down() has then made its
   last access. *)
THEOREM LatchIsSafe == LatchSafety => []LatchSafe
<1>1. LatchInit => ListInv /\ LatchInv
  BY InitListInv, LatchAssumption, DistinctAssumption DEF LatchInit, LatchInv, Init, paused
<1>2. ListInv /\ LatchInv => LatchSafe
  BY LatchInvOneTrigger, LatchInvNoAccess DEF LatchSafe, PassedMeansZero, LatchInv
<1>3. QED
  BY <1>1, <1>2, LatchNextInv, PTL DEF LatchSafety
=============================================================================
