----------------------------- MODULE PauseToken -----------------------------
(***************************************************************************)
(* zab::pause_token (includes/zab/pause_token.hpp).  One atomic word,      *)
(* resuming_, holds the flag kUnpausedFlag, null, or the head of an        *)
(* intrusive list of the pauser objects of suspended coroutines.  A        *)
(* coroutine pushes its own pauser; unpause() takes the whole list and     *)
(* walks it while the coroutines it resumes run, destroy their pausers and *)
(* possibly await the token again from the same address.  One action is    *)
(* one atomic access to resuming_, or one access to a shared pauser.       *)
(*                                                                         *)
(* owner and depth are history variables: which list a suspended pauser is *)
(* in, and how many pausers its list held when it was pushed, itself       *)
(* included.  No action's guard reads them.  A local variable is reset     *)
(* when its function returns.                                              *)
(***************************************************************************)
EXTENDS Integers, FiniteSets

CONSTANTS Pausers,    \* coroutines; each uses one address for its pausers
          Callers,    \* threads that call pause() and unpause()
          Null,       \* the null pointer
          Unpaused,   \* kUnpausedFlag
          Nobody      \* history only: in no list

Token == "token"      \* history only: in the list that resuming_ heads

ASSUME DistinctAssumption ==
    /\ Null # Unpaused
    /\ Null \notin Pausers
    /\ Unpaused \notin Pausers
    /\ Nobody # Token
    /\ Nobody \notin Callers
    /\ Token \notin Callers

VARIABLES resuming,      \* resuming_
          next_waiting,  \* pauser::next_waiting_ of the pauser at an address
          pc,            \* where a coroutine stands in co_await token
          previous,      \* local previous of pause(pauser*)
          call,          \* where a caller stands in pause() or unpause()
          old_pause,     \* local old_pause of unpause()
          tmp,           \* local tmp of unpause()
          posted,        \* handles given to engine::thread_resume, not yet run
          owner, depth

coroutineVars == <<pc, previous>>
callerVars == <<call, old_pause, tmp>>
historyVars == <<owner, depth>>
vars == <<resuming, next_waiting, coroutineVars, callerVars, posted, historyVars>>

Init ==
    /\ resuming = Null
    /\ next_waiting = [p \in Pausers |-> Null]
    /\ pc = [p \in Pausers |-> "running"]
    /\ previous = [p \in Pausers |-> Null]
    /\ call = [c \in Callers |-> "idle"]
    /\ old_pause = [c \in Callers |-> Null]
    /\ tmp = [c \in Callers |-> Null]
    /\ posted = {}
    /\ owner = [p \in Pausers |-> Nobody]
    /\ depth = [p \in Pausers |-> 0]

paused == resuming # Unpaused

(***************************************************************************)
(* co_await token.                                                         *)
(***************************************************************************)

(* operator co_await makes a pauser, and await_ready() lets the coroutine
   run on unless the token is paused. *)
CoAwait(p) ==
    /\ pc[p] = "running"
    /\ paused
    /\ pc' = [pc EXCEPT ![p] = "load"]
    /\ next_waiting' = [next_waiting EXCEPT ![p] = Null]
    /\ UNCHANGED <<resuming, previous, callerVars, posted, historyVars>>

(* The value of resuming_ that a load or a failed exchange left in previous:
   the flag sends the coroutine on its way, anything else is tried next. *)
Observe(p) ==
    IF resuming = Unpaused
    THEN /\ pc' = [pc EXCEPT ![p] = "running"]
         /\ previous' = [previous EXCEPT ![p] = Null]
    ELSE /\ pc' = [pc EXCEPT ![p] = "cas"]
         /\ previous' = [previous EXCEPT ![p] = resuming]

PauseLoad(p) ==
    /\ pc[p] = "load"
    /\ Observe(p)
    /\ UNCHANGED <<resuming, next_waiting, callerVars, posted, historyVars>>

(* The compare-exchange succeeds on an equal word, whatever happened to the
   list in between. *)
PausePush(p) ==
    /\ pc[p] = "cas"
    /\ resuming = previous[p]
    /\ next_waiting' = [next_waiting EXCEPT ![p] = previous[p]]
    /\ resuming' = p
    /\ pc' = [pc EXCEPT ![p] = "suspended"]
    /\ owner' = [owner EXCEPT ![p] = Token]
    /\ depth' = [depth EXCEPT ![p] = IF previous[p] = Null THEN 1
                                     ELSE depth[previous[p]] + 1]
    /\ previous' = [previous EXCEPT ![p] = Null]
    /\ UNCHANGED <<callerVars, posted>>

PauseRetry(p) ==
    /\ pc[p] = "cas"
    /\ resuming # previous[p]
    /\ next_waiting' = [next_waiting EXCEPT ![p] = previous[p]]
    /\ Observe(p)
    /\ UNCHANGED <<resuming, callerVars, posted, historyVars>>

(* The event loop runs a handle that thread_resume() queued: the coroutine
   leaves its co_await and its pauser is destroyed. *)
Resume(p) ==
    /\ p \in posted
    /\ posted' = posted \ {p}
    /\ pc' = [pc EXCEPT ![p] = "running"]
    /\ next_waiting' = [next_waiting EXCEPT ![p] = Null]
    /\ depth' = [depth EXCEPT ![p] = 0]
    /\ UNCHANGED <<resuming, previous, callerVars, owner>>

(***************************************************************************)
(* pause()                                                                 *)
(***************************************************************************)

(* Returns at once unless the word it loads is the flag. *)
CallPause(c) ==
    /\ call[c] = "idle"
    /\ resuming = Unpaused
    /\ call' = [call EXCEPT ![c] = "pausing"]
    /\ UNCHANGED <<resuming, next_waiting, coroutineVars, old_pause, tmp, posted, historyVars>>

(* Exchanges the flag for null; a word that is no longer the flag ends the
   loop. *)
PauseCas(c) ==
    /\ call[c] = "pausing"
    /\ resuming' = IF resuming = Unpaused THEN Null ELSE resuming
    /\ call' = [call EXCEPT ![c] = "idle"]
    /\ UNCHANGED <<next_waiting, coroutineVars, old_pause, tmp, posted, historyVars>>

(***************************************************************************)
(* unpause()                                                               *)
(***************************************************************************)

(* Mutant: the list is taken and the flag is not set. *)
UnpauseExchangeNull(c) ==
    /\ call[c] = "idle"
    /\ resuming' = Null
    /\ IF resuming \in {Unpaused, Null}
       THEN UNCHANGED <<call, old_pause>>
       ELSE /\ call' = [call EXCEPT ![c] = "read"]
            /\ old_pause' = [old_pause EXCEPT ![c] = resuming]
    /\ owner' = [p \in Pausers |-> IF owner[p] = Token THEN c ELSE owner[p]]
    /\ UNCHANGED <<next_waiting, coroutineVars, tmp, posted, depth>>

UnpauseExchange(c) ==
    /\ call[c] = "idle"
    /\ resuming' = Unpaused
    /\ IF resuming \in {Unpaused, Null}
       THEN UNCHANGED <<call, old_pause>>
       ELSE /\ call' = [call EXCEPT ![c] = "read"]
            /\ old_pause' = [old_pause EXCEPT ![c] = resuming]
    /\ owner' = [p \in Pausers |-> IF owner[p] = Token THEN c ELSE owner[p]]
    /\ UNCHANGED <<next_waiting, coroutineVars, tmp, posted, depth>>

(* Mutant: the handle is queued before the link is read. *)
UnpauseReadLate(c) ==
    /\ call[c] = "read"
    /\ tmp' = [tmp EXCEPT ![c] = next_waiting[old_pause[c]]]
    /\ posted' = posted \cup {old_pause[c]}
    /\ call' = [call EXCEPT ![c] = "post"]
    /\ UNCHANGED <<resuming, next_waiting, coroutineVars, old_pause, historyVars>>

UnpauseRead(c) ==
    /\ call[c] = "read"
    /\ tmp' = [tmp EXCEPT ![c] = next_waiting[old_pause[c]]]
    /\ call' = [call EXCEPT ![c] = "post"]
    /\ UNCHANGED <<resuming, next_waiting, coroutineVars, old_pause, posted, historyVars>>

(* Mutant: the walk ends after one pauser. *)
UnpausePostOne(c) ==
    /\ call[c] = "post"
    /\ posted' = posted \cup {old_pause[c]}
    /\ old_pause' = [old_pause EXCEPT ![c] = Null]
    /\ call' = [call EXCEPT ![c] = "idle"]
    /\ tmp' = [tmp EXCEPT ![c] = Null]
    /\ owner' = [owner EXCEPT ![old_pause[c]] = Nobody]
    /\ UNCHANGED <<resuming, next_waiting, coroutineVars, depth>>

UnpausePost(c) ==
    /\ call[c] = "post"
    /\ posted' = posted \cup {old_pause[c]}
    /\ old_pause' = [old_pause EXCEPT ![c] = tmp[c]]
    /\ call' = [call EXCEPT ![c] = IF tmp[c] = Null THEN "idle" ELSE "read"]
    /\ tmp' = [tmp EXCEPT ![c] = Null]
    /\ owner' = [owner EXCEPT ![old_pause[c]] = Nobody]
    /\ UNCHANGED <<resuming, next_waiting, coroutineVars, depth>>

-----------------------------------------------------------------------------

CoroutineStep(p) ==
    CoAwait(p) \/ PauseLoad(p) \/ PausePush(p) \/ PauseRetry(p) \/ Resume(p)

CallerStep(c) ==
    CallPause(c) \/ PauseCas(c) \/ UnpauseExchange(c) \/ UnpauseRead(c) \/ UnpausePost(c)

Next == \/ \E p \in Pausers : CoroutineStep(p)
        \/ \E c \in Callers : CallerStep(c)

Spec == Init /\ [][Next]_vars

(* A thread inside unpause() keeps executing, and the event loop runs what
   is queued.  Nothing obliges anybody to call pause() or unpause(). *)
Fairness == /\ \A c \in Callers : WF_vars(UnpauseRead(c) \/ UnpausePost(c))
            /\ \A p \in Pausers : WF_vars(Resume(p))

FairSpec == Spec /\ Fairness

-----------------------------------------------------------------------------

Words == Pausers \cup {Null, Unpaused}
Links == Pausers \cup {Null}

TypeOK ==
    /\ resuming \in Words
    /\ next_waiting \in [Pausers -> Links]
    /\ pc \in [Pausers -> {"running", "load", "cas", "suspended"}]
    /\ previous \in [Pausers -> Links]
    /\ call \in [Callers -> {"idle", "pausing", "read", "post"}]
    /\ old_pause \in [Callers -> Links]
    /\ tmp \in [Callers -> Links]
    /\ posted \subseteq Pausers
    /\ owner \in [Pausers -> Callers \cup {Token, Nobody}]
    /\ depth \in [Pausers -> Nat]

(* unpause() dereferences a pauser only while its coroutine is suspended and
   not yet handed to the event loop: the comment "the memory may get deleted
   before we dereference" never comes true, even though coroutines it has
   resumed re-use their addresses for a later co_await. *)
WalkTouchesOnlySuspended ==
    \A c \in Callers : call[c] \in {"read", "post"} =>
        /\ old_pause[c] \in Pausers
        /\ pc[old_pause[c]] = "suspended"
        /\ old_pause[c] \notin posted

(* Once an unpause() has taken the list a coroutine is in, the coroutine
   runs again, whatever other threads call meanwhile: a pause() that follows
   does not hold it back. *)
TakenIsResumed ==
    \A p \in Pausers : owner[p] \in Callers ~> pc[p] = "running"

(* The token implements the gate: pauses and unpauses take effect at one
   instant, an unpause() resumes everybody who was waiting then, each once,
   and nobody else. *)
TheGate == INSTANCE Gate WITH
    paused  <- resuming # Unpaused,
    waiting <- {p \in Pausers : owner[p] = Token},
    waking  <- {p \in Pausers : owner[p] \in Callers} \cup posted

ImplementsGate == TheGate!Spec
-----------------------------------------------------------------------------
(***************************************************************************)
(* The inductive invariant behind the theorems of PauseTokenProofs.        *)
(***************************************************************************)

Walking(c) == call[c] \in {"read", "post"}

(* A coroutine is suspended while a list owns its pauser or its handle is
   queued, never both. *)
SuspendedSomewhere ==
    \A p \in Pausers :
        /\ pc[p] = "suspended" <=> (owner[p] # Nobody \/ p \in posted)
        /\ p \in posted => owner[p] = Nobody

(* A link leads to the next pauser of the same list, one shallower; only the
   pauser of depth 1 has no link; no list has two pausers of one depth. *)
ListShape ==
    \A p \in Pausers : owner[p] # Nobody =>
        /\ depth[p] > 0
        /\ depth[p] = 1 <=> next_waiting[p] = Null
        /\ next_waiting[p] # Null =>
             /\ owner[next_waiting[p]] = owner[p]
             /\ depth[p] = depth[next_waiting[p]] + 1
        /\ \A q \in Pausers : owner[q] = owner[p] /\ depth[q] = depth[p] => q = p

(* The word heads the token's list: it owns its deepest pauser. *)
TokenHead ==
    /\ resuming \in Pausers => owner[resuming] = Token
    /\ \A p \in Pausers : owner[p] = Token =>
          resuming \in Pausers /\ depth[p] <= depth[resuming]

(* old_pause heads what is left of the list an unpause() took. *)
WalkHead ==
    \A c \in Callers :
        /\ Walking(c) => old_pause[c] \in Pausers /\ owner[old_pause[c]] = c
        /\ call[c] = "post" => tmp[c] = next_waiting[old_pause[c]]
        /\ \A p \in Pausers : owner[p] = c => Walking(c) /\ depth[p] <= depth[old_pause[c]]

ListInv == TypeOK /\ SuspendedSomewhere /\ ListShape /\ TokenHead /\ WalkHead
=============================================================================
