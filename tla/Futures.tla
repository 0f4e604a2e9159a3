------------------------------ MODULE Futures -------------------------------
(***************************************************************************)
(* Who owns a coroutine frame: async_function, simple_future and           *)
(* reusable_future with their promises, for_each, and the deferred blocks  *)
(* of defer_block_promise and visitor_promise.                             *)
(*                                                                         *)
(* The frames are a chain.  Frame 1 is an async_function, which belongs to *)
(* nobody and frees itself; frame k + 1 is a coroutine called by frame k,  *)
(* which holds its future.  A future frees its coroutine when it is        *)
(* destroyed after the coroutine is complete; the promise of a coroutine   *)
(* that is destroyed while it runs destroys the coroutine that awaits it,  *)
(* so that a chain suspended in an event loop is unwound from the leaf.    *)
(* One thread of control runs along the chain.                             *)
(***************************************************************************)
EXTENDS Integers, Sequences, SequencesExt

CONSTANTS Depth,      \* the length of the chain
          MaxItems,   \* bound: how many items a generator yields
          MaxDefers   \* bound: how many blocks a coroutine defers

ASSUME FuturesAssumption == Depth \in Nat \ {0} /\ MaxItems \in Nat /\ MaxDefers \in Nat

Chain == 1..Depth
NoFrame == 0    \* the null handle, and the noop coroutine

VARIABLES kind,        \* which promise a coroutine has
          frame,       \* where its frame stands
          held,        \* does a future in the calling frame hold it?
          underlying,  \* underlying_: the coroutine that awaits it
          state,       \* state_, or complete_: "empty", "item" or "complete"
          data,        \* data_: the number of the item, 0 for none
          running,     \* the coroutine that executes
          parked,      \* the coroutine that waits in an event loop
          unwinding,   \* the frames being destroyed, the innermost first
          produced,    \* how many items a coroutine has produced
          received,    \* history: the items its awaiter has received
          defers,      \* defer_: the blocks in the order in which they will run
          ran,         \* history: the blocks that have run
          registered   \* history: how many were deferred and not purged

control == <<running, parked, unwinding>>
promiseVars == <<underlying, state, data, produced, received>>
deferVars == <<defers, ran, registered>>
futuresVars == <<kind, frame, held, promiseVars, control, deferVars>>

FuturesInit ==
    /\ kind \in {f \in [Chain -> {"simple", "reusable", "reusable_void"}] : f[1] = "simple"}
    /\ frame = [k \in Chain |-> IF k = 1 THEN "live" ELSE "none"]
    /\ held = [k \in Chain |-> FALSE]
    /\ underlying = [k \in Chain |-> NoFrame]
    /\ state = [k \in Chain |-> "empty"]
    /\ data = [k \in Chain |-> 0]
    /\ running = 1
    /\ parked = NoFrame
    /\ unwinding = <<>>
    /\ produced = [k \in Chain |-> 0]
    /\ received = [k \in Chain |-> <<>>]
    /\ defers = [k \in Chain |-> <<>>]
    /\ ran = [k \in Chain |-> <<>>]
    /\ registered = [k \in Chain |-> 0]

Executes(k) == running = k /\ unwinding = <<>>
Holds(k) == k < Depth /\ held[k + 1]

-----------------------------------------------------------------------------
(* Calling and awaiting *)

(* A coroutine is called: initial_suspend() suspends it, and the future that
   holds it is returned. *)
CallCoroutine(k) ==
    /\ Executes(k)
    /\ k < Depth
    /\ frame[k + 1] \in {"none", "freed"}
    /\ frame' = [frame EXCEPT ![k + 1] = "live"]
    /\ held' = [held EXCEPT ![k + 1] = TRUE]
    /\ state' = [state EXCEPT ![k + 1] = "empty"]
    /\ data' = [data EXCEPT ![k + 1] = 0]
    /\ produced' = [produced EXCEPT ![k + 1] = 0]
    /\ received' = [received EXCEPT ![k + 1] = <<>>]
    /\ defers' = [defers EXCEPT ![k + 1] = <<>>]
    /\ ran' = [ran EXCEPT ![k + 1] = <<>>]
    /\ registered' = [registered EXCEPT ![k + 1] = 0]
    /\ UNCHANGED <<kind, underlying, control>>

(* Mutant: the item is not cleared, so that it is taken for ready again. *)
PrepareNothing(s) == s

(* prepare() *)
Prepare(s) == IF s = "item" THEN "empty" ELSE s

(* operator co_await of a generator that prepare() leaves ready: complete. *)
AwaitReady(k) ==
    /\ Executes(k)
    /\ Holds(k)
    /\ kind[k + 1] # "simple"
    /\ Prepare(state[k + 1]) # "empty"
    /\ Len(received[k + 1]) <= MaxItems + 1
    /\ data' = [data EXCEPT ![k + 1] = 0]
    /\ received' = [received EXCEPT ![k + 1] = Append(@, 0)]
    /\ UNCHANGED <<kind, frame, held, underlying, state, produced, control, deferVars>>

(* operator co_await: the awaiter is recorded and the coroutine runs.  To
   await a complete simple_future is outside its protocol. *)
AwaitFuture(k) ==
    /\ Executes(k)
    /\ Holds(k)
    /\ Prepare(state[k + 1]) = "empty"
    /\ state' = [state EXCEPT ![k + 1] = "empty"]
    /\ data' = [data EXCEPT ![k + 1] = 0]
    /\ underlying' = [underlying EXCEPT ![k + 1] = k]
    /\ running' = k + 1
    /\ UNCHANGED <<kind, frame, held, produced, received, parked, unwinding, deferVars>>

-----------------------------------------------------------------------------
(* Delivering *)

(* The promise of k has an item; the awaiter is taken out of the promise,
   resumed, and moves the item out. *)
Deliver(k, s) ==
    /\ produced' = [produced EXCEPT ![k] = @ + 1]
    /\ state' = [state EXCEPT ![k] = s]
    /\ underlying' = [underlying EXCEPT ![k] = NoFrame]
    /\ running' = underlying[k]
    /\ received' = [received EXCEPT ![k] = Append(@, produced[k] + 1)]
    /\ data' = [data EXCEPT ![k] = produced[k] + 1]

(* yield_value(), and the suspension it shares with final_suspend(). *)
CoYield(k) ==
    /\ Executes(k)
    /\ kind[k] # "simple"
    /\ produced[k] < MaxItems
    /\ Deliver(k, "item")
    /\ UNCHANGED <<kind, frame, held, parked, unwinding, deferVars>>

(* ~simple_future(), ~reusable_future(): the coroutine is destroyed if it is
   complete, and left alone if it is not. *)
Dropped(c) == IF state[c] = "complete" THEN [frame EXCEPT ![c] = "freed"] ELSE frame

DropFuture(k) ==
    /\ Executes(k)
    /\ Holds(k)
    /\ frame' = Dropped(k + 1)
    /\ held' = [held EXCEPT ![k + 1] = FALSE]
    /\ UNCHANGED <<kind, promiseVars, control, deferVars>>

(* A visitor_promise shows the result to its deferred blocks. *)
Visited(k) == [ran EXCEPT ![k] = @ \o defers[k]]

(* co_return of a coroutine with a future: its locals are gone, the result
   is in the promise, and final_suspend() hands over to the awaiter. *)
CoReturn(k) ==
    /\ Executes(k)
    /\ k > 1
    /\ ~Holds(k)
    /\ Deliver(k, "complete")
    /\ frame' = [frame EXCEPT ![k] = "final"]
    /\ ran' = Visited(k)
    /\ UNCHANGED <<kind, held, defers, registered, parked, unwinding>>

(* defer_ = nullptr *)
AfterFinal(blocks) == <<>>

(* The end of an async_function: final_suspend() runs the deferred blocks
   and does not suspend, the promise is destroyed and the frame is freed. *)
FinishFunction ==
    /\ Executes(1)
    /\ ~Holds(1)
    /\ ran' = [ran EXCEPT ![1] = @ \o defers[1] \o AfterFinal(defers[1])]
    /\ defers' = [defers EXCEPT ![1] = <<>>]
    /\ frame' = [frame EXCEPT ![1] = "freed"]
    /\ running' = NoFrame
    /\ UNCHANGED <<kind, held, promiseVars, parked, unwinding, registered>>

(* Mutant: the block takes the place of the ones before it. *)
DeferBlockAlone(k) ==
    /\ Executes(k)
    /\ kind[k] = "simple"
    /\ Len(defers[k]) < MaxDefers
    /\ defers' = [defers EXCEPT ![k] = <<Len(@) + 1>>]
    /\ registered' = [registered EXCEPT ![k] = @ + 1]
    /\ UNCHANGED <<kind, frame, held, promiseVars, control, ran>>

(* yield_value(defer_block): the newest block runs first, and calls the ones
   before it. *)
DeferBlock(k) ==
    /\ Executes(k)
    /\ kind[k] = "simple"
    /\ Len(defers[k]) < MaxDefers
    /\ defers' = [defers EXCEPT ![k] = <<Len(@) + 1>> \o @]
    /\ registered' = [registered EXCEPT ![k] = @ + 1]
    /\ UNCHANGED <<kind, frame, held, promiseVars, control, ran>>

(* yield_value(purge_block) *)
PurgeBlocks(k) ==
    /\ Executes(k)
    /\ defers[k] # <<>>
    /\ defers' = [defers EXCEPT ![k] = <<>>]
    /\ registered' = [registered EXCEPT ![k] = 0]
    /\ UNCHANGED <<kind, frame, held, promiseVars, control, ran>>

-----------------------------------------------------------------------------
(* Destroying *)

(* operator=(future&&) destroys what the future held, whatever its state;
   force_completion() does so with a generator. *)
ReplaceFuture(k) ==
    /\ Executes(k)
    /\ Holds(k)
    /\ held' = [held EXCEPT ![k + 1] = FALSE]
    /\ unwinding' = <<k + 1>>
    /\ UNCHANGED <<kind, frame, promiseVars, running, parked, deferVars>>

ForceCompletion(k) ==
    /\ Executes(k)
    /\ Holds(k)
    /\ kind[k + 1] # "simple"
    /\ state' = [state EXCEPT ![k + 1] = "complete"]
    /\ held' = [held EXCEPT ![k + 1] = FALSE]
    /\ unwinding' = <<k + 1>>
    /\ UNCHANGED <<kind, frame, underlying, data, produced, received, running, parked, deferVars>>

(* A coroutine suspends in an event loop, and is resumed by it, ... *)
Park(k) ==
    /\ Executes(k)
    /\ running' = NoFrame
    /\ parked' = k
    /\ UNCHANGED <<kind, frame, held, promiseVars, unwinding, deferVars>>

Unpark ==
    /\ parked # NoFrame
    /\ running' = parked
    /\ parked' = NoFrame
    /\ UNCHANGED <<kind, frame, held, promiseVars, unwinding, deferVars>>

(* ... or is destroyed by whoever owns the handle when the engine ends. *)
DestroyParked ==
    /\ parked # NoFrame
    /\ unwinding' = <<parked>>
    /\ parked' = NoFrame
    /\ UNCHANGED <<kind, frame, held, promiseVars, running, deferVars>>

(* Mutant: an incomplete coroutine is destroyed by its future as well. *)
FutureDestroysAny(c) == TRUE

(* ~simple_future(), ~reusable_future() *)
FutureDestroys(c) == state[c] = "complete"

(* The locals of a frame that is destroyed: its future. *)
UnwindLocals(k) ==
    /\ frame[k] \in {"live", "final"}
    /\ frame' = [frame EXCEPT ![k] = "locals gone"]
    /\ held' = IF k < Depth THEN [held EXCEPT ![k + 1] = FALSE] ELSE held
    /\ unwinding' = IF Holds(k) /\ FutureDestroys(k + 1) THEN <<k + 1>> \o unwinding ELSE unwinding
    /\ UNCHANGED <<kind, promiseVars, running, parked, deferVars>>

(* ~simple_common() and ~reusable_promise() destroy the coroutine that
   awaits; reusable_promise<void> has no destructor. *)
PromiseDestroys(k) == underlying[k] # NoFrame /\ kind[k] # "reusable_void"

(* The promise of an async_function runs its deferred blocks. *)
Deferred(k) == IF k = 1 THEN [ran EXCEPT ![1] = @ \o defers[1]] ELSE ran

(* The promise: the awaiting coroutine, and the deferred blocks. *)
UnwindPromise(k) ==
    /\ frame[k] = "locals gone"
    /\ frame' = [frame EXCEPT ![k] = "promise gone"]
    /\ unwinding' = IF PromiseDestroys(k) THEN <<underlying[k]>> \o unwinding ELSE unwinding
    /\ ran' = Deferred(k)
    /\ UNCHANGED <<kind, held, promiseVars, running, parked, defers, registered>>

UnwindFree(k) ==
    /\ frame[k] = "promise gone"
    /\ frame' = [frame EXCEPT ![k] = "freed"]
    /\ underlying' = [underlying EXCEPT ![k] = NoFrame]
    /\ defers' = [defers EXCEPT ![k] = <<>>]
    /\ unwinding' = Tail(unwinding)
    /\ UNCHANGED <<kind, held, state, data, produced, received, running, parked, ran, registered>>

Unwind ==
    /\ unwinding # <<>>
    /\ LET k == Head(unwinding) IN UnwindLocals(k) \/ UnwindPromise(k) \/ UnwindFree(k)

FuturesNext ==
    \/ \E k \in Chain :
        \/ CallCoroutine(k) \/ AwaitReady(k) \/ AwaitFuture(k) \/ CoYield(k) \/ CoReturn(k)
        \/ DropFuture(k) \/ ReplaceFuture(k) \/ ForceCompletion(k)
        \/ DeferBlock(k) \/ PurgeBlocks(k) \/ Park(k)
    \/ FinishFunction \/ Unpark \/ DestroyParked \/ Unwind

FuturesSpec == FuturesInit /\ [][FuturesNext]_futuresVars

-----------------------------------------------------------------------------

(* Whoever executes or is being destroyed refers to frames that exist: the
   coroutine it holds, the one that awaits it, and itself, also while a
   chain is unwound leaf first and the futures in it are destroyed before
   the coroutines they stand for. *)
NoDangling ==
    LET exists(k) == frame[k] \notin {"none", "freed"}
        refers(k) == /\ exists(k)
                     /\ Holds(k) => exists(k + 1)
                     /\ underlying[k] # NoFrame /\ frame[k] # "promise gone" =>
                            exists(underlying[k])
    IN  /\ \A i \in 1..Len(unwinding) : refers(unwinding[i])
        /\ running # NoFrame => refers(running) /\ frame[running] = "live"
        /\ parked # NoFrame => refers(parked) /\ frame[parked] = "live"

(* No frame is destroyed while it is already being destroyed. *)
DestroyedOnce == IsInjective(unwinding)

(* When nothing runs, waits or is destroyed any more, no coroutine of the
   chain is left: a complete one has been freed by its future, the one that
   waited in the event loop and all that awaited it by its promise.  What is
   left was given up before it was complete, with what it holds, or awaited
   a void generator. *)
NothingLeft ==
    running = NoFrame /\ parked = NoFrame /\ unwinding = <<>> =>
        /\ \A k \in Chain \ {1} : frame[k] = "final" => frame[k - 1] = "live"
        /\ frame[1] = "freed" \/ \E k \in Chain : kind[k] = "reusable_void"

(* Every frame has one owner for as long as anybody refers to it, and none
   when nobody does. *)
FramesOwned == NoDangling /\ DestroyedOnce /\ NothingLeft

(* An awaiter receives the items in the order in which they were produced,
   each once, and nothing after the last. *)
ItemsInOrder ==
    \A k \in Chain : LET r == received[k]
                     IN  \A i \in 1..Len(r) : IF i <= produced[k] THEN r[i] = i
                                                ELSE r[i] = 0 /\ state[k] = "complete"

(* All the blocks of a coroutine have run, each once, the newest first. *)
AllRan(k) ==
    /\ Len(ran[k]) = registered[k]
    /\ \A i \in 1..Len(ran[k]) : ran[k][i] = Len(ran[k]) - i + 1

(* No deferred block runs early, and then all of them run, each once and the
   newest first: those of an async_function by the time it is gone, whether
   it ended or was destroyed, those of a coroutine with a future when it
   returns.  A coroutine with a future that is destroyed runs none. *)
DefersOnce ==
    \A k \in Chain :
        /\ frame[k] = "live" => ran[k] = <<>>
        /\ frame[k] = (IF k = 1 THEN "freed" ELSE "final") => AllRan(k)
        /\ ran[k] = <<>> \/ AllRan(k)

-----------------------------------------------------------------------------
(***************************************************************************)
(* The inductive invariants behind the theorems of FuturesProofs.          *)
(***************************************************************************)

FuturesTypeOK ==
    /\ kind \in [Chain -> {"simple", "reusable", "reusable_void"}] /\ kind[1] = "simple"
    /\ frame \in [Chain -> {"none", "live", "final", "locals gone", "promise gone", "freed"}]
    /\ held \in [Chain -> BOOLEAN]
    /\ underlying \in [Chain -> Chain \cup {NoFrame}]
    /\ state \in [Chain -> {"empty", "item", "complete"}]
    /\ running \in Chain \cup {NoFrame}
    /\ parked \in Chain \cup {NoFrame}
    /\ unwinding \in Seq(Chain)
    /\ produced \in [Chain -> Nat]
    /\ received \in [Chain -> Seq(Nat)]
    /\ defers \in [Chain -> Seq(Nat)]
    /\ ran \in [Chain -> Seq(Nat)]
    /\ registered \in [Chain -> Nat]

(* A future is held by a coroutine that executes or is suspended; it takes
   its coroutine for complete exactly when that is suspended for good; and
   one suspended for good is held, or is the one being destroyed. *)
HeldInv ==
    \A k \in Chain :
        /\ held[k] => k > 1 /\ frame[k - 1] = "live"
        /\ held[k] /\ state[k] = "complete" => frame[k] = "final"
        /\ frame[k] = "final" => /\ state[k] = "complete" /\ k > 1
                                 /\ held[k] \/ (unwinding # <<>> /\ unwinding[1] = k)

(* Each of the frames up to c but the first is awaited by the one before it,
   which holds it. *)
Linked(c) ==
    \A j \in Chain : 1 < j /\ j <= c =>
        held[j] /\ underlying[j] = j - 1 /\ state[j] = "empty"

(* The frames up to c are live, and linked. *)
Awaits(c) ==
    /\ \A j \in Chain : j <= c => frame[j] = "live"
    /\ Linked(c)

(* Beyond c nobody awaits, and whatever is held exists. *)
Beyond(c) ==
    \A j \in Chain : j > c => /\ underlying[j] = NoFrame
                              /\ held[j] => frame[j] \in {"live", "final"}

(* The chain up to c is intact. *)
Intact(c) == c \in Chain /\ underlying[1] = NoFrame /\ Awaits(c) /\ Beyond(c)

(* c + 1, which had returned, is destroyed by its future in the frame of c. *)
DestroysChild(c) ==
    /\ unwinding = <<c + 1, c>>
    /\ c + 1 \in Chain
    /\ frame[c] = "locals gone"
    /\ ~held[c + 1]
    /\ frame[c + 1] \in {"final", "locals gone", "promise gone"}

Runs == running # NoFrame /\ parked = NoFrame /\ unwinding = <<>> /\ Intact(running)

Parks == running = NoFrame /\ parked # NoFrame /\ unwinding = <<>> /\ Intact(parked)

(* The coroutine that executes destroys the next one, which nobody awaits. *)
Replaces ==
    /\ running # NoFrame /\ parked = NoFrame
    /\ Intact(running)
    /\ running + 1 \in Chain /\ ~held[running + 1]
    /\ \/ unwinding = <<running + 1>>
          /\ frame[running + 1] \in {"live", "final", "locals gone", "promise gone"}
       \/ DestroysChild(running + 1)

(* The coroutine that waited, c, is destroyed, ... *)
UnwindsLeaf(c) ==
    /\ DestroysChild(c)
    /\ c \in Chain /\ underlying[1] = NoFrame
    /\ \A j \in Chain : j < c => frame[j] = "live"
    /\ Linked(c)
    /\ Beyond(c)

(* The frames from m to c, in the order in which they are freed. *)
UpTo(m, c) == [i \in 1..(c - m + 1) |-> m + i - 1]

(* ... and from its promise the ones that awaited it, down to m. *)
UnwindsChain(m, c) ==
    /\ m \in Chain /\ c \in Chain /\ m <= c /\ underlying[1] = NoFrame
    /\ unwinding = UpTo(m, c)
    /\ \A j \in Chain : m < j /\ j <= c => frame[j] = "promise gone" /\ state[j] = "empty"
    /\ Beyond(c)
    /\ \/ /\ frame[m] \in {"live", "locals gone"}
          /\ \A j \in Chain : j < m => frame[j] = "live"
          /\ Linked(m)
       \/ /\ frame[m] = "promise gone"
          /\ frame[1] = "freed" \/ m = 1 \/ \E k \in Chain : kind[k] = "reusable_void"

Unwinds == /\ running = NoFrame /\ parked = NoFrame
           /\ \E c \in Chain : UnwindsLeaf(c) \/ \E m \in Chain : UnwindsChain(m, c)

Ended == /\ running = NoFrame /\ parked = NoFrame /\ unwinding = <<>>
         /\ frame[1] = "freed" \/ \E k \in Chain : kind[k] = "reusable_void"

FramesInv == FuturesTypeOK /\ HeldInv /\ (Runs \/ Parks \/ Replaces \/ Unwinds \/ Ended)

(* What was received follows what was produced, item by item, until the
   coroutine is complete. *)
ItemsInv ==
    ItemsInOrder /\ \A k \in Chain :
        /\ Len(received[k]) >= produced[k]
        /\ state[k] # "complete" => Len(received[k]) = produced[k]

(* The blocks still to run are numbered downwards, and all are there until
   the coroutine has returned or its promise is destroyed. *)
DefersInv ==
    /\ \A k \in Chain : /\ \A i \in 1..Len(defers[k]) : defers[k][i] = Len(defers[k]) - i + 1
                        /\ frame[k] = "live" => Len(defers[k]) = registered[k]
    /\ frame[1] = "locals gone" => ran[1] = <<>> /\ Len(defers[1]) = registered[1]
    /\ frame[1] = "promise gone" => AllRan(1)
    /\ frame[1] # "final"
    /\ DefersOnce

FuturesInv == FramesInv /\ ItemsInv /\ DefersInv
=============================================================================
