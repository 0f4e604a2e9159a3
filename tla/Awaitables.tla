----------------------------- MODULE Awaitables ------------------------------
(***************************************************************************)
(* suspension_point with generic_awaitable or stateful_awaitable           *)
(* (includes/zab/generic_awaitable.hpp, includes/zab/stateful_awaitable.hpp), *)
(* which every operation of the library is awaited by: a functor is asked  *)
(* whether it is ready, told to suspend and asked for its result.  It may  *)
(* be awaited by a coroutine or, inline, by an event.  The functor begins  *)
(* an operation or returns that it did not (false, or the event it was     *)
(* given); that of a stateful_awaitable is notified of the result and may  *)
(* begin another operation.                                                *)
(*                                                                         *)
(* An operation that finds the submission queue full executes its event    *)
(* inside the call that begins it, so that the awaiter is resumed, and the *)
(* awaitable in its frame is gone, below await_suspend() and notify().     *)
(***************************************************************************)
EXTENDS Naturals, Sequences

CONSTANT MaxRounds     \* bound: operations of one co_await

ASSUME AwaitAssumption == MaxRounds \in Nat \ {0}

VARIABLES form,        \* stateful, inline: which code paths are instantiated
          stack,       \* the functions of the awaitable on the stack, the innermost first
          operation,   \* "none", "submitted"
          rounds,      \* operations begun
          awaiting,    \* "idle", "awaiting", "resumed"
          continued    \* history: how often the awaiter was continued

awaitableVars == <<form, stack, operation, rounds, awaiting, continued>>

AwaitableInit ==
    /\ form \in [stateful : BOOLEAN, inline : BOOLEAN]
    /\ stack = <<>>
    /\ operation = "none"
    /\ rounds = 0
    /\ awaiting = "idle"
    /\ continued = 0

Top == stack[1]
Return == Tail(stack)
Become(f) == <<f>> \o Tail(stack)

(* The coroutine is resumed or the event executed. *)
Continue == /\ awaiting' = "resumed"
            /\ continued' = continued + 1

(* await_ready(), and await_suspend() or inline_await_suspend() if it is not. *)
BeginAwait(ready) ==
    /\ awaiting = "idle"
    /\ IF ready
       THEN Continue /\ UNCHANGED stack
       ELSE /\ awaiting' = "awaiting"
            /\ stack' = <<"suspend">>
            /\ UNCHANGED continued
    /\ UNCHANGED <<form, operation, rounds>>

(* The functor begins its operation, and the queue takes it. *)
Submitted ==
    /\ stack # <<>> /\ Top = "suspend"
    /\ rounds < MaxRounds
    /\ rounds' = rounds + 1
    /\ operation' = "submitted"
    /\ stack' = Become("return")
    /\ UNCHANGED <<form, awaiting, continued>>

(* What executing the event of an operation does: the functor of a
   stateful_awaitable is notified, others are continued. *)
Execute_(below) ==
    IF form.stateful
    THEN stack' = <<"notify">> \o below /\ UNCHANGED <<awaiting, continued>>
    ELSE stack' = below /\ Continue

(* The queue is full: result_ = -ENOMEM, and the event is executed here. *)
QueueFull ==
    /\ stack # <<>> /\ Top = "suspend"
    /\ rounds < MaxRounds
    /\ rounds' = rounds + 1
    /\ Execute_(Become("return"))
    /\ UNCHANGED <<form, operation>>

(* Mutant: an inline await that did not suspend is forgotten. *)
DeclineForgets ==
    /\ stack # <<>> /\ Top = "suspend"
    /\ stack' = Return
    /\ IF form.inline THEN UNCHANGED <<awaiting, continued>> ELSE Continue
    /\ UNCHANGED <<form, operation, rounds>>

(* The functor returns false or the event: co_await goes on, and
   inline_await_suspend() and notify() execute the event. *)
Decline ==
    /\ stack # <<>> /\ Top = "suspend"
    /\ stack' = Return
    /\ Continue
    /\ UNCHANGED <<form, operation, rounds>>

(* The event loop executes the event of a completed operation. *)
Completed ==
    /\ stack = <<>>
    /\ operation = "submitted"
    /\ operation' = "none"
    /\ Execute_(<<>>)
    /\ UNCHANGED <<form, rounds>>

(* await_suspend(); return; *)
AfterSuspend == Return

(* A call that began an operation returns through its callers. *)
Returned ==
    /\ stack # <<>> /\ Top = "return"
    /\ stack' = AfterSuspend
    /\ UNCHANGED <<form, operation, rounds, awaiting, continued>>

(* notify(): kSuspend, or kReady and not ready. *)
NotifyAgain ==
    /\ stack # <<>> /\ Top = "notify"
    /\ rounds < MaxRounds
    /\ stack' = Become("suspend")
    /\ UNCHANGED <<form, operation, rounds, awaiting, continued>>

(* notify(): kResume, or kReady and ready. *)
NotifyResume ==
    /\ stack # <<>> /\ Top = "notify"
    /\ stack' = Return
    /\ Continue
    /\ UNCHANGED <<form, operation, rounds>>

AwaitStep == Submitted \/ QueueFull \/ Decline \/ Returned \/ NotifyAgain \/ NotifyResume

AwaitableNext == AwaitStep \/ Completed \/ \E ready \in BOOLEAN : BeginAwait(ready)

(* Calls return.  Nothing obliges an operation to complete. *)
AwaitableFairness == WF_awaitableVars(AwaitStep)

AwaitableSpec == AwaitableInit /\ [][AwaitableNext]_awaitableVars /\ AwaitableFairness

-----------------------------------------------------------------------------

(* Whoever awaits is continued at most once, and nothing on the stack uses
   the awaitable, which is in its frame, after that: also when operations
   fail inside the stack of notify() that begin them. *)
ContinuedOnce ==
    /\ continued <= 1
    /\ continued = 1 => /\ operation = "none"
                        /\ \A i \in DOMAIN stack : stack[i] = "return"

(* Whoever awaits is continued, whether its operations complete later or in
   the call, or were never begun, unless one of them never completes. *)
AwaitEnds ==
    []<>(operation = "none") => ((awaiting = "awaiting") ~> (awaiting = "resumed"))

(* Together: whoever awaits is continued exactly once. *)
ContinuedExactlyOnce == []ContinuedOnce /\ AwaitEnds

(* The inductive invariant behind ContinuedOnce.  Only the innermost function
   still has something to do, and while it has nothing is submitted; whoever
   has not been continued is waiting for either. *)
AwaitInv ==
    /\ stack \in Seq({"suspend", "notify", "return"})
    /\ \A i \in DOMAIN stack : i # 1 => stack[i] = "return"
    /\ (stack # <<>> /\ stack[1] # "return") => operation = "none"
    /\ continued = IF awaiting = "resumed" THEN 1 ELSE 0
    /\ awaiting # "awaiting" => /\ operation = "none"
                                /\ \A i \in DOMAIN stack : stack[i] = "return"
    /\ awaiting = "idle" => stack = <<>>
=============================================================================
