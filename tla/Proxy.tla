-------------------------------- MODULE Proxy -------------------------------
(***************************************************************************)
(* engine_enabled<Base>::proxy (includes/zab/engine_enabled.hpp): a member *)
(* coroutine is called through a proxy that first moves to a required      *)
(* thread, runs the member there, and moves back to the thread of the      *)
(* caller.  There are overloads for async_function, simple_future and      *)
(* reusable_future; that of a generator remembers the thread of the first  *)
(* call, and uses it for every item.                                       *)
(***************************************************************************)
EXTENDS Integers

CONSTANTS Threads,    \* the threads of the engine
          AnyThread,  \* thread_t{}
          MaxCalls    \* bound: how many items are asked for

ASSUME ProxyAssumption == AnyThread \notin Threads /\ MaxCalls \in Nat

VARIABLES overload,      \* which overload of proxy()
          required,      \* _required_thread
          callerThread,  \* where the caller awaits
          thread,        \* where the coroutine executes
          returnThread,  \* return_thread
          proxyPc,       \* where the proxy stands
          bodyThread,    \* where the member was started last
          moved,         \* has the caller changed threads since the first call?
          calls          \* how many calls or items so far

proxyVars == <<overload, required, callerThread, thread, returnThread, proxyPc,
               bodyThread, moved, calls>>

ProxyInit ==
    /\ overload \in {"async", "simple", "reusable"}
    /\ required \in Threads \cup {AnyThread}
    /\ callerThread \in Threads
    /\ thread = callerThread
    /\ returnThread = AnyThread
    /\ proxyPc = "caller"
    /\ bodyThread = AnyThread
    /\ moved = FALSE
    /\ calls = 0

(* _required_thread != thread_t{} && _required_thread != t *)
MustMove(t) == required # AnyThread /\ required # t

(* The caller awaits the proxy, and it moves to the required thread.  A
   generator compares with the thread of the first call. *)
EnterProxy ==
    /\ proxyPc = "caller"
    /\ calls < MaxCalls
    /\ calls' = calls + 1
    /\ returnThread' = IF overload = "reusable"
                       THEN IF calls = 0 THEN thread ELSE returnThread
                       ELSE IF MustMove(thread) THEN thread ELSE AnyThread
    /\ thread' = IF MustMove(IF overload = "reusable" THEN returnThread' ELSE thread)
                 THEN required ELSE thread
    /\ proxyPc' = "body"
    /\ UNCHANGED <<overload, required, callerThread, bodyThread, moved>>

(* The member runs; one that is awaited may end in another thread. *)
RunBody ==
    /\ proxyPc = "body"
    /\ bodyThread' = thread
    /\ thread' \in IF overload = "async" THEN {thread} ELSE Threads
    /\ proxyPc' = "back"
    /\ UNCHANGED <<overload, required, callerThread, returnThread, moved, calls>>

(* Mutant: the proxy does not move back. *)
ReturnsNever == FALSE

(* return_thread != thread_t{}, for a generator also != _required_thread *)
Returns == returnThread # AnyThread /\ (overload = "reusable" => returnThread # required)

(* The proxy moves back and the caller is resumed; that of an async_function
   has no one to resume and just ends there. *)
LeaveProxy ==
    /\ proxyPc = "back"
    /\ thread' = IF Returns THEN returnThread ELSE thread
    /\ proxyPc' = "resumed"
    /\ UNCHANGED <<overload, required, callerThread, returnThread, bodyThread, moved, calls>>

(* The caller goes on, maybe in another thread. *)
CallerMoves ==
    /\ proxyPc = "resumed"
    /\ \E t \in Threads : /\ thread' = t
                          /\ callerThread' = t
                          /\ moved' = (moved \/ t # callerThread)
    /\ proxyPc' = "caller"
    /\ UNCHANGED <<overload, required, returnThread, bodyThread, calls>>

ProxyNext == EnterProxy \/ RunBody \/ LeaveProxy \/ CallerMoves

ProxySpec == ProxyInit /\ [][ProxyNext]_proxyVars

(* The member starts in the required thread, except that of a generator whose
   caller has changed threads in between. *)
BodyInThread ==
    proxyPc \in {"back", "resumed"} /\ required # AnyThread
        /\ ~(overload = "reusable" /\ moved) => bodyThread = required

(* A proxy that had to move brings the caller back to its own thread,
   wherever the member ended; again not for a generator whose caller has
   moved. *)
CallerInThread ==
    proxyPc = "resumed" /\ required \notin {AnyThread, callerThread}
        /\ ~(overload = "reusable" /\ moved) => thread = callerThread

(* The member and the caller each run where they belong. *)
ProxyKeepsThreads == BodyInThread /\ CallerInThread

-----------------------------------------------------------------------------
(***************************************************************************)
(* The inductive invariant behind ProxyKeepsThreadsHolds of                *)
(* CoroutinesProofs: where each stage of a call stands.                    *)
(***************************************************************************)

(* The proxy compares with the thread its caller is in now. *)
SameCaller == ~(overload = "reusable" /\ moved)

ProxyInv ==
    /\ required \in Threads \cup {AnyThread}
    /\ callerThread \in Threads /\ moved \in BOOLEAN /\ calls \in Nat
    /\ proxyPc = "caller" => thread = callerThread
    /\ proxyPc # "caller" => calls > 0
    /\ overload = "reusable" /\ calls > 0 /\ SameCaller => returnThread = callerThread
    /\ proxyPc = "body" /\ required # AnyThread /\ SameCaller => thread = required
    /\ proxyPc \in {"body", "back"} /\ required \notin {AnyThread, callerThread} /\ SameCaller
          => returnThread = callerThread
    /\ ProxyKeepsThreads
=============================================================================
