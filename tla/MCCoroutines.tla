---------------------------- MODULE MCCoroutines -----------------------------
(* The parts that are built from coroutines, one of them at a time: the
   parts that are not chosen stay in an initial state.

   A latch of 3 that two callers and a coroutine count down by 2, 1 and 1
   while two more wait; a barrier of three frames of which two may drop out
   and one of fewer frames than use it; three operations under a wait_for
   and a first_of; chains of three coroutines, each with a future of every
   kind; two observers of two overlapping emissions; a proxy between three
   threads; awaitables of up to three operations. *)
EXTENDS AsyncLatch, AsyncBarrier, Combinators, Futures, Observable, Proxy, Awaitables, TLC

CONSTANTS p1, p2, a1, c1, c2, f1, f2, f3

VARIABLE part

MCPausers == {p1, p2, a1}
MCCallers == {c1, c2, a1}
MCAmount == (c1 :> 2) @@ (c2 :> 1) @@ (a1 :> 1)

MCFrames == {f1, f2, f3}
Leavers == [expected |-> 3, droppers |-> {f2, f3}, arrivals |-> 2]
Shared == [expected |-> 2, droppers |-> {}, arrivals |-> 2]
Single == [expected |-> 1, droppers |-> {}, arrivals |-> 1]
SomeStay == {Leavers, Shared, Single}
OneLeaves == {[expected |-> 2, droppers |-> {f1}, arrivals |-> 2]}
AllLeave == {[expected |-> 3, droppers |-> MCFrames, arrivals |-> 1]}

Parts == {"latch", "barrier", "wait_for", "first_of", "futures", "observable", "proxy",
          "awaitable"}

partVars == <<allVars, barrierVars, combinatorVars, futuresVars, observableVars, proxyVars, awaitableVars>>

CoroutinesInit ==
    /\ part \in Parts
    /\ LatchInit /\ BarrierInit /\ WaitInit /\ FirstInit
    /\ FuturesInit /\ ObservableInit /\ ProxyInit /\ AwaitableInit
    /\ part # "barrier" => scenario = Single
    /\ part # "futures" => kind = [k \in Chain |-> "simple"]
    /\ part # "proxy" => overload = "async" /\ required = 1 /\ callerThread = 1
    /\ part # "awaitable" => ~form.stateful /\ ~form.inline

CoroutinesNext ==
    /\ \/ /\ part = "latch" /\ LatchNext
          /\ UNCHANGED <<barrierVars, combinatorVars, futuresVars, observableVars, proxyVars, awaitableVars>>
       \/ /\ part = "barrier" /\ BarrierNext
          /\ UNCHANGED <<allVars, combinatorVars, futuresVars, observableVars, proxyVars, awaitableVars>>
       \/ /\ part = "wait_for" /\ WaitForNext
          /\ UNCHANGED <<allVars, barrierVars, futuresVars, observableVars, proxyVars, awaitableVars>>
       \/ /\ part = "first_of" /\ FirstOfNext
          /\ UNCHANGED <<allVars, barrierVars, futuresVars, observableVars, proxyVars, awaitableVars>>
       \/ /\ part = "futures" /\ FuturesNext
          /\ UNCHANGED <<allVars, barrierVars, combinatorVars, observableVars, proxyVars, awaitableVars>>
       \/ /\ part = "observable" /\ ObservableNext
          /\ UNCHANGED <<allVars, barrierVars, combinatorVars, futuresVars, proxyVars, awaitableVars>>
       \/ /\ part = "proxy" /\ ProxyNext
          /\ UNCHANGED <<allVars, barrierVars, combinatorVars, futuresVars, observableVars, awaitableVars>>
       \/ /\ part = "awaitable" /\ AwaitableNext
          /\ UNCHANGED <<allVars, barrierVars, combinatorVars, futuresVars, observableVars, proxyVars>>
    /\ UNCHANGED part

(* The fairness of each part; that of the others asks for nothing, since no
   fair action is enabled initially. *)
CoroutinesSpec ==
    /\ CoroutinesInit /\ [][CoroutinesNext]_<<partVars, part>>
    /\ LatchFairness /\ BarrierFairness /\ CombinatorFairness
    /\ ObservableFairness /\ AwaitableFairness
=============================================================================
