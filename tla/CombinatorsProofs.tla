------------------------- MODULE CombinatorsProofs ---------------------------
(* wait_for and first_of resume their caller once and at the right moment,
   for any finite number of operations. *)
EXTENDS Combinators, FiniteSetTheorems, TLAPS

-----------------------------------------------------------------------------
(* wait_for *)

WaitTypeOK ==
    /\ counter \in Int
    /\ op \in [Ops -> {"idle", "running", "produced", "last", "done"}]
    /\ starter \in {"starting", "done"}
    /\ resumes \in Nat

(* The operations that are still to arrive. *)
Coming == {o \in Ops : op[o] \in {"idle", "running", "produced"}}

(* The subtraction that reaches zero makes one actor the last, which resumes
   the coroutine; afterwards nobody is the last any more. *)
OneLast ==
    /\ \A o \in Ops : op[o] = "last" => counter = 0 /\ resumes = 0
    /\ \A o, p \in Ops : op[o] = "last" /\ op[p] = "last" => o = p
    /\ resumes = 0 \/ (resumes = 1 /\ counter = 0)

WaitInv == WaitTypeOK /\ CounterInv /\ OneLast

LEMMA WaitInitially == WaitInit => WaitInv
  <1> SUFFICES ASSUME WaitInit PROVE WaitInv
    OBVIOUS
  <1>1. Cardinality(Ops) \in Nat
    BY OpsAssumption, FS_CardinalityType
  <1>2. Coming = Ops
    BY DEF Coming, WaitInit
  <1>3. CounterInv
    BY <1>1, <1>2 DEF CounterInv, Coming, WaitInit, StartCount
  <1>4. WaitTypeOK /\ OneLast
    BY <1>1 DEF WaitTypeOK, OneLast, WaitInit, StartCount
  <1> QED BY <1>3, <1>4 DEF WaitInv

(* What an arrival does to the number of those to come. *)
LEMMA ComingFinite ==
    /\ IsFiniteSet(Coming)
    /\ Cardinality(Coming) \in Nat
    /\ \A o \in Coming : Cardinality(Coming \ {o}) = Cardinality(Coming) - 1
  <1>1. IsFiniteSet(Coming)
    BY OpsAssumption, FS_Subset DEF Coming
  <1> QED BY <1>1, FS_CardinalityType, FS_RemoveElement

LEMMA StartOpKeeps == ASSUME WaitInv, NEW o \in Ops, StartOp(o) PROVE WaitInv'
  <1>1. Coming' = Coming
    BY DEF WaitInv, WaitTypeOK, StartOp, Coming
  <1>2. CounterInv'
    BY <1>1 DEF WaitInv, CounterInv, StartOp, Coming
  <1> QED BY <1>2 DEF WaitInv, WaitTypeOK, OneLast, StartOp

LEMMA ProduceKeeps == ASSUME WaitInv, NEW o \in Ops, Produce(o) PROVE WaitInv'
  <1>1. Coming' = Coming
    BY DEF WaitInv, WaitTypeOK, Produce, Coming
  <1>2. CounterInv'
    BY <1>1 DEF WaitInv, WaitTypeOK, CounterInv, Produce, Coming
  <1> QED BY <1>2 DEF WaitInv, WaitTypeOK, OneLast, Produce

LEMMA ArriveKeeps == ASSUME WaitInv, NEW o \in Ops, Arrive(o) PROVE WaitInv'
  <1>1. o \in Coming /\ Coming' = Coming \ {o}
    BY DEF WaitInv, WaitTypeOK, Arrive, Coming
  <1>2. Cardinality(Coming') = Cardinality(Coming) - 1 /\ Cardinality(Coming) \in Nat
    BY <1>1, ComingFinite
  <1>3. CounterInv'
    BY <1>2 DEF WaitInv, WaitTypeOK, CounterInv, Arrive, Coming
  <1>4. Cardinality(Coming) > 0
    <2>1. IsFiniteSet(Coming \ {o})
      BY ComingFinite, FS_Subset
    <2>2. Cardinality(Coming \ {o}) \in Nat
      BY <2>1, FS_CardinalityType
    <2> QED BY <2>2, <1>1, <1>2
  <1>5. counter > 0
    BY <1>2, <1>4 DEF WaitInv, CounterInv, Coming
  <1>6. OneLast'
    BY <1>5 DEF WaitInv, WaitTypeOK, OneLast, Arrive, WasLast
  <1> QED BY <1>3, <1>6 DEF WaitInv, WaitTypeOK, Arrive

LEMMA ExecuteEventKeeps == ASSUME WaitInv, NEW o \in Ops, ExecuteEvent(o) PROVE WaitInv'
  <1>1. Coming' = Coming
    BY DEF WaitInv, WaitTypeOK, ExecuteEvent, Coming
  <1>2. CounterInv'
    BY <1>1 DEF WaitInv, WaitTypeOK, CounterInv, ExecuteEvent, Coming
  <1> QED BY <1>2 DEF WaitInv, WaitTypeOK, OneLast, ExecuteEvent

LEMMA StarterArriveKeeps == ASSUME WaitInv, StarterArrive PROVE WaitInv'
  <1>1. Coming' = Coming /\ Cardinality(Coming) \in Nat
    BY ComingFinite DEF StarterArrive, Coming
  <1>2. CounterInv'
    BY <1>1 DEF WaitInv, WaitTypeOK, CounterInv, StarterArrive, Coming
  <1>3. counter > 0
    BY <1>1 DEF WaitInv, CounterInv, StarterArrive, Coming
  <1> QED BY <1>2, <1>3 DEF WaitInv, WaitTypeOK, OneLast, StarterArrive, WasLast

(* A counter of zero means that everybody has arrived. *)
LEMMA WaitInvComplete == WaitInv => WaitForComplete
  <1> SUFFICES ASSUME WaitInv, resumes = 1
               PROVE  starter = "done" /\ \A o \in Ops : op[o] = "done"
    BY DEF WaitForComplete, WaitInv, WaitTypeOK, OneLast
  <1>1. Cardinality(Coming) = 0 /\ starter = "done"
    BY ComingFinite DEF WaitInv, WaitTypeOK, CounterInv, OneLast, Coming
  <1>2. Coming = {}
    BY <1>1, ComingFinite, FS_EmptySet
  <1> QED BY <1>1, <1>2 DEF Coming, WaitInv, WaitTypeOK, OneLast

LEMMA WaitInvAlways == WaitForSpec => []WaitInv
  <1>1. WaitInv /\ [WaitForNext]_combinatorVars => WaitInv'
    <2> SUFFICES ASSUME WaitInv, [WaitForNext]_combinatorVars PROVE WaitInv'
      OBVIOUS
    <2>1. CASE UNCHANGED combinatorVars
      BY <2>1 DEF combinatorVars, waitVars, WaitInv, WaitTypeOK, CounterInv, OneLast
    <2> QED BY <2>1, StartOpKeeps, ProduceKeeps, ArriveKeeps, ExecuteEventKeeps,
               StarterArriveKeeps DEF WaitForNext
  <1> QED BY WaitInitially, <1>1, PTL DEF WaitForSpec

(* The counter of wait_for is the number of operations that have not yet
   arrived, and one for the call that starts them. *)
THEOREM WaitForCounts == WaitForSpec => []CounterInv
  <1>1. WaitInv => CounterInv
    BY DEF WaitInv
  <1> QED BY WaitInvAlways, <1>1, PTL

(* The coroutine in wait_for is resumed at most once, when every operation
   is done and nobody is still to touch what they share. *)
THEOREM WaitForIsComplete == WaitForSpec => []WaitForComplete
  BY WaitInvAlways, WaitInvComplete, PTL

-----------------------------------------------------------------------------
(* first_of *)

Winning == {"won", "written", "posted"}

FirstTypeOK ==
    /\ handle \in BOOLEAN
    /\ race \in [Ops -> {"idle", "running", "done"} \cup Winning]
    /\ result \in Ops \cup {None}
    /\ caller \in {"starting", "suspended", "resumed"}

(* Nobody has won as long as the cell holds the pack; then one operation
   wins, and it is done with it before the coroutine goes on. *)
OneElected ==
    /\ handle => \A o \in Ops : race[o] \notin Winning
    /\ \A o, p \in Ops : race[o] \in Winning /\ race[p] \in Winning => o = p
    /\ \A o \in Ops : race[o] \in {"written", "posted"} => result # None
    /\ caller = "resumed" =>
           ~handle /\ result # None /\ \A o \in Ops : race[o] \notin Winning

FirstInv == FirstTypeOK /\ OneElected

LEMMA FirstInitially == FirstInit => FirstInv
  BY DEF FirstInit, FirstInv, FirstTypeOK, OneElected, Winning

LEMMA FirstStep ==
    ASSUME FirstInv, [FirstOfNext]_combinatorVars PROVE FirstInv'
  <1>1. ASSUME NEW o \in Ops, StartRace(o) PROVE FirstInv'
    BY <1>1 DEF FirstInv, FirstTypeOK, OneElected, Winning, StartRace
  <1>2. CASE SuspendFirstOf
    BY <1>2 DEF FirstInv, FirstTypeOK, OneElected, Winning, SuspendFirstOf
  <1>3. ASSUME NEW o \in Ops, Elect(o) PROVE FirstInv'
    BY <1>3 DEF FirstInv, FirstTypeOK, OneElected, Winning, Elect, HandleAfterExchange
  <1>4. ASSUME NEW o \in Ops, WriteResult(o) PROVE FirstInv'
    BY <1>4, OpsAssumption DEF FirstInv, FirstTypeOK, OneElected, Winning, WriteResult
  <1>5. ASSUME NEW o \in Ops, Unpause(o) PROVE FirstInv'
    BY <1>5 DEF FirstInv, FirstTypeOK, OneElected, Winning, Unpause
  <1>6. ASSUME NEW o \in Ops, ResumeFirstOf(o) PROVE FirstInv'
    BY <1>6 DEF FirstInv, FirstTypeOK, OneElected, Winning, ResumeFirstOf
  <1>7. CASE UNCHANGED combinatorVars
    BY <1>7 DEF FirstInv, FirstTypeOK, OneElected, combinatorVars, firstVars
  <1> QED BY <1>1, <1>2, <1>3, <1>4, <1>5, <1>6, <1>7 DEF FirstOfNext

(* first_of is resumed once, with the result of the operation that won the
   exchange, and no later one touches its frame. *)
THEOREM FirstOfHasOneWinner == FirstOfSpec => []OneWinner
  <1>1. FirstInv => OneWinner
    BY DEF FirstInv, FirstTypeOK, OneElected, OneWinner, Winning
  <1> QED BY FirstInitially, FirstStep, <1>1, PTL DEF FirstOfSpec
=============================================================================
