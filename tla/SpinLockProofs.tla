--------------------------- MODULE SpinLockProofs ----------------------------
(* Both spin locks exclude, for any number of threads and any level. *)
EXTENDS SpinLock, TLAPS

(* The plain lock: the word is set while anybody is inside. *)
PlainInv ==
    /\ lock \in BOOLEAN
    /\ spot \in [Lockers -> {"out", "spin", "again", "try", "in"}]
    /\ \A t \in Lockers : spot[t] = "in" => lock
    /\ PlainExclusion

(* A thread that is still to get the recursive lock holds nothing. *)
OutsideHoldsNothing ==
    \A t \in Lockers : rat[t] \in {"new", "cas", "trycas", "wait"} => level[t] = 0

SpinInv == SpinTypeOK /\ RecursiveInv /\ RecursiveExclusion /\ OutsideHoldsNothing

-----------------------------------------------------------------------------
(* spin_lock *)

LEMMA PlainInitially == SpinInit => PlainInv
  BY DEF SpinInit, PlainInv, PlainExclusion

(* lock(), try_lock() and unlock() keep it: an exchange that finds the word
   set enters nowhere. *)
LEMMA PlainStepKeeps ==
    ASSUME PlainInv, NEW t \in Lockers, PlainStep(t) PROVE PlainInv'
  <1>1. CASE Exchange(t)
    BY <1>1 DEF PlainInv, PlainExclusion, Exchange, Go
  <1>2. CASE SpinLoad(t)
    BY <1>2 DEF PlainInv, PlainExclusion, SpinLoad, Go
  <1>3. CASE TryLockLoad(t)
    BY <1>3 DEF PlainInv, PlainExclusion, TryLockLoad, Go
  <1>4. CASE TryExchange(t)
    BY <1>4 DEF PlainInv, PlainExclusion, TryExchange, Go
  <1>5. CASE Unlock(t)
    BY <1>5 DEF PlainInv, PlainExclusion, Unlock, Go
  <1> QED BY <1>1, <1>2, <1>3, <1>4, <1>5 DEF PlainStep

LEMMA PlainKept == ASSUME PlainInv, UNCHANGED plainVars PROVE PlainInv'
  BY DEF PlainInv, PlainExclusion, plainVars

LEMMA RecursiveLeavesPlain ==
    ASSUME NEW t \in Lockers, RecursiveStep(t) PROVE UNCHANGED plainVars
  BY DEF RecursiveStep, GetId, Load, Cas, RSpin, Add, Sub, FreeWord

-----------------------------------------------------------------------------
(* recursive_spin_lock *)

LEMMA RecursiveInitially == SpinInit => SpinInv
  <1> SUFFICES ASSUME SpinInit PROVE SpinInv
    OBVIOUS
  <1>1. SpinTypeOK
    <2>1. lock \in BOOLEAN
      BY Zenon DEF SpinInit
    <2>2. next_id \in Nat \ {0}
      BY DEF SpinInit, FirstId
    <2> QED BY <2>1, <2>2 DEF SpinInit, SpinTypeOK
  <1>2. \A t \in Lockers : ~Owns(t)
    BY DEF SpinInit, Owns
  <1>3. RecursiveInv
    BY <1>2 DEF SpinInit, RecursiveInv, FirstId
  <1>4. RecursiveExclusion /\ OutsideHoldsNothing
    BY <1>2 DEF SpinInit, RecursiveExclusion, OutsideHoldsNothing
  <1> QED BY <1>1, <1>3, <1>4 DEF SpinInv

LEMMA GetIdKeeps == ASSUME SpinInv, NEW t \in Lockers, GetId(t) PROVE SpinInv'
  BY DEF SpinInv, SpinTypeOK, RecursiveInv, RecursiveExclusion, OutsideHoldsNothing,
         Owns, GetId, RGo, plainVars

LEMMA LoadKeeps ==
    ASSUME SpinInv, NEW t \in Lockers, NEW try \in BOOLEAN, Load(t, try) PROVE SpinInv'
  BY DEF SpinInv, SpinTypeOK, RecursiveInv, RecursiveExclusion, OutsideHoldsNothing,
         Owns, Load, RGo, plainVars

LEMMA CasKeeps == ASSUME SpinInv, NEW t \in Lockers, Cas(t) PROVE SpinInv'
  BY DEF SpinInv, SpinTypeOK, RecursiveInv, RecursiveExclusion, OutsideHoldsNothing,
         Owns, Cas, RGo, plainVars

LEMMA RSpinKeeps == ASSUME SpinInv, NEW t \in Lockers, RSpin(t) PROVE SpinInv'
  BY DEF SpinInv, SpinTypeOK, RecursiveInv, RecursiveExclusion, OutsideHoldsNothing,
         Owns, RSpin, RGo, plainVars

LEMMA AddKeeps == ASSUME SpinInv, NEW t \in Lockers, Add(t) PROVE SpinInv'
  BY DEF SpinInv, SpinTypeOK, RecursiveInv, RecursiveExclusion, OutsideHoldsNothing,
         Owns, Add, RGo, plainVars

LEMMA SubKeeps == ASSUME SpinInv, NEW t \in Lockers, Sub(t) PROVE SpinInv'
  BY DEF SpinInv, SpinTypeOK, RecursiveInv, RecursiveExclusion, OutsideHoldsNothing,
         Owns, Sub, RGo, plainVars

LEMMA FreeWordKeeps == ASSUME SpinInv, NEW t \in Lockers, FreeWord(t) PROVE SpinInv'
  BY DEF SpinInv, SpinTypeOK, RecursiveInv, RecursiveExclusion, OutsideHoldsNothing,
         Owns, FreeWord, LastUnlock, RGo, plainVars

LEMMA RecursiveStepKeeps ==
    ASSUME SpinInv, NEW t \in Lockers, RecursiveStep(t) PROVE SpinInv'
  BY GetIdKeeps, LoadKeeps, CasKeeps, RSpinKeeps, AddKeeps, SubKeeps, FreeWordKeeps
     DEF RecursiveStep

(* What the steps of the plain lock leave alone. *)
LEMMA PlainLeavesRecursive ==
    ASSUME NEW t \in Lockers, PlainStep(t) PROVE UNCHANGED recursiveVars
  BY DEF PlainStep, Exchange, SpinLoad, TryLockLoad, TryExchange, Unlock

LEMMA RecursiveKept ==
    ASSUME SpinInv, UNCHANGED recursiveVars, PlainInv' PROVE SpinInv'
  <1>1. SpinTypeOK'
    BY DEF SpinInv, SpinTypeOK, recursiveVars, PlainInv
  <1> QED
    BY <1>1 DEF SpinInv, RecursiveInv, RecursiveExclusion, OutsideHoldsNothing, Owns,
                recursiveVars

LEMMA BothAlways == SpinSpec => [](PlainInv /\ SpinInv)
  <1>1. PlainInv /\ SpinInv /\ [SpinNext]_spinVars => (PlainInv /\ SpinInv)'
    <2> SUFFICES ASSUME PlainInv, SpinInv, [SpinNext]_spinVars PROVE (PlainInv /\ SpinInv)'
      OBVIOUS
    <2>1. ASSUME NEW t \in Lockers, PlainStep(t) PROVE (PlainInv /\ SpinInv)'
      BY <2>1, PlainStepKeeps, PlainLeavesRecursive, RecursiveKept
    <2>2. ASSUME NEW t \in Lockers, RecursiveStep(t) PROVE (PlainInv /\ SpinInv)'
      BY <2>2, RecursiveLeavesPlain, PlainKept, RecursiveStepKeeps
    <2>3. CASE UNCHANGED spinVars
      BY <2>3, PlainKept, RecursiveKept DEF spinVars
    <2> QED BY <2>1, <2>2, <2>3 DEF SpinNext, PlainNext, RecursiveNext
  <1> QED BY PlainInitially, RecursiveInitially, <1>1, PTL DEF SpinSpec

(* At most one thread is between lock() and unlock() of a spin_lock. *)
THEOREM SpinLockExcludes == SpinSpec => []PlainExclusion
  <1>1. PlainInv => PlainExclusion
    BY DEF PlainInv
  <1> QED BY BothAlways, <1>1, PTL

(* The word of a recursive_spin_lock names its only owner, and is zero when
   nobody owns it. *)
THEOREM WordNamesOwner == SpinSpec => []RecursiveInv
  <1>1. SpinInv => RecursiveInv
    BY DEF SpinInv
  <1> QED BY BothAlways, <1>1, PTL

(* At most one thread owns a recursive_spin_lock and touches its plain
   counter, which is the number of its lock() calls not yet given back. *)
THEOREM RecursiveLockExcludes == SpinSpec => []RecursiveExclusion
  <1>1. SpinInv => RecursiveExclusion
    BY DEF SpinInv
  <1> QED BY BothAlways, <1>1, PTL
=============================================================================
