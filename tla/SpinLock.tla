------------------------------ MODULE SpinLock -------------------------------
(***************************************************************************)
(* zab::spin_lock and zab::recursive_spin_lock (includes/zab/spin_lock.hpp) *)
(* used by a set of threads.  Every access to an atomic is a step, and so  *)
(* is every access to count_, the plain counter of the recursive lock,     *)
(* which only its holder may touch.                                        *)
(***************************************************************************)
EXTENDS Naturals, FiniteSets

CONSTANTS Lockers,    \* threads
          MaxDepth    \* bound: how often a thread locks the recursive lock

ASSUME SpinAssumption == IsFiniteSet(Lockers) /\ MaxDepth \in Nat \ {0}

VARIABLES lock,       \* spin_lock::lock_
          spot,       \* where a thread stands in spin_lock
          thread_word, \* recursive_spin_lock::thread_, 0 if free
          count_,     \* recursive_spin_lock::count_
          next_id,    \* the static counter of get_id()
          id,         \* the thread_local id of get_id(), 0 before its first use
          rat,        \* where a thread stands in recursive_spin_lock
          level       \* history: how often it holds the recursive lock

plainVars == <<lock, spot>>
recursiveVars == <<thread_word, count_, next_id, id, rat, level>>
spinVars == <<plainVars, recursiveVars>>

(* Mutant: ids start at the word of a free lock. *)
FirstIdZero == 0

(* std::atomic count = 1 *)
FirstId == 1

SpinInit ==
    /\ lock = FALSE
    /\ spot = [t \in Lockers |-> "out"]
    /\ thread_word = 0 /\ count_ = 0
    /\ next_id = FirstId
    /\ id = [t \in Lockers |-> 0]
    /\ rat = [t \in Lockers |-> "new"]
    /\ level = [t \in Lockers |-> 0]

-----------------------------------------------------------------------------
(* spin_lock *)

Go(t, pc) == spot' = [spot EXCEPT ![t] = pc]

(* lock(): the exchange, on the way in and after every spin. *)
Exchange(t) ==
    /\ spot[t] \in {"out", "again"}
    /\ lock' = TRUE
    /\ Go(t, IF lock THEN "spin" ELSE "in")
    /\ UNCHANGED recursiveVars

(* ... which is repeated only once the lock was seen free. *)
SpinLoad(t) ==
    /\ spot[t] = "spin"
    /\ ~lock
    /\ Go(t, "again")
    /\ UNCHANGED <<lock, recursiveVars>>

(* try_lock(): a load; on a lock in use it is all. *)
TryLockLoad(t) ==
    /\ spot[t] = "out"
    /\ ~lock
    /\ Go(t, "try")
    /\ UNCHANGED <<lock, recursiveVars>>

(* Mutant: what the load has seen is trusted. *)
TryExchangeBlind(t) ==
    /\ spot[t] = "try"
    /\ lock' = TRUE
    /\ Go(t, "in")
    /\ UNCHANGED recursiveVars

TryExchange(t) ==
    /\ spot[t] = "try"
    /\ lock' = TRUE
    /\ Go(t, IF lock THEN "out" ELSE "in")
    /\ UNCHANGED recursiveVars

Unlock(t) ==
    /\ spot[t] = "in"
    /\ lock' = FALSE
    /\ Go(t, "out")
    /\ UNCHANGED recursiveVars

PlainStep(t) ==
    Exchange(t) \/ SpinLoad(t) \/ TryLockLoad(t) \/ TryExchange(t) \/ Unlock(t)

-----------------------------------------------------------------------------
(* recursive_spin_lock *)

RGo(t, pc) == rat' = [rat EXCEPT ![t] = pc]

(* get_id(), on the first use of any recursive lock by this thread. *)
GetId(t) ==
    /\ rat[t] = "new"
    /\ id' = [id EXCEPT ![t] = next_id]
    /\ next_id' = next_id + 1
    /\ RGo(t, "idle")
    /\ UNCHANGED <<thread_word, count_, level, plainVars>>

(* The load at the start of lock() and try_lock(): the caller may hold it
   already; try_lock() gives up on a lock that somebody else holds. *)
Load(t, try) ==
    /\ rat[t] = "idle"
    /\ level[t] < MaxDepth
    /\ RGo(t, IF thread_word = id[t] THEN "add"
              ELSE IF ~try THEN "cas"
              ELSE IF thread_word = 0 THEN "trycas" ELSE "idle")
    /\ UNCHANGED <<thread_word, count_, next_id, id, level, plainVars>>

(* compare_exchange_strong(0, id) *)
Cas(t) ==
    /\ rat[t] \in {"cas", "trycas"}
    /\ IF thread_word = 0
       THEN thread_word' = id[t] /\ RGo(t, "add")
       ELSE UNCHANGED thread_word /\ RGo(t, IF rat[t] = "cas" THEN "wait" ELSE "idle")
    /\ UNCHANGED <<count_, next_id, id, level, plainVars>>

(* lock() spins until the word is zero. *)
RSpin(t) ==
    /\ rat[t] = "wait"
    /\ thread_word = 0
    /\ RGo(t, "cas")
    /\ UNCHANGED <<thread_word, count_, next_id, id, level, plainVars>>

(* ++count_ *)
Add(t) ==
    /\ rat[t] = "add"
    /\ count_' = count_ + 1
    /\ level' = [level EXCEPT ![t] = @ + 1]
    /\ RGo(t, "idle")
    /\ UNCHANGED <<thread_word, next_id, id, plainVars>>

(* unlock(): --count_ ... *)
Sub(t) ==
    /\ rat[t] = "idle"
    /\ level[t] > 0
    /\ count_' = count_ - 1
    /\ level' = [level EXCEPT ![t] = @ - 1]
    /\ RGo(t, "sub")
    /\ UNCHANGED <<thread_word, next_id, id, plainVars>>

LastUnlock == count_ = 0

(* ... and the store that frees the lock. *)
FreeWord(t) ==
    /\ rat[t] = "sub"
    /\ thread_word' = IF LastUnlock THEN 0 ELSE thread_word
    /\ RGo(t, "idle")
    /\ UNCHANGED <<count_, next_id, id, level, plainVars>>

RecursiveStep(t) ==
    \/ GetId(t) \/ Cas(t) \/ RSpin(t) \/ Add(t) \/ Sub(t) \/ FreeWord(t)
    \/ \E try \in BOOLEAN : Load(t, try)

PlainNext == \E t \in Lockers : PlainStep(t)
RecursiveNext == \E t \in Lockers : RecursiveStep(t)
SpinNext == PlainNext \/ RecursiveNext

SpinSpec == SpinInit /\ [][SpinNext]_spinVars

-----------------------------------------------------------------------------

(* At most one thread is between lock() and unlock() of a spin_lock, however
   lock() and try_lock() interleave. *)
PlainExclusion ==
    \A t, u \in Lockers : spot[t] = "in" /\ spot[u] = "in" => t = u

(* At most one thread holds a recursive_spin_lock, or is about to change its
   plain counter, which is then the number of its lock() calls still to be
   given back. *)
Owns(t) == level[t] > 0 \/ rat[t] \in {"add", "sub"}

RecursiveExclusion ==
    \A t \in Lockers : Owns(t) =>
        /\ count_ = level[t]
        /\ \A u \in Lockers : Owns(u) => t = u

(* The word names the owner, and is zero only when nobody is. *)
RecursiveInv ==
    /\ \A t \in Lockers : id[t] < next_id /\ (id[t] = 0 <=> rat[t] = "new")
    /\ \A t, u \in Lockers : id[t] = id[u] /\ id[t] # 0 => t = u
    /\ \A t \in Lockers : Owns(t) <=> (thread_word = id[t] /\ thread_word # 0)
    /\ (\A t \in Lockers : ~Owns(t)) => count_ = 0 /\ thread_word = 0

SpinTypeOK ==
    /\ lock \in BOOLEAN
    /\ spot \in [Lockers -> {"out", "spin", "again", "try", "in"}]
    /\ thread_word \in Nat /\ count_ \in Nat /\ next_id \in Nat \ {0}
    /\ id \in [Lockers -> Nat]
    /\ rat \in [Lockers -> {"new", "idle", "cas", "trycas", "wait", "add", "sub"}]
    /\ level \in [Lockers -> Nat]
=============================================================================
