--------------------------- MODULE FuturesProofs ----------------------------
(***************************************************************************)
(* Proofs about the frames of coroutines, their futures and promises       *)
(* (Futures), for chains of any length.  FramesInv says what the chain     *)
(* looks like in each situation: it runs or is parked at its end, the end  *)
(* replaces the future of its child, or a parked chain is being destroyed, *)
(* leaf first.  ItemsInv and DefersInv rest on it.                         *)
(***************************************************************************)
EXTENDS Futures, SequenceTheorems, TLAPS

(* Frames are numbered from one, next to each other. *)
LEMMA ChainFacts ==
  /\ 1 \in Chain /\ NoFrame \notin Chain
  /\ \A j \in Chain : /\ j \in Nat /\ j >= 1 /\ j - 1 \in Nat /\ j + 1 \in Nat
                      /\ j > 1 => j - 1 \in Chain
                      /\ j < Depth <=> j + 1 \in Chain
                      /\ j # NoFrame /\ j + 1 # NoFrame
                      /\ (j + 1) - 1 = j /\ j # j + 1 /\ j + 1 > 1 /\ j <= j
                      /\ \A i \in Chain : /\ i - 1 = j => i = j + 1
                                          /\ i <= j => i # j + 1
                                          /\ i > j + 1 => i > j
BY FuturesAssumption DEF Chain, NoFrame

(* Frames are numbered from 1. *)
LEMMA ChainNat == \A j \in Chain : j \in Nat /\ j >= 1
BY DEF Chain

(* Every step keeps the types. *)
LEMMA FuturesTypeStep ==
  ASSUME FuturesTypeOK, [FuturesNext]_futuresVars
  PROVE  FuturesTypeOK'
<1> USE DEF control, promiseVars, deferVars
<1>0. /\ <<>> \in Seq(Nat) /\ <<>> \in Seq(Chain) /\ 0 \in Nat
      /\ \A k \in Chain : /\ k \in Nat /\ (k < Depth => k + 1 \in Chain)
                          /\ produced[k] \in Nat /\ produced[k] + 1 \in Nat
                          /\ Append(received[k], produced[k] + 1) \in Seq(Nat)
                          /\ Append(received[k], 0) \in Seq(Nat)
                          /\ defers[k] \in Seq(Nat) /\ ran[k] \in Seq(Nat)
                          /\ ran[k] \o defers[k] \in Seq(Nat)
                          /\ <<Len(defers[k]) + 1>> \o defers[k] \in Seq(Nat)
                          /\ registered[k] + 1 \in Nat
                          /\ underlying[k] \in Chain \cup {NoFrame}
                          /\ <<k>> \in Seq(Chain)
                          /\ <<k>> \o unwinding \in Seq(Chain)
  <2>1. \A k \in Chain : /\ k \in Nat /\ (k < Depth => k + 1 \in Chain)
                         /\ produced[k] \in Nat /\ produced[k] + 1 \in Nat
                         /\ received[k] \in Seq(Nat) /\ defers[k] \in Seq(Nat) /\ ran[k] \in Seq(Nat)
                         /\ underlying[k] \in Chain \cup {NoFrame} /\ registered[k] + 1 \in Nat
    <3>1. \A k \in Chain : k \in Nat /\ (k < Depth => k + 1 \in Chain)
      BY ChainFacts
    <3>2. \A k \in Chain : /\ produced[k] \in Nat /\ registered[k] \in Nat
                           /\ received[k] \in Seq(Nat) /\ defers[k] \in Seq(Nat) /\ ran[k] \in Seq(Nat)
                           /\ underlying[k] \in Chain \cup {NoFrame}
      BY DEF FuturesTypeOK
    <3>3. QED
      BY <3>1, <3>2
  <2>a. \A k \in Chain : <<k>> \in Seq(Chain)
    OBVIOUS
  <2>2. \A s \in Seq(Nat), n \in Nat : Append(s, n) \in Seq(Nat) /\ Len(s) + 1 \in Nat /\ <<n>> \in Seq(Nat)
    OBVIOUS
  <2>3. \A s, t \in Seq(Nat) : s \o t \in Seq(Nat)
    OBVIOUS
  <2>4. \A s, t \in Seq(Chain) : s \o t \in Seq(Chain)
    OBVIOUS
  <2>5. unwinding \in Seq(Chain)
    BY DEF FuturesTypeOK
  <2>6. QED
    BY <2>1, <2>a, <2>2, <2>3, <2>4, <2>5
<1>1. ASSUME NEW k \in Chain, CallCoroutine(k) PROVE FuturesTypeOK'
  BY <1>0, <1>1 DEF CallCoroutine, FuturesTypeOK
<1>2. ASSUME NEW k \in Chain, AwaitReady(k) PROVE FuturesTypeOK'
  BY <1>0, <1>2 DEF AwaitReady, FuturesTypeOK
<1>3. ASSUME NEW k \in Chain, AwaitFuture(k) PROVE FuturesTypeOK'
  BY <1>0, <1>3 DEF AwaitFuture, Holds, FuturesTypeOK
<1>4. ASSUME NEW k \in Chain, CoYield(k) PROVE FuturesTypeOK'
  BY <1>0, <1>4 DEF CoYield, Deliver, FuturesTypeOK
<1>5. ASSUME NEW k \in Chain, CoReturn(k) PROVE FuturesTypeOK'
  BY <1>0, <1>5 DEF CoReturn, Deliver, Visited, FuturesTypeOK
<1>6. ASSUME NEW k \in Chain, DropFuture(k) PROVE FuturesTypeOK'
  BY <1>0, <1>6 DEF DropFuture, Dropped, FuturesTypeOK
<1>7. ASSUME NEW k \in Chain, ReplaceFuture(k) PROVE FuturesTypeOK'
  BY <1>0, <1>7 DEF ReplaceFuture, Holds, FuturesTypeOK
<1>8. ASSUME NEW k \in Chain, ForceCompletion(k) PROVE FuturesTypeOK'
  BY <1>0, <1>8 DEF ForceCompletion, Holds, FuturesTypeOK
<1>9. ASSUME NEW k \in Chain, DeferBlock(k) PROVE FuturesTypeOK'
  BY <1>0, <1>9 DEF DeferBlock, FuturesTypeOK
<1>10. ASSUME NEW k \in Chain, PurgeBlocks(k) PROVE FuturesTypeOK'
  BY <1>0, <1>10 DEF PurgeBlocks, FuturesTypeOK
<1>11. ASSUME NEW k \in Chain, Park(k) PROVE FuturesTypeOK'
  BY <1>0, <1>11 DEF Park, FuturesTypeOK
<1>12. CASE FinishFunction
  <2>1. ran[1] \o defers[1] \o AfterFinal(defers[1]) \in Seq(Nat)
    BY <1>0, ChainFacts DEF AfterFinal
  <2>2. QED
    BY <1>0, <1>12, <2>1 DEF FinishFunction, FuturesTypeOK
<1>13. CASE Unpark
  BY <1>13 DEF Unpark, FuturesTypeOK
<1>14. CASE DestroyParked
  BY <1>0, <1>14 DEF DestroyParked, FuturesTypeOK
<1>15. CASE Unwind
  <2>1. unwinding # <<>> /\ Head(unwinding) \in Chain /\ Tail(unwinding) \in Seq(Chain)
    <3>1. unwinding # <<>> /\ unwinding \in Seq(Chain)
      BY <1>15 DEF Unwind, FuturesTypeOK
    <3>2. QED
      BY <3>1
  <2>2. PICK k \in Chain : UnwindLocals(k) \/ UnwindPromise(k) \/ UnwindFree(k)
    BY <1>15, <2>1 DEF Unwind
  <2>3. CASE UnwindLocals(k)
    BY <1>0, <2>3 DEF UnwindLocals, Holds, FuturesTypeOK
  <2>4. CASE UnwindPromise(k)
    BY <1>0, <2>4 DEF UnwindPromise, PromiseDestroys, Deferred, FuturesTypeOK
  <2>5. CASE UnwindFree(k)
    BY <1>0, <2>1, <2>5 DEF UnwindFree, FuturesTypeOK
  <2>6. QED
    BY <2>2, <2>3, <2>4, <2>5
<1>16. CASE UNCHANGED futuresVars
  BY <1>16 DEF futuresVars, FuturesTypeOK
<1>17. QED
  BY <1>1, <1>2, <1>3, <1>4, <1>5, <1>6, <1>7, <1>8, <1>9, <1>10, <1>11, <1>12, <1>13, <1>14,
     <1>15, <1>16 DEF FuturesNext

(* Whoever executes is the end of an intact chain. *)
LEMMA ExecutesIntact ==
  ASSUME FramesInv, NEW k \in Chain, Executes(k)
  PROVE  /\ Intact(k) /\ frame[k] = "live"
         /\ running = k /\ parked = NoFrame /\ unwinding = <<>>
<1>1. k # NoFrame /\ running = k /\ unwinding = <<>>
  BY ChainFacts DEF Executes
<1>2. ~Replaces
  BY <1>1 DEF Replaces, DestroysChild
<1>3. Runs
  BY <1>1, <1>2 DEF FramesInv, Parks, Unwinds, Ended
<1>4. QED
  BY <1>1, <1>3, ChainFacts DEF Runs, Intact, Awaits

(* What types the steps use, without those of the histories. *)
LEMMA FrameTypes ==
  ASSUME FuturesTypeOK
  PROVE  /\ DOMAIN frame = Chain /\ DOMAIN held = Chain /\ DOMAIN state = Chain
         /\ DOMAIN underlying = Chain
         /\ \A j \in Chain : /\ held[j] \in BOOLEAN
                             /\ state[j] \in {"empty", "item", "complete"}
                             /\ underlying[j] \in Chain \cup {NoFrame}
BY DEF FuturesTypeOK

(* A step that changes the state of one frame, n, and takes futures only from
   frames that remain accounted for keeps HeldInv if n is in order. *)
LEMMA HeldElsewhere ==
  ASSUME HeldInv, NEW n \in Chain,
         \A j \in Chain : j # n => /\ frame'[j] = frame[j] /\ state'[j] = state[j]
                                   /\ held'[j] => held[j]
                                   /\ frame[j] = "final" =>
                                         held'[j] \/ (unwinding' # <<>> /\ unwinding'[1] = j),
         held'[n] => n > 1 /\ frame'[n - 1] = "live",
         held'[n] /\ state'[n] = "complete" => frame'[n] = "final",
         frame'[n] = "final" => /\ state'[n] = "complete" /\ n > 1
                                /\ held'[n] \/ (unwinding' # <<>> /\ unwinding'[1] = n),
         \A j \in Chain : j - 1 = n /\ held'[j] => frame'[n] = "live"
  PROVE  HeldInv'
<1>1. SUFFICES ASSUME NEW j \in Chain, j # n
               PROVE  /\ held'[j] => j > 1 /\ frame'[j - 1] = "live"
                      /\ held'[j] /\ state'[j] = "complete" => frame'[j] = "final"
                      /\ frame'[j] = "final" =>
                            /\ state'[j] = "complete" /\ j > 1
                            /\ held'[j] \/ (unwinding' # <<>> /\ unwinding'[1] = j)
  BY DEF HeldInv
<1>2. /\ held[j] => j > 1 /\ frame[j - 1] = "live" /\ j - 1 \in Chain
      /\ held[j] /\ state[j] = "complete" => frame[j] = "final"
      /\ frame[j] = "final" => state[j] = "complete" /\ j > 1
  BY ChainFacts DEF HeldInv
<1>3. held'[j] => frame'[j - 1] = "live"
  BY <1>1, <1>2
<1>4. QED
  BY <1>1, <1>2, <1>3

-----------------------------------------------------------------------------
(***************************************************************************)
(* The frames: one lemma for each step that changes them.                  *)
(***************************************************************************)

(* Calling a coroutine. *)
LEMMA CallStep ==
  ASSUME FramesInv, NEW k \in Chain, CallCoroutine(k)
  PROVE  HeldInv' /\ Runs'
<1>1. /\ Intact(k) /\ frame[k] = "live" /\ k + 1 \in Chain
      /\ running = k /\ parked = NoFrame /\ unwinding = <<>>
  BY ExecutesIntact, ChainFacts DEF CallCoroutine
<1>2. FuturesTypeOK /\ HeldInv
  BY DEF FramesInv
<1>3. /\ \A j \in Chain : /\ frame'[j] = IF j = k + 1 THEN "live" ELSE frame[j]
                          /\ held'[j] = IF j = k + 1 THEN TRUE ELSE held[j]
                          /\ state'[j] = IF j = k + 1 THEN "empty" ELSE state[j]
      /\ underlying' = underlying /\ running' = k /\ parked' = NoFrame /\ unwinding' = <<>>
  BY <1>1, <1>2, FrameTypes DEF CallCoroutine, control
<1>4. HeldInv'
  <2>1. /\ frame[k + 1] # "final" /\ frame[k + 1] # "live"
        /\ \A j \in Chain : j # k + 1 => /\ frame'[j] = frame[j] /\ state'[j] = state[j]
                                         /\ held'[j] = held[j]
                                         /\ frame[j] = "final" => held[j]
    BY <1>1, <1>2, <1>3 DEF CallCoroutine, HeldInv
  <2>2. /\ (k + 1) - 1 = k /\ k + 1 > 1 /\ frame'[k] = "live" /\ state'[k + 1] = "empty"
        /\ frame'[k + 1] = "live"
    BY <1>1, <1>3, ChainFacts
  <2>3. QED
    BY <1>1, <1>2, <2>1, <2>2, HeldElsewhere
<1>5. Intact(k)'
  <2>1. Awaits(k)'
    BY <1>1, <1>3, ChainFacts DEF Intact, Awaits, Linked
  <2>2. Beyond(k)'
    BY <1>1, <1>3 DEF Intact, Beyond
  <2>3. QED
    BY <1>1, <1>3, <2>1, <2>2 DEF Intact
<1>6. QED
  BY <1>3, <1>4, <1>5, ChainFacts DEF Runs

(* Awaiting a future. *)
LEMMA AwaitFutureStep ==
  ASSUME FramesInv, NEW k \in Chain, AwaitFuture(k)
  PROVE  HeldInv' /\ Runs'
<1>1. /\ Intact(k) /\ frame[k] = "live" /\ k + 1 \in Chain /\ held[k + 1]
      /\ running = k /\ parked = NoFrame /\ unwinding = <<>>
  BY ExecutesIntact, ChainFacts DEF AwaitFuture, Holds
<1>2. FuturesTypeOK /\ HeldInv
  BY DEF FramesInv
<1>3. /\ \A j \in Chain : /\ state'[j] = IF j = k + 1 THEN "empty" ELSE state[j]
                          /\ underlying'[j] = IF j = k + 1 THEN k ELSE underlying[j]
      /\ frame' = frame /\ held' = held
      /\ running' = k + 1 /\ parked' = NoFrame /\ unwinding' = <<>>
  BY <1>1, <1>2, FrameTypes DEF AwaitFuture
<1>4. frame[k + 1] = "live"
  <2>1. state[k + 1] # "complete"
    BY <1>1, <1>2, FrameTypes DEF AwaitFuture, Prepare
  <2>2. frame[k + 1] # "final"
    BY <1>1, <1>2, <2>1 DEF HeldInv
  <2>3. k + 1 > k
    BY ChainNat
  <2>4. QED
    BY <1>1, <2>2, <2>3 DEF Intact, Beyond
<1>5. HeldInv'
  <2>1. \A j \in Chain : j # k + 1 => /\ frame'[j] = frame[j] /\ state'[j] = state[j]
                                      /\ held'[j] = held[j]
                                      /\ frame[j] = "final" => held[j]
    BY <1>1, <1>2, <1>3 DEF HeldInv
  <2>2. /\ (k + 1) - 1 = k /\ k + 1 > 1 /\ frame'[k] = "live" /\ state'[k + 1] = "empty"
        /\ frame'[k + 1] = "live"
    BY <1>1, <1>3, <1>4, ChainFacts
  <2>3. QED
    BY <1>1, <1>2, <2>1, <2>2, HeldElsewhere
<1>6. Intact(k + 1)'
  <2>1. \A j \in Chain : j <= k + 1 => j <= k \/ j = k + 1
    BY ChainFacts
  <2>2. Awaits(k + 1)'
    <3>1. \A j \in Chain : j <= k + 1 => frame'[j] = "live"
      BY <1>1, <1>3, <1>4, <2>1 DEF Intact, Awaits
    <3>2. ASSUME NEW j \in Chain, 1 < j, j <= k + 1
          PROVE  held'[j] /\ underlying'[j] = j - 1 /\ state'[j] = "empty"
      <4>1. CASE j = k + 1
        BY <1>1, <1>3, <4>1, ChainFacts
      <4>2. CASE j <= k
        BY <1>1, <1>3, <3>2, <4>2, ChainNat DEF Intact, Awaits, Linked
      <4>3. QED
        BY <2>1, <3>2, <4>1, <4>2
    <3>3. QED
      BY <3>1, <3>2 DEF Awaits, Linked
  <2>3. Beyond(k + 1)'
    <3>1. \A j \in Chain : j > k + 1 => j > k /\ j # k + 1
      BY ChainFacts
    <3>2. QED
      BY <1>1, <1>3, <3>1 DEF Intact, Beyond
  <2>4. underlying'[1] = NoFrame
    BY <1>1, <1>3, ChainFacts DEF Intact
  <2>5. QED
    BY <1>1, <2>2, <2>3, <2>4 DEF Intact
<1>7. QED
  BY <1>1, <1>3, <1>5, <1>6, ChainFacts DEF Runs

(* A coroutine whose promise has an item or the result hands over to the one
   that awaits it. *)
LEMMA DeliverStep ==
  ASSUME FramesInv, NEW k \in Chain, NEW s \in {"item", "complete"}, Executes(k), k > 1,
         Deliver(k, s), UNCHANGED <<held, parked, unwinding>>,
         \/ s = "item" /\ frame' = frame
         \/ s = "complete" /\ ~Holds(k) /\ frame' = [frame EXCEPT ![k] = "final"]
  PROVE  HeldInv' /\ Runs'
<1>1. /\ Intact(k) /\ frame[k] = "live" /\ k - 1 \in Chain
      /\ running = k /\ parked = NoFrame /\ unwinding = <<>>
  BY ExecutesIntact, ChainFacts
<1>2. FuturesTypeOK /\ HeldInv
  BY DEF FramesInv
<1>3. held[k] /\ underlying[k] = k - 1 /\ k - 1 # k /\ k - 1 # k + 1 /\ 1 # k
  BY <1>1, ChainNat DEF Intact, Awaits, Linked
<1>4. /\ \A j \in Chain : /\ state'[j] = IF j = k THEN s ELSE state[j]
                          /\ underlying'[j] = IF j = k THEN NoFrame ELSE underlying[j]
                          /\ j # k => frame'[j] = frame[j]
      /\ frame'[k] = IF s = "complete" THEN "final" ELSE "live"
      /\ held' = held
      /\ running' = k - 1 /\ parked' = NoFrame /\ unwinding' = <<>>
  BY <1>1, <1>2, <1>3, FrameTypes DEF Deliver
<1>5. HeldInv'
  <2>1. \A j \in Chain : j # k => /\ frame'[j] = frame[j] /\ state'[j] = state[j]
                                  /\ held'[j] = held[j]
                                  /\ frame[j] = "final" => held[j]
    BY <1>1, <1>2, <1>4 DEF HeldInv
  <2>2. k > 1 /\ frame'[k - 1] = "live"
    BY <1>1, <1>2, <1>3, <1>4 DEF HeldInv
  <2>3. /\ state'[k] = "complete" => frame'[k] = "final"
        /\ frame'[k] = "final" => state'[k] = "complete"
    BY <1>4
  <2>4. \A j \in Chain : j - 1 = k /\ held'[j] => frame'[k] = "live"
    <3>1. \A j \in Chain : j - 1 = k => j = k + 1 /\ k < Depth
      BY ChainFacts
    <3>2. s = "complete" => ~(k < Depth /\ held[k + 1])
      BY DEF Holds
    <3>3. QED
      BY <1>4, <3>1, <3>2
  <2>5. QED
    BY <1>2, <1>3, <1>4, <2>1, <2>2, <2>3, <2>4, HeldElsewhere
<1>6. Intact(k - 1)'
  <2>1. \A j \in Chain : j <= k - 1 => j <= k /\ j # k
    BY ChainNat
  <2>2. Awaits(k - 1)'
    BY <1>1, <1>4, <2>1 DEF Intact, Awaits, Linked
  <2>3. \A j \in Chain : j > k - 1 => j > k \/ j = k
    BY ChainNat
  <2>4. Beyond(k - 1)'
    BY <1>1, <1>4, <2>3 DEF Intact, Beyond
  <2>5. QED
    BY <1>1, <1>3, <1>4, <2>2, <2>4, ChainFacts DEF Intact
<1>7. QED
  BY <1>1, <1>4, <1>5, <1>6, ChainFacts DEF Runs

(* Dropping a future. *)
LEMMA DropStep ==
  ASSUME FramesInv, NEW k \in Chain, DropFuture(k)
  PROVE  HeldInv' /\ Runs'
<1>1. /\ Intact(k) /\ frame[k] = "live" /\ k + 1 \in Chain /\ held[k + 1]
      /\ running = k /\ parked = NoFrame /\ unwinding = <<>>
  BY ExecutesIntact, ChainFacts DEF DropFuture, Holds
<1>2. FuturesTypeOK /\ HeldInv
  BY DEF FramesInv
<1>3. /\ \A j \in Chain : /\ held'[j] = IF j = k + 1 THEN FALSE ELSE held[j]
                          /\ j # k + 1 => frame'[j] = frame[j]
      /\ frame'[k + 1] = IF state[k + 1] = "complete" THEN "freed" ELSE frame[k + 1]
      /\ state' = state /\ underlying' = underlying
      /\ running' = k /\ parked' = NoFrame /\ unwinding' = <<>>
  BY <1>1, <1>2, FrameTypes DEF DropFuture, Dropped, promiseVars, control
<1>4. /\ state[k + 1] = "complete" => frame[k + 1] = "final"
      /\ frame[k + 1] \in {"live", "final"}
      /\ frame[k + 1] = "final" => state[k + 1] = "complete"
  <2>1. k + 1 > k
    BY ChainNat
  <2>2. QED
    BY <1>1, <1>2, <2>1 DEF HeldInv, Intact, Beyond
<1>5. HeldInv'
  <2>1. \A j \in Chain : j # k + 1 => /\ frame'[j] = frame[j] /\ state'[j] = state[j]
                                      /\ held'[j] = held[j]
                                      /\ frame[j] = "final" => held[j]
    BY <1>1, <1>2, <1>3 DEF HeldInv
  <2>2. ~held'[k + 1] /\ frame'[k + 1] # "final"
    BY <1>1, <1>3, <1>4
  <2>3. \A j \in Chain : j - 1 = k + 1 /\ held'[j] => frame'[k + 1] = "live"
    <3>1. \A j \in Chain : j - 1 = k + 1 /\ held[j] => frame[k + 1] = "live" /\ j # k + 1
      BY <1>2, <1>1, ChainFacts DEF HeldInv
    <3>2. QED
      BY <1>1, <1>3, <1>4, <3>1
  <2>4. QED
    BY <1>1, <1>2, <2>1, <2>2, <2>3, HeldElsewhere
<1>6. Intact(k)'
  <2>1. Awaits(k)'
    BY <1>1, <1>3, ChainFacts DEF Intact, Awaits, Linked
  <2>2. Beyond(k)'
    BY <1>1, <1>3 DEF Intact, Beyond
  <2>3. QED
    BY <1>1, <1>3, <2>1, <2>2 DEF Intact
<1>7. QED
  BY <1>3, <1>5, <1>6, ChainFacts DEF Runs

(* Assigning to a future. *)
LEMMA ReplaceStep ==
  ASSUME FramesInv, NEW k \in Chain, ReplaceFuture(k) \/ ForceCompletion(k)
  PROVE  HeldInv' /\ Replaces'
<1>1. /\ Intact(k) /\ frame[k] = "live" /\ k + 1 \in Chain /\ held[k + 1]
      /\ running = k /\ parked = NoFrame /\ unwinding = <<>>
  BY ExecutesIntact, ChainFacts DEF ReplaceFuture, ForceCompletion, Holds
<1>2. FuturesTypeOK /\ HeldInv
  BY DEF FramesInv
<1>3. /\ \A j \in Chain : /\ held'[j] = IF j = k + 1 THEN FALSE ELSE held[j]
                          /\ j # k + 1 => state'[j] = state[j]
      /\ state'[k + 1] \in {state[k + 1], "complete"}
      /\ frame' = frame /\ underlying' = underlying
      /\ running' = k /\ parked' = NoFrame /\ unwinding' = <<k + 1>>
  BY <1>1, <1>2, FrameTypes DEF ReplaceFuture, ForceCompletion, promiseVars
<1>4. unwinding' # <<>> /\ unwinding'[1] = k + 1
  BY <1>3
<1>5. /\ frame[k + 1] \in {"live", "final"}
      /\ frame[k + 1] = "final" => state[k + 1] = "complete"
  <2>1. k + 1 > k
    BY ChainNat
  <2>2. QED
    BY <1>1, <1>2, <2>1 DEF HeldInv, Intact, Beyond
<1>6. HeldInv'
  <2>1. \A j \in Chain : j # k + 1 => /\ frame'[j] = frame[j] /\ state'[j] = state[j]
                                      /\ held'[j] = held[j]
                                      /\ frame[j] = "final" => held[j]
    BY <1>1, <1>2, <1>3 DEF HeldInv
  <2>2. ~held'[k + 1] /\ k + 1 > 1 /\ (frame'[k + 1] = "final" => state'[k + 1] = "complete")
    BY <1>1, <1>3, <1>5, ChainFacts
  <2>3. \A j \in Chain : j - 1 = k + 1 /\ held'[j] => frame'[k + 1] = "live"
    <3>1. \A j \in Chain : j - 1 = k + 1 /\ held[j] => frame[k + 1] = "live" /\ j # k + 1
      BY <1>2, <1>1, ChainFacts DEF HeldInv
    <3>2. QED
      BY <1>1, <1>3, <1>5, <3>1
  <2>4. QED
    BY <1>1, <1>2, <1>4, <2>1, <2>2, <2>3, HeldElsewhere
<1>7. Intact(k)'
  <2>1. Awaits(k)'
    BY <1>1, <1>3, ChainFacts DEF Intact, Awaits, Linked
  <2>2. Beyond(k)'
    BY <1>1, <1>3 DEF Intact, Beyond
  <2>3. QED
    BY <1>1, <1>3, <2>1, <2>2 DEF Intact
<1>8. QED
  BY <1>1, <1>3, <1>5, <1>6, <1>7, ChainFacts DEF Replaces

(* Steps that touch no frame, no future and no promise but its histories. *)
LEMMA StillStep ==
  ASSUME FramesInv, UNCHANGED <<kind, frame, held, underlying, state, running, parked, unwinding>>
  PROVE  HeldInv' /\ (Runs \/ Parks \/ Replaces \/ Unwinds \/ Ended)'
<1>1. HeldInv'
  BY DEF FramesInv, HeldInv
<1>2. \A c : (Intact(c) => Intact(c)') /\ (DestroysChild(c) => DestroysChild(c)')
  BY DEF Intact, Awaits, Linked, Beyond, DestroysChild
<1>3. /\ Runs => Runs'
      /\ Parks => Parks'
      /\ Replaces => Replaces'
      /\ Ended => Ended'
  BY <1>2 DEF Runs, Parks, Replaces, Ended
<1>4. \A c \in Chain : UnwindsLeaf(c) => UnwindsLeaf(c)'
  BY <1>2 DEF UnwindsLeaf, Linked, Beyond
<1>5. \A c, m \in Chain : UnwindsChain(m, c) => UnwindsChain(m, c)'
  BY DEF UnwindsChain, Linked, Beyond
<1>6. Unwinds => Unwinds'
  BY <1>4, <1>5 DEF Unwinds
<1>7. QED
  BY <1>1, <1>3, <1>6 DEF FramesInv

(* Coming to the end of a coroutine. *)
LEMMA FinishStep ==
  ASSUME FramesInv, FinishFunction
  PROVE  HeldInv' /\ Ended'
<1>1. /\ 1 \in Chain /\ Intact(1) /\ frame[1] = "live"
      /\ running = 1 /\ parked = NoFrame /\ unwinding = <<>>
  BY ExecutesIntact, ChainFacts DEF FinishFunction
<1>2. FuturesTypeOK /\ HeldInv
  BY DEF FramesInv
<1>3. /\ \A j \in Chain : frame'[j] = IF j = 1 THEN "freed" ELSE frame[j]
      /\ held' = held /\ state' = state
      /\ running' = NoFrame /\ parked' = NoFrame /\ unwinding' = <<>>
  BY <1>1, <1>2, FrameTypes DEF FinishFunction, promiseVars
<1>4. HeldInv'
  <2>1. \A j \in Chain : j # 1 => /\ frame'[j] = frame[j] /\ state'[j] = state[j]
                                  /\ held'[j] = held[j]
                                  /\ frame[j] = "final" => held[j]
    BY <1>1, <1>2, <1>3 DEF HeldInv
  <2>2. ~held'[1] /\ frame'[1] # "final"
    BY <1>1, <1>2, <1>3 DEF HeldInv
  <2>3. \A j \in Chain : j - 1 = 1 => ~held'[j]
    <3>1. \A j \in Chain : j - 1 = 1 => j = 1 + 1 /\ 1 < Depth
      BY FuturesAssumption DEF Chain
    <3>2. QED
      BY <1>3, <3>1 DEF FinishFunction, Holds
  <2>4. PICK n \in Chain : n = 1
    BY <1>1
  <2>5. /\ \A j \in Chain : j # n => /\ frame'[j] = frame[j] /\ state'[j] = state[j]
                                     /\ held'[j] = held[j]
                                     /\ frame[j] = "final" => held[j]
        /\ ~held'[n] /\ frame'[n] # "final"
        /\ \A j \in Chain : j - 1 = n => ~held'[j]
    BY <2>1, <2>2, <2>3, <2>4
  <2>6. QED
    BY <1>2, <2>5, HeldElsewhere
<1>5. QED
  BY <1>1, <1>3, <1>4 DEF Ended

(* Who waits in an event loop is the end of an intact chain too. *)
LEMMA ParkedIntact ==
  ASSUME FramesInv, parked # NoFrame
  PROVE  Intact(parked) /\ running = NoFrame /\ unwinding = <<>>
BY DEF FramesInv, Runs, Parks, Replaces, Unwinds, Ended

(* Suspending in an event loop, and being resumed by it. *)
LEMMA ParkSteps ==
  ASSUME FramesInv, Unpark \/ \E k \in Chain : Park(k)
  PROVE  HeldInv' /\ (Runs \/ Parks)'
<1>1. /\ UNCHANGED <<kind, frame, held, underlying, state, unwinding>>
  BY DEF Unpark, Park, promiseVars
<1>2. HeldInv'
  BY <1>1 DEF FramesInv, HeldInv
<1>3. \A c : Intact(c) => Intact(c)'
  BY <1>1 DEF Intact, Awaits, Linked, Beyond
<1>4. CASE Unpark
  BY <1>1, <1>2, <1>3, <1>4, ParkedIntact DEF Unpark, Runs
<1>5. ASSUME NEW k \in Chain, Park(k)
      PROVE  Parks'
  <2>1. Intact(k) /\ unwinding = <<>> /\ k # NoFrame
    BY <1>5, ExecutesIntact, ChainFacts DEF Park
  <2>2. QED
    BY <1>1, <1>3, <1>5, <2>1 DEF Park, Parks
<1>6. QED
  BY <1>2, <1>4, <1>5

(* The frames m to c, the awaiting ones first. *)
LEMMA Ascending ==
  ASSUME NEW m \in Chain, NEW c \in Chain, m <= c
  PROVE  /\ Head(UpTo(m, c)) = m /\ UpTo(m, c)[1] = m
         /\ UpTo(c, c) = <<c>>
         /\ m < c => Tail(UpTo(m, c)) = UpTo(m + 1, c)
         /\ m > 1 => <<m - 1>> \o UpTo(m, c) = UpTo(m - 1, c)
<1>1. m \in Nat /\ c \in Nat /\ m >= 1
  BY ChainNat
<1>2. PICK u : u = [i \in 1..(c - m + 1) |-> m + i - 1]
  OBVIOUS
<1>3. u \in Seq(Nat) /\ Len(u) = c - m + 1 /\ u # <<>> /\ u[1] = m /\ Head(u) = m
  BY <1>1, <1>2
<1>4. <<c>> = [i \in 1..(c - c + 1) |-> c + i - 1]
  BY <1>1
<1>5. m < c => Tail(u) = [i \in 1..(c - (m + 1) + 1) |-> (m + 1) + i - 1]
  BY <1>1, <1>2, <1>3
<1>6. m > 1 => <<m - 1>> \o u = [i \in 1..(c - (m - 1) + 1) |-> (m - 1) + i - 1]
  BY <1>1, <1>2, <1>3
<1>7. QED
  BY <1>2, <1>3, <1>4, <1>5, <1>6, Zenon DEF UpTo

(* The event loop destroys what it holds. *)
LEMMA DestroyParkedStep ==
  ASSUME FramesInv, DestroyParked
  PROVE  HeldInv' /\ Unwinds'
<1>1. /\ Intact(parked) /\ running = NoFrame /\ unwinding = <<>> /\ parked \in Chain
  BY ParkedIntact DEF DestroyParked, Intact
<1>2. PICK c \in Chain : c = parked
  BY <1>1
<1>3. /\ UNCHANGED <<kind, frame, held, underlying, state>>
      /\ running' = NoFrame /\ parked' = NoFrame /\ unwinding' = <<c>>
  BY <1>1, <1>2 DEF DestroyParked, promiseVars
<1>4. HeldInv'
  <2>1. HeldInv
    BY DEF FramesInv
  <2>2. QED
    BY <1>1, <1>3, <2>1 DEF HeldInv
<1>5. UnwindsChain(c, c)'
  <2>1. c \in Nat /\ c <= c /\ (\A j \in Chain : j < c => j <= c) /\ \A j \in Chain : ~(c < j /\ j <= c)
    BY ChainNat
  <2>2. <<c>> = UpTo(c, c)
    BY <2>1, Ascending
  <2>3. frame[c] = "live" /\ Linked(c)' /\ Beyond(c)' /\ underlying'[1] = NoFrame
    BY <1>1, <1>2, <1>3, <2>1 DEF Intact, Awaits, Linked, Beyond
  <2>4. \A j \in Chain : j < c => frame'[j] = "live"
    BY <1>1, <1>2, <1>3, <2>1 DEF Intact, Awaits
  <2>5. QED
    BY <1>3, <2>1, <2>2, <2>3, <2>4 DEF UnwindsChain
<1>6. QED
  BY <1>3, <1>4, <1>5 DEF Unwinds

-----------------------------------------------------------------------------
(***************************************************************************)
(* Unwinding.                                                              *)
(***************************************************************************)

(* While frames are destroyed, the first of them is either the next one of
   the coroutine that executes, or of the one that waited, or belongs to the
   chain of those that awaited it. *)
LEMMA UnwindModes ==
  ASSUME FramesInv, unwinding # <<>>
  PROVE  Replaces \/ Unwinds
BY DEF FramesInv, Runs, Parks, Ended

(* Sequences of two. *)
LEMMA Pairs ==
  ASSUME NEW a \in Nat, NEW b \in Nat
  PROVE  /\ Head(<<a, b>>) = a /\ Tail(<<a, b>>) = <<b>> /\ <<a>> \o <<b>> = <<a, b>>
<1>1. Head(<<a, b>>) = a
  OBVIOUS
<1>2. Tail(<<a, b>>) = <<b>>
  <2>1. /\ Tail(<<a, b>>) \in Seq(Nat) /\ Len(Tail(<<a, b>>)) = 1 /\ Tail(<<a, b>>)[1] = b
    OBVIOUS
  <2>2. QED
    BY <2>1
<1>3. <<a>> \o <<b>> = <<a, b>>
  <2>1. PICK s : s = <<a>> \o <<b>>
    OBVIOUS
  <2>2. s \in Seq(Nat) /\ Len(s) = 2 /\ s[1] = a /\ s[2] = b
    BY <2>1
  <2>3. s = <<a, b>>
    BY <2>2
  <2>4. QED
    BY <2>1, <2>3
<1>4. QED
  BY <1>1, <1>2, <1>3

(* A child that is destroyed by its holder is no longer held. *)
LEMMA ChildFirst ==
  ASSUME NEW c, DestroysChild(c)
  PROVE  /\ Head(unwinding) = unwinding[1] /\ unwinding[1] \in Chain
         /\ frame[unwinding[1]] = "final" => ~held[unwinding[1]]
<1>1. Head(unwinding) = c + 1 /\ unwinding[1] = c + 1
  <2>1. unwinding = <<c + 1, c>>
    BY DEF DestroysChild
  <2>2. QED
    BY <2>1
<1>2. QED
  BY <1>1 DEF DestroysChild

(* The frame that is being unwound is not held any more once it is final. *)
LEMMA HeadFacts ==
  ASSUME FramesInv, unwinding # <<>>
  PROVE  /\ Head(unwinding) = unwinding[1] /\ unwinding[1] \in Chain
         /\ frame[unwinding[1]] = "final" => ~held[unwinding[1]]
<1>1. CASE Replaces
  <2>1. CASE unwinding = <<running + 1>>
    <3>1. Head(unwinding) = running + 1 /\ unwinding[1] = running + 1
      BY <2>1
    <3>2. QED
      BY <1>1, <3>1 DEF Replaces
  <2>2. CASE DestroysChild(running + 1)
    BY <2>2, ChildFirst
  <2>3. QED
    BY <1>1, <2>1, <2>2 DEF Replaces
<1>2. ASSUME NEW c \in Chain, UnwindsLeaf(c)
      PROVE  /\ Head(unwinding) = unwinding[1] /\ unwinding[1] \in Chain
             /\ frame[unwinding[1]] = "final" => ~held[unwinding[1]]
  BY <1>2, ChildFirst DEF UnwindsLeaf
<1>3. ASSUME NEW c \in Chain, NEW m \in Chain, UnwindsChain(m, c)
      PROVE  /\ Head(unwinding) = unwinding[1] /\ unwinding[1] \in Chain
             /\ frame[unwinding[1]] = "final" => ~held[unwinding[1]]
  <2>1. Head(unwinding) = m /\ unwinding[1] = m
    BY <1>3, Ascending DEF UnwindsChain
  <2>2. frame[m] # "final"
    BY <1>3 DEF UnwindsChain
  <2>3. QED
    BY <2>1, <2>2
<1>4. QED
  BY <1>1, <1>2, <1>3, UnwindModes DEF Unwinds

(* What the destruction of the locals of k does. *)
LEMMA LocalsFacts ==
  ASSUME FramesInv, NEW k \in Chain, UnwindLocals(k)
  PROVE  /\ \A j \in Chain : /\ frame'[j] = IF j = k THEN "locals gone" ELSE frame[j]
                             /\ held'[j] = IF j = k + 1 THEN FALSE ELSE held[j]
         /\ state' = state /\ underlying' = underlying /\ kind' = kind
         /\ running' = running /\ parked' = parked
         /\ frame[k] \in {"live", "final"}
         /\ k + 1 \in Chain /\ held[k + 1] /\ state[k + 1] = "complete" =>
               unwinding' = <<k + 1>> \o unwinding
         /\ ~(k + 1 \in Chain /\ held[k + 1] /\ state[k + 1] = "complete") =>
               unwinding' = unwinding
<1>1. FuturesTypeOK /\ (k < Depth <=> k + 1 \in Chain)
  BY ChainFacts DEF FramesInv
<1>2. \A j \in Chain : frame'[j] = IF j = k THEN "locals gone" ELSE frame[j]
  BY <1>1, FrameTypes DEF UnwindLocals
<1>3. \A j \in Chain : held'[j] = IF j = k + 1 THEN FALSE ELSE held[j]
  BY <1>1, FrameTypes DEF UnwindLocals
<1>4. QED
  BY <1>1, <1>2, <1>3 DEF UnwindLocals, Holds, FutureDestroys, promiseVars

(* Destroying the locals of a frame keeps what is said of who is held. *)
LEMMA LocalsHeld ==
  ASSUME FramesInv, unwinding # <<>>, NEW k \in Chain, k = Head(unwinding), UnwindLocals(k)
  PROVE  HeldInv'
<1>1. /\ k = unwinding[1] /\ (frame[k] = "final" => ~held[k])
      /\ FuturesTypeOK /\ HeldInv /\ unwinding \in Seq(Chain)
  BY HeadFacts DEF FramesInv, FuturesTypeOK
<1>2. /\ k # k + 1 /\ k + 1 > 1 /\ (k + 1) - 1 = k
      /\ \A j \in Chain : j - 1 = k => j = k + 1
  BY ChainNat
<1>3. \A j \in Chain : j # k => /\ frame'[j] = frame[j] /\ state'[j] = state[j]
                                /\ held'[j] => held[j]
  BY LocalsFacts
<1>4. ASSUME NEW j \in Chain, j # k, frame[j] = "final"
      PROVE  held'[j] \/ (unwinding' # <<>> /\ unwinding'[1] = j)
  <2>1. held[j] /\ state[j] = "complete"
    BY <1>1, <1>4 DEF HeldInv
  <2>2. CASE j = k + 1
    <3>1. unwinding' = <<k + 1>> \o unwinding
      BY <2>1, <2>2, LocalsFacts
    <3>2. QED
      BY <1>1, <2>2, <3>1
  <2>3. CASE j # k + 1
    BY <2>1, <2>3, LocalsFacts
  <2>4. QED
    BY <2>2, <2>3
<1>5. /\ frame'[k] = "locals gone" /\ held'[k] = held[k] /\ state'[k] = state[k]
      /\ frame[k] \in {"live", "final"}
  BY <1>2, LocalsFacts
<1>6. held'[k] => k > 1 /\ frame'[k - 1] = "live"
  <2>1. held[k] => k > 1 /\ frame[k - 1] = "live" /\ k - 1 \in Chain /\ k - 1 # k
    BY <1>1, ChainFacts, ChainNat DEF HeldInv
  <2>2. QED
    BY <1>3, <1>5, <2>1
<1>7. ~(held'[k] /\ state'[k] = "complete")
  <2>1. held[k] /\ state[k] = "complete" => frame[k] = "final"
    BY <1>1 DEF HeldInv
  <2>2. QED
    BY <1>1, <1>5, <2>1
<1>8. \A j \in Chain : j - 1 = k => ~held'[j]
  BY <1>2, LocalsFacts
<1>9. QED
  BY <1>1, <1>3, <1>4, <1>5, <1>6, <1>7, <1>8, HeldElsewhere

(* What the destruction of the promise of k does. *)
LEMMA PromiseFacts ==
  ASSUME FramesInv, NEW k \in Chain, UnwindPromise(k)
  PROVE  /\ \A j \in Chain : frame'[j] = IF j = k THEN "promise gone" ELSE frame[j]
         /\ held' = held /\ state' = state /\ underlying' = underlying /\ kind' = kind
         /\ running' = running /\ parked' = parked
         /\ frame[k] = "locals gone"
         /\ underlying[k] # NoFrame /\ kind[k] # "reusable_void" =>
               unwinding' = <<underlying[k]>> \o unwinding
         /\ ~(underlying[k] # NoFrame /\ kind[k] # "reusable_void") => unwinding' = unwinding
<1>1. FuturesTypeOK
  BY DEF FramesInv
<1>2. QED
  BY <1>1, FrameTypes DEF UnwindPromise, PromiseDestroys, promiseVars

(* What freeing k does. *)
LEMMA FreeFacts ==
  ASSUME FramesInv, NEW k \in Chain, UnwindFree(k)
  PROVE  /\ \A j \in Chain : /\ frame'[j] = IF j = k THEN "freed" ELSE frame[j]
                             /\ underlying'[j] = IF j = k THEN NoFrame ELSE underlying[j]
         /\ held' = held /\ state' = state /\ kind' = kind
         /\ running' = running /\ parked' = parked
         /\ frame[k] = "promise gone"
         /\ unwinding' = Tail(unwinding)
<1>1. FuturesTypeOK
  BY DEF FramesInv
<1>2. QED
  BY <1>1, FrameTypes DEF UnwindFree

(* Destroying the promise and freeing the memory keep it too. *)
LEMMA PromiseOrFreeHeld ==
  ASSUME FramesInv, unwinding # <<>>, NEW k \in Chain, k = Head(unwinding),
         UnwindPromise(k) \/ UnwindFree(k)
  PROVE  HeldInv'
<1>1. /\ k = unwinding[1] /\ HeldInv
  BY HeadFacts DEF FramesInv
<1>2. /\ \A j \in Chain : j # k => frame'[j] = frame[j]
      /\ held' = held /\ state' = state
      /\ frame'[k] \in {"promise gone", "freed"}
      /\ frame[k] \in {"locals gone", "promise gone"}
  BY PromiseFacts, FreeFacts
<1>3. \A j \in Chain : j # k /\ frame[j] = "final" => held[j]
  BY <1>1 DEF HeldInv
<1>4. held'[k] => k > 1 /\ frame'[k - 1] = "live"
  <2>1. held[k] => k > 1 /\ frame[k - 1] = "live" /\ k - 1 \in Chain /\ k - 1 # k
    BY <1>1, ChainFacts, ChainNat DEF HeldInv
  <2>2. QED
    BY <1>2, <2>1
<1>5. ~(held'[k] /\ state'[k] = "complete")
  BY <1>1, <1>2 DEF HeldInv
<1>6. \A j \in Chain : j - 1 = k => ~held'[j]
  BY <1>1, <1>2 DEF HeldInv
<1>7. QED
  BY <1>1, <1>2, <1>3, <1>4, <1>5, <1>6, HeldElsewhere

(* Unwinding the next frame of the coroutine that executes. *)
LEMMA ReplacesUnwind ==
  ASSUME FramesInv, Replaces, NEW k \in Chain, unwinding # <<>>, k = Head(unwinding),
         UnwindLocals(k) \/ UnwindPromise(k) \/ UnwindFree(k)
  PROVE  (Runs \/ Replaces)'
<1>1. PICK r \in Chain : r = running
  BY DEF Replaces, Intact
<1>2. /\ Intact(r) /\ r + 1 \in Chain /\ ~held[r + 1] /\ r # NoFrame
      /\ running = r /\ parked = NoFrame
  BY <1>1 DEF Replaces
<1>3. /\ r < r + 1 /\ r + 1 < (r + 1) + 1 /\ r # r + 1 /\ r < (r + 1) + 1
      /\ \A j \in Chain : j <= r => j # r + 1 /\ j # (r + 1) + 1
  BY ChainNat
<1>4. ASSUME NEW n \in Chain, n \in {r + 1, (r + 1) + 1},
             \A j \in Chain : j # n => frame'[j] = frame[j],
             \A j \in Chain : held'[j] => held[j] /\ j # n,
             \A j \in Chain : j <= r => held'[j] = held[j],
             state' = state,
             underlying' = underlying \/ UnwindFree(n)
      PROVE  Intact(r)'
  <2>1. \A j \in Chain : underlying[j] = NoFrame => underlying'[j] = NoFrame
    BY <1>4, FreeFacts
  <2>2. \A j \in Chain : j <= r => /\ frame'[j] = frame[j] /\ held'[j] = held[j]
                                   /\ underlying'[j] = underlying[j] /\ state'[j] = state[j]
    BY <1>3, <1>4, FreeFacts
  <2>3. Awaits(r)'
    BY <1>2, <2>2 DEF Intact, Awaits, Linked
  <2>4. Beyond(r)'
    BY <1>2, <1>4, <2>1 DEF Intact, Beyond
  <2>5. QED
    BY <1>2, <2>1, <2>3, <2>4, ChainFacts DEF Intact
<1>5. HeldInv
  BY DEF FramesInv
<1>6. CASE unwinding = <<r + 1>>
  <2>1. k = r + 1 /\ Tail(unwinding) = <<>>
    BY <1>6
  <2>2. underlying[k] = NoFrame
    BY <1>2, <1>3, <2>1 DEF Intact, Beyond
  <2>3. CASE UnwindLocals(k)
    <3>1. Intact(r)'
      BY <1>2, <1>3, <1>4, <2>1, <2>3, LocalsFacts
    <3>2. running' = r /\ parked' = NoFrame /\ ~held'[r + 1] /\ frame'[r + 1] = "locals gone"
      BY <1>2, <1>3, <2>1, <2>3, LocalsFacts
    <3>3. CASE k + 1 \in Chain /\ held[k + 1] /\ state[k + 1] = "complete"
      <4>1. unwinding' = <<(r + 1) + 1, r + 1>>
        <5>1. unwinding' = <<k + 1>> \o unwinding
          BY <2>3, <3>3, LocalsFacts
        <5>2. (r + 1) + 1 \in Nat /\ r + 1 \in Nat
          BY ChainNat
        <5>3. QED
          BY <1>6, <2>1, <5>1, <5>2, Pairs
      <4>2. frame'[k + 1] = "final" /\ ~held'[k + 1]
        <5>1. frame[k + 1] = "final" /\ k + 1 # k
          BY <1>5, <3>3, ChainNat DEF HeldInv
        <5>2. QED
          BY <2>3, <3>3, <5>1, LocalsFacts
      <4>3. QED
        BY <1>2, <2>1, <3>1, <3>2, <3>3, <4>1, <4>2 DEF Replaces, DestroysChild
    <3>4. CASE ~(k + 1 \in Chain /\ held[k + 1] /\ state[k + 1] = "complete")
      <4>1. unwinding' = <<r + 1>>
        BY <1>6, <2>3, <3>4, LocalsFacts
      <4>2. QED
        BY <1>2, <3>1, <3>2, <4>1 DEF Replaces
    <3>5. QED
      BY <3>3, <3>4
  <2>4. CASE UnwindPromise(k)
    <3>1. Intact(r)'
      BY <1>2, <1>4, <2>1, <2>4, PromiseFacts
    <3>2. /\ running' = r /\ parked' = NoFrame /\ ~held'[r + 1] /\ frame'[r + 1] = "promise gone"
          /\ unwinding' = <<r + 1>>
      BY <1>2, <1>6, <2>1, <2>2, <2>4, PromiseFacts
    <3>3. QED
      BY <1>2, <3>1, <3>2 DEF Replaces
  <2>5. CASE UnwindFree(k)
    <3>1. Intact(r)'
      BY <1>2, <1>4, <2>1, <2>5, FreeFacts
    <3>2. running' = r /\ parked' = NoFrame /\ unwinding' = <<>>
      BY <1>2, <2>1, <2>5, FreeFacts
    <3>3. QED
      BY <1>2, <3>1, <3>2 DEF Runs
  <2>6. QED
    BY <2>3, <2>4, <2>5
<1>7. CASE DestroysChild(r + 1)
  <2>1. k = (r + 1) + 1 /\ Tail(unwinding) = <<r + 1>> /\ ~held[k] /\ frame[r + 1] = "locals gone"
    <3>1. unwinding = <<(r + 1) + 1, r + 1>> /\ ~held[(r + 1) + 1] /\ frame[r + 1] = "locals gone"
      BY <1>7 DEF DestroysChild
    <3>2. (r + 1) + 1 \in Nat /\ r + 1 \in Nat
      BY ChainNat
    <3>3. Head(unwinding) = (r + 1) + 1 /\ Tail(unwinding) = <<r + 1>>
      BY <3>1, <3>2, Pairs
    <3>4. QED
      BY <3>1, <3>3
  <2>2. underlying[k] = NoFrame /\ r + 1 # k
    <3>1. (r + 1) + 1 > r /\ (r + 1) + 1 # r + 1
      BY ChainNat
    <3>2. QED
      BY <1>2, <2>1, <3>1 DEF Intact, Beyond
  <2>3. CASE UnwindLocals(k)
    <3>1. frame[k] = "final"
      BY <1>7, <2>1, <2>3, LocalsFacts DEF DestroysChild
    <3>2. k + 1 \in Chain => ~held[k + 1]
      <4>1. (k + 1) - 1 = k
        BY ChainNat
      <4>2. QED
        BY <1>5, <3>1, <4>1 DEF HeldInv
    <3>3. /\ unwinding' = unwinding
          /\ \A j \in Chain : held'[j] = held[j]
      BY <2>3, <3>2, LocalsFacts, FrameTypes DEF FramesInv
    <3>4. Intact(r)'
      BY <1>2, <1>4, <2>1, <2>3, <3>3, LocalsFacts
    <3>5. DestroysChild(r + 1)'
      BY <1>2, <1>7, <2>1, <2>2, <2>3, <3>3, LocalsFacts DEF DestroysChild
    <3>6. running' = r /\ parked' = NoFrame /\ ~held'[r + 1]
      BY <1>2, <2>3, <3>3, LocalsFacts
    <3>7. QED
      BY <1>2, <3>4, <3>5, <3>6 DEF Replaces
  <2>4. CASE UnwindPromise(k)
    <3>1. Intact(r)'
      BY <1>2, <1>4, <2>1, <2>4, PromiseFacts
    <3>2. unwinding' = unwinding
      BY <2>2, <2>4, PromiseFacts
    <3>3. DestroysChild(r + 1)'
      BY <1>2, <1>7, <2>1, <2>2, <2>4, <3>2, PromiseFacts DEF DestroysChild
    <3>4. running' = r /\ parked' = NoFrame /\ ~held'[r + 1]
      BY <1>2, <2>4, PromiseFacts
    <3>5. QED
      BY <1>2, <3>1, <3>3, <3>4 DEF Replaces
  <2>5. CASE UnwindFree(k)
    <3>1. Intact(r)'
      BY <1>2, <1>4, <2>1, <2>5, FreeFacts
    <3>2. /\ running' = r /\ parked' = NoFrame /\ ~held'[r + 1]
          /\ unwinding' = <<r + 1>> /\ frame'[r + 1] = "locals gone"
      BY <1>2, <2>1, <2>2, <2>5, FreeFacts
    <3>3. QED
      BY <1>2, <3>1, <3>2 DEF Replaces
  <2>6. QED
    BY <2>3, <2>4, <2>5
<1>8. QED
  BY <1>1, <1>6, <1>7 DEF Replaces

(* Destroying the complete child of the coroutine that waited. *)
LEMMA LeafUnwind ==
  ASSUME FramesInv, running = NoFrame, parked = NoFrame, NEW c \in Chain, UnwindsLeaf(c),
         NEW k \in Chain, unwinding # <<>>, k = Head(unwinding),
         UnwindLocals(k) \/ UnwindPromise(k) \/ UnwindFree(k)
  PROVE  Unwinds'
<1>1. /\ unwinding = <<c + 1, c>> /\ ~held[c + 1] /\ frame[c] = "locals gone" /\ c + 1 \in Chain
      /\ frame[c + 1] \in {"final", "locals gone", "promise gone"}
  BY DEF UnwindsLeaf, DestroysChild
<1>2. k = c + 1 /\ Tail(unwinding) = <<c>>
  <2>1. c \in Nat /\ c + 1 \in Nat
    BY ChainNat
  <2>2. Head(unwinding) = c + 1 /\ Tail(unwinding) = <<c>>
    BY <1>1, <2>1, Pairs
  <2>3. QED
    BY <2>2
<1>3. k > c /\ c # k /\ 1 # k /\ \A j \in Chain : j <= c => j # k
  BY <1>2, ChainNat
<1>4. underlying[k] = NoFrame /\ underlying[1] = NoFrame
  BY <1>3 DEF UnwindsLeaf, Beyond
<1>5. HeldInv
  BY DEF FramesInv
<1>6. (k + 1 \in Chain => ~held[k + 1]) \/ ~UnwindLocals(k)
  <2>1. UnwindLocals(k) => frame[k] # "live"
    BY <1>1, <1>2
  <2>2. (k + 1) - 1 = k
    BY ChainNat
  <2>3. QED
    BY <1>5, <2>1, <2>2 DEF HeldInv
<1>7. /\ \A j \in Chain : j # k => frame'[j] = frame[j] /\ underlying'[j] = underlying[j]
      /\ \A j \in Chain : held'[j] = held[j]
      /\ state' = state /\ underlying'[k] = NoFrame
      /\ running' = NoFrame /\ parked' = NoFrame
  <2>1. CASE UnwindLocals(k)
    BY <1>4, <1>6, <2>1, LocalsFacts, FrameTypes DEF FramesInv
  <2>2. CASE UnwindPromise(k)
    BY <1>4, <2>2, PromiseFacts
  <2>3. CASE UnwindFree(k)
    BY <1>4, <2>3, FreeFacts
  <2>4. QED
    BY <2>1, <2>2, <2>3
<1>8. Linked(c)'
  BY <1>3, <1>7 DEF UnwindsLeaf, Linked
<1>9. \A j \in Chain : j < c => frame'[j] = "live"
  <2>1. \A j \in Chain : j < c => j <= c
    BY ChainNat
  <2>2. QED
    BY <1>3, <1>7, <2>1 DEF UnwindsLeaf
<1>10. Beyond(c)'
  BY <1>1, <1>2, <1>7 DEF UnwindsLeaf, Beyond
<1>11. underlying'[1] = NoFrame /\ frame'[c] = "locals gone"
  BY <1>1, <1>3, <1>4, <1>7, ChainFacts
<1>12. CASE UnwindLocals(k) \/ UnwindPromise(k)
  <2>1. unwinding' = unwinding /\ frame'[k] \in {"locals gone", "promise gone"}
    BY <1>4, <1>6, <1>12, LocalsFacts, PromiseFacts
  <2>2. DestroysChild(c)'
    BY <1>1, <1>2, <1>7, <1>11, <2>1 DEF DestroysChild
  <2>3. QED
    BY <1>7, <1>8, <1>9, <1>10, <1>11, <2>2 DEF UnwindsLeaf, Unwinds
<1>13. CASE UnwindFree(k)
  <2>1. unwinding' = <<c>>
    BY <1>2, <1>13, FreeFacts
  <2>2. c \in Nat /\ c <= c /\ \A j \in Chain : ~(c < j /\ j <= c)
    BY ChainNat
  <2>3. <<c>> = UpTo(c, c)
    BY <2>2, Ascending
  <2>4. UnwindsChain(c, c)'
    BY <1>8, <1>9, <1>10, <1>11, <2>1, <2>2, <2>3 DEF UnwindsChain
  <2>5. QED
    BY <1>7, <2>4 DEF Unwinds
<1>14. QED
  BY <1>12, <1>13

(* Destroying the coroutine that waited and those that awaited it. *)
LEMMA ChainUnwind ==
  ASSUME FramesInv, running = NoFrame, parked = NoFrame,
         NEW c \in Chain, NEW m \in Chain, UnwindsChain(m, c),
         UnwindLocals(m) \/ UnwindPromise(m) \/ UnwindFree(m)
  PROVE  Unwinds' \/ Ended'
<1>0. m <= c
  BY DEF UnwindsChain
<1>1. /\ underlying[1] = NoFrame
      /\ unwinding = UpTo(m, c)
      /\ \A j \in Chain : m < j /\ j <= c => frame[j] = "promise gone" /\ state[j] = "empty"
      /\ Beyond(c)
  BY DEF UnwindsChain
<1>2. /\ m = c => unwinding = <<c>> /\ Tail(unwinding) = <<>>
      /\ m < c => Tail(unwinding) = UpTo(m + 1, c)
      /\ m > 1 => <<m - 1>> \o unwinding = UpTo(m - 1, c)
  <2>1. \A x \in Chain : Tail(<<x>>) = <<>>
    OBVIOUS
  <2>2. QED
    BY <1>0, <1>1, <2>1, Ascending
<1>3. /\ m \in Nat /\ c \in Nat /\ m >= 1
      /\ \A j \in Chain : /\ j < m => j # m
                          /\ m < j => j # m
                          /\ j > c => j # m
  BY <1>0, ChainNat
<1>4. HeldInv /\ FuturesTypeOK
  BY DEF FramesInv
<1>5. CASE UnwindLocals(m)
  <2>1. /\ frame[m] = "live" /\ (\A j \in Chain : j < m => frame[j] = "live") /\ Linked(m)
    BY <1>5, LocalsFacts DEF UnwindsChain
  <2>2. /\ \A j \in Chain : /\ frame'[j] = IF j = m THEN "locals gone" ELSE frame[j]
                            /\ held'[j] = IF j = m + 1 THEN FALSE ELSE held[j]
        /\ state' = state /\ underlying' = underlying
        /\ running' = NoFrame /\ parked' = NoFrame
    BY <1>5, LocalsFacts
  <2>3. Linked(m)'
    <3>1. \A j \in Chain : j <= m => j # m + 1
      BY ChainNat
    <3>2. QED
      BY <2>1, <2>2, <3>1 DEF Linked
  <2>4. Beyond(c)'
    BY <1>1, <1>3, <2>2 DEF Beyond
  <2>5. \A j \in Chain : j < m => frame'[j] = "live"
    BY <1>3, <2>1, <2>2
  <2>6. \A j \in Chain : m < j /\ j <= c => frame'[j] = "promise gone" /\ state'[j] = "empty"
    BY <1>1, <1>3, <2>2
  <2>7. CASE m + 1 \in Chain /\ held[m + 1] /\ state[m + 1] = "complete"
    <3>1. m = c
      <4>1. ~(m < m + 1 /\ m + 1 <= c)
        BY <1>1, <2>7
      <4>2. QED
        BY <1>0, <1>3, <4>1
    <3>2. unwinding' = <<c + 1, c>>
      <4>1. unwinding' = <<c + 1>> \o <<c>>
        BY <1>2, <1>5, <2>7, <3>1, LocalsFacts
      <4>2. c \in Nat /\ c + 1 \in Nat
        BY <1>3
      <4>3. QED
        BY <4>1, <4>2, Pairs
    <3>3. frame'[c + 1] = "final" /\ ~held'[c + 1]
      <4>1. frame[m + 1] = "final" /\ m + 1 # m
        BY <1>3, <1>4, <2>7 DEF HeldInv
      <4>2. QED
        BY <2>2, <2>7, <3>1, <4>1
    <3>4. UnwindsLeaf(c)'
      BY <1>1, <2>2, <2>3, <2>4, <2>5, <2>7, <3>1, <3>2, <3>3 DEF UnwindsLeaf, DestroysChild
    <3>5. QED
      BY <2>2, <3>4 DEF Unwinds
  <2>8. CASE ~(m + 1 \in Chain /\ held[m + 1] /\ state[m + 1] = "complete")
    <3>1. unwinding' = unwinding
      BY <1>5, <2>8, LocalsFacts
    <3>2. UnwindsChain(m, c)'
      BY <1>0, <1>1, <2>2, <2>3, <2>4, <2>5, <2>6, <3>1 DEF UnwindsChain
    <3>3. QED
      BY <2>2, <3>2 DEF Unwinds
  <2>9. QED
    BY <2>7, <2>8
<1>6. CASE UnwindPromise(m)
  <2>1. /\ frame[m] = "locals gone" /\ (\A j \in Chain : j < m => frame[j] = "live") /\ Linked(m)
    BY <1>6, PromiseFacts DEF UnwindsChain
  <2>2. /\ \A j \in Chain : frame'[j] = IF j = m THEN "promise gone" ELSE frame[j]
        /\ held' = held /\ state' = state /\ underlying' = underlying /\ kind' = kind
        /\ running' = NoFrame /\ parked' = NoFrame
    BY <1>6, PromiseFacts
  <2>3. Beyond(c)'
    BY <1>1, <1>3, <2>2 DEF Beyond
  <2>4. CASE m > 1 /\ kind[m] # "reusable_void"
    <3>1. /\ m - 1 \in Chain /\ m - 1 <= c /\ m - 1 # NoFrame /\ m - 1 # m /\ m <= m
          /\ \A j \in Chain : m - 1 < j /\ j <= c => j = m \/ (m < j /\ j <= c)
          /\ \A j \in Chain : j < m - 1 => j < m
          /\ \A j \in Chain : j <= m - 1 => j <= m
          /\ m - 1 < m
      <4>1. m > 1 /\ m - 1 \in Chain
        BY <2>4, ChainFacts
      <4>2. QED
        BY <1>0, <1>3, <4>1, ChainNat DEF NoFrame
    <3>2. underlying[m] = m - 1 /\ state[m] = "empty"
      BY <2>1, <2>4, <3>1 DEF Linked
    <3>3. unwinding' = UpTo(m - 1, c)
      BY <1>2, <1>6, <2>4, <3>1, <3>2, PromiseFacts
    <3>4. Linked(m - 1)'
      BY <2>1, <2>2, <3>1 DEF Linked
    <3>5. /\ frame'[m - 1] = "live" /\ \A j \in Chain : j < m - 1 => frame'[j] = "live"
      BY <1>3, <2>1, <2>2, <3>1
    <3>6. \A j \in Chain : m - 1 < j /\ j <= c => frame'[j] = "promise gone" /\ state'[j] = "empty"
      BY <1>1, <2>2, <3>1, <3>2
    <3>7. UnwindsChain(m - 1, c)'
      BY <1>1, <2>2, <2>3, <3>1, <3>3, <3>4, <3>5, <3>6 DEF UnwindsChain
    <3>8. QED
      BY <2>2, <3>1, <3>7 DEF Unwinds
  <2>5. CASE ~(m > 1 /\ kind[m] # "reusable_void")
    <3>1. m = 1 \/ kind[m] = "reusable_void"
      BY <1>3, <2>5
    <3>2. unwinding' = unwinding
      BY <1>1, <1>6, <3>1, PromiseFacts
    <3>3. \A j \in Chain : m < j /\ j <= c => frame'[j] = "promise gone" /\ state'[j] = "empty"
      BY <1>1, <1>3, <2>2
    <3>4. frame'[m] = "promise gone" /\ (m = 1 \/ \E k \in Chain : kind'[k] = "reusable_void")
      BY <2>2, <3>1
    <3>5. UnwindsChain(m, c)'
      BY <1>0, <1>1, <2>2, <2>3, <3>2, <3>3, <3>4 DEF UnwindsChain
    <3>6. QED
      BY <2>2, <3>5 DEF Unwinds
  <2>6. QED
    BY <2>4, <2>5
<1>7. CASE UnwindFree(m)
  <2>1. /\ frame[m] = "promise gone"
        /\ frame[1] = "freed" \/ m = 1 \/ \E k \in Chain : kind[k] = "reusable_void"
    BY <1>7, FreeFacts DEF UnwindsChain
  <2>2. /\ \A j \in Chain : /\ frame'[j] = IF j = m THEN "freed" ELSE frame[j]
                            /\ underlying'[j] = IF j = m THEN NoFrame ELSE underlying[j]
        /\ held' = held /\ state' = state /\ kind' = kind
        /\ running' = NoFrame /\ parked' = NoFrame /\ unwinding' = Tail(unwinding)
    BY <1>7, FreeFacts
  <2>3. frame'[1] = "freed" \/ \E k \in Chain : kind'[k] = "reusable_void"
    BY <2>1, <2>2, ChainFacts
  <2>4. CASE m = c
    BY <1>2, <2>2, <2>3, <2>4 DEF Ended
  <2>5. CASE m < c
    <3>1. /\ m + 1 \in Chain /\ m + 1 <= c /\ m + 1 # m
          /\ \A j \in Chain : m + 1 < j => m < j
          /\ m < m + 1
      BY <1>3, <2>5, FuturesAssumption DEF Chain
    <3>2. unwinding' = UpTo(m + 1, c)
      BY <1>2, <2>2, <2>5
    <3>3. /\ frame'[m + 1] = "promise gone"
          /\ \A j \in Chain : m + 1 < j /\ j <= c => frame'[j] = "promise gone" /\ state'[j] = "empty"
      BY <1>1, <1>3, <2>2, <3>1
    <3>4. Beyond(c)'
      BY <1>1, <1>3, <2>2 DEF Beyond
    <3>5. underlying'[1] = NoFrame
      BY <1>1, <2>2, ChainFacts
    <3>6. UnwindsChain(m + 1, c)'
      BY <2>3, <3>1, <3>2, <3>3, <3>4, <3>5 DEF UnwindsChain
    <3>7. QED
      BY <2>2, <3>1, <3>6 DEF Unwinds
  <2>6. QED
    BY <1>0, <1>3, <2>4, <2>5
<1>8. QED
  BY <1>5, <1>6, <1>7

(* Every step keeps the shape of the chain. *)
LEMMA FramesStep ==
  ASSUME FramesInv, [FuturesNext]_futuresVars
  PROVE  FramesInv'
<1>1. FuturesTypeOK'
  BY FuturesTypeStep DEF FramesInv
<1>2. HeldInv' /\ (Runs \/ Parks \/ Replaces \/ Unwinds \/ Ended)'
  <2>1. ASSUME NEW k \in Chain, CallCoroutine(k) PROVE HeldInv' /\ Runs'
    BY <2>1, CallStep
  <2>2. ASSUME NEW k \in Chain, AwaitFuture(k) PROVE HeldInv' /\ Runs'
    BY <2>2, AwaitFutureStep
  <2>3. ASSUME NEW k \in Chain, CoYield(k) PROVE HeldInv' /\ Runs'
    <3>1. k > 1
      <4>1. k # 1
        BY <2>3 DEF CoYield, FramesInv, FuturesTypeOK
      <4>2. QED
        BY <4>1, ChainNat
    <3>2. QED
      BY <2>3, <3>1, DeliverStep DEF CoYield
  <2>4. ASSUME NEW k \in Chain, CoReturn(k) PROVE HeldInv' /\ Runs'
    BY <2>4, DeliverStep DEF CoReturn
  <2>5. ASSUME NEW k \in Chain, DropFuture(k) PROVE HeldInv' /\ Runs'
    BY <2>5, DropStep
  <2>6. ASSUME NEW k \in Chain, ReplaceFuture(k) \/ ForceCompletion(k)
        PROVE  HeldInv' /\ Replaces'
    BY <2>6, ReplaceStep
  <2>7. ASSUME NEW k \in Chain, AwaitReady(k) \/ DeferBlock(k) \/ PurgeBlocks(k)
        PROVE  HeldInv' /\ (Runs \/ Parks \/ Replaces \/ Unwinds \/ Ended)'
    <3>1. UNCHANGED <<kind, frame, held, underlying, state, running, parked, unwinding>>
      BY <2>7 DEF AwaitReady, DeferBlock, PurgeBlocks, promiseVars, control
    <3>2. QED
      BY <3>1, StillStep
  <2>8. ASSUME Unpark \/ \E k \in Chain : Park(k) PROVE HeldInv' /\ (Runs \/ Parks)'
    BY <2>8, ParkSteps
  <2>9. ASSUME FinishFunction PROVE HeldInv' /\ Ended'
    BY <2>9, FinishStep
  <2>10. ASSUME DestroyParked PROVE HeldInv' /\ Unwinds'
    BY <2>10, DestroyParkedStep
  <2>11. ASSUME Unwind PROVE HeldInv' /\ (Runs \/ Replaces \/ Unwinds \/ Ended)'
    <3>1. unwinding # <<>> /\ Head(unwinding) \in Chain
      BY <2>11, HeadFacts DEF Unwind
    <3>2. PICK k \in Chain : k = Head(unwinding)
      BY <3>1
    <3>3. UnwindLocals(k) \/ UnwindPromise(k) \/ UnwindFree(k)
      BY <2>11, <3>2 DEF Unwind
    <3>4. HeldInv'
      BY <3>1, <3>2, <3>3, LocalsHeld, PromiseOrFreeHeld
    <3>5. CASE Replaces
      BY <3>1, <3>2, <3>3, <3>4, <3>5, ReplacesUnwind
    <3>6. CASE Unwinds
      <4>1. ASSUME NEW c \in Chain, UnwindsLeaf(c) PROVE Unwinds'
        BY <3>1, <3>2, <3>3, <3>6, <4>1, LeafUnwind DEF Unwinds
      <4>2. ASSUME NEW c \in Chain, NEW m \in Chain, UnwindsChain(m, c) PROVE Unwinds' \/ Ended'
        <5>1. k = m
          BY <3>2, <4>2, Ascending DEF UnwindsChain
        <5>2. QED
          BY <3>3, <3>6, <4>2, <5>1, ChainUnwind DEF Unwinds
      <4>3. QED
        BY <3>4, <3>6, <4>1, <4>2 DEF Unwinds
    <3>7. QED
      BY <3>1, <3>5, <3>6, UnwindModes
  <2>12. ASSUME UNCHANGED futuresVars
         PROVE  HeldInv' /\ (Runs \/ Parks \/ Replaces \/ Unwinds \/ Ended)'
    BY <2>12, StillStep DEF futuresVars, promiseVars, control
  <2>13. QED
    BY <2>1, <2>2, <2>3, <2>4, <2>5, <2>6, <2>7, <2>8, <2>9, <2>10, <2>11, <2>12 DEF FuturesNext
<1>3. QED
  BY <1>1, <1>2 DEF FramesInv

(* The shape of the chain initially. *)
LEMMA FramesInitially == FuturesInit => FramesInv
<1> SUFFICES ASSUME FuturesInit PROVE FramesInv
  OBVIOUS
<1>1. FuturesTypeOK
  <2>1. <<>> \in Seq(Nat) /\ <<>> \in Seq(Chain)
    OBVIOUS
  <2>2. QED
    BY <2>1, ChainFacts DEF FuturesInit, FuturesTypeOK
<1>2. \A j \in Chain : /\ frame[j] = (IF j = 1 THEN "live" ELSE "none") /\ ~held[j]
                       /\ underlying[j] = NoFrame /\ state[j] = "empty"
  BY DEF FuturesInit
<1>3. HeldInv
  BY <1>2 DEF HeldInv
<1>4. \A j \in Chain : j <= 1 => j = 1
  BY ChainNat
<1>5. Intact(1)
  BY <1>2, <1>4, ChainFacts, ChainNat DEF Intact, Awaits, Linked, Beyond
<1>6. running = 1 /\ parked = NoFrame /\ unwinding = <<>> /\ 1 # NoFrame
  BY DEF FuturesInit, NoFrame
<1>7. Runs
  BY <1>5, <1>6 DEF Runs
<1>8. QED
  BY <1>1, <1>3, <1>7 DEF FramesInv

(* The shape of the chain is an invariant. *)
LEMMA FramesInvariant == FuturesSpec => []FramesInv
<1>1. FramesInv /\ [FuturesNext]_futuresVars => FramesInv'
  BY FramesStep
<1>2. QED
  BY <1>1, FramesInitially, PTL DEF FuturesSpec

(* Sequences of two, element by element. *)
LEMMA PairElements ==
  ASSUME NEW a \in Nat, NEW b \in Nat
  PROVE  /\ Len(<<a, b>>) = 2 /\ <<a, b>>[1] = a /\ <<a, b>>[2] = b
         /\ DOMAIN <<a, b>> = 1..2 /\ <<a, b>> # <<>>
<1>1. Len(<<a, b>>) = 2 /\ <<a, b>>[1] = a /\ <<a, b>>[2] = b
  OBVIOUS
<1>2. DOMAIN <<a, b>> = 1..2
  BY <1>1
<1>3. QED
  BY <1>1, <1>2

(* Whoever executes, waits or is destroyed refers only to frames that exist,
   no frame is destroyed twice, and nothing is left when the chain has ended:
   what simple_future, reusable_future and their promises owe each other, for
   chains of any length and with any kinds of promise. *)
THEOREM FramesAreOwned == FuturesSpec => []FramesOwned
<1>1. ASSUME FramesInv PROVE FramesOwned
  <2> DEFINE exists(k) == frame[k] \notin {"none", "freed"}
             refers(k) == /\ exists(k)
                          /\ Holds(k) => exists(k + 1)
                          /\ underlying[k] # NoFrame /\ frame[k] # "promise gone" =>
                                 exists(underlying[k])
  <2>1. HeldInv /\ FuturesTypeOK
    BY <1>1 DEF FramesInv
  <2>2. \A k \in Chain : /\ Holds(k) => frame[k] = "live" /\ k + 1 \in Chain /\ held[k + 1]
                         /\ k + 1 > k
    <3>1. \A k \in Chain : (k + 1) - 1 = k /\ (k < Depth => k + 1 \in Chain) /\ k + 1 > k
      BY FuturesAssumption DEF Chain
    <3>2. QED
      BY <2>1, <3>1 DEF Holds, HeldInv
  <2>3. ASSUME NEW c \in Chain, Intact(c)
        PROVE  refers(c) /\ frame[c] = "live"
    <3>1. frame[c] = "live"
      BY <2>3, ChainNat DEF Intact, Awaits
    <3>2. Holds(c) => exists(c + 1)
      BY <2>2, <2>3 DEF Intact, Beyond
    <3>3. underlying[c] # NoFrame => exists(underlying[c])
      <4>1. CASE c = 1
        BY <2>3, <4>1 DEF Intact
      <4>2. CASE c # 1
        <5>1. 1 < c /\ c <= c /\ c - 1 \in Chain /\ c - 1 <= c
          BY <4>2, FuturesAssumption DEF Chain
        <5>2. underlying[c] = c - 1
          BY <2>3, <5>1 DEF Intact, Awaits, Linked
        <5>3. QED
          BY <2>3, <5>1, <5>2 DEF Intact, Awaits
      <4>3. QED
        BY <4>1, <4>2
    <3>4. QED
      BY <3>1, <3>2, <3>3
  <2>4. CASE Runs
    <3>1. PICK c \in Chain : c = running
      BY <2>4 DEF Runs, Intact
    <3>2. c # NoFrame /\ refers(c) /\ frame[c] = "live" /\ parked = NoFrame /\ unwinding = <<>>
      BY <2>3, <2>4, <3>1 DEF Runs
    <3>3. NoDangling
      BY <3>1, <3>2 DEF NoDangling
    <3>4. DestroyedOnce /\ NothingLeft
      BY <3>1, <3>2 DEF DestroyedOnce, NothingLeft, IsInjective
    <3>5. QED
      BY <3>3, <3>4 DEF FramesOwned
  <2>5. CASE Parks
    <3>1. PICK c \in Chain : c = parked
      BY <2>5 DEF Parks, Intact
    <3>2. c # NoFrame /\ refers(c) /\ frame[c] = "live" /\ running = NoFrame /\ unwinding = <<>>
      BY <2>3, <2>5, <3>1 DEF Parks
    <3>3. NoDangling
      BY <3>1, <3>2 DEF NoDangling
    <3>4. DestroyedOnce /\ NothingLeft
      BY <3>1, <3>2 DEF DestroyedOnce, NothingLeft, IsInjective
    <3>5. QED
      BY <3>3, <3>4 DEF FramesOwned
  <2>6. CASE Ended
    <3>1. \A k \in Chain : frame[k] = "final" => frame[k - 1] = "live"
      BY <2>1, <2>6 DEF HeldInv, Ended
    <3>2. NothingLeft
      BY <2>6, <3>1 DEF NothingLeft, Ended
    <3>3. NoDangling /\ DestroyedOnce
      BY <2>6 DEF Ended, NoDangling, DestroyedOnce, IsInjective
    <3>4. QED
      BY <3>2, <3>3 DEF FramesOwned
  <2>7. ASSUME NEW c \in Chain, DestroysChild(c), Beyond(c), underlying[c] = NoFrame \/
                 (underlying[c] \in Chain /\ frame[underlying[c]] = "live")
        PROVE  /\ \A i \in 1..Len(unwinding) : refers(unwinding[i])
               /\ DestroyedOnce /\ unwinding # <<>>
    <3>1. /\ unwinding = <<c + 1, c>> /\ frame[c] = "locals gone" /\ c + 1 \in Chain
          /\ frame[c + 1] \in {"final", "locals gone", "promise gone"}
      BY <2>7 DEF DestroysChild
    <3>2. ~Holds(c) /\ ~Holds(c + 1) /\ underlying[c + 1] = NoFrame
      BY <2>2, <2>7, <3>1 DEF Beyond
    <3>3. refers(c + 1) /\ refers(c)
      BY <2>7, <3>1, <3>2
    <3>4. /\ Len(unwinding) = 2 /\ unwinding[1] = c + 1 /\ unwinding[2] = c /\ c + 1 # c
          /\ DOMAIN unwinding = 1..2 /\ unwinding # <<>>
      <4>1. c \in Nat /\ c + 1 \in Nat /\ c + 1 # c
        BY ChainNat
      <4>2. QED
        BY <3>1, <4>1, PairElements
    <3>5. \A i \in 1..2 : i = 1 \/ i = 2
      OBVIOUS
    <3>6. QED
      BY <3>3, <3>4, <3>5 DEF DestroyedOnce, IsInjective
  <2>8. CASE Replaces
    <3>1. PICK r \in Chain : r = running
      BY <2>8 DEF Replaces, Intact
    <3>2. Intact(r) /\ r # NoFrame /\ parked = NoFrame /\ r + 1 \in Chain /\ refers(r) /\ frame[r] = "live"
      BY <2>3, <2>8, <3>1 DEF Replaces
    <3>3. underlying[r + 1] = NoFrame /\ Beyond(r + 1)
      <4>1. \A j \in Chain : j > r + 1 => j > r
        BY ChainNat
      <4>2. r + 1 > r
        BY ChainNat
      <4>3. QED
        BY <3>2, <4>1, <4>2 DEF Intact, Beyond
    <3>4. CASE unwinding = <<r + 1>>
      <4>1. frame[r + 1] \in {"live", "final", "locals gone", "promise gone"}
        BY <2>8, <3>1, <3>4 DEF Replaces, DestroysChild
      <4>2. Holds(r + 1) => exists((r + 1) + 1)
        BY <2>2, <3>2, <3>3 DEF Beyond
      <4>3. refers(r + 1)
        BY <3>3, <4>1, <4>2
      <4>4. /\ Len(unwinding) = 1 /\ unwinding[1] = r + 1 /\ DOMAIN unwinding = {1}
            /\ unwinding # <<>> /\ 1..1 = {1}
        BY <3>4
      <4>5. QED
        BY <3>1, <3>2, <4>3, <4>4
        DEF FramesOwned, NoDangling, DestroyedOnce, NothingLeft, IsInjective
    <3>5. CASE DestroysChild(r + 1)
      BY <2>7, <3>1, <3>2, <3>3, <3>5 DEF FramesOwned, NoDangling, NothingLeft
    <3>6. QED
      BY <2>8, <3>1, <3>4, <3>5 DEF Replaces
  <2>9. CASE Unwinds
    <3>1. ASSUME NEW c \in Chain, UnwindsLeaf(c) PROVE FramesOwned
      <4>1. underlying[c] = NoFrame \/ (underlying[c] \in Chain /\ frame[underlying[c]] = "live")
        <5>1. CASE c = 1
          BY <3>1, <5>1 DEF UnwindsLeaf
        <5>2. CASE c # 1
          <6>1. 1 < c /\ c <= c /\ c - 1 \in Chain /\ c - 1 < c
            BY <5>2, FuturesAssumption DEF Chain
          <6>2. QED
            BY <3>1, <6>1 DEF UnwindsLeaf, Linked
        <5>3. QED
          BY <5>1, <5>2
      <4>2. QED
        BY <2>7, <2>9, <3>1, <4>1 DEF UnwindsLeaf, Unwinds, FramesOwned, NoDangling, NothingLeft
    <3>2. ASSUME NEW c \in Chain, NEW m \in Chain, UnwindsChain(m, c) PROVE FramesOwned
      <4>0. m <= c
        BY <3>2 DEF UnwindsChain
      <4>1. /\ unwinding = UpTo(m, c) /\ Beyond(c)
            /\ \A j \in Chain : m < j /\ j <= c => frame[j] = "promise gone"
        BY <3>2 DEF UnwindsChain
      <4>2. m \in Nat /\ c \in Nat /\ m >= 1
        BY ChainNat
      <4>3. /\ Len(unwinding) = c - m + 1 /\ DOMAIN unwinding = 1..(c - m + 1)
            /\ \A i \in 1..(c - m + 1) : unwinding[i] = m + i - 1
        <5>1. PICK u : u = [i \in 1..(c - m + 1) |-> m + i - 1]
          OBVIOUS
        <5>2. /\ Len(u) = c - m + 1 /\ DOMAIN u = 1..(c - m + 1)
              /\ \A i \in 1..(c - m + 1) : u[i] = m + i - 1
          BY <4>0, <4>2, <5>1
        <5>3. unwinding = u
          BY <4>1, <5>1, Zenon DEF UpTo
        <5>4. QED
          BY <5>2, <5>3
      <4>4. DestroyedOnce /\ unwinding # <<>>
        <5>1. c - m + 1 >= 1
          BY <4>0, <4>2
        <5>2. unwinding # <<>>
          BY <4>2, <4>3, <5>1
        <5>3. \A i, j \in DOMAIN unwinding : unwinding[i] = unwinding[j] => i = j
          BY <4>2, <4>3
        <5>4. QED
          BY <5>2, <5>3 DEF DestroyedOnce, IsInjective
      <4>5. ASSUME NEW j \in Chain, m < j, j <= c PROVE refers(j)
        BY <2>2, <4>1, <4>5
      <4>6. refers(m)
        <5>1. Holds(m) => exists(m + 1)
          <6>1. CASE m = c
            BY <2>2, <4>1, <6>1 DEF Beyond
          <6>2. CASE m < c
            <7>1. m < m + 1 /\ m + 1 <= c
              BY <4>2, <6>2
            <7>2. QED
              BY <2>2, <4>1, <7>1
          <6>3. QED
            BY <4>0, <4>2, <6>1, <6>2
        <5>2. frame[m] \in {"live", "locals gone", "promise gone"}
          BY <3>2 DEF UnwindsChain
        <5>3. underlying[m] # NoFrame /\ frame[m] # "promise gone" => exists(underlying[m])
          <6>1. CASE m = 1
            BY <3>2, <6>1 DEF UnwindsChain
          <6>2. CASE m # 1 /\ frame[m] # "promise gone"
            <7>1. 1 < m /\ m <= m /\ m - 1 \in Chain /\ m - 1 < m
              <8>1. m # 1
                BY <6>2
              <8>2. QED
                BY <8>1, FuturesAssumption DEF Chain
            <7>2. underlying[m] = m - 1 /\ frame[m - 1] = "live"
              BY <3>2, <6>2, <7>1 DEF UnwindsChain, Linked
            <7>3. QED
              BY <7>2
          <6>3. QED
            BY <6>1, <6>2
        <5>4. QED
          BY <5>1, <5>2, <5>3
      <4>7. ASSUME NEW i \in 1..Len(unwinding) PROVE refers(unwinding[i])
        <5>1. /\ unwinding[i] = m + i - 1 /\ m + i - 1 <= c /\ m <= m + i - 1
              /\ m + i - 1 \in Chain
          <6>1. i \in 1..(c - m + 1) /\ m \in 1..Depth /\ c \in 1..Depth
            BY <4>3 DEF Chain
          <6>2. unwinding[i] = m + i - 1
            BY <4>3, <6>1
          <6>3. m + i - 1 <= c /\ m <= m + i - 1 /\ m + i - 1 \in 1..Depth
            BY <4>0, <4>2, <6>1, FuturesAssumption
          <6>4. QED
            BY <6>2, <6>3 DEF Chain
        <5>2. PICK j \in Chain : j = unwinding[i]
          BY <5>1
        <5>3. j = m \/ (m < j /\ j <= c)
          BY <4>2, <5>1, <5>2, ChainNat
        <5>4. QED
          BY <4>5, <4>6, <5>2, <5>3
      <4>8. QED
        BY <2>9, <4>4, <4>7 DEF Unwinds, FramesOwned, NoDangling, NothingLeft
    <3>3. QED
      BY <2>9, <3>1, <3>2 DEF Unwinds
  <2>10. QED
    BY <1>1, <2>4, <2>5, <2>6, <2>8, <2>9 DEF FramesInv
<1>2. QED
  BY <1>1, FramesInvariant, PTL

-----------------------------------------------------------------------------
(***************************************************************************)
(* The items of generators and the deferred blocks.                        *)
(***************************************************************************)

(* What one step does to the items of a coroutine. *)
LEMMA ItemsStep ==
  ASSUME FramesInv, ItemsInv, [FuturesNext]_futuresVars
  PROVE  ItemsInv'
<1> DEFINE Fine(r, n, s) == /\ \A i \in 1..Len(r) : IF i <= n THEN r[i] = i
                                                   ELSE r[i] = 0 /\ s = "complete"
                            /\ Len(r) >= n
                            /\ s # "complete" => Len(r) = n
<1>1. FuturesTypeOK
  BY DEF FramesInv
<1>2. \A k \in Chain : /\ Fine(received[k], produced[k], state[k])
                       /\ received[k] \in Seq(Nat) /\ produced[k] \in Nat
                       /\ state[k] \in {"empty", "item", "complete"}
  BY <1>1 DEF ItemsInv, ItemsInOrder, FuturesTypeOK
<1>3. SUFFICES \A k \in Chain : Fine(received'[k], produced'[k], state'[k])
  BY DEF ItemsInv, ItemsInOrder
<1>4. ASSUME NEW r \in Seq(Nat), NEW n \in Nat, NEW s \in {"empty", "item", "complete"},
             Fine(r, n, s)
      PROVE  /\ Fine(r, n, "complete")
             /\ s # "complete" => \A t : Fine(r, n, t)
             /\ s # "complete" => \A t : Fine(Append(r, n + 1), n + 1, t)
             /\ s = "complete" => Fine(Append(r, 0), n, s)
  <2>1. Fine(r, n, "complete")
    BY <1>4
  <2>2. s # "complete" => \A t : Fine(r, n, t)
    BY <1>4
  <2>3. ASSUME s # "complete", NEW t PROVE Fine(Append(r, n + 1), n + 1, t)
    <3>1. Len(r) = n /\ \A i \in 1..n : r[i] = i
      BY <1>4, <2>3
    <3>2. /\ Len(Append(r, n + 1)) = n + 1
          /\ \A i \in 1..n + 1 : Append(r, n + 1)[i] = IF i = n + 1 THEN n + 1 ELSE r[i]
      BY <3>1
    <3>3. QED
      BY <3>1, <3>2
  <2>4. ASSUME s = "complete" PROVE Fine(Append(r, 0), n, s)
    <3>1. /\ Len(Append(r, 0)) = Len(r) + 1 /\ Len(r) \in Nat /\ Len(r) >= n
          /\ \A i \in 1..Len(r) + 1 : Append(r, 0)[i] = IF i = Len(r) + 1 THEN 0 ELSE r[i]
      BY <1>4
    <3>2. ASSUME NEW i \in 1..Len(r) + 1
          PROVE  IF i <= n THEN Append(r, 0)[i] = i ELSE Append(r, 0)[i] = 0
      <4>1. CASE i = Len(r) + 1
        BY <3>1, <4>1
      <4>2. CASE i \in 1..Len(r)
        BY <1>4, <3>1, <4>2
      <4>3. QED
        BY <3>1, <4>1, <4>2
    <3>3. QED
      BY <2>4, <3>1, <3>2
  <2>5. QED
    BY <2>1, <2>2, <2>3, <2>4
<1>5. ASSUME NEW n \in Chain,
             \A k \in Chain : k # n => /\ received'[k] = received[k] /\ produced'[k] = produced[k]
                                       /\ state'[k] = state[k],
             Fine(received'[n], produced'[n], state'[n])
      PROVE  \A k \in Chain : Fine(received'[k], produced'[k], state'[k])
  BY <1>2, <1>5
<1> HIDE DEF Fine
<1>6. /\ DOMAIN received = Chain /\ DOMAIN produced = Chain /\ DOMAIN state = Chain
  BY <1>1 DEF FuturesTypeOK
<1>7. ASSUME NEW k \in Chain, CallCoroutine(k)
      PROVE  \A j \in Chain : Fine(received'[j], produced'[j], state'[j])
  <2>1. k + 1 \in Chain
    BY <1>7, ChainFacts DEF CallCoroutine
  <2>2. \A j \in Chain : j # k + 1 => /\ received'[j] = received[j] /\ produced'[j] = produced[j]
                                      /\ state'[j] = state[j]
    BY <1>6, <1>7 DEF CallCoroutine
  <2>3. received'[k + 1] = <<>> /\ produced'[k + 1] = 0 /\ state'[k + 1] = "empty"
    BY <1>6, <1>7, <2>1 DEF CallCoroutine
  <2>4. Fine(<<>>, 0, "empty")
    BY DEF Fine
  <2>5. QED
    BY <1>5, <2>1, <2>2, <2>3, <2>4
<1>8. ASSUME NEW k \in Chain, AwaitReady(k)
      PROVE  \A j \in Chain : Fine(received'[j], produced'[j], state'[j])
  <2>1. k + 1 \in Chain
    BY <1>8, ChainFacts DEF AwaitReady, Holds
  <2>2. \A j \in Chain : j # k + 1 => /\ received'[j] = received[j] /\ produced'[j] = produced[j]
                                      /\ state'[j] = state[j]
    BY <1>6, <1>8 DEF AwaitReady
  <2>3. /\ received'[k + 1] = Append(received[k + 1], 0) /\ produced'[k + 1] = produced[k + 1]
        /\ state'[k + 1] = state[k + 1] /\ state[k + 1] = "complete"
    BY <1>2, <1>6, <1>8, <2>1 DEF AwaitReady, Prepare
  <2>4. Fine(received'[k + 1], produced'[k + 1], state'[k + 1])
    BY <1>2, <1>4, <2>1, <2>3
  <2>5. QED
    BY <1>5, <2>1, <2>2, <2>4
<1>9. ASSUME NEW k \in Chain, AwaitFuture(k)
      PROVE  \A j \in Chain : Fine(received'[j], produced'[j], state'[j])
  <2>1. k + 1 \in Chain
    BY <1>9, ChainFacts DEF AwaitFuture, Holds
  <2>2. \A j \in Chain : j # k + 1 => /\ received'[j] = received[j] /\ produced'[j] = produced[j]
                                      /\ state'[j] = state[j]
    BY <1>6, <1>9 DEF AwaitFuture
  <2>3. /\ received'[k + 1] = received[k + 1] /\ produced'[k + 1] = produced[k + 1]
        /\ state[k + 1] # "complete"
    BY <1>2, <1>6, <1>9, <2>1 DEF AwaitFuture, Prepare
  <2>4. Fine(received'[k + 1], produced'[k + 1], state'[k + 1])
    BY <1>2, <1>4, <2>1, <2>3
  <2>5. QED
    BY <1>5, <2>1, <2>2, <2>4
<1>10. ASSUME NEW k \in Chain, CoYield(k) \/ CoReturn(k)
       PROVE  \A j \in Chain : Fine(received'[j], produced'[j], state'[j])
  <2>1. PICK s \in {"item", "complete"} : Deliver(k, s)
    BY <1>10 DEF CoYield, CoReturn
  <2>2. \A j \in Chain : j # k => /\ received'[j] = received[j] /\ produced'[j] = produced[j]
                                  /\ state'[j] = state[j]
    BY <1>6, <2>1 DEF Deliver
  <2>3. received'[k] = Append(received[k], produced[k] + 1) /\ produced'[k] = produced[k] + 1
    BY <1>6, <2>1 DEF Deliver
  <2>4. state[k] # "complete"
    <3>1. k # 1
      <4>1. CASE CoYield(k)
        BY <1>1, <4>1 DEF CoYield, FuturesTypeOK
      <4>2. CASE CoReturn(k)
        BY <4>2 DEF CoReturn
      <4>3. QED
        BY <1>10, <4>1, <4>2
    <3>2. 1 < k /\ k <= k
      BY <3>1, ChainNat
    <3>3. Intact(k)
      BY <1>10, ExecutesIntact DEF CoYield, CoReturn
    <3>4. QED
      BY <3>2, <3>3 DEF Intact, Awaits, Linked
  <2>5. Fine(received'[k], produced'[k], state'[k])
    <3>1. /\ received[k] \in Seq(Nat) /\ produced[k] \in Nat
          /\ state[k] \in {"empty", "item", "complete"}
          /\ Fine(received[k], produced[k], state[k])
      BY <1>2
    <3>2. \A t : Fine(Append(received[k], produced[k] + 1), produced[k] + 1, t)
      BY <1>4, <2>4, <3>1
    <3>3. QED
      BY <2>3, <3>2, Zenon
  <2>6. QED
    BY <1>5, <2>2, <2>5
<1>11. ASSUME NEW k \in Chain, ForceCompletion(k)
       PROVE  \A j \in Chain : Fine(received'[j], produced'[j], state'[j])
  <2>1. k + 1 \in Chain
    BY <1>11, ChainFacts DEF ForceCompletion, Holds
  <2>2. \A j \in Chain : j # k + 1 => /\ received'[j] = received[j] /\ produced'[j] = produced[j]
                                      /\ state'[j] = state[j]
    BY <1>6, <1>11 DEF ForceCompletion
  <2>3. /\ received'[k + 1] = received[k + 1] /\ produced'[k + 1] = produced[k + 1]
        /\ state'[k + 1] = "complete"
    BY <1>6, <1>11, <2>1 DEF ForceCompletion
  <2>4. Fine(received'[k + 1], produced'[k + 1], state'[k + 1])
    BY <1>2, <1>4, <2>1, <2>3
  <2>5. QED
    BY <1>5, <2>1, <2>2, <2>4
<1>12. ASSUME UNCHANGED <<received, produced, state>>
       PROVE  \A j \in Chain : Fine(received'[j], produced'[j], state'[j])
  BY <1>2, <1>12
<1>13. ASSUME NEW k \in Chain,
              \/ DropFuture(k) \/ ReplaceFuture(k) \/ DeferBlock(k) \/ PurgeBlocks(k) \/ Park(k)
       PROVE  UNCHANGED <<received, produced, state>>
  BY <1>13 DEF DropFuture, ReplaceFuture, DeferBlock, PurgeBlocks, Park, promiseVars
<1>14. ASSUME FinishFunction \/ Unpark \/ DestroyParked \/ Unwind \/ UNCHANGED futuresVars
       PROVE  UNCHANGED <<received, produced, state>>
  BY <1>14 DEF FinishFunction, Unpark, DestroyParked, Unwind, UnwindLocals, UnwindPromise,
               UnwindFree, futuresVars, promiseVars
<1>15. QED
  BY <1>7, <1>8, <1>9, <1>10, <1>11, <1>12, <1>13, <1>14 DEF FuturesNext

(* An awaiter receives the items of a generator, and the result, in order and
   each once, and afterwards only the end: prepare() and the suspension of
   reusable_promise, for any number of items. *)
THEOREM ItemsArriveInOrder == FuturesSpec => []ItemsInOrder
<1>1. FuturesInit => ItemsInv
  <2>1. Len(<<>>) = 0
    OBVIOUS
  <2>2. FuturesInit => \A k \in Chain : received[k] = <<>> /\ produced[k] = 0
    BY DEF FuturesInit
  <2>3. QED
    BY <2>1, <2>2 DEF ItemsInv, ItemsInOrder
<1>2. FramesInv /\ ItemsInv /\ [FuturesNext]_futuresVars => ItemsInv'
  BY ItemsStep
<1>3. ItemsInv => ItemsInOrder
  BY DEF ItemsInv
<1>4. QED
  BY <1>1, <1>2, <1>3, FramesInvariant, PTL DEF FuturesSpec

(* What one step does to the deferred blocks of a coroutine. *)
LEMMA DefersStep ==
  ASSUME FramesInv, DefersInv, [FuturesNext]_futuresVars
  PROVE  DefersInv'
<1> DEFINE Down(b) == \A i \in 1..Len(b) : b[i] = Len(b) - i + 1
           All(r, n) == Len(r) = n /\ Down(r)
           Fine(k, fr, b, r, n) == /\ Down(b)
                                   /\ r = <<>> \/ All(r, n)
                                   /\ fr = "live" => r = <<>> /\ Len(b) = n
                                   /\ k = 1 => /\ fr = "locals gone" => r = <<>> /\ Len(b) = n
                                               /\ fr # "final"
                                               /\ fr \in {"promise gone", "freed"} => All(r, n)
                                   /\ k # 1 => (fr = "final" => All(r, n))
<1>1. FuturesTypeOK
  BY DEF FramesInv
<1>2. \A k \in Chain : /\ Fine(k, frame[k], defers[k], ran[k], registered[k])
                       /\ defers[k] \in Seq(Nat) /\ ran[k] \in Seq(Nat)
  <2>1. \A k \in Chain : defers[k] \in Seq(Nat) /\ ran[k] \in Seq(Nat)
    BY <1>1 DEF FuturesTypeOK
  <2>2. \A k \in Chain : Fine(k, frame[k], defers[k], ran[k], registered[k])
    BY ChainFacts DEF DefersInv, DefersOnce, AllRan
  <2>3. QED
    BY <2>1, <2>2
<1>3. SUFFICES \A k \in Chain : Fine(k, frame'[k], defers'[k], ran'[k], registered'[k])
  BY ChainFacts DEF DefersInv, DefersOnce, AllRan
<1>4. /\ Down(<<>>) /\ Len(<<>>) = 0
      /\ \A b \in Seq(Nat) : Down(b) => /\ Down(<<Len(b) + 1>> \o b)
                                        /\ Len(<<Len(b) + 1>> \o b) = Len(b) + 1
      /\ \A b \in Seq(Nat) : <<>> \o b = b /\ b \o <<>> = b
  <2>1. Down(<<>>) /\ Len(<<>>) = 0
    OBVIOUS
  <2>2. \A b \in Seq(Nat) : Len(<<Len(b) + 1>> \o b) = Len(b) + 1
    OBVIOUS
  <2>3. ASSUME NEW b \in Seq(Nat), Down(b) PROVE Down(<<Len(b) + 1>> \o b)
    <3>1. PICK e : e = <<Len(b) + 1>> \o b
      OBVIOUS
    <3>2. /\ Len(e) = Len(b) + 1 /\ Len(b) \in Nat
          /\ \A i \in 1..Len(b) + 1 : e[i] = IF i = 1 THEN Len(b) + 1 ELSE b[i - 1]
      BY <3>1
    <3>3. ASSUME NEW i \in 1..Len(b) + 1 PROVE e[i] = (Len(b) + 1) - i + 1
      <4>1. CASE i = 1
        BY <3>2, <4>1
      <4>2. CASE i # 1
        <5>1. i - 1 \in 1..Len(b) /\ e[i] = b[i - 1]
          BY <3>2, <4>2
        <5>2. b[i - 1] = Len(b) - (i - 1) + 1
          BY <2>3, <5>1
        <5>3. QED
          BY <3>2, <5>1, <5>2
      <4>3. QED
        BY <4>1, <4>2
    <3>4. Down(e)
      BY <3>2, <3>3
    <3>5. QED
      BY <3>1, <3>4
  <2>4. \A b \in Seq(Nat) : <<>> \o b = b /\ b \o <<>> = b
    OBVIOUS
  <2>5. QED
    BY <2>1, <2>2, <2>3, <2>4
<1> HIDE DEF Down
<1>5. /\ DOMAIN frame = Chain /\ DOMAIN defers = Chain /\ DOMAIN ran = Chain
      /\ DOMAIN registered = Chain /\ 1 \in Chain
      /\ \A k \in Chain : k + 1 # 1
  BY <1>1, ChainFacts, ChainNat DEF FuturesTypeOK
<1>6. ASSUME NEW n \in Chain,
             \A k \in Chain : k # n => /\ frame'[k] = frame[k] /\ defers'[k] = defers[k]
                                       /\ ran'[k] = ran[k] /\ registered'[k] = registered[k],
             Fine(n, frame'[n], defers'[n], ran'[n], registered'[n])
      PROVE  \A k \in Chain : Fine(k, frame'[k], defers'[k], ran'[k], registered'[k])
  BY <1>2, <1>6
<1>7. ASSUME NEW k \in Chain, CallCoroutine(k)
      PROVE  \A j \in Chain : Fine(j, frame'[j], defers'[j], ran'[j], registered'[j])
  <2>1. k + 1 \in Chain
    BY <1>7, ChainFacts DEF CallCoroutine
  <2>2. \A j \in Chain : j # k + 1 => /\ frame'[j] = frame[j] /\ defers'[j] = defers[j]
                                      /\ ran'[j] = ran[j] /\ registered'[j] = registered[j]
    BY <1>5, <1>7 DEF CallCoroutine
  <2>3. /\ defers'[k + 1] = <<>> /\ ran'[k + 1] = <<>> /\ registered'[k + 1] = 0
        /\ frame'[k + 1] = "live"
    BY <1>5, <1>7, <2>1 DEF CallCoroutine
  <2>4. Fine(k + 1, frame'[k + 1], defers'[k + 1], ran'[k + 1], registered'[k + 1])
    BY <1>4, <1>5, <2>3
  <2>5. QED
    BY <1>6, <2>1, <2>2, <2>4
<1>8. ASSUME NEW k \in Chain, CoReturn(k)
      PROVE  \A j \in Chain : Fine(j, frame'[j], defers'[j], ran'[j], registered'[j])
  <2>1. \A j \in Chain : j # k => /\ frame'[j] = frame[j] /\ defers'[j] = defers[j]
                                  /\ ran'[j] = ran[j] /\ registered'[j] = registered[j]
    BY <1>5, <1>8 DEF CoReturn, Visited
  <2>2. /\ frame'[k] = "final" /\ defers'[k] = defers[k] /\ ran'[k] = ran[k] \o defers[k]
        /\ registered'[k] = registered[k]
    BY <1>5, <1>8 DEF CoReturn, Visited
  <2>3. ran[k] = <<>> /\ Len(defers[k]) = registered[k] /\ k # 1
    <3>1. frame[k] = "live"
      BY <1>8, ExecutesIntact DEF CoReturn
    <3>2. k # 1
      BY <1>8 DEF CoReturn
    <3>3. QED
      BY <1>2, <3>1, <3>2
  <2>4. Down(defers'[k]) /\ All(ran'[k], registered'[k])
    BY <1>2, <1>4, <2>2, <2>3
  <2>5. QED
    BY <1>6, <2>1, <2>2, <2>3, <2>4
<1>9. ASSUME NEW k \in Chain, DropFuture(k)
      PROVE  \A j \in Chain : Fine(j, frame'[j], defers'[j], ran'[j], registered'[j])
  <2>1. k + 1 \in Chain
    BY <1>9, ChainFacts DEF DropFuture, Holds
  <2>2. \A j \in Chain : j # k + 1 => /\ frame'[j] = frame[j] /\ defers'[j] = defers[j]
                                      /\ ran'[j] = ran[j] /\ registered'[j] = registered[j]
    BY <1>5, <1>9 DEF DropFuture, Dropped, deferVars
  <2>3. /\ frame'[k + 1] \in {frame[k + 1], "freed"} /\ k + 1 # 1
        /\ defers'[k + 1] = defers[k + 1] /\ ran'[k + 1] = ran[k + 1]
        /\ registered'[k + 1] = registered[k + 1]
    BY <1>5, <1>9, <2>1 DEF DropFuture, Dropped, deferVars
  <2>4. Fine(k + 1, frame'[k + 1], defers'[k + 1], ran'[k + 1], registered'[k + 1])
    BY <1>2, <2>1, <2>3
  <2>5. QED
    BY <1>6, <2>1, <2>2, <2>4
<1>10. ASSUME FinishFunction
       PROVE  \A j \in Chain : Fine(j, frame'[j], defers'[j], ran'[j], registered'[j])
  <2>1. \A j \in Chain : j # 1 => /\ frame'[j] = frame[j] /\ defers'[j] = defers[j]
                                  /\ ran'[j] = ran[j] /\ registered'[j] = registered[j]
    BY <1>5, <1>10 DEF FinishFunction
  <2>2. /\ frame'[1] = "freed" /\ defers'[1] = <<>>
        /\ ran'[1] = ran[1] \o defers[1] \o <<>> /\ registered'[1] = registered[1]
    BY <1>5, <1>10 DEF FinishFunction, AfterFinal
  <2>3. frame[1] = "live"
    BY <1>5, <1>10, ExecutesIntact DEF FinishFunction
  <2>4. /\ ran[1] = <<>> /\ Down(defers[1]) /\ defers[1] \in Seq(Nat)
        /\ Len(defers[1]) = registered[1]
    BY <1>2, <1>5, <2>3
  <2>5. ran'[1] = defers[1]
    BY <1>4, <2>2, <2>4
  <2>6. Fine(1, frame'[1], defers'[1], ran'[1], registered'[1])
    BY <1>4, <2>2, <2>4, <2>5
  <2>7. QED
    BY <1>5, <1>6, <2>1, <2>6
<1>11. ASSUME NEW k \in Chain, DeferBlock(k) \/ PurgeBlocks(k)
       PROVE  \A j \in Chain : Fine(j, frame'[j], defers'[j], ran'[j], registered'[j])
  <2>1. \A j \in Chain : j # k => /\ frame'[j] = frame[j] /\ defers'[j] = defers[j]
                                  /\ ran'[j] = ran[j] /\ registered'[j] = registered[j]
    BY <1>5, <1>11 DEF DeferBlock, PurgeBlocks
  <2>2. /\ frame'[k] = frame[k] /\ ran'[k] = ran[k]
        /\ \/ /\ defers'[k] = <<Len(defers[k]) + 1>> \o defers[k]
              /\ registered'[k] = registered[k] + 1
           \/ defers'[k] = <<>> /\ registered'[k] = 0
    BY <1>5, <1>11 DEF DeferBlock, PurgeBlocks
  <2>3. frame[k] = "live"
    BY <1>11, ExecutesIntact DEF DeferBlock, PurgeBlocks
  <2>4. Down(defers'[k]) /\ Len(defers'[k]) = registered'[k] /\ ran[k] = <<>>
    BY <1>2, <1>4, <2>2, <2>3
  <2>5. Fine(k, frame'[k], defers'[k], ran'[k], registered'[k])
    BY <1>2, <2>2, <2>3, <2>4
  <2>6. QED
    BY <1>6, <2>1, <2>5
<1>12. ASSUME Unwind
       PROVE  \A j \in Chain : Fine(j, frame'[j], defers'[j], ran'[j], registered'[j])
  <2>1. PICK k \in Chain : UnwindLocals(k) \/ UnwindPromise(k) \/ UnwindFree(k)
    BY <1>12, HeadFacts DEF Unwind
  <2>2. /\ Fine(k, frame[k], defers[k], ran[k], registered[k])
        /\ defers[k] \in Seq(Nat) /\ ran[k] \in Seq(Nat)
    BY <1>2
  <2>3. CASE UnwindLocals(k)
    <3>1. /\ \A j \in Chain : j # k => frame'[j] = frame[j]
          /\ frame'[k] = "locals gone" /\ frame[k] \in {"live", "final"}
          /\ defers' = defers /\ ran' = ran /\ registered' = registered
      BY <1>5, <2>3 DEF UnwindLocals, deferVars
    <3>2. Fine(k, frame'[k], defers'[k], ran'[k], registered'[k])
      BY <2>2, <3>1
    <3>3. QED
      BY <1>6, <3>1, <3>2
  <2>4. CASE UnwindPromise(k)
    <3>1. /\ \A j \in Chain : j # k => frame'[j] = frame[j] /\ ran'[j] = ran[j]
          /\ frame'[k] = "promise gone" /\ frame[k] = "locals gone"
          /\ defers' = defers /\ ran'[k] = IF k = 1 THEN ran[k] \o defers[k] ELSE ran[k]
          /\ registered' = registered
      BY <1>5, <2>4 DEF UnwindPromise, Deferred
    <3>2. IF k = 1 THEN All(ran'[k], registered'[k]) ELSE ran'[k] = ran[k]
      <4>1. CASE k = 1
        <5>1. ran[k] = <<>> /\ Len(defers[k]) = registered[k]
          BY <2>2, <3>1, <4>1
        <5>2. QED
          BY <1>4, <2>2, <3>1, <4>1, <5>1
      <4>2. CASE k # 1
        BY <2>2, <3>1, <4>2
      <4>3. QED
        BY <4>1, <4>2
    <3>3. Fine(k, frame'[k], defers'[k], ran'[k], registered'[k])
      BY <2>2, <3>1, <3>2
    <3>4. QED
      BY <1>6, <3>1, <3>3
  <2>5. CASE UnwindFree(k)
    <3>1. /\ \A j \in Chain : j # k => frame'[j] = frame[j] /\ defers'[j] = defers[j]
          /\ frame'[k] = "freed" /\ defers'[k] = <<>> /\ ran' = ran
          /\ registered' = registered /\ frame[k] = "promise gone"
      BY <1>5, <2>5 DEF UnwindFree
    <3>2. Fine(k, frame'[k], defers'[k], ran'[k], registered'[k])
      BY <1>4, <2>2, <3>1
    <3>3. QED
      BY <1>6, <3>1, <3>2
  <2>6. QED
    BY <2>1, <2>3, <2>4, <2>5
<1>13. ASSUME UNCHANGED <<frame, defers, ran, registered>>
       PROVE  \A j \in Chain : Fine(j, frame'[j], defers'[j], ran'[j], registered'[j])
  BY <1>2, <1>13
<1>14. ASSUME NEW k \in Chain,
              \/ AwaitReady(k) \/ AwaitFuture(k) \/ CoYield(k) \/ ReplaceFuture(k)
              \/ ForceCompletion(k) \/ Park(k)
       PROVE  UNCHANGED <<frame, defers, ran, registered>>
  BY <1>14 DEF AwaitReady, AwaitFuture, CoYield, ReplaceFuture, ForceCompletion, Park, deferVars
<1>15. ASSUME Unpark \/ DestroyParked \/ UNCHANGED futuresVars
       PROVE  UNCHANGED <<frame, defers, ran, registered>>
  BY <1>15 DEF Unpark, DestroyParked, futuresVars, deferVars
<1>16. QED
  BY <1>7, <1>8, <1>9, <1>10, <1>11, <1>12, <1>13, <1>14, <1>15 DEF FuturesNext

(* Every deferred block runs exactly once, the newest first: at the end of an
   async_function or in its promise's destructor and never in both, at the
   return of a coroutine with a future, however many blocks there are. *)
THEOREM DefersRunOnce == FuturesSpec => []DefersOnce
<1>1. ASSUME FuturesInit PROVE DefersInv
  <2>1. Len(<<>>) = 0
    OBVIOUS
  <2>2. \A k \in Chain : defers[k] = <<>> /\ ran[k] = <<>> /\ registered[k] = 0
    BY <1>1 DEF FuturesInit
  <2>3. 1 \in Chain /\ frame[1] = "live"
    BY <1>1, ChainFacts DEF FuturesInit
  <2>4. \A k \in Chain : AllRan(k)
    BY <2>1, <2>2 DEF AllRan
  <2>5. DefersOnce
    BY <2>2, <2>4 DEF DefersOnce
  <2>6. QED
    BY <2>1, <2>2, <2>3, <2>5 DEF DefersInv
<1>2. FramesInv /\ DefersInv /\ [FuturesNext]_futuresVars => DefersInv'
  BY DefersStep
<1>3. DefersInv => DefersOnce
  BY DEF DefersInv
<1>4. QED
  BY <1>1, <1>2, <1>3, FramesInvariant, PTL DEF FuturesSpec
=============================================================================
