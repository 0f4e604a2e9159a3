--------------------------- MODULE SemaphoreProofs ---------------------------
(***************************************************************************)
(* Theorems about BinarySemaphore and CountingSemaphore, for any set of    *)
(* coroutines.  Binary: mutual exclusion, that a suspended coroutine is    *)
(* always linked where a release() finds it, and that every step is a step *)
(* of FairLock or none.  Counting: one controller, and no more coroutines  *)
(* inside than there are permits.  One lemma per action shows that it      *)
(* keeps the invariant.                                                    *)
(***************************************************************************)
EXTENDS BinarySemaphore, CountingSemaphore, SequenceTheorems, FiniteSetTheorems, TLAPS

(* What the word's top tells about the semaphore. *)
LEMMA TopFacts ==
  ASSUME SemaphoreInv
  PROVE  /\ Top = Unlocked <=> ~held
         /\ Top = LockFlag <=> held /\ stack = <<>>
         /\ Top \in Coros \cup {Unlocked, LockFlag}
<1>1. stack # <<>> => Head(stack) \in Coros
  BY DEF SemaphoreInv, TypeOK
<1>2. stack # <<>> => held
  BY DEF SemaphoreInv, HeldWhileOwned
<1>3. QED
  BY <1>1, <1>2, SemaphoreAssumption DEF Top

(* The list after a push. *)
LEMMA PushFacts ==
  ASSUME NEW S, NEW w \in S, NEW s \in Seq(S)
  PROVE  /\ <<w>> \o s \in Seq(S)
         /\ Len(<<w>> \o s) = Len(s) + 1
         /\ <<w>> \o s # <<>>
         /\ (<<w>> \o s)[1] = w
         /\ \A i \in 1 .. Len(s) : (<<w>> \o s)[i + 1] = s[i]
         /\ \A i \in 1 .. Len(s) + 1 : (<<w>> \o s)[i] = IF i = 1 THEN w ELSE s[i - 1]
BY ConcatProperties

(* The head and the tail of a list. *)
LEMMA TailFacts ==
  ASSUME NEW S, NEW s \in Seq(S), s # <<>>
  PROVE  /\ Tail(s) \in Seq(S)
         /\ Head(s) = s[1]
         /\ Head(s) \in S
         /\ Len(s) > 0
         /\ Len(Tail(s)) = Len(s) - 1
         /\ \A i \in 1 .. Len(s) - 1 : Tail(s)[i] = s[i + 1]
OBVIOUS

(* The reversed list has the same elements, in the opposite order. *)
LEMMA ReverseFacts ==
  ASSUME NEW S, NEW s \in Seq(S), s # <<>>
  PROVE  /\ Reverse(s) \in Seq(S)
         /\ Reverse(s) # <<>>
         /\ Len(Reverse(s)) = Len(s)
         /\ \A i \in 1 .. Len(s) : Reverse(s)[i] = s[Len(s) - i + 1]
BY DEF Reverse

(* The semaphore starts with nobody waiting, and with an owner if locked. *)
LEMMA InitSemaphoreInv == Init => SemaphoreInv
<1> SUFFICES ASSUME Init PROVE SemaphoreInv
  OBVIOUS
<1>1. TypeOK
  <2>1. held \in BOOLEAN
    BY Zenon DEF Init
  <2>2. pc \in [Coros -> {"out", "in"}]
    BY DEF Init
  <2>3. QED
    BY <2>1, <2>2 DEF Init, TypeOK
<1>2. \A w \in Coros : pc[w] \in {"out", "in"}
  BY DEF Init
<1>3. stack = <<>> /\ transfer = <<>>
  BY DEF Init
<1>4. MutualExclusion /\ HeldWhileOwned
  <2>1. CASE held = FALSE /\ pc = [w \in Coros |-> "out"]
    <3>1. \A w \in Coros : ~Owner(w)
      BY <2>1 DEF Init, Owner
    <3>2. ~held
      BY <2>1, Zenon
    <3>3. QED
      BY <3>1, <3>2, <1>2, <1>3 DEF MutualExclusion, HeldWhileOwned
  <2>2. CASE held = TRUE /\ \E v \in Coros : pc = [w \in Coros |-> IF w = v THEN "in" ELSE "out"]
    <3>1. PICK v \in Coros : pc = [w \in Coros |-> IF w = v THEN "in" ELSE "out"]
      BY <2>2
    <3>2. \A w \in Coros : Owner(w) <=> w = v
      BY <3>1 DEF Init, Owner
    <3>3. held
      BY <2>2, Zenon
    <3>4. QED
      BY <3>2, <3>3, <1>2, <1>3 DEF MutualExclusion, HeldWhileOwned
  <2>3. QED
    BY <2>1, <2>2 DEF Init
<1>5. LinkedOnce /\ LinkedIsParked /\ ParkedIsLinked
  BY <1>2 DEF Init, LinkedOnce, LinkedIsParked, ParkedIsLinked
<1>6. QED
  BY <1>1, <1>4, <1>5 DEF SemaphoreInv

(* An unlocked word means no owner, so the new owner is the only one. *)
LEMMA TryAquireKeeps ==
  ASSUME SemaphoreInv, NEW w \in Coros, TryAquire(w)
  PROVE  SemaphoreInv'
<1> USE SemaphoreAssumption DEF SemaphoreInv, TypeOK, TryAquire
<1>1. TypeOK'
  OBVIOUS
<1>2. MutualExclusion'
  <2>1. \A v \in Coros : ~Owner(v)
    BY TopFacts DEF HeldWhileOwned
  <2>2. QED
    BY <2>1 DEF MutualExclusion, Owner
<1>3. HeldWhileOwned'
  BY TopFacts DEF HeldWhileOwned, Owner
<1>4. LinkedOnce'
  BY DEF LinkedOnce
<1>5. LinkedIsParked'
  BY DEF LinkedOnce, LinkedIsParked
<1>6. ParkedIsLinked'
  BY DEF ParkedIsLinked
<1>7. QED
  BY <1>1, <1>2, <1>3, <1>4, <1>5, <1>6

(* A coroutine that finds the word taken changes nothing shared. *)
LEMMA AwaitSuspendKeeps ==
  ASSUME SemaphoreInv, NEW w \in Coros, AwaitSuspend(w)
  PROVE  SemaphoreInv'
<1> USE SemaphoreAssumption DEF SemaphoreInv, TypeOK, AwaitSuspend
<1>1. TypeOK'
  OBVIOUS
<1>2. MutualExclusion'
  BY DEF MutualExclusion, Owner
<1>3. HeldWhileOwned'
  BY DEF HeldWhileOwned, Owner
<1>4. LinkedOnce'
  BY DEF LinkedOnce
<1>5. LinkedIsParked'
  BY DEF LinkedOnce, LinkedIsParked
<1>6. ParkedIsLinked'
  BY DEF ParkedIsLinked
<1>7. QED
  BY <1>1, <1>2, <1>3, <1>4, <1>5, <1>6

(* Nor does its load. *)
LEMMA SuspendLoadKeeps ==
  ASSUME SemaphoreInv, NEW w \in Coros, SuspendLoad(w)
  PROVE  SemaphoreInv'
<1> USE SemaphoreAssumption DEF SemaphoreInv, TypeOK, SuspendLoad
<1>1. TypeOK'
  BY TopFacts
<1>2. MutualExclusion'
  BY DEF MutualExclusion, Owner
<1>3. HeldWhileOwned'
  BY DEF HeldWhileOwned, Owner
<1>4. LinkedOnce'
  BY DEF LinkedOnce
<1>5. LinkedIsParked'
  BY DEF LinkedOnce, LinkedIsParked
<1>6. ParkedIsLinked'
  BY DEF ParkedIsLinked
<1>7. QED
  BY <1>1, <1>2, <1>3, <1>4, <1>5, <1>6

(* suspend() may find the semaphore released: as in try_aquire(). *)
LEMMA SuspendTakeKeeps ==
  ASSUME SemaphoreInv, NEW w \in Coros, SuspendTake(w)
  PROVE  SemaphoreInv'
<1> USE SemaphoreAssumption DEF SemaphoreInv, TypeOK, SuspendTake
<1>1. TypeOK'
  OBVIOUS
<1>2. MutualExclusion'
  <2>1. \A v \in Coros : ~Owner(v)
    BY TopFacts DEF HeldWhileOwned
  <2>2. QED
    BY <2>1 DEF MutualExclusion, Owner
<1>3. HeldWhileOwned'
  BY TopFacts DEF HeldWhileOwned, Owner
<1>4. LinkedOnce'
  BY DEF LinkedOnce
<1>5. LinkedIsParked'
  BY DEF LinkedOnce, LinkedIsParked
<1>6. ParkedIsLinked'
  BY DEF ParkedIsLinked
<1>7. QED
  BY <1>1, <1>2, <1>3, <1>4, <1>5, <1>6

(* A push on a taken word: somebody owns the semaphore and will see the list. *)
LEMMA SuspendPushKeeps ==
  ASSUME SemaphoreInv, NEW w \in Coros, SuspendPush(w)
  PROVE  SemaphoreInv'
<1> USE SemaphoreAssumption DEF SemaphoreInv, TypeOK, SuspendPush
<1>1. TypeOK'
  BY PushFacts
<1>2. MutualExclusion'
  BY DEF MutualExclusion, Owner
<1>3. HeldWhileOwned'
  <2>1. held
    BY TopFacts
  <2>2. stack' # <<>>
    BY PushFacts
  <2>3. \A v \in Coros : Owner(v)' <=> Owner(v)
    BY DEF Owner
  <2>4. QED
    BY <2>1, <2>2, <2>3 DEF HeldWhileOwned
<1>4. LinkedOnce'
  <2>1. \A i \in 1 .. Len(stack) : stack[i] # w
    BY DEF LinkedIsParked
  <2>2. \A i \in 1 .. Len(transfer) : transfer[i] # w
    BY DEF LinkedIsParked
  <2>3. \A v \in Coros : pc[v] = "post" => head[v] # w
    BY DEF LinkedIsParked
  <2>4. /\ Len(stack') = Len(stack) + 1
        /\ \A i \in 1 .. Len(stack) + 1 : stack'[i] = IF i = 1 THEN w ELSE stack[i - 1]
    BY PushFacts
  <2>5. ASSUME NEW i \in 1 .. Len(stack'), NEW j \in 1 .. Len(stack'), stack'[i] = stack'[j]
        PROVE  i = j
    <3>1. CASE i = 1 \/ j = 1
      BY <2>1, <2>4, <2>5, <3>1
    <3>2. CASE i # 1 /\ j # 1
      <4>1. i - 1 \in 1 .. Len(stack) /\ j - 1 \in 1 .. Len(stack)
        BY <2>4, <3>2
      <4>2. stack[i - 1] = stack[j - 1]
        BY <2>4, <2>5, <3>2
      <4>3. i - 1 = j - 1
        BY <4>1, <4>2 DEF LinkedOnce
      <4>4. QED
        BY <4>3
    <3>3. QED
      BY <3>1, <3>2
  <2>6. ASSUME NEW i \in 1 .. Len(stack'), NEW j \in 1 .. Len(transfer')
        PROVE  stack'[i] # transfer'[j]
    <3>1. CASE i = 1
      BY <2>2, <2>4, <3>1
    <3>2. CASE i # 1
      <4>1. i - 1 \in 1 .. Len(stack) /\ stack'[i] = stack[i - 1]
        BY <2>4, <3>2
      <4>2. QED
        BY <4>1 DEF LinkedOnce
    <3>3. QED
      BY <3>1, <3>2
  <2>7. \A v \in Coros : pc'[v] = "post" =>
           /\ head'[v] \in Coros
           /\ \A i \in 1 .. Len(stack') : stack'[i] # head'[v]
           /\ \A i \in 1 .. Len(transfer') : transfer'[i] # head'[v]
    BY <2>3, <2>4 DEF LinkedOnce
  <2>8. QED
    BY <2>5, <2>6, <2>7 DEF LinkedOnce
<1>5. LinkedIsParked'
  BY PushFacts DEF LinkedOnce, LinkedIsParked
<1>6. ParkedIsLinked'
  <2>1. /\ Len(stack') = Len(stack) + 1 /\ stack'[1] = w
        /\ \A i \in 1 .. Len(stack) : stack'[i + 1] = stack[i]
    BY PushFacts
  <2>2. SUFFICES ASSUME NEW u \in Coros, u # w, pc[u] = "parked"
                 PROVE  \/ \E i \in 1 .. Len(stack') : stack'[i] = u
                        \/ \E i \in 1 .. Len(transfer') : transfer'[i] = u
                        \/ \E v \in Coros : pc'[v] = "post" /\ head'[v] = u
                        \/ u \in ready'
    BY <2>1 DEF ParkedIsLinked
  <2>3. ASSUME NEW i \in 1 .. Len(stack), stack[i] = u
        PROVE  \E k \in 1 .. Len(stack') : stack'[k] = u
    <3>1. i + 1 \in 1 .. Len(stack') /\ stack'[i + 1] = u
      BY <2>1, <2>3
    <3>2. QED
      BY <3>1
  <2>4. QED
    BY <2>2, <2>3 DEF ParkedIsLinked
<1>7. QED
  BY <1>1, <1>2, <1>3, <1>4, <1>5, <1>6

(* A failed compare-exchange changes nothing shared. *)
LEMMA SuspendRetryKeeps ==
  ASSUME SemaphoreInv, NEW w \in Coros, SuspendRetry(w)
  PROVE  SemaphoreInv'
<1> USE SemaphoreAssumption DEF SemaphoreInv, TypeOK, SuspendRetry
<1>1. TypeOK'
  BY TopFacts
<1>2. MutualExclusion'
  BY DEF MutualExclusion, Owner
<1>3. HeldWhileOwned'
  BY DEF HeldWhileOwned, Owner
<1>4. LinkedOnce'
  BY DEF LinkedOnce
<1>5. LinkedIsParked'
  BY DEF LinkedOnce, LinkedIsParked
<1>6. ParkedIsLinked'
  BY DEF ParkedIsLinked
<1>7. QED
  BY <1>1, <1>2, <1>3, <1>4, <1>5, <1>6

(* The resumed coroutine was already the owner. *)
LEMMA ResumeKeeps ==
  ASSUME SemaphoreInv, NEW w \in Coros, Resume(w)
  PROVE  SemaphoreInv'
<1> USE SemaphoreAssumption DEF SemaphoreInv, TypeOK, Resume
<1>1. TypeOK'
  OBVIOUS
<1>2. MutualExclusion'
  BY DEF MutualExclusion, Owner, LinkedIsParked
<1>3. HeldWhileOwned'
  BY DEF HeldWhileOwned, Owner, LinkedIsParked
<1>4. LinkedOnce'
  BY DEF LinkedOnce, LinkedIsParked
<1>5. LinkedIsParked'
  BY DEF LinkedOnce, LinkedIsParked
<1>6. ParkedIsLinked'
  BY DEF ParkedIsLinked, LinkedIsParked
<1>7. QED
  BY <1>1, <1>2, <1>3, <1>4, <1>5, <1>6

(* The oldest transferred waiter is unlinked before it is resumed. *)
LEMMA ReleasePopKeeps ==
  ASSUME SemaphoreInv, NEW w \in Coros, ReleasePop(w)
  PROVE  SemaphoreInv'
<1> USE SemaphoreAssumption DEF SemaphoreInv, TypeOK, ReleasePop
<1>1. TypeOK'
  BY TailFacts
<1>2. MutualExclusion'
  BY DEF MutualExclusion, Owner
<1>3. HeldWhileOwned'
  BY TailFacts DEF HeldWhileOwned, Owner
<1>4. LinkedOnce'
  BY TailFacts DEF LinkedOnce, MutualExclusion, Owner
<1>5. LinkedIsParked'
  <2>1. /\ transfer' = Tail(transfer) /\ head'[w] = transfer[1] /\ Len(transfer) > 0
        /\ Len(transfer') = Len(transfer) - 1
        /\ \A i \in 1 .. Len(transfer) - 1 : transfer'[i] = transfer[i + 1]
    BY TailFacts
  <2>2. \A v \in Coros : pc[v] # "post"
    BY DEF MutualExclusion, Owner
  <2>3. \A i \in 1 .. Len(transfer') : pc'[transfer'[i]] = "parked" /\ transfer'[i] \notin ready'
    BY <2>1 DEF LinkedIsParked
  <2>4. pc'[head'[w]] = "parked" /\ head'[w] \notin ready'
    BY <2>1 DEF LinkedIsParked
  <2>5. QED
    BY <2>2, <2>3, <2>4 DEF LinkedIsParked
<1>6. ParkedIsLinked'
  <2>1. /\ transfer' = Tail(transfer) /\ head'[w] = transfer[1] /\ Len(transfer) > 0
        /\ Len(transfer') = Len(transfer) - 1
        /\ \A i \in 1 .. Len(transfer) - 1 : transfer'[i] = transfer[i + 1]
    BY TailFacts
  <2>2. ASSUME NEW u \in Coros, pc'[u] = "parked"
        PROVE  \/ \E i \in 1 .. Len(stack') : stack'[i] = u
               \/ \E i \in 1 .. Len(transfer') : transfer'[i] = u
               \/ \E v \in Coros : pc'[v] = "post" /\ head'[v] = u
               \/ u \in ready'
    <3>1. pc[u] = "parked" /\ pc'[w] = "post"
      BY <2>2
    <3>2. CASE \E i \in 1 .. Len(transfer) : transfer[i] = u
      <4>1. PICK i \in 1 .. Len(transfer) : transfer[i] = u
        BY <3>2
      <4>2. CASE i = 1
        BY <2>1, <3>1, <4>1, <4>2
      <4>3. CASE i # 1
        <5>1. i - 1 \in 1 .. Len(transfer') /\ transfer'[i - 1] = u
          BY <2>1, <4>1, <4>3
        <5>2. QED
          BY <5>1
      <4>4. QED
        BY <4>2, <4>3
    <3>3. \A v \in Coros : pc[v] # "post"
      BY DEF MutualExclusion, Owner
    <3>4. QED
      BY <3>1, <3>2, <3>3 DEF ParkedIsLinked
  <2>3. QED
    BY <2>2 DEF ParkedIsLinked
<1>7. QED
  BY <1>1, <1>2, <1>3, <1>4, <1>5, <1>6

(* With nobody linked the word becomes 0 and nobody owns it. *)
LEMMA ReleaseUnlockKeeps ==
  ASSUME SemaphoreInv, NEW w \in Coros, ReleaseUnlock(w)
  PROVE  SemaphoreInv'
<1> USE SemaphoreAssumption DEF SemaphoreInv, TypeOK, ReleaseUnlock
<1>1. TypeOK'
  OBVIOUS
<1>2. MutualExclusion'
  BY DEF MutualExclusion, Owner
<1>3. HeldWhileOwned'
  <2>1. \A v \in Coros : ~Owner(v)'
    BY DEF MutualExclusion, Owner, LinkedIsParked
  <2>2. stack' = <<>> /\ transfer' = <<>> /\ ~held'
    BY TopFacts
  <2>3. QED
    BY <2>1, <2>2 DEF HeldWhileOwned, Owner
<1>4. LinkedOnce'
  BY DEF LinkedOnce
<1>5. LinkedIsParked'
  BY DEF LinkedOnce, LinkedIsParked
<1>6. ParkedIsLinked'
  BY DEF ParkedIsLinked
<1>7. QED
  BY <1>1, <1>2, <1>3, <1>4, <1>5, <1>6

(* The word was neither 0 nor the flag: somebody is linked. *)
LEMMA ReleaseContendedKeeps ==
  ASSUME SemaphoreInv, NEW w \in Coros, ReleaseContended(w)
  PROVE  SemaphoreInv'
<1> USE SemaphoreAssumption DEF SemaphoreInv, TypeOK, ReleaseContended
<1>1. TypeOK'
  OBVIOUS
<1>2. MutualExclusion'
  BY DEF MutualExclusion, Owner
<1>3. HeldWhileOwned'
  <2>1. held
    BY DEF HeldWhileOwned, Owner
  <2>2. stack # <<>>
    BY <2>1, TopFacts
  <2>3. QED
    BY <2>2 DEF HeldWhileOwned, Owner
<1>4. LinkedOnce'
  BY DEF LinkedOnce
<1>5. LinkedIsParked'
  BY DEF LinkedOnce, LinkedIsParked
<1>6. ParkedIsLinked'
  BY DEF ParkedIsLinked
<1>7. QED
  BY <1>1, <1>2, <1>3, <1>4, <1>5, <1>6

(* The owner takes the list: the oldest waiter is next, the others are transferred in the order
   of their arrival. *)
LEMMA ReleaseTakeKeeps ==
  ASSUME SemaphoreInv, NEW w \in Coros, ReleaseTake(w)
  PROVE  SemaphoreInv'
<1> USE SemaphoreAssumption DEF SemaphoreInv, TypeOK, ReleaseTake
<1>1. TypeOK'
  BY ReverseFacts, TailFacts DEF HeldWhileOwned
<1>2. MutualExclusion'
  BY DEF MutualExclusion, Owner
<1>3. HeldWhileOwned'
  <2>1. \A v \in Coros : Owner(v)' <=> Owner(v)
    BY DEF Owner
  <2>2. held /\ held' = held
    BY DEF HeldWhileOwned, Owner
  <2>3. \A v \in Coros : pc'[v] # "take"
    BY DEF MutualExclusion, Owner
  <2>4. QED
    BY <2>1, <2>2, <2>3 DEF HeldWhileOwned
<1>4. LinkedOnce'
  <2> DEFINE n == Len(stack)
  <2>1. /\ stack # <<>> /\ transfer = <<>> /\ n \in Nat /\ n > 0
    BY DEF HeldWhileOwned
  <2>2. /\ Reverse(stack) \in Seq(Coros) /\ Reverse(stack) # <<>> /\ Len(Reverse(stack)) = n
        /\ \A i \in 1 .. n : Reverse(stack)[i] = stack[n - i + 1]
    BY <2>1, ReverseFacts
  <2>3. /\ stack' = <<>> /\ transfer' = Tail(Reverse(stack)) /\ head'[w] = Head(Reverse(stack))
        /\ pc'[w] = "post" /\ ready' = ready
    OBVIOUS
  <2>4. /\ transfer' \in Seq(Coros) /\ Len(transfer') = n - 1 /\ head'[w] = Reverse(stack)[1]
        /\ \A i \in 1 .. n - 1 : transfer'[i] = Reverse(stack)[i + 1]
    BY <2>2, <2>3, TailFacts
  <2>5. \A i \in 1 .. n - 1 : transfer'[i] = stack[n - i]
    BY <2>1, <2>2, <2>4
  <2>6. head'[w] = stack[n]
    BY <2>1, <2>2, <2>4
  <2>7. \A v \in Coros : pc[v] # "post" /\ (pc'[v] = "post" => v = w)
    BY DEF MutualExclusion, Owner
  <2>8. ASSUME NEW i \in 1 .. n - 1, NEW j \in 1 .. n - 1, transfer'[i] = transfer'[j]
        PROVE  i = j
    <3>1. n - i \in 1 .. Len(stack) /\ n - j \in 1 .. Len(stack)
      BY <2>1
    <3>2. transfer'[i] = stack[n - i] /\ transfer'[j] = stack[n - j]
      BY <2>5
    <3>3. n - i = n - j
      BY <2>8, <3>1, <3>2 DEF LinkedOnce
    <3>4. QED
      BY <2>1, <3>3
  <2>9. ASSUME NEW i \in 1 .. n - 1 PROVE transfer'[i] # head'[w]
    <3>1. n - i \in 1 .. Len(stack) /\ n \in 1 .. Len(stack) /\ n - i # n
      BY <2>1
    <3>2. stack[n - i] # stack[n]
      BY <3>1 DEF LinkedOnce
    <3>3. QED
      BY <2>5, <2>6, <3>2
  <2>10. head'[w] \in Coros
    BY <2>1, <2>6
  <2>11. Len(stack') = 0
    BY <2>3
  <2>12. QED
    BY <2>1, <2>4, <2>7, <2>8, <2>9, <2>10, <2>11 DEF LinkedOnce
<1>5. LinkedIsParked'
  <2> DEFINE n == Len(stack)
  <2>1. /\ stack # <<>> /\ transfer = <<>> /\ n \in Nat /\ n > 0
    BY DEF HeldWhileOwned
  <2>2. /\ Reverse(stack) \in Seq(Coros) /\ Reverse(stack) # <<>> /\ Len(Reverse(stack)) = n
        /\ \A i \in 1 .. n : Reverse(stack)[i] = stack[n - i + 1]
    BY <2>1, ReverseFacts
  <2>3. /\ stack' = <<>> /\ transfer' = Tail(Reverse(stack)) /\ head'[w] = Head(Reverse(stack))
        /\ pc'[w] = "post" /\ ready' = ready
    OBVIOUS
  <2>4. /\ transfer' \in Seq(Coros) /\ Len(transfer') = n - 1 /\ head'[w] = Reverse(stack)[1]
        /\ \A i \in 1 .. n - 1 : transfer'[i] = Reverse(stack)[i + 1]
    BY <2>2, <2>3, TailFacts
  <2>5. \A i \in 1 .. n - 1 : transfer'[i] = stack[n - i]
    BY <2>1, <2>2, <2>4
  <2>6. head'[w] = stack[n]
    BY <2>1, <2>2, <2>4
  <2>7. \A v \in Coros : pc[v] # "post" /\ (pc'[v] = "post" => v = w)
    BY DEF MutualExclusion, Owner
  <2>8. \A i \in 1 .. n : pc'[stack[i]] = "parked" /\ stack[i] \notin ready'
    BY <2>3 DEF LinkedIsParked
  <2>9. ASSUME NEW i \in 1 .. n - 1
        PROVE  pc'[transfer'[i]] = "parked" /\ transfer'[i] \notin ready'
    <3>1. n - i \in 1 .. n
      BY <2>1
    <3>2. QED
      BY <2>5, <2>8, <3>1
  <2>10. pc'[head'[w]] = "parked" /\ head'[w] \notin ready'
    BY <2>1, <2>6, <2>8
  <2>11. \A u \in ready' : pc'[u] = "parked"
    BY <2>3 DEF LinkedIsParked
  <2>12. Len(stack') = 0
    BY <2>3
  <2>13. QED
    BY <2>4, <2>7, <2>9, <2>10, <2>11, <2>12 DEF LinkedIsParked
<1>6. ParkedIsLinked'
  <2> DEFINE n == Len(stack)
  <2>1. /\ stack # <<>> /\ transfer = <<>> /\ n \in Nat /\ n > 0
    BY DEF HeldWhileOwned
  <2>2. /\ Reverse(stack) \in Seq(Coros) /\ Reverse(stack) # <<>> /\ Len(Reverse(stack)) = n
        /\ \A i \in 1 .. n : Reverse(stack)[i] = stack[n - i + 1]
    BY <2>1, ReverseFacts
  <2>3. /\ stack' = <<>> /\ transfer' = Tail(Reverse(stack)) /\ head'[w] = Head(Reverse(stack))
        /\ pc'[w] = "post" /\ ready' = ready
    OBVIOUS
  <2>4. /\ transfer' \in Seq(Coros) /\ Len(transfer') = n - 1 /\ head'[w] = Reverse(stack)[1]
        /\ \A i \in 1 .. n - 1 : transfer'[i] = Reverse(stack)[i + 1]
    BY <2>2, <2>3, TailFacts
  <2>5. \A i \in 1 .. n - 1 : transfer'[i] = stack[n - i]
    BY <2>1, <2>2, <2>4
  <2>6. head'[w] = stack[n]
    BY <2>1, <2>2, <2>4
  <2>7. \A v \in Coros : pc[v] # "post" /\ (pc'[v] = "post" => v = w)
    BY DEF MutualExclusion, Owner
  <2>8. ASSUME NEW u \in Coros, pc'[u] = "parked"
        PROVE  \/ \E i \in 1 .. Len(transfer') : transfer'[i] = u
               \/ \E v \in Coros : pc'[v] = "post" /\ head'[v] = u
               \/ u \in ready'
    <3>1. pc[u] = "parked"
      BY <2>8, <2>3
    <3>2. CASE \E i \in 1 .. Len(stack) : stack[i] = u
      <4>1. PICK i \in 1 .. n : stack[i] = u
        BY <3>2
      <4>2. CASE i = n
        BY <2>3, <2>6, <4>1, <4>2
      <4>3. CASE i # n
        <5>1. n - i \in 1 .. Len(transfer')
          BY <2>1, <2>4, <4>3
        <5>2. transfer'[n - i] = u
          <6>1. n - i \in 1 .. n - 1 /\ n - (n - i) = i
            BY <2>1, <4>3
          <6>2. QED
            BY <2>5, <4>1, <6>1
        <5>3. QED
          BY <5>1, <5>2
      <4>4. QED
        BY <4>2, <4>3
    <3>3. ~ \E i \in 1 .. Len(transfer) : transfer[i] = u
      BY <2>1
    <3>4. QED
      BY <3>1, <3>2, <3>3, <2>3, <2>7 DEF ParkedIsLinked
  <2>9. QED
    BY <2>8 DEF ParkedIsLinked
<1>7. QED
  BY <1>1, <1>2, <1>3, <1>4, <1>5, <1>6

(* Ownership passes from the releasing coroutine to the one it resumes. *)
LEMMA ReleasePostKeeps ==
  ASSUME SemaphoreInv, NEW w \in Coros, ReleasePost(w)
  PROVE  SemaphoreInv'
<1> USE SemaphoreAssumption DEF SemaphoreInv, TypeOK, ReleasePost
<1>1. TypeOK'
  BY DEF LinkedOnce
<1>2. MutualExclusion'
  <2>1. PICK h \in Coros : h = head[w]
    BY DEF LinkedOnce
  <2>2. \A v \in Coros : Owner(v)' => v = h
    BY <2>1 DEF MutualExclusion, Owner, LinkedIsParked
  <2>3. QED
    BY <2>2 DEF MutualExclusion
<1>3. HeldWhileOwned'
  <2>1. PICK h \in Coros : h = head[w]
    BY DEF LinkedOnce
  <2>2. Owner(h)'
    BY <2>1 DEF Owner
  <2>3. held /\ held' = held
    BY DEF HeldWhileOwned, Owner
  <2>4. \A v \in Coros : pc'[v] # "take"
    BY DEF MutualExclusion, Owner
  <2>5. QED
    BY <2>2, <2>3, <2>4 DEF HeldWhileOwned
<1>4. LinkedOnce'
  BY DEF LinkedOnce
<1>5. LinkedIsParked'
  <2>1. \A v \in Coros : pc'[v] # "post"
    BY DEF MutualExclusion, Owner
  <2>2. QED
    BY <2>1 DEF LinkedOnce, LinkedIsParked
<1>6. ParkedIsLinked'
  <2>1. \A v \in Coros : pc[v] = "post" => v = w
    BY DEF MutualExclusion, Owner
  <2>2. \A u \in Coros : pc'[u] = "parked" => pc[u] = "parked"
    OBVIOUS
  <2>3. \A u \in Coros : u \in ready \/ u = head[w] => u \in ready'
    OBVIOUS
  <2>4. stack' = stack /\ transfer' = transfer
    OBVIOUS
  <2>5. QED
    BY <2>1, <2>2, <2>3, <2>4 DEF ParkedIsLinked
<1>7. QED
  BY <1>1, <1>2, <1>3, <1>4, <1>5, <1>6

(* Every step keeps the invariant. *)
LEMMA NextSemaphoreInv == SemaphoreInv /\ [Next]_vars => SemaphoreInv'
<1> SUFFICES ASSUME SemaphoreInv, [Next]_vars PROVE SemaphoreInv'
  OBVIOUS
<1>1. ASSUME NEW w \in Coros, SuspendStep(w) PROVE SemaphoreInv'
  BY <1>1, SuspendLoadKeeps, SuspendTakeKeeps, SuspendPushKeeps, SuspendRetryKeeps
     DEF SuspendStep
<1>2. ASSUME NEW w \in Coros, ReleaseStep(w) PROVE SemaphoreInv'
  BY <1>2, ReleasePopKeeps, ReleaseUnlockKeeps, ReleaseContendedKeeps, ReleaseTakeKeeps,
     ReleasePostKeeps
     DEF ReleaseStep
<1>3. CASE UNCHANGED vars
  BY <1>3 DEF vars, SemaphoreInv, TypeOK, MutualExclusion, HeldWhileOwned, LinkedOnce,
     LinkedIsParked, ParkedIsLinked, Owner
<1>4. QED
  BY <1>1, <1>2, <1>3, TryAquireKeeps, AwaitSuspendKeeps, ResumeKeeps DEF Next

(* The invariant of the semaphore holds in every reachable state. *)
THEOREM SemaphoreInvariant == Spec => []SemaphoreInv
BY InitSemaphoreInv, NextSemaphoreInv, PTL DEF Spec

(* async_binary_semaphore is a mutual exclusion lock for any number of
   coroutines, and its field transfer_, which no atomic protects, has one
   user at a time. *)
THEOREM MutualExclusionHolds == Spec => []MutualExclusion
BY SemaphoreInvariant, PTL DEF SemaphoreInv

-----------------------------------------------------------------------------
(***************************************************************************)
(* The binary semaphore implements the fair lock.                          *)
(***************************************************************************)

(* The abstract holder, read off the one owner there may be. *)
HolderFacts ==
    /\ \A w \in Coros : pc[w] = "post" => LockHolder = head[w]
    /\ \A w \in Coros : Owner(w) /\ pc[w] # "post" => LockHolder = w
    /\ (\A w \in Coros : ~Owner(w)) => LockHolder = Nobody

(* The invariant makes the holder unique. *)
LEMMA HolderRead == SemaphoreInv => HolderFacts
<1> SUFFICES ASSUME SemaphoreInv PROVE HolderFacts
  OBVIOUS
<1>1. ASSUME NEW w \in Coros, pc[w] = "post" PROVE LockHolder = head[w]
  <2>1. \A v \in Coros : pc[v] = "post" => v = w
    BY <1>1 DEF SemaphoreInv, MutualExclusion, Owner
  <2>2. (CHOOSE v \in Coros : pc[v] = "post") = w
    BY <1>1, <2>1
  <2>3. QED
    BY <1>1, <2>2 DEF LockHolder
<1>2. ASSUME NEW w \in Coros, Owner(w), pc[w] # "post" PROVE LockHolder = w
  <2>1. \A v \in Coros : Owner(v) => v = w
    BY <1>2 DEF SemaphoreInv, MutualExclusion
  <2>2. ~\E v \in Coros : pc[v] = "post"
    BY <1>2, <2>1 DEF Owner
  <2>3. (CHOOSE v \in Coros : Owner(v)) = w
    BY <1>2, <2>1
  <2>4. QED
    BY <1>2, <2>2, <2>3 DEF LockHolder
<1>3. ASSUME \A w \in Coros : ~Owner(w) PROVE LockHolder = Nobody
  BY <1>3 DEF LockHolder, Owner
<1>4. QED
  BY <1>1, <1>2, <1>3 DEF HolderFacts

(* The same after a step. *)
LEMMA HolderReadNext == SemaphoreInv' => HolderFacts'
BY HolderRead, PTL

(* A push puts the newcomer at the end of the queue. *)
LEMMA ReverseOfPush ==
  ASSUME NEW S, NEW w \in S, NEW s \in Seq(S), NEW t \in Seq(S)
  PROVE  t \o Reverse(<<w>> \o s) = Append(t \o Reverse(s), w)
<1>1. /\ <<w>> \o s \in Seq(S)
      /\ Len(<<w>> \o s) = Len(s) + 1
      /\ \A i \in 1 .. Len(s) + 1 : (<<w>> \o s)[i] = IF i = 1 THEN w ELSE s[i - 1]
  BY PushFacts
<1> DEFINE u == <<w>> \o s
<1>2. /\ Reverse(u) \in Seq(S)
      /\ Len(Reverse(u)) = Len(s) + 1
      /\ \A i \in 1 .. Len(s) + 1 : Reverse(u)[i] = u[Len(s) + 1 - i + 1]
  BY <1>1 DEF Reverse
<1>3. /\ Reverse(s) \in Seq(S)
      /\ Len(Reverse(s)) = Len(s)
      /\ \A i \in 1 .. Len(s) : Reverse(s)[i] = s[Len(s) - i + 1]
  BY DEF Reverse
<1> DEFINE a == Append(Reverse(s), w)
<1>4. /\ a \in Seq(S)
      /\ Len(a) = Len(s) + 1
      /\ \A i \in 1 .. Len(s) : a[i] = Reverse(s)[i]
      /\ a[Len(s) + 1] = w
  BY <1>3, AppendProperties
<1> HIDE DEF u, a
<1>5. \A i \in 1 .. Len(s) + 1 : Reverse(u)[i] = a[i]
  <2> SUFFICES ASSUME NEW i \in 1 .. Len(s) + 1 PROVE Reverse(u)[i] = a[i]
    OBVIOUS
  <2> DEFINE k == Len(s) + 1 - i + 1
  <2>1. k \in 1 .. Len(s) + 1 /\ Reverse(u)[i] = u[k] /\ u[k] = IF k = 1 THEN w ELSE s[k - 1]
    BY <1>1, <1>2 DEF u
  <2>2. CASE i = Len(s) + 1
    <3>1. k = 1
      BY <2>2
    <3>2. QED
      BY <1>4, <2>1, <2>2, <3>1
  <2>3. CASE i # Len(s) + 1
    <3>1. k # 1 /\ k - 1 = Len(s) - i + 1 /\ i \in 1 .. Len(s)
      BY <2>3
    <3>2. Reverse(u)[i] = s[Len(s) - i + 1]
      BY <2>1, <3>1
    <3>3. QED
      BY <1>3, <1>4, <3>1, <3>2
  <2>4. QED
    BY <2>2, <2>3
<1>6. Reverse(u) = a
  BY <1>2, <1>4, <1>5, SeqEqual
<1>7. t \o Append(Reverse(s), w) = Append(t \o Reverse(s), w)
  <2>1. Append(Reverse(s), w) = Reverse(s) \o <<w>>
    BY <1>3, AppendIsConcat
  <2>2. <<w>> \in Seq(S) /\ t \o Reverse(s) \in Seq(S)
    BY <1>3, ConcatProperties
  <2>3. Append(t \o Reverse(s), w) = (t \o Reverse(s)) \o <<w>>
    BY <2>2, AppendIsConcat
  <2>4. (t \o Reverse(s)) \o <<w>> = t \o (Reverse(s) \o <<w>>)
    <3>1. ASSUME NEW r \in Seq(S), NEW e \in Seq(S)
          PROVE  (t \o r) \o e = t \o (r \o e)
      BY <3>1, ConcatAssociative
    <3>2. Reverse(s) \in Seq(S)
      BY <1>3
    <3>3. QED
      BY <2>2, <3>1, <3>2, Zenon
  <2>5. QED
    BY <2>1, <2>3, <2>4
<1>8. QED
  BY <1>6, <1>7 DEF u, a

(* A waiter that release() unlinks heads the queue. *)
LEMMA QueueHead ==
  ASSUME NEW S, NEW s \in Seq(S), NEW t \in Seq(S), s # <<>>
  PROVE  /\ s \o t # <<>>
         /\ Head(s \o t) = Head(s)
         /\ Tail(s \o t) = Tail(s) \o t
<1>1. /\ s \o t \in Seq(S)
      /\ Len(s \o t) = Len(s) + Len(t)
      /\ \A i \in 1 .. Len(s) + Len(t) : (s \o t)[i] = IF i <= Len(s) THEN s[i] ELSE t[i - Len(s)]
  BY ConcatProperties
<1>2. /\ Tail(s) \in Seq(S)
      /\ Head(s) = s[1]
      /\ Len(s) > 0
      /\ Len(Tail(s)) = Len(s) - 1
      /\ \A i \in 1 .. Len(s) - 1 : Tail(s)[i] = s[i + 1]
  BY TailFacts
<1> DEFINE c == s \o t
<1>3. c # <<>> /\ c \in Seq(S)
  BY <1>1, <1>2
<1>4. /\ Tail(c) \in Seq(S)
      /\ Head(c) = c[1]
      /\ Len(Tail(c)) = Len(c) - 1
      /\ \A i \in 1 .. Len(c) - 1 : Tail(c)[i] = c[i + 1]
  BY <1>3, TailFacts
<1> DEFINE d == Tail(s) \o t
<1>5. /\ d \in Seq(S)
      /\ Len(d) = Len(s) - 1 + Len(t)
      /\ \A i \in 1 .. Len(s) - 1 + Len(t) :
            d[i] = IF i <= Len(s) - 1 THEN Tail(s)[i] ELSE t[i - (Len(s) - 1)]
  BY <1>2, ConcatProperties
<1>6. Len(c) = Len(s) + Len(t) /\ Len(s) \in Nat /\ Len(t) \in Nat
  BY <1>1
<1>7. \A i \in 1 .. Len(s) + Len(t) : c[i] = IF i <= Len(s) THEN s[i] ELSE t[i - Len(s)]
  BY <1>1
<1> HIDE DEF c, d
<1>8. \A i \in 1 .. Len(Tail(c)) : Tail(c)[i] = d[i]
  <2> SUFFICES ASSUME NEW i \in 1 .. Len(Tail(c)) PROVE Tail(c)[i] = d[i]
    OBVIOUS
  <2>1. Tail(c)[i] = c[i + 1] /\ i + 1 \in 1 .. Len(s) + Len(t)
    BY <1>4, <1>6
  <2>2. CASE i <= Len(s) - 1
    BY <1>2, <1>4, <1>5, <1>6, <1>7, <2>1, <2>2
  <2>3. CASE ~(i <= Len(s) - 1)
    <3>1. i + 1 - Len(s) = i - (Len(s) - 1)
      BY <1>4, <1>6
    <3>2. QED
      BY <1>2, <1>4, <1>5, <1>6, <1>7, <2>1, <2>3, <3>1
  <2>4. QED
    BY <2>2, <2>3
<1>9. Tail(c) = d
  BY <1>2, <1>4, <1>5, <1>6, <1>8, SeqEqual
<1>10. Head(c) = Head(s)
  BY <1>2, <1>4, <1>6, <1>7
<1>11. QED
  BY <1>3, <1>9, <1>10 DEF c, d

(* A step that leaves the lists alone, and the ownership too, leaves the lock
   alone. *)
LEMMA SameLock ==
  ASSUME SemaphoreInv, SemaphoreInv', UNCHANGED <<stack, transfer, head>>,
         \A v \in Coros : Owner(v)' <=> Owner(v),
         \A v \in Coros : pc'[v] = "post" <=> pc[v] = "post"
  PROVE  UNCHANGED <<LockHolder, LockQueue>>
<1>1. HolderFacts /\ HolderFacts'
  BY HolderRead, HolderReadNext
<1>2. LockQueue' = LockQueue
  BY DEF LockQueue
<1>3. CASE \E w \in Coros : pc[w] = "post"
  BY <1>1, <1>2, <1>3 DEF HolderFacts
<1>4. CASE (\E w \in Coros : Owner(w)) /\ ~\E w \in Coros : pc[w] = "post"
  BY <1>1, <1>2, <1>4 DEF HolderFacts
<1>5. CASE ~\E w \in Coros : Owner(w)
  BY <1>1, <1>2, <1>5 DEF HolderFacts
<1>6. QED
  BY <1>3, <1>4, <1>5

(* An unlocked word has no holder, so whoever takes it takes the lock. *)
LEMMA TakeImplements ==
  ASSUME SemaphoreInv, SemaphoreInv', NEW w \in Coros, TryAquire(w) \/ SuspendTake(w)
  PROVE  TheLock!Take(w)
<1>1. /\ ~held
      /\ pc' = [pc EXCEPT ![w] = "in"]
      /\ UNCHANGED <<stack, transfer, head, ready>>
  BY TopFacts DEF TryAquire, SuspendTake
<1>2. HolderFacts /\ HolderFacts'
  BY HolderRead, HolderReadNext
<1>3. LockHolder = Nobody
  BY <1>1, <1>2 DEF SemaphoreInv, HeldWhileOwned, HolderFacts
<1>4. pc'[w] = "in"
  BY <1>1 DEF SemaphoreInv, TypeOK
<1>5. LockHolder' = w
  BY <1>2, <1>4 DEF HolderFacts, Owner
<1>6. LockQueue' = LockQueue
  BY <1>1 DEF LockQueue
<1>7. QED
  BY <1>3, <1>5, <1>6 DEF TheLock!Take

(* Whoever links itself while the word is held joins the queue. *)
LEMMA PushImplements ==
  ASSUME SemaphoreInv, SemaphoreInv', NEW w \in Coros, SuspendPush(w)
  PROVE  TheLock!Join(w)
<1>1. /\ held
      /\ pc[w] = "cas"
      /\ pc' = [pc EXCEPT ![w] = "parked"]
      /\ stack' = <<w>> \o stack
      /\ UNCHANGED <<transfer, head, ready>>
  BY TopFacts DEF SuspendPush
<1>2. HolderFacts /\ HolderFacts'
  BY HolderRead, HolderReadNext
<1>3. /\ \A v \in Coros : Owner(v)' <=> Owner(v)
      /\ \A v \in Coros : pc'[v] = "post" <=> pc[v] = "post"
  BY <1>1 DEF SemaphoreInv, TypeOK, Owner
<1>4. PICK v \in Coros : Owner(v)
  BY <1>1 DEF SemaphoreInv, HeldWhileOwned
<1>5. LockHolder # Nobody
  BY <1>2, <1>4, SemaphoreAssumption DEF HolderFacts, SemaphoreInv, LinkedOnce
<1>6. LockHolder' = LockHolder
  BY <1>1, <1>2, <1>3, <1>4 DEF HolderFacts
<1>7. LockQueue' = Append(LockQueue, w)
  <2>1. stack \in Seq(Coros) /\ transfer \in Seq(Coros)
    BY DEF SemaphoreInv, TypeOK
  <2>2. transfer \o Reverse(<<w>> \o stack) = Append(transfer \o Reverse(stack), w)
    BY <2>1, ReverseOfPush
  <2>3. QED
    BY <1>1, <2>2 DEF LockQueue
<1>8. QED
  BY <1>5, <1>6, <1>7 DEF TheLock!Join

(* Unlinking a transferred waiter hands the lock to it. *)
LEMMA PopImplements ==
  ASSUME SemaphoreInv, SemaphoreInv', NEW w \in Coros, ReleasePop(w)
  PROVE  TheLock!HandOver
<1>1. /\ pc[w] = "in"
      /\ transfer # <<>>
      /\ head' = [head EXCEPT ![w] = Head(transfer)]
      /\ transfer' = Tail(transfer)
      /\ pc' = [pc EXCEPT ![w] = "post"]
      /\ stack' = stack
  BY DEF ReleasePop
<1>2. HolderFacts /\ HolderFacts'
  BY HolderRead, HolderReadNext
<1>3. LockHolder = w
  BY <1>1, <1>2 DEF HolderFacts, Owner
<1>4. pc'[w] = "post" /\ head'[w] = Head(transfer)
  BY <1>1 DEF SemaphoreInv, TypeOK
<1>5. LockHolder' = Head(transfer)
  BY <1>2, <1>4 DEF HolderFacts
<1>6. Reverse(stack) \in Seq(Coros)
  BY DEF SemaphoreInv, TypeOK, Reverse
<1>7. LockQueue # <<>> /\ Head(LockQueue) = Head(transfer) /\ LockQueue' = Tail(LockQueue)
  <2>1. transfer \in Seq(Coros)
    BY DEF SemaphoreInv, TypeOK
  <2>2. /\ transfer \o Reverse(stack) # <<>>
        /\ Head(transfer \o Reverse(stack)) = Head(transfer)
        /\ Tail(transfer \o Reverse(stack)) = Tail(transfer) \o Reverse(stack)
    BY <1>1, <1>6, <2>1, QueueHead, Zenon
  <2>3. LockQueue' = Tail(transfer) \o Reverse(stack)
    BY <1>1, Zenon DEF LockQueue
  <2>4. QED
    BY <2>2, <2>3, Zenon DEF LockQueue
<1>8. QED
  BY <1>3, <1>5, <1>7, SemaphoreAssumption DEF TheLock!HandOver

(* Taking the word's list hands the lock to the oldest on it. *)
LEMMA TakeListImplements ==
  ASSUME SemaphoreInv, SemaphoreInv', NEW w \in Coros, ReleaseTake(w)
  PROVE  TheLock!HandOver
<1>1. /\ pc[w] = "take"
      /\ stack' = <<>>
      /\ head' = [head EXCEPT ![w] = Head(Reverse(stack))]
      /\ transfer' = Tail(Reverse(stack))
      /\ pc' = [pc EXCEPT ![w] = "post"]
  BY DEF ReleaseTake
<1>2. HolderFacts /\ HolderFacts'
  BY HolderRead, HolderReadNext
<1>3. LockHolder = w
  BY <1>1, <1>2 DEF HolderFacts, Owner
<1>4. pc'[w] = "post" /\ head'[w] = Head(Reverse(stack))
  BY <1>1 DEF SemaphoreInv, TypeOK
<1>5. LockHolder' = Head(Reverse(stack))
  BY <1>2, <1>4 DEF HolderFacts
<1>6. stack # <<>> /\ transfer = <<>>
  BY <1>1 DEF SemaphoreInv, HeldWhileOwned
<1>7. Reverse(stack) \in Seq(Coros) /\ Reverse(stack) # <<>>
  BY <1>6, ReverseFacts DEF SemaphoreInv, TypeOK
<1>8. LockQueue = Reverse(stack)
  BY <1>6, <1>7, ConcatEmptySeq DEF LockQueue
<1>9. LockQueue' = Tail(Reverse(stack))
  <2>1. Reverse(stack') = <<>>
    BY <1>1 DEF Reverse
  <2>2. Tail(Reverse(stack)) \in Seq(Coros)
    BY <1>7
  <2>3. QED
    BY <1>1, <2>1, <2>2, ConcatEmptySeq DEF LockQueue
<1>10. QED
  BY <1>3, <1>5, <1>7, <1>8, <1>9, SemaphoreAssumption DEF TheLock!HandOver

(* The lock becomes free only with an empty queue. *)
LEMMA UnlockImplements ==
  ASSUME SemaphoreInv, SemaphoreInv', NEW w \in Coros, ReleaseUnlock(w)
  PROVE  TheLock!Free
<1>1. /\ pc[w] = "in"
      /\ transfer = <<>>
      /\ stack = <<>>
      /\ held' = FALSE
      /\ UNCHANGED <<stack, transfer>>
  BY TopFacts DEF ReleaseUnlock
<1>2. HolderFacts /\ HolderFacts'
  BY HolderRead, HolderReadNext
<1>3. LockHolder = w
  BY <1>1, <1>2 DEF HolderFacts, Owner
<1>4. LockHolder' = Nobody
  <2>1. \A v \in Coros : ~Owner(v)'
    BY <1>1 DEF SemaphoreInv, HeldWhileOwned
  <2>2. QED
    BY <1>2, <2>1 DEF HolderFacts
<1>5. LockQueue = <<>> /\ LockQueue' = LockQueue
  BY <1>1 DEF LockQueue, Reverse
<1>6. QED
  BY <1>3, <1>4, <1>5, SemaphoreAssumption DEF TheLock!Free

(* The posted coroutine is the holder before and after it is posted. *)
LEMMA PostStutters ==
  ASSUME SemaphoreInv, SemaphoreInv', NEW w \in Coros, ReleasePost(w)
  PROVE  UNCHANGED <<LockHolder, LockQueue>>
<1>1. /\ pc[w] = "post"
      /\ ready' = ready \cup {head[w]}
      /\ pc' = [pc EXCEPT ![w] = "out"]
      /\ UNCHANGED <<stack, transfer>>
  BY DEF ReleasePost
<1>2. HolderFacts /\ HolderFacts'
  BY HolderRead, HolderReadNext
<1>3. head[w] \in Coros /\ pc[head[w]] = "parked"
  BY <1>1 DEF SemaphoreInv, LinkedOnce, LinkedIsParked
<1>4. LockHolder = head[w]
  BY <1>1, <1>2 DEF HolderFacts
<1>5. LockHolder' = head[w]
  BY <1>1, <1>2, <1>3 DEF HolderFacts, Owner, SemaphoreInv, TypeOK
<1>6. QED
  BY <1>1, <1>4, <1>5 DEF LockQueue

(* Every step of the semaphore is a step of the fair lock, or leaves it
   alone. *)
LEMMA StepImplementsFairLock ==
  ASSUME SemaphoreInv, SemaphoreInv', [Next]_vars
  PROVE  [TheLock!Next]_(TheLock!vars)
<1> USE DEF TheLock!Next, TheLock!vars
<1>1. ASSUME NEW w \in Coros, AwaitSuspend(w) \/ SuspendLoad(w) \/ SuspendRetry(w)
      PROVE  UNCHANGED <<LockHolder, LockQueue>>
  BY <1>1, SameLock
     DEF AwaitSuspend, SuspendLoad, SuspendRetry, SemaphoreInv, TypeOK, Owner
<1>2. ASSUME NEW w \in Coros, Resume(w) \/ ReleaseContended(w)
      PROVE  UNCHANGED <<LockHolder, LockQueue>>
  BY <1>2, SameLock
     DEF Resume, ReleaseContended, SemaphoreInv, TypeOK, Owner, LinkedIsParked
<1>3. ASSUME UNCHANGED vars PROVE UNCHANGED <<LockHolder, LockQueue>>
  BY <1>3, SameLock DEF vars, Owner
<1>4. ASSUME NEW w \in Coros, ReleaseStep(w) PROVE [TheLock!Next]_(TheLock!vars)
  BY <1>2, <1>4, PopImplements, TakeListImplements, UnlockImplements, PostStutters
     DEF ReleaseStep
<1>5. ASSUME NEW w \in Coros, SuspendStep(w) PROVE [TheLock!Next]_(TheLock!vars)
  BY <1>1, <1>5, TakeImplements, PushImplements DEF SuspendStep
<1>6. QED
  BY <1>1, <1>2, <1>3, <1>4, <1>5, TakeImplements DEF Next

(* async_binary_semaphore implements the fair lock: one holder at a time, a
   release() hands over to the coroutine that linked itself first, and the
   lock becomes free only when nobody queues. *)
THEOREM SemaphoreImplementsFairLock == Spec => ImplementsFairLock
<1>1. Init => TheLock!Init
  <2> SUFFICES ASSUME Init PROVE TheLock!Init
    OBVIOUS
  <2>1. HolderFacts /\ SemaphoreInv
    BY HolderRead, InitSemaphoreInv
  <2>2. LockHolder \in Coros \cup {Nobody}
    BY <2>1 DEF HolderFacts, Init
  <2>3. LockQueue = <<>>
    BY DEF Init, LockQueue, Reverse
  <2>4. QED
    BY <2>2, <2>3 DEF TheLock!Init
<1>2. SemaphoreInv /\ SemaphoreInv' /\ [Next]_vars => [TheLock!Next]_(TheLock!vars)
  BY StepImplementsFairLock
<1>3. QED
  BY <1>1, <1>2, SemaphoreInvariant, PTL DEF Spec, ImplementsFairLock, TheLock!Spec

-----------------------------------------------------------------------------
(***************************************************************************)
(* async_counting_semaphore.  First who is linked and who is in control(), *)
(* then the balance of permits.                                            *)
(***************************************************************************)

(* The lists, the election and the suspended coroutines, without the count. *)
CountingLinks == /\ CountingTypeOK /\ Elected /\ LinkedOncePerWait /\ LinkedWaits
                 /\ WaiterIsLinked

(* The semaphore starts with nobody waiting and nobody releasing. *)
LEMMA InitCountingInv == CountingInit => CountingInv
<1> SUFFICES ASSUME CountingInit PROVE CountingInv
  OBVIOUS
<1>1. CountingTypeOK
  BY CountingAssumption DEF CountingInit, CountingTypeOK
<1>2. Elected /\ LinkedOncePerWait /\ LinkedWaits /\ WaiterIsLinked
  BY DEF CountingInit, Elected, LinkedOncePerWait, LinkedWaits, WaiterIsLinked
<1>3. Unserved = {}
  BY DEF CountingInit, Unserved
<1>4. Added = 0 /\ Owed = 0
  BY DEF CountingInit, Added, Owed
<1>5. PermitsBalance
  BY <1>3, <1>4, FS_EmptySet, CountingAssumption DEF CountingInit, PermitsBalance
<1>6. QED
  BY <1>1, <1>2, <1>5 DEF CountingInv

(* A look at the count changes nothing shared. *)
LEMMA ExamineKeepsLinks ==
  ASSUME CountingLinks, NEW w \in Acquirers, at[w] \in {"out", "cas", "tryCas"},
         NEW cas \in {"cas", "tryCas"}, NEW giveUp \in {"subtract", "out"},
         Examine(w, cas, giveUp),
         UNCHANGED <<active, resuming_, pending, transfer_, admitted, controlVars, queued>>
  PROVE  /\ CountingLinks'
         /\ at' \in [Acquirers -> {"out", "cas", "tryCas", "subtract", "push", "parked", "in"}]
         /\ at'[w] \in {"out", "cas", "tryCas", "subtract"}
         /\ at'[w] \in {"cas", "tryCas"} => result'[w] > 0
         /\ \A v \in Acquirers \ {w} : at'[v] = at[v] /\ result'[v] = result[v]
<1> USE DEF CountingLinks, CountingTypeOK, Examine, controlVars
<1>1. /\ CountingTypeOK'
      /\ at'[w] \in {"out", "cas", "tryCas", "subtract"}
      /\ at'[w] \in {"cas", "tryCas"} => result'[w] > 0
      /\ \A v \in Acquirers \ {w} : at'[v] = at[v] /\ result'[v] = result[v]
  <2>1. CASE active > 0
    BY <2>1
  <2>2. CASE ~(active > 0)
    <3>1. /\ at' = [at EXCEPT ![w] = giveUp]
          /\ result' = [result EXCEPT ![w] = 0]
      BY <2>2
    <3>2. at'[w] = giveUp
      BY <3>1
    <3>3. QED
      BY <3>1, <3>2
  <2>3. QED
    BY <2>1, <2>2
<1>2. Elected' /\ LinkedOncePerWait'
  BY DEF Elected, LinkedOncePerWait
<1>3. \A v \in Acquirers : at'[v] = "parked" <=> at[v] = "parked"
  BY <1>1
<1>4. LinkedWaits'
  <2>1. \A i \in 1 .. Len(resuming_) : resuming_[i] \in Acquirers
    OBVIOUS
  <2>2. \A i \in 1 .. Len(transfer_) : transfer_[i] \in Acquirers
    OBVIOUS
  <2>3. QED
    BY <1>3, <2>1, <2>2 DEF LinkedWaits
<1>5. WaiterIsLinked'
  BY <1>3 DEF WaiterIsLinked
<1>6. QED
  BY <1>1, <1>2, <1>4, <1>5

(* The steps of a coroutine that leave every list alone: it takes a permit,
   subtracts, or has finished. *)
LEMMA QuietStepKeepsLinks ==
  ASSUME CountingLinks, NEW w \in Acquirers, TakePermit(w) \/ Subtract(w) \/ Finish(w)
  PROVE  CountingLinks'
<1>1. /\ UNCHANGED <<resuming_, transfer_, queued, control, resume, released, pending>>
      /\ active' \in {active, active - 1}
      /\ admitted' \in {admitted, admitted + 1}
      /\ result' \in {result, [result EXCEPT ![w] = 0]}
      /\ at[w] # "parked"
      /\ \E a \in {"in", "push", "out"} : at' = [at EXCEPT ![w] = a]
  BY DEF controlVars, TakePermit, Subtract, Finish
<1>2. CountingTypeOK'
  BY <1>1 DEF CountingLinks, CountingTypeOK
<1>3. Elected' /\ LinkedOncePerWait'
  BY <1>1 DEF CountingLinks, Elected, LinkedOncePerWait
<1>4. \A v \in Acquirers : at'[v] = "parked" <=> at[v] = "parked"
  BY <1>1 DEF CountingLinks, CountingTypeOK
<1>5. LinkedWaits'
  <2>1. \A i \in 1 .. Len(resuming_) : resuming_[i] \in Acquirers
    BY DEF CountingLinks, CountingTypeOK
  <2>2. \A i \in 1 .. Len(transfer_) : transfer_[i] \in Acquirers
    BY DEF CountingLinks, CountingTypeOK
  <2>3. QED
    BY <1>1, <1>4, <2>1, <2>2 DEF CountingLinks, CountingTypeOK, LinkedWaits
<1>6. WaiterIsLinked'
  BY <1>1, <1>4 DEF CountingLinks, WaiterIsLinked
<1>7. QED
  BY <1>2, <1>3, <1>5, <1>6 DEF CountingLinks

(* A coroutine links itself once. *)
LEMMA PushKeepsLinks ==
  ASSUME CountingLinks, NEW w \in Acquirers, Push(w)
  PROVE  CountingLinks'
<1> USE DEF CountingLinks, CountingTypeOK
<1>1. /\ at[w] = "push"
      /\ at' = [at EXCEPT ![w] = "parked"]
      /\ UNCHANGED <<active, pending, transfer_, result, admitted, control, resume, released,
                     queued>>
  BY DEF Push, controlVars
<1>2. /\ resuming_' \in Seq(Acquirers)
      /\ Len(resuming_') = Len(resuming_) + 1
      /\ resuming_'[1] = w
      /\ \A i \in 1 .. Len(resuming_) : resuming_'[i + 1] = resuming_[i]
      /\ \A i \in 1 .. Len(resuming_) + 1 :
            resuming_'[i] = IF i = 1 THEN w ELSE resuming_[i - 1]
  BY PushFacts DEF Push
<1>3. \A i \in 1 .. Len(resuming_') :
         \/ i = 1 /\ resuming_'[i] = w
         \/ i - 1 \in 1 .. Len(resuming_) /\ resuming_'[i] = resuming_[i - 1]
  BY <1>2
<1>4. /\ \A i \in 1 .. Len(resuming_) : resuming_[i] # w
      /\ \A i \in 1 .. Len(transfer_) : transfer_[i] # w
      /\ \A r \in Releasers : resume[r] # Null => resume[r] # w
      /\ w \notin queued
  BY <1>1 DEF LinkedWaits
<1>5. CountingTypeOK'
  BY <1>1, <1>2
<1>6. Elected'
  BY <1>1 DEF Elected
<1>7. LinkedOncePerWait'
  <2>1. ASSUME NEW i \in 1 .. Len(resuming_'), NEW j \in 1 .. Len(resuming_'),
               resuming_'[i] = resuming_'[j]
        PROVE  i = j
    <3>1. CASE i = 1 \/ j = 1
      <4>1. \A k \in 1 .. Len(resuming_') : resuming_'[k] = w => k = 1
        BY <1>3, <1>4
      <4>2. QED
        BY <1>2, <2>1, <3>1, <4>1
    <3>2. CASE i # 1 /\ j # 1
      <4>1. /\ i - 1 \in 1 .. Len(resuming_) /\ j - 1 \in 1 .. Len(resuming_)
            /\ resuming_[i - 1] = resuming_[j - 1]
        BY <1>3, <2>1, <3>2
      <4>2. i - 1 = j - 1
        BY <4>1 DEF LinkedOncePerWait
      <4>3. QED
        BY <4>2
    <3>3. QED
      BY <3>1, <3>2
  <2>2. ASSUME NEW i \in 1 .. Len(resuming_'), NEW j \in 1 .. Len(transfer_)
        PROVE  resuming_'[i] # transfer_[j]
    <3>1. CASE i = 1
      BY <1>2, <1>4, <3>1
    <3>2. CASE i - 1 \in 1 .. Len(resuming_) /\ resuming_'[i] = resuming_[i - 1]
      BY <3>2 DEF LinkedOncePerWait
    <3>3. QED
      BY <1>3, <3>1, <3>2
  <2>3. \A r \in Releasers : resume[r] # Null =>
           \A i \in 1 .. Len(resuming_') : resuming_'[i] # resume[r]
    BY <1>3, <1>4 DEF LinkedOncePerWait
  <2>4. QED
    BY <1>1, <2>1, <2>2, <2>3 DEF LinkedOncePerWait
<1>8. LinkedWaits'
  <2>1. ASSUME NEW i \in 1 .. Len(resuming_')
        PROVE  at'[resuming_'[i]] = "parked" /\ resuming_'[i] \notin queued
    <3>1. CASE i = 1
      BY <1>1, <1>2, <1>4, <3>1
    <3>2. CASE i - 1 \in 1 .. Len(resuming_) /\ resuming_'[i] = resuming_[i - 1]
      BY <1>1, <3>2 DEF LinkedWaits
    <3>3. QED
      BY <1>3, <3>1, <3>2
  <2>2. QED
    BY <1>1, <1>4, <2>1 DEF LinkedWaits
<1>9. WaiterIsLinked'
  <2> SUFFICES ASSUME NEW v \in Acquirers, at'[v] = "parked", v \notin queued'
               PROVE  \/ \E i \in 1 .. Len(resuming_') : resuming_'[i] = v
                      \/ \E i \in 1 .. Len(transfer_') : transfer_'[i] = v
                      \/ \E r \in Releasers : resume'[r] = v
    BY DEF WaiterIsLinked
  <2>1. CASE v = w
    <3>1. 1 \in 1 .. Len(resuming_')
      BY <1>2
    <3>2. QED
      BY <1>2, <2>1, <3>1
  <2>2. CASE \E i \in 1 .. Len(resuming_) : resuming_[i] = v
    <3>1. PICK i \in 1 .. Len(resuming_) : resuming_[i] = v
      BY <2>2
    <3>2. i + 1 \in 1 .. Len(resuming_') /\ resuming_'[i + 1] = v
      BY <1>2, <3>1
    <3>3. QED
      BY <3>2
  <2>3. QED
    BY <1>1, <2>1, <2>2 DEF WaiterIsLinked
<1>10. QED
  BY <1>5, <1>6, <1>7, <1>8, <1>9

(* A coroutine that runs again was queued, so linked nowhere. *)
LEMMA RunKeepsLinks ==
  ASSUME CountingLinks, NEW w \in Acquirers, Run(w)
  PROVE  CountingLinks'
<1> USE DEF CountingLinks, CountingTypeOK, controlVars, Run
<1>1. CountingTypeOK'
  OBVIOUS
<1>2. Elected' /\ LinkedOncePerWait'
  BY DEF Elected, LinkedOncePerWait
<1>3. LinkedWaits'
  BY DEF LinkedWaits
<1>4. WaiterIsLinked'
  BY DEF WaiterIsLinked
<1>5. QED
  BY <1>1, <1>2, <1>3, <1>4

(* The one release() that finds release_count_ at zero becomes the
   controller. *)
LEMMA ReleaseKeepsLinks ==
  ASSUME CountingLinks, NEW r \in Releasers, NEW n \in 1 .. MaxReleased, Release(r, n)
  PROVE  CountingLinks'
<1> USE DEF CountingLinks, CountingTypeOK, coroVars, Release
<1>1. n \in Nat /\ n > 0
  BY CountingAssumption
<1>2. CountingTypeOK'
  BY <1>1
<1>3. Elected'
  BY <1>1 DEF Elected
<1>4. LinkedOncePerWait'
  BY DEF LinkedOncePerWait
<1>5. LinkedWaits'
  BY DEF LinkedWaits
<1>6. WaiterIsLinked'
  BY DEF WaiterIsLinked
<1>7. QED
  BY <1>2, <1>3, <1>4, <1>5, <1>6

(* What transfer() does: it takes the oldest linked waiter, or finds nobody
   linked; the rest stays linked. *)
LEMMA TransferKeepsLinks ==
  ASSUME CountingLinks, NEW r \in Releasers, \A q \in Releasers : resume[q] = Null,
         Transfer(r), UNCHANGED <<at, queued>>
  PROVE  /\ resuming_' \in Seq(Acquirers)
         /\ transfer_' \in Seq(Acquirers)
         /\ resume' \in [Releasers -> Acquirers \cup {Null}]
         /\ \A q \in Releasers \ {r} : resume'[q] = Null
         /\ LinkedOncePerWait' /\ LinkedWaits' /\ WaiterIsLinked'
<1> USE CountingAssumption DEF CountingLinks, CountingTypeOK
<1>1. CASE transfer_ # <<>>
  <2>1. /\ resuming_' = resuming_
        /\ transfer_' = Tail(transfer_)
        /\ resume' = [resume EXCEPT ![r] = Head(transfer_)]
    BY <1>1 DEF Transfer
  <2>2. /\ Tail(transfer_) \in Seq(Acquirers)
        /\ Head(transfer_) = transfer_[1]
        /\ Head(transfer_) \in Acquirers
        /\ Len(transfer_) > 0
        /\ Len(Tail(transfer_)) = Len(transfer_) - 1
        /\ \A i \in 1 .. Len(transfer_) - 1 : Tail(transfer_)[i] = transfer_[i + 1]
    BY <1>1, TailFacts
  <2>3. LinkedOncePerWait'
    BY <2>1, <2>2 DEF LinkedOncePerWait
  <2>4. LinkedWaits'
    BY <2>1, <2>2 DEF LinkedWaits
  <2>5. WaiterIsLinked'
    <3> SUFFICES ASSUME NEW v \in Acquirers, at[v] = "parked", v \notin queued
                 PROVE  \/ \E i \in 1 .. Len(resuming_') : resuming_'[i] = v
                        \/ \E i \in 1 .. Len(transfer_') : transfer_'[i] = v
                        \/ \E q \in Releasers : resume'[q] = v
      BY DEF WaiterIsLinked
    <3>1. CASE \E i \in 1 .. Len(transfer_) : transfer_[i] = v
      <4>1. PICK i \in 1 .. Len(transfer_) : transfer_[i] = v
        BY <3>1
      <4>2. CASE i = 1
        BY <2>1, <2>2, <4>1, <4>2
      <4>3. CASE i # 1
        <5>1. i - 1 \in 1 .. Len(transfer_') /\ transfer_'[i - 1] = v
          BY <2>1, <2>2, <4>1, <4>3
        <5>2. QED
          BY <5>1
      <4>4. QED
        BY <4>2, <4>3
    <3>2. QED
      BY <2>1, <3>1 DEF WaiterIsLinked
  <2>6. QED
    BY <2>1, <2>2, <2>3, <2>4, <2>5
<1>2. CASE transfer_ = <<>> /\ resuming_ # <<>>
  <2> DEFINE line == Reverse(resuming_)
  <2>1. /\ line \in Seq(Acquirers)
        /\ line # <<>>
        /\ Len(line) = Len(resuming_)
        /\ \A i \in 1 .. Len(resuming_) : line[i] = resuming_[Len(resuming_) - i + 1]
    BY <1>2, ReverseFacts
  <2>2. /\ resuming_' = <<>>
        /\ transfer_' = Tail(line)
        /\ resume' = [resume EXCEPT ![r] = Head(line)]
    BY <1>2, <2>1 DEF Transfer
  <2> HIDE DEF line
  <2>3. /\ Tail(line) \in Seq(Acquirers)
        /\ Head(line) = line[1]
        /\ Head(line) \in Acquirers
        /\ Len(line) > 0
        /\ Len(Tail(line)) = Len(line) - 1
        /\ \A i \in 1 .. Len(line) - 1 : Tail(line)[i] = line[i + 1]
    BY <2>1, TailFacts
  <2>4. /\ \A i, j \in 1 .. Len(line) : line[i] = line[j] => i = j
        /\ \A i \in 1 .. Len(line) : at[line[i]] = "parked" /\ line[i] \notin queued
    <3> DEFINE n == Len(resuming_)
    <3>1. n \in Nat /\ Len(line) = n
      BY <2>1
    <3>2. \A i \in 1 .. n : n - i + 1 \in 1 .. n /\ line[i] = resuming_[n - i + 1]
      BY <2>1
    <3>3. ASSUME NEW i \in 1 .. n, NEW j \in 1 .. n, line[i] = line[j] PROVE i = j
      <4>1. n - i + 1 = n - j + 1
        BY <3>2, <3>3 DEF LinkedOncePerWait
      <4>2. QED
        BY <3>1, <4>1
    <3>4. ASSUME NEW i \in 1 .. n PROVE at[line[i]] = "parked" /\ line[i] \notin queued
      <4>1. PICK j \in 1 .. Len(resuming_) : line[i] = resuming_[j]
        BY <3>2
      <4>2. QED
        BY <4>1 DEF LinkedWaits
    <3>5. QED
      BY <3>1, <3>3, <3>4
  <2>5. LinkedOncePerWait'
    <3>1. \A i \in 1 .. Len(transfer_') : i + 1 \in 1 .. Len(line) /\ transfer_'[i] = line[i + 1]
      BY <2>2, <2>3
    <3>2. 1 \in 1 .. Len(line)
      BY <2>3
    <3>3. \A i, j \in 1 .. Len(transfer_') : transfer_'[i] = transfer_'[j] => i = j
      BY <2>4, <3>1
    <3>4. ~\E i : i \in 1 .. Len(resuming_')
      <4>1. Len(resuming_') = 0
        BY <2>2
      <4>2. QED
        BY <4>1
    <3>5. \A q \in Releasers : resume'[q] # Null =>
             \A i \in 1 .. Len(transfer_') : transfer_'[i] # resume'[q]
      BY <2>2, <2>3, <2>4, <3>1, <3>2
    <3>6. QED
      BY <3>3, <3>4, <3>5, Zenon DEF LinkedOncePerWait
  <2>6. LinkedWaits'
    BY <2>2, <2>3, <2>4 DEF LinkedWaits
  <2>7. WaiterIsLinked'
    <3> SUFFICES ASSUME NEW v \in Acquirers, at[v] = "parked", v \notin queued
                 PROVE  \/ \E i \in 1 .. Len(resuming_') : resuming_'[i] = v
                        \/ \E i \in 1 .. Len(transfer_') : transfer_'[i] = v
                        \/ \E q \in Releasers : resume'[q] = v
      BY DEF WaiterIsLinked
    <3>1. PICK j \in 1 .. Len(resuming_) : resuming_[j] = v
      <4>1. Len(transfer_) = 0 /\ \A q \in Releasers : resume[q] # v
        BY <1>2
      <4>2. QED
        BY <4>1 DEF WaiterIsLinked
    <3> DEFINE i == Len(resuming_) - j + 1
    <3>2. i \in 1 .. Len(line) /\ line[i] = v
      <4>1. i \in 1 .. Len(resuming_) /\ Len(resuming_) - i + 1 = j
        OBVIOUS
      <4>2. QED
        BY <2>1, <3>1, <4>1
    <3> HIDE DEF i
    <3>3. CASE i = 1
      BY <2>2, <2>3, <3>2, <3>3
    <3>4. CASE i # 1
      <4>1. i - 1 \in 1 .. Len(transfer_') /\ transfer_'[i - 1] = v
        BY <2>2, <2>3, <3>2, <3>4
      <4>2. QED
        BY <4>1
    <3>5. QED
      BY <3>3, <3>4
  <2>8. QED
    BY <2>2, <2>3, <2>5, <2>6, <2>7
<1>3. CASE transfer_ = <<>> /\ resuming_ = <<>>
  <2>1. Reverse(resuming_) = <<>>
    BY <1>3 DEF Reverse
  <2>2. UNCHANGED <<resuming_, transfer_, resume>>
    BY <1>3, <2>1 DEF Transfer
  <2>3. LinkedOncePerWait'
    BY <2>2 DEF LinkedOncePerWait
  <2>4. LinkedWaits'
    BY <2>2 DEF LinkedWaits
  <2>5. WaiterIsLinked'
    BY <2>2 DEF WaiterIsLinked
  <2>6. QED
    BY <2>2, <2>3, <2>4, <2>5
<1>4. QED
  BY <1>1, <1>2, <1>3

(* The controller takes a waiter and goes on to add. *)
LEMMA ControlTransferKeepsLinks ==
  ASSUME CountingLinks, NEW r \in Releasers, ControlTransfer(r)
  PROVE  CountingLinks'
<1>1. /\ control[r] = "transfer"
      /\ control' = [control EXCEPT ![r] = "add"]
      /\ UNCHANGED <<active, pending, at, result, admitted, released, queued>>
      /\ Transfer(r)
  BY DEF ControlTransfer, coroVars
<1>2. \A q \in Releasers : resume[q] = Null
  BY <1>1 DEF CountingLinks, Elected
<1>3. /\ resuming_' \in Seq(Acquirers)
      /\ transfer_' \in Seq(Acquirers)
      /\ resume' \in [Releasers -> Acquirers \cup {Null}]
      /\ \A q \in Releasers \ {r} : resume'[q] = Null
      /\ LinkedOncePerWait' /\ LinkedWaits' /\ WaiterIsLinked'
  BY <1>1, <1>2, TransferKeepsLinks
<1>4. CountingTypeOK'
  BY <1>1, <1>3 DEF CountingLinks, CountingTypeOK
<1>5. Elected'
  BY <1>1, <1>3 DEF CountingLinks, CountingTypeOK, Elected
<1>6. QED
  BY <1>3, <1>4, <1>5 DEF CountingLinks

(* The spinning controller looks again. *)
LEMMA ControlSpinKeepsLinks ==
  ASSUME CountingLinks, NEW r \in Releasers, ControlSpin(r)
  PROVE  CountingLinks'
<1>1. /\ control[r] = "spin"
      /\ control' = [control EXCEPT ![r] = IF resume'[r] = Null THEN "spin" ELSE "post"]
      /\ UNCHANGED <<active, pending, at, result, admitted, released, queued>>
      /\ Transfer(r)
  BY DEF ControlSpin, coroVars
<1>2. \A q \in Releasers : resume[q] = Null
  BY <1>1 DEF CountingLinks, Elected
<1>3. /\ resuming_' \in Seq(Acquirers)
      /\ transfer_' \in Seq(Acquirers)
      /\ resume' \in [Releasers -> Acquirers \cup {Null}]
      /\ \A q \in Releasers \ {r} : resume'[q] = Null
      /\ LinkedOncePerWait' /\ LinkedWaits' /\ WaiterIsLinked'
  BY <1>1, <1>2, TransferKeepsLinks
<1>4. CountingTypeOK'
  BY <1>1, <1>3 DEF CountingLinks, CountingTypeOK
<1>5. Elected'
  BY <1>1, <1>3 DEF CountingLinks, CountingTypeOK, Elected
<1>6. QED
  BY <1>3, <1>4, <1>5 DEF CountingLinks

(* Adding to the count moves nobody. *)
LEMMA ControlAddKeepsLinks ==
  ASSUME CountingLinks, NEW r \in Releasers, ControlAdd(r)
  PROVE  CountingLinks'
<1>1. CountingTypeOK'
  BY DEF CountingLinks, CountingTypeOK, ControlAdd, coroVars
<1>2. Elected'
  BY DEF CountingLinks, CountingTypeOK, Elected, ControlAdd, coroVars
<1>3. LinkedOncePerWait'
  BY DEF CountingLinks, LinkedOncePerWait, ControlAdd, coroVars
<1>4. LinkedWaits'
  BY DEF CountingLinks, LinkedWaits, ControlAdd, coroVars
<1>5. WaiterIsLinked'
  BY DEF CountingLinks, WaiterIsLinked, ControlAdd, coroVars
<1>6. QED
  BY <1>1, <1>2, <1>3, <1>4, <1>5 DEF CountingLinks

(* The controller hands its waiter to the event loop. *)
LEMMA ControlPostKeepsLinks ==
  ASSUME CountingLinks, NEW r \in Releasers, ControlPost(r)
  PROVE  CountingLinks' /\ resume[r] \in Unserved
<1>1. /\ control[r] = "post"
      /\ queued' = queued \cup {resume[r]}
      /\ resume' = [resume EXCEPT ![r] = Null]
      /\ admitted' = admitted + 1
      /\ control' = [control EXCEPT ![r] = "next"]
      /\ UNCHANGED <<active, resuming_, pending, transfer_, at, result, released>>
  BY DEF ControlPost
<1>2. /\ resume[r] \in Acquirers
      /\ at[resume[r]] = "parked" /\ resume[r] \notin queued
      /\ \A i \in 1 .. Len(resuming_) : resuming_[i] # resume[r]
      /\ \A i \in 1 .. Len(transfer_) : transfer_[i] # resume[r]
      /\ \A q \in Releasers \ {r} : resume[q] = Null
  <2>1. resume[r] # Null /\ resume[r] \in Acquirers
    BY <1>1 DEF CountingLinks, CountingTypeOK, Elected
  <2>2. \A q \in Releasers \ {r} : resume[q] = Null
    BY <1>1 DEF CountingLinks, Elected
  <2>3. at[resume[r]] = "parked" /\ resume[r] \notin queued
    BY <2>1 DEF CountingLinks, LinkedWaits
  <2>4. /\ \A i \in 1 .. Len(resuming_) : resuming_[i] # resume[r]
        /\ \A i \in 1 .. Len(transfer_) : transfer_[i] # resume[r]
    BY <2>1 DEF CountingLinks, LinkedOncePerWait
  <2>5. QED
    BY <2>1, <2>2, <2>3, <2>4
<1>3. CountingTypeOK'
  BY <1>1, <1>2 DEF CountingLinks, CountingTypeOK
<1>4. Elected'
  BY <1>1, <1>2 DEF CountingLinks, CountingTypeOK, Elected
<1>5. \A q \in Releasers : resume'[q] = Null
  BY <1>1, <1>2 DEF CountingLinks, CountingTypeOK
<1>6. LinkedOncePerWait'
  BY <1>1, <1>5 DEF CountingLinks, LinkedOncePerWait
<1>7. LinkedWaits'
  BY <1>1, <1>2, <1>5 DEF CountingLinks, LinkedWaits
<1>8. WaiterIsLinked'
  BY <1>1, <1>2 DEF CountingLinks, WaiterIsLinked
<1>9. QED
  BY <1>2, <1>3, <1>4, <1>6, <1>7, <1>8 DEF CountingLinks, Unserved

(* The controller that subtracts the last pending release leaves; any other
   goes round again. *)
LEMMA ControlNextKeepsLinks ==
  ASSUME CountingLinks, NEW r \in Releasers, ControlNext(r)
  PROVE  CountingLinks' /\ pending > 0
<1>1. /\ control[r] = "next"
      /\ pending' = pending - 1
      /\ control' = [control EXCEPT ![r] = IF pending = 1 THEN "idle" ELSE "transfer"]
      /\ UNCHANGED <<active, resuming_, transfer_, at, result, admitted, resume, queued, released>>
  BY DEF ControlNext, coroVars
<1>2. pending \in Nat /\ pending > 0
  BY <1>1 DEF CountingLinks, CountingTypeOK, Elected
<1>3. CountingTypeOK'
  BY <1>1, <1>2 DEF CountingLinks, CountingTypeOK
<1>4. Elected'
  <2>1. \A q \in Releasers \ {r} : control'[q] = control[q] /\ control[q] = "idle"
    BY <1>1 DEF CountingLinks, CountingTypeOK, Elected
  <2>2. control'[r] # "idle" <=> pending' > 0
    BY <1>1, <1>2 DEF CountingLinks, CountingTypeOK
  <2>3. \A q \in Releasers : resume[q] = Null
    BY <1>1, <2>1 DEF CountingLinks, CountingTypeOK, Elected
  <2>4. QED
    BY <1>1, <2>1, <2>2, <2>3 DEF CountingLinks, CountingTypeOK, Elected
<1>5. LinkedOncePerWait'
  BY <1>1 DEF CountingLinks, LinkedOncePerWait
<1>6. LinkedWaits'
  BY <1>1 DEF CountingLinks, LinkedWaits
<1>7. WaiterIsLinked'
  BY <1>1 DEF CountingLinks, WaiterIsLinked
<1>8. QED
  BY <1>2, <1>3, <1>4, <1>5, <1>6, <1>7 DEF CountingLinks

(* Finitely many coroutines wait. *)
LEMMA UnservedFinite ==
  /\ IsFiniteSet(Unserved)
  /\ Cardinality(Unserved) \in Nat
  /\ Unserved # {} <=> Cardinality(Unserved) > 0
<1>1. IsFiniteSet(Unserved)
  BY CountingAssumption, FS_Subset DEF Unserved
<1>2. QED
  BY <1>1, FS_CardinalityType, FS_EmptySet

(* A step of a coroutine that neither waits nor stops waiting leaves the set
   of those who wait, and the controller, alone. *)
LEMMA SameUnserved ==
  ASSUME CountingLinks, NEW w \in Acquirers, UNCHANGED <<control, queued>>,
         at[w] \notin {"push", "parked"}, at'[w] \notin {"push", "parked"},
         \A v \in Acquirers \ {w} : at'[v] = at[v]
  PROVE  Unserved' = Unserved /\ Added' = Added /\ Owed' = Owed
BY DEF Unserved, Added, Owed

(* A look at the count leaves a positive result, or none to compare with. *)
LEMMA ExamineKeepsBalance ==
  ASSUME CountingInv, NEW w \in Acquirers, at[w] \in {"out", "cas", "tryCas"},
         NEW cas \in {"cas", "tryCas"}, NEW giveUp \in {"subtract", "out"},
         Examine(w, cas, giveUp),
         UNCHANGED <<active, resuming_, pending, transfer_, admitted, controlVars, queued>>
  PROVE  CountingInv'
<1>1. CountingLinks
  BY DEF CountingInv, CountingLinks
<1>2. /\ CountingLinks'
      /\ at'[w] \in {"out", "cas", "tryCas", "subtract"}
      /\ at'[w] \in {"cas", "tryCas"} => result'[w] > 0
      /\ \A v \in Acquirers \ {w} : at'[v] = at[v] /\ result'[v] = result[v]
  BY <1>1, ExamineKeepsLinks
<1>3. Unserved' = Unserved /\ Added' = Added /\ Owed' = Owed
  BY <1>1, <1>2, SameUnserved DEF controlVars
<1>4. PermitsBalance'
  BY <1>2, <1>3 DEF CountingInv, PermitsBalance, controlVars
<1>5. QED
  BY <1>2, <1>4 DEF CountingInv, CountingLinks

(* Loads and failed compare-exchanges. *)
LEMMA LookKeeps ==
  ASSUME CountingInv, NEW w \in Acquirers, AwaitLoad(w) \/ TryLoad(w) \/ MissPermit(w)
  PROVE  CountingInv'
<1>1. CASE AwaitLoad(w)
  BY <1>1, ExamineKeepsBalance DEF AwaitLoad
<1>2. CASE TryLoad(w)
  BY <1>2, ExamineKeepsBalance DEF TryLoad
<1>3. CASE MissPermit(w)
  BY <1>3, ExamineKeepsBalance DEF MissPermit
<1>4. QED
  BY <1>1, <1>2, <1>3

(* A permit is taken from a positive count only: the compare-exchange
   compares with a positive result. *)
LEMMA TakePermitKeeps ==
  ASSUME CountingInv, NEW w \in Acquirers, TakePermit(w)
  PROVE  CountingInv'
<1>1. CountingLinks
  BY DEF CountingInv, CountingLinks
<1>2. CountingLinks'
  BY <1>1, QuietStepKeepsLinks
<1>3. /\ at[w] \in {"cas", "tryCas"}
      /\ active = result[w]
      /\ active' = active - 1
      /\ at' = [at EXCEPT ![w] = "in"]
      /\ result' = [result EXCEPT ![w] = 0]
      /\ admitted' = admitted + 1
      /\ UNCHANGED <<pending, control, released, queued>>
  BY DEF TakePermit, controlVars
<1>4. at'[w] = "in" /\ \A v \in Acquirers \ {w} : at'[v] = at[v] /\ result'[v] = result[v]
  BY <1>1, <1>3 DEF CountingLinks, CountingTypeOK
<1>5. Unserved' = Unserved /\ Added' = Added /\ Owed' = Owed
  BY <1>1, <1>3, <1>4, SameUnserved
<1>6. active \in Int /\ active > 0 /\ admitted \in Nat
  BY <1>1, <1>3 DEF CountingInv, PermitsBalance, CountingLinks, CountingTypeOK
<1>7. Owed \in {0, 1} /\ Added \in {0, 1}
  BY DEF Owed, Added
<1>8. active - 1 + Cardinality(Unserved) >= Owed
  BY <1>6, <1>7, UnservedFinite DEF CountingInv, PermitsBalance
<1>9. PermitsBalance'
  <2>1. active' + admitted' + Cardinality(Unserved') = Start + released' - pending' + Added'
    BY <1>1, <1>3, <1>5, <1>6, <1>7, UnservedFinite, CountingAssumption
       DEF CountingInv, PermitsBalance, CountingLinks, CountingTypeOK
  <2>2. active' + Cardinality(Unserved') >= Owed'
    BY <1>3, <1>5, <1>8
  <2>3. QED
    BY <1>4, <1>5, <2>1, <2>2 DEF CountingInv, PermitsBalance
<1>10. QED
  BY <1>2, <1>9 DEF CountingInv, CountingLinks

(* Who subtracts waits from then on. *)
LEMMA SubtractKeeps ==
  ASSUME CountingInv, NEW w \in Acquirers, Subtract(w)
  PROVE  CountingInv'
<1>1. CountingLinks
  BY DEF CountingInv, CountingLinks
<1>2. CountingLinks'
  BY <1>1, QuietStepKeepsLinks
<1>3. /\ at[w] = "subtract"
      /\ active' = active - 1
      /\ at' = [at EXCEPT ![w] = "push"]
      /\ UNCHANGED <<pending, result, admitted, control, released, queued>>
  BY DEF Subtract, controlVars
<1>4. w \notin Unserved /\ w \notin queued
  BY <1>1, <1>3 DEF Unserved, CountingLinks, LinkedWaits
<1>5. Unserved' = Unserved \cup {w}
  BY <1>1, <1>3, <1>4 DEF Unserved, CountingLinks, CountingTypeOK
<1>6. Cardinality(Unserved') = Cardinality(Unserved) + 1
  BY <1>4, <1>5, UnservedFinite, FS_AddElement
<1>7. Added' = Added /\ Owed' = Owed /\ Owed \in {0, 1} /\ Added \in {0, 1}
  BY <1>3 DEF Added, Owed
<1>8. /\ active \in Int /\ admitted \in Nat /\ released \in Nat /\ pending \in Nat
      /\ Start \in Nat
  BY <1>1, CountingAssumption DEF CountingLinks, CountingTypeOK
<1>9. PermitsBalance'
  <2>1. active' + admitted' + Cardinality(Unserved') = Start + released' - pending' + Added'
    BY <1>3, <1>6, <1>7, <1>8, UnservedFinite DEF CountingInv, PermitsBalance
  <2>2. active' + Cardinality(Unserved') >= Owed'
    BY <1>3, <1>6, <1>7, <1>8, UnservedFinite DEF CountingInv, PermitsBalance
  <2>3. \A v \in Acquirers : at'[v] \in {"cas", "tryCas"} => result'[v] > 0
    BY <1>1, <1>3 DEF CountingInv, PermitsBalance, CountingLinks, CountingTypeOK
  <2>4. QED
    BY <1>5, <2>1, <2>2, <2>3 DEF PermitsBalance
<1>10. QED
  BY <1>2, <1>9 DEF CountingInv, CountingLinks

(* Linking oneself, running again, and finishing. *)
LEMMA MoveKeeps ==
  ASSUME CountingInv, NEW w \in Acquirers, Push(w) \/ Run(w) \/ Finish(w)
  PROVE  CountingInv'
<1>1. CountingLinks
  BY DEF CountingInv, CountingLinks
<1>2. CountingLinks'
  BY <1>1, PushKeepsLinks, RunKeepsLinks, QuietStepKeepsLinks
<1>3. UNCHANGED <<active, pending, result, admitted, control, released>>
  BY DEF Push, Run, Finish, controlVars
<1>4. Added' = Added /\ Owed' = Owed
  BY <1>3 DEF Added, Owed
<1>5. Unserved' = Unserved
  <2>1. CASE Push(w)
    BY <1>1, <2>1 DEF Push, Unserved, CountingLinks, CountingTypeOK
  <2>2. CASE Run(w)
    BY <1>1, <2>2 DEF Run, Unserved, CountingLinks, CountingTypeOK
  <2>3. CASE Finish(w)
    BY <1>1, <2>3 DEF Finish, Unserved, CountingLinks, CountingTypeOK
  <2>4. QED
    BY <2>1, <2>2, <2>3
<1>6. \A v \in Acquirers : at'[v] \in {"cas", "tryCas"} => at'[v] = at[v]
  BY <1>1 DEF Push, Run, Finish, CountingLinks, CountingTypeOK
<1>7. PermitsBalance'
  BY <1>3, <1>4, <1>5, <1>6 DEF CountingInv, PermitsBalance
<1>8. QED
  BY <1>2, <1>7 DEF CountingInv, CountingLinks

(* What the control flow of the one controller r makes of Added and Owed. *)
LEMMA ControllerFacts ==
  ASSUME CountingLinks, NEW r \in Releasers, control[r] # "idle"
  PROVE  /\ \A q \in Releasers \ {r} : control[q] = "idle"
         /\ Added = IF control[r] \in {"spin", "post", "next"} THEN 1 ELSE 0
         /\ Owed = IF control[r] \in {"spin", "post"} THEN 1 ELSE 0
<1>1. \A q \in Releasers \ {r} : control[q] = "idle"
  BY DEF CountingLinks, Elected
<1>2. QED
  BY <1>1 DEF Added, Owed

(* ... and in the next state, if r alone has moved. *)
LEMMA ControllerFactsNext ==
  ASSUME CountingLinks, NEW r \in Releasers, control[r] # "idle",
         NEW c \in {"idle", "transfer", "add", "spin", "post", "next"},
         control' = [control EXCEPT ![r] = c]
  PROVE  /\ Added' = IF c \in {"spin", "post", "next"} THEN 1 ELSE 0
         /\ Owed' = IF c \in {"spin", "post"} THEN 1 ELSE 0
<1>1. control'[r] = c /\ \A q \in Releasers \ {r} : control'[q] = "idle"
  BY ControllerFacts DEF CountingLinks, CountingTypeOK
<1>2. QED
  BY <1>1 DEF Added, Owed

(* A release waits to be worked off, so the balance stays. *)
LEMMA ReleaseKeeps ==
  ASSUME CountingInv, NEW r \in Releasers, NEW n \in 1 .. MaxReleased, Release(r, n)
  PROVE  CountingInv'
<1>1. CountingLinks /\ PermitsBalance
  BY DEF CountingInv, CountingLinks
<1>2. CountingLinks'
  BY <1>1, ReleaseKeepsLinks
<1>3. /\ control[r] = "idle"
      /\ pending' = pending + n
      /\ released' = released + n
      /\ control' = [control EXCEPT ![r] = IF pending = 0 THEN "transfer" ELSE "idle"]
      /\ UNCHANGED <<active, at, result, admitted, queued>>
  BY DEF Release, coroVars
<1>4. Unserved' = Unserved
  BY <1>3 DEF Unserved
<1>5. Added' = Added /\ Owed' = Owed /\ Added \in {0, 1}
  BY <1>1, <1>3 DEF Added, Owed, CountingLinks, CountingTypeOK
<1>6. /\ active \in Int /\ admitted \in Nat /\ released \in Nat /\ pending \in Nat
      /\ Start \in Nat /\ n \in Nat
  BY <1>1, CountingAssumption DEF CountingLinks, CountingTypeOK
<1>7. PermitsBalance'
  BY <1>1, <1>3, <1>4, <1>5, <1>6, UnservedFinite DEF PermitsBalance
<1>8. QED
  BY <1>2, <1>7 DEF CountingInv, CountingLinks

(* transfer() before the addition. *)
LEMMA ControlTransferKeeps ==
  ASSUME CountingInv, NEW r \in Releasers, ControlTransfer(r)
  PROVE  CountingInv'
<1>1. CountingLinks /\ PermitsBalance
  BY DEF CountingInv, CountingLinks
<1>2. CountingLinks'
  BY <1>1, ControlTransferKeepsLinks
<1>3. /\ control[r] = "transfer"
      /\ control' = [control EXCEPT ![r] = "add"]
      /\ UNCHANGED <<active, pending, at, result, admitted, released, queued>>
  BY DEF ControlTransfer, coroVars
<1>4. Unserved' = Unserved
  BY <1>3 DEF Unserved
<1>5. Added' = Added /\ Owed' = Owed
  BY <1>1, <1>3, ControllerFacts, ControllerFactsNext
<1>6. PermitsBalance'
  BY <1>1, <1>3, <1>4, <1>5 DEF PermitsBalance
<1>7. QED
  BY <1>2, <1>6 DEF CountingInv, CountingLinks

(* The addition: with a count below zero somebody waits, linked or not. *)
LEMMA ControlAddKeeps ==
  ASSUME CountingInv, NEW r \in Releasers, ControlAdd(r)
  PROVE  CountingInv'
<1>1. CountingLinks /\ PermitsBalance
  BY DEF CountingInv, CountingLinks
<1>2. CountingLinks'
  BY <1>1, ControlAddKeepsLinks
<1> DEFINE c == IF resume[r] # Null THEN "post" ELSE IF active < 0 THEN "spin" ELSE "next"
<1>3. /\ control[r] = "add"
      /\ active' = active + 1
      /\ control' = [control EXCEPT ![r] = c]
      /\ UNCHANGED <<pending, at, result, admitted, resume, released, queued>>
  BY DEF ControlAdd, coroVars
<1>4. Unserved' = Unserved
  BY <1>3 DEF Unserved
<1>5. Added = 0 /\ Owed = 0
  BY <1>1, <1>3, ControllerFacts
<1>6. Added' = 1 /\ Owed' = IF c \in {"spin", "post"} THEN 1 ELSE 0
  <2>1. c \in {"spin", "post", "next"}
    OBVIOUS
  <2> HIDE DEF c
  <2>2. QED
    BY <1>1, <1>3, <2>1, ControllerFactsNext
<1>7. /\ active \in Int /\ admitted \in Nat /\ released \in Nat /\ pending \in Nat
      /\ Start \in Nat
  BY <1>1, CountingAssumption DEF CountingLinks, CountingTypeOK
<1>8. c \in {"spin", "post"} => Unserved # {}
  <2>1. CASE resume[r] # Null
    BY <1>1, <2>1 DEF CountingLinks, CountingTypeOK, LinkedWaits, Unserved
  <2>2. CASE active < 0
    BY <1>1, <1>5, <1>7, <2>2, UnservedFinite DEF PermitsBalance
  <2>3. QED
    BY <2>1, <2>2
<1> HIDE DEF c
<1>9. PermitsBalance'
  <2>1. active' + admitted' + Cardinality(Unserved') = Start + released' - pending' + Added'
    <3>1. active + admitted + Cardinality(Unserved) = Start + released - pending
      BY <1>1, <1>5, <1>7, UnservedFinite DEF PermitsBalance
    <3>2. active + 1 + admitted + Cardinality(Unserved) = Start + released - pending + 1
      BY <1>7, <3>1, UnservedFinite
    <3>3. Added' = 1
      BY <1>6
    <3>4. QED
      BY <1>3, <1>4, <3>2, <3>3
  <2>2. active' + Cardinality(Unserved') >= Owed'
    BY <1>1, <1>3, <1>4, <1>5, <1>6, <1>7, UnservedFinite DEF PermitsBalance
  <2>3. Owed' = 1 => Unserved' # {}
    BY <1>4, <1>6, <1>8
  <2>4. QED
    BY <1>1, <1>3, <2>1, <2>2, <2>3 DEF PermitsBalance
<1>10. QED
  BY <1>2, <1>9 DEF CountingInv, CountingLinks

(* Another look while it spins. *)
LEMMA ControlSpinKeeps ==
  ASSUME CountingInv, NEW r \in Releasers, ControlSpin(r)
  PROVE  CountingInv'
<1>1. CountingLinks /\ PermitsBalance
  BY DEF CountingInv, CountingLinks
<1>2. CountingLinks'
  BY <1>1, ControlSpinKeepsLinks
<1> DEFINE c == IF resume'[r] = Null THEN "spin" ELSE "post"
<1>3. /\ control[r] = "spin"
      /\ control' = [control EXCEPT ![r] = c]
      /\ UNCHANGED <<active, pending, at, result, admitted, released, queued>>
  BY DEF ControlSpin, coroVars
<1>4. Unserved' = Unserved
  BY <1>3 DEF Unserved
<1>5. c \in {"spin", "post"}
  OBVIOUS
<1> HIDE DEF c
<1>6. Added' = Added /\ Owed' = Owed
  BY <1>1, <1>3, <1>5, ControllerFacts, ControllerFactsNext
<1>7. PermitsBalance'
  BY <1>1, <1>3, <1>4, <1>6 DEF PermitsBalance
<1>8. QED
  BY <1>2, <1>7 DEF CountingInv, CountingLinks

(* The waiter that is posted is granted the permit that was added. *)
LEMMA ControlPostKeeps ==
  ASSUME CountingInv, NEW r \in Releasers, ControlPost(r)
  PROVE  CountingInv'
<1>1. CountingLinks /\ PermitsBalance
  BY DEF CountingInv, CountingLinks
<1>2. CountingLinks' /\ resume[r] \in Unserved
  BY <1>1, ControlPostKeepsLinks
<1>3. /\ control[r] = "post"
      /\ queued' = queued \cup {resume[r]}
      /\ admitted' = admitted + 1
      /\ control' = [control EXCEPT ![r] = "next"]
      /\ UNCHANGED <<active, pending, at, result, released>>
  BY DEF ControlPost
<1>4. Unserved' = Unserved \ {resume[r]}
  BY <1>3 DEF Unserved
<1>5. Cardinality(Unserved') = Cardinality(Unserved) - 1
  BY <1>2, <1>4, UnservedFinite, FS_RemoveElement
<1>6. Added = 1 /\ Owed = 1 /\ Added' = 1 /\ Owed' = 0
  BY <1>1, <1>3, ControllerFacts, ControllerFactsNext
<1>7. /\ active \in Int /\ admitted \in Nat /\ released \in Nat /\ pending \in Nat
      /\ Start \in Nat
  BY <1>1, CountingAssumption DEF CountingLinks, CountingTypeOK
<1>8. PermitsBalance'
  <2>1. active' + admitted' + Cardinality(Unserved') = Start + released' - pending' + Added'
    BY <1>1, <1>3, <1>5, <1>6, <1>7, UnservedFinite DEF PermitsBalance
  <2>2. active' + Cardinality(Unserved') >= Owed'
    BY <1>1, <1>3, <1>5, <1>6, <1>7, UnservedFinite DEF PermitsBalance
  <2>3. QED
    BY <1>1, <1>3, <1>6, <2>1, <2>2 DEF PermitsBalance
<1>9. QED
  BY <1>2, <1>8 DEF CountingInv, CountingLinks

(* One pending release has been worked off. *)
LEMMA ControlNextKeeps ==
  ASSUME CountingInv, NEW r \in Releasers, ControlNext(r)
  PROVE  CountingInv'
<1>1. CountingLinks /\ PermitsBalance
  BY DEF CountingInv, CountingLinks
<1>2. CountingLinks' /\ pending > 0
  BY <1>1, ControlNextKeepsLinks
<1> DEFINE c == IF pending = 1 THEN "idle" ELSE "transfer"
<1>3. /\ control[r] = "next"
      /\ pending' = pending - 1
      /\ control' = [control EXCEPT ![r] = c]
      /\ UNCHANGED <<active, at, result, admitted, queued, released>>
  BY DEF ControlNext, coroVars
<1>4. Unserved' = Unserved
  BY <1>3 DEF Unserved
<1>5. c \in {"idle", "transfer"}
  OBVIOUS
<1> HIDE DEF c
<1>6. Added = 1 /\ Owed = 0 /\ Added' = 0 /\ Owed' = 0
  BY <1>1, <1>3, <1>5, ControllerFacts, ControllerFactsNext
<1>7. /\ active \in Int /\ admitted \in Nat /\ released \in Nat /\ pending \in Nat
      /\ Start \in Nat
  BY <1>1, CountingAssumption DEF CountingLinks, CountingTypeOK
<1>8. PermitsBalance'
  BY <1>1, <1>3, <1>4, <1>6, <1>7, UnservedFinite DEF PermitsBalance
<1>9. QED
  BY <1>2, <1>8 DEF CountingInv, CountingLinks

(* Every step of a coroutine or of a releasing thread keeps CountingInv. *)
LEMMA NextCountingInv == CountingInv /\ [CountingNext]_countingVars => CountingInv'
<1> SUFFICES ASSUME CountingInv, [CountingNext]_countingVars PROVE CountingInv'
  OBVIOUS
<1>1. ASSUME NEW w \in Acquirers, CoroStep(w) PROVE CountingInv'
  BY <1>1, LookKeeps, TakePermitKeeps, SubtractKeeps, MoveKeeps DEF CoroStep
<1>2. ASSUME NEW r \in Releasers, ControlStep(r) PROVE CountingInv'
  BY <1>2, ControlTransferKeeps, ControlAddKeeps, ControlSpinKeeps, ControlPostKeeps,
     ControlNextKeeps
     DEF ControlStep
<1>3. ASSUME NEW r \in Releasers, NEW n \in 1 .. MaxReleased, Release(r, n) PROVE CountingInv'
  BY <1>3, ReleaseKeeps
<1>4. CASE UNCHANGED countingVars
  <2> USE <1>4 DEF countingVars, coroVars, controlVars, CountingInv
  <2>1. CountingTypeOK' /\ Elected'
    BY DEF CountingTypeOK, Elected
  <2>2. LinkedOncePerWait' /\ LinkedWaits' /\ WaiterIsLinked'
    BY DEF LinkedOncePerWait, LinkedWaits, WaiterIsLinked
  <2>3. PermitsBalance'
    BY DEF PermitsBalance, Unserved, Added, Owed
  <2>4. QED
    BY <2>1, <2>2, <2>3
<1>5. QED
  BY <1>1, <1>2, <1>3, <1>4 DEF CountingNext

(* The election makes the set of controllers a singleton or empty. *)
LEMMA ControllersCounted ==
  ASSUME CountingInv
  PROVE  Cardinality(Controllers) = IF pending > 0 THEN 1 ELSE 0
<1>1. CASE pending > 0
  <2>1. PICK r \in Releasers : control[r] # "idle"
    BY <1>1 DEF CountingInv, Elected
  <2>2. Controllers = {r}
    BY <2>1 DEF CountingInv, Elected, Controllers
  <2>3. QED
    BY <1>1, <2>2, FS_Singleton
<1>2. CASE ~(pending > 0)
  <2>1. Controllers = {}
    BY <1>2 DEF CountingInv, Elected, Controllers
  <2>2. QED
    BY <1>2, <2>1, FS_EmptySet
<1>3. QED
  BY <1>1, <1>2

(* In every reachable state of async_counting_semaphore the lists are well
   formed, one thread at most is in control(), and the permits balance. *)
THEOREM CountingInvariant == CountingSpec => []CountingInv
BY InitCountingInv, NextCountingInv, PTL DEF CountingSpec

(* transfer_ needs no lock: one thread runs control() while releases are
   pending and none otherwise, and it never spins for a coroutine that is
   not on its way to the list. *)
THEOREM OneControllerHolds == CountingSpec => []OneController
<1>1. CountingInv => OneController
  <2> SUFFICES ASSUME CountingInv, NEW r \in Releasers, control[r] = "spin"
               PROVE  resuming_ # <<>> \/ transfer_ # <<>> \/ \E w \in Acquirers : at[w] = "push"
    BY ControllersCounted DEF OneController
  <2>1. Owed = 1
    BY DEF Owed
  <2>2. PICK w \in Acquirers : at[w] \in {"push", "parked"} /\ w \notin queued
    BY <2>1 DEF CountingInv, PermitsBalance, Unserved
  <2>3. \A q \in Releasers : resume[q] # w
    BY CountingAssumption DEF CountingInv, Elected
  <2>4. at[w] = "parked" => resuming_ # <<>> \/ transfer_ # <<>>
    BY <2>2, <2>3 DEF CountingInv, WaiterIsLinked, CountingTypeOK
  <2>5. QED
    BY <2>2, <2>4
<1>2. QED
  BY <1>1, CountingInvariant, PTL

(* The semaphore grants no permit it does not have: the permits granted are
   at most those it started with and those releases worked off, plus the one
   the controller is handing over. *)
THEOREM PermitsAreRespected == CountingSpec => []PermitsRespected
<1>1. CountingInv => PermitsRespected
  <2> SUFFICES ASSUME CountingInv PROVE PermitsRespected
    OBVIOUS
  <2>1. /\ active \in Int /\ admitted \in Nat /\ released \in Nat /\ pending \in Nat
        /\ Start \in Nat
    BY CountingAssumption DEF CountingInv, CountingTypeOK
  <2>2. Added <= (IF pending > 0 THEN 1 ELSE 0) /\ Added \in {0, 1}
    BY <2>1 DEF Added, CountingInv, Elected
  <2>3. active + Cardinality(Unserved) >= 0
    <3>1. Owed \in {0, 1}
      BY DEF Owed
    <3>2. QED
      BY <2>1, <3>1, UnservedFinite DEF CountingInv, PermitsBalance
  <2>4. admitted <= Start + released - pending + Added
    BY <2>1, <2>2, <2>3, UnservedFinite DEF CountingInv, PermitsBalance
  <2>5. QED
    BY <2>1, <2>2, <2>4, ControllersCounted DEF PermitsRespected
<1>2. QED
  BY <1>1, CountingInvariant, PTL
=============================================================================
