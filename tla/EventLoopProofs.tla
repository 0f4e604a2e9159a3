--------------------------- MODULE EventLoopProofs ---------------------------
(***************************************************************************)
(* Theorems about EventLoop, for any numbers of threads, events and I/O    *)
(* operations and any sizes of the queues: no wake-up is lost, and every   *)
(* event is executed at most once and in order.                            *)
(***************************************************************************)
EXTENDS EventLoop, SequenceTheorems, TLAPS

(* A non-empty sequence is its head and its tail. *)
LEMMA HeadAndTail ==
  ASSUME NEW S, NEW s \in Seq(S), s # <<>>
  PROVE  /\ Head(s) \in S
         /\ Tail(s) \in Seq(S)
         /\ \A x \in Range(s) : x = Head(s) \/ x \in Range(Tail(s))
<1>1. Len(s) \in Nat /\ Len(s) > 0 /\ DOMAIN s = 1 .. Len(s)
  OBVIOUS
<1>2. Head(s) = s[1] /\ Tail(s) \in Seq(S)
  BY <1>1
<1>3. Len(Tail(s)) = Len(s) - 1 /\ \A i \in 1 .. Len(s) - 1 : Tail(s)[i] = s[i + 1]
  BY <1>1
<1>4. ASSUME NEW i \in 1 .. Len(s), i # 1 PROVE s[i] \in Range(Tail(s))
  <2>1. i - 1 \in 1 .. Len(s) - 1 /\ Tail(s)[i - 1] = s[i]
    BY <1>1, <1>3, <1>4
  <2>2. DOMAIN Tail(s) = 1 .. Len(s) - 1
    BY <1>1, <1>2, <1>3
  <2>3. QED
    BY <2>1, <2>2 DEF Range
<1>5. QED
  BY <1>1, <1>2, <1>4 DEF Range

(* A non-empty sequence is the concatenation of its head and its tail. *)
LEMMA HeadThenTail ==
  ASSUME NEW S, NEW s \in Seq(S), s # <<>>
  PROVE  s = <<Head(s)>> \o Tail(s)
<1>1. <<Head(s)>> \in Seq(S) /\ Tail(s) \in Seq(S)
  BY HeadAndTail
<1>2. Len(<<Head(s)>> \o Tail(s)) = Len(s)
  BY <1>1
<1>3. \A i \in 1 .. Len(s) : (<<Head(s)>> \o Tail(s))[i] = s[i]
  BY <1>1
<1>4. <<Head(s)>> \o Tail(s) \in Seq(S)
  BY <1>1, ConcatProperties
<1>5. QED
  BY <1>2, <1>3, <1>4, SeqEqual

(* Appending keeps the elements of a sequence and adds one. *)
LEMMA RangeOfAppend ==
  ASSUME NEW S, NEW s \in Seq(S), NEW x \in S
  PROVE  Range(s) \cup {x} \subseteq Range(Append(s, x))
<1>1. /\ Append(s, x) \in Seq(S)
      /\ Len(Append(s, x)) = Len(s) + 1
      /\ \A i \in 1 .. Len(s) : Append(s, x)[i] = s[i]
      /\ Append(s, x)[Len(s) + 1] = x
  BY AppendProperties
<1>2. DOMAIN Append(s, x) = 1 .. Len(s) + 1 /\ DOMAIN s = 1 .. Len(s) /\ Len(s) \in Nat
  BY <1>1
<1>3. \A i \in 1 .. Len(s) + 1 : Append(s, x)[i] \in Range(Append(s, x))
  BY <1>2 DEF Range
<1>4. x \in Range(Append(s, x))
  BY <1>1, <1>2, <1>3
<1>5. ASSUME NEW i \in 1 .. Len(s) PROVE s[i] \in Range(Append(s, x))
  BY <1>1, <1>2, <1>3
<1>6. QED
  BY <1>2, <1>4, <1>5 DEF Range

(* Cutting a sequence in two loses no element. *)
LEMMA RangeOfCut ==
  ASSUME NEW S, NEW s \in Seq(S), NEW n \in 0 .. Len(s)
  PROVE  /\ SubSeq(s, 1, n) \in Seq(S)
         /\ SubSeq(s, n + 1, Len(s)) \in Seq(S)
         /\ Range(s) \subseteq Range(SubSeq(s, 1, n)) \cup Range(SubSeq(s, n + 1, Len(s)))
<1> DEFINE a == SubSeq(s, 1, n)
           b == SubSeq(s, n + 1, Len(s))
<1>1. a \in Seq(S) /\ Len(a) = n /\ \A i \in 1 .. n : a[i] = s[i]
  OBVIOUS
<1>2. b \in Seq(S) /\ Len(b) = Len(s) - n /\ \A i \in 1 .. Len(s) - n : b[i] = s[n + i]
  OBVIOUS
<1> HIDE DEF a, b
<1>3. ASSUME NEW i \in 1 .. Len(s) PROVE s[i] \in Range(a) \cup Range(b)
  <2>1. CASE i <= n
    <3>1. i \in DOMAIN a /\ a[i] = s[i]
      BY <2>1, <1>1
    <3>2. QED
      BY <3>1 DEF Range
  <2>2. CASE i > n
    <3>1. i - n \in DOMAIN b /\ b[i - n] = s[i]
      BY <2>2, <1>2
    <3>2. QED
      BY <3>1 DEF Range
  <2>3. QED
    BY <2>1, <2>2
<1>4. DOMAIN s = 1 .. Len(s)
  OBVIOUS
<1>5. Range(s) \subseteq Range(a) \cup Range(b)
  BY <1>3, <1>4 DEF Range
<1>6. QED
  BY <1>1, <1>2, <1>5 DEF a, b

-----------------------------------------------------------------------------

(* The loop starts with nothing queued. *)
LEMMA InitLoopInv == LoopInit => LoopInv
<1> SUFFICES ASSUME LoopInit PROVE LoopInv
  OBVIOUS
<1>1. NoLostWakeup /\ InUse
  BY DEF LoopInit, NoLostWakeup, InUse
<1>2. LoopTypeOK
  <2>1. readable \in BOOLEAN /\ starting \in BOOLEAN /\ stop \in BOOLEAN
    BY Zenon DEF LoopInit
  <2>2. QED
    BY <2>1 DEF LoopInit, LoopTypeOK, RingOps
<1>3. InOrderExactlyOnce
  <2>1. <<>> \o <<>> = <<>>
    OBVIOUS
  <2>2. QED
    BY <2>1 DEF LoopInit, InOrderExactlyOnce
<1>4. QED
  BY <1>1, <1>2, <1>3 DEF LoopInv

(* The types, and that the read deque and the batch are empty unless they are being executed. *)
LEMMA NextTypes ==
  ASSUME LoopInv, [LoopNext]_loopVars
  PROVE  LoopTypeOK' /\ InUse'
<1> USE EventLoopAssumption DEF LoopInv, LoopTypeOK, RingOps, InUse,
        queueVars, userVars, ringVars, runVars
<1>1. ASSUME NEW d \in Dispatchers, NEW e \in Events, DispatchUserEvent(d, e)
      PROVE  LoopTypeOK' /\ InUse'
  BY <1>1 DEF DispatchUserEvent
<1>2. ASSUME NEW d \in Dispatchers \cup {Stopper}, Wake(d) PROVE LoopTypeOK' /\ InUse'
  BY <1>2 DEF Wake
<1>3. CASE RequestStop
  BY <1>3 DEF RequestStop
<1>4. ASSUME NEW o \in Ops, CompleteOp(o) PROVE LoopTypeOK' /\ InUse'
  BY <1>4 DEF CompleteOp
<1>5. CASE CompleteUserRead
  <2>1. cq' \in Seq(Ops \cup {UserRead})
    BY <1>5, AppendProperties DEF CompleteUserRead
  <2>2. QED
    BY <1>5, <2>1 DEF CompleteUserRead
<1>6. CASE SwapQueues
  BY <1>6 DEF SwapQueues
<1>7. CASE ExecuteUserEvent
  <2>1. readQ' \in Seq(Events) /\ executed' \in Seq(Events)
    BY <1>7, HeadAndTail DEF ExecuteUserEvent
  <2>2. sq' \subseteq RingOps
    BY <1>7 DEF ExecuteUserEvent, BeginOp, Prepare
  <2>3. QED
    BY <1>7, <2>1, <2>2 DEF ExecuteUserEvent
<1>8. CASE AwaitUserRead
  BY <1>8 DEF AwaitUserRead, Prepare
<1>9. CASE ResumeUserSpace
  <2>1. batch' \in Seq(Ops \cup {UserRead})
    BY <1>9, HeadAndTail DEF ResumeUserSpace
  <2>2. readQ = <<>>
    BY <1>9 DEF ResumeUserSpace
  <2>3. QED
    BY <1>9, <2>1, <2>2 DEF ResumeUserSpace
<1>10. CASE ResumeOp
  <2>1. batch' \in Seq(Ops \cup {UserRead}) /\ Head(batch) \in RingOps
    BY <1>10, HeadAndTail DEF ResumeOp
  <2>2. QED
    BY <1>10, <2>1 DEF ResumeOp, Prepare
<1>11. CASE SubmitRing \/ CheckStop \/ WaitCqe \/ WaitInterrupted
  BY <1>11 DEF SubmitRing, CheckStop, WaitCqe, WaitInterrupted
<1>12. CASE PeekBatch
  <2>1. CASE cq = <<>>
    BY <1>12, <2>1 DEF PeekBatch
  <2>2. CASE cq # <<>>
    <3> DEFINE n == IF Len(cq) < MaxBatch THEN Len(cq) ELSE MaxBatch
    <3>1. n \in 0 .. Len(cq)
      OBVIOUS
    <3>2. batch' = SubSeq(cq, 1, n) /\ cq' = SubSeq(cq, n + 1, Len(cq))
      BY <1>12, <2>2 DEF PeekBatch
    <3> HIDE DEF n
    <3>3. batch' \in Seq(RingOps) /\ cq' \in Seq(RingOps)
      BY <3>1, <3>2, RangeOfCut
    <3>4. QED
      BY <1>12, <2>2, <3>3 DEF PeekBatch
  <2>3. QED
    BY <2>1, <2>2
<1>13. CASE UNCHANGED loopVars
  BY <1>13 DEF loopVars
<1>14. QED
  BY <1>1, <1>2, <1>3, <1>4, <1>5, <1>6, <1>7, <1>8, <1>9, <1>10, <1>11, <1>12, <1>13
     DEF LoopNext, LoopStep

(* No step loses a wake-up. *)
LEMMA NextNoLostWakeup ==
  ASSUME LoopInv, [LoopNext]_loopVars
  PROVE  NoLostWakeup'
<1> USE EventLoopAssumption DEF LoopInv, LoopTypeOK, RingOps, NoLostWakeup,
        queueVars, userVars, ringVars, runVars
(* The dispatch that finds the deque empty is about to wake the loop. *)
<1>1. ASSUME NEW d \in Dispatchers, NEW e \in Events, DispatchUserEvent(d, e)
      PROVE  NoLostWakeup'
  <2>1. CASE writeQ = <<>>
    BY <1>1, <2>1 DEF DispatchUserEvent
  <2>2. CASE writeQ # <<>>
    BY <1>1, <2>2 DEF DispatchUserEvent
  <2>3. QED
    BY <2>1, <2>2
<1>2. ASSUME NEW d \in Dispatchers \cup {Stopper}, Wake(d) PROVE NoLostWakeup'
  BY <1>2 DEF Wake
<1>3. CASE RequestStop
  BY <1>3 DEF RequestStop
(* A completion joins the others on the ring. *)
<1>4. ASSUME NEW o \in Ops, CompleteOp(o) PROVE NoLostWakeup'
  <2>1. Range(cq) \subseteq Range(cq')
    BY <1>4, RangeOfAppend DEF CompleteOp
  <2>2. QED
    BY <1>4, <2>1 DEF CompleteOp
(* The count that the read takes is replaced by its completion. *)
<1>5. CASE CompleteUserRead
  <2>1. UserRead \in Range(cq')
    BY <1>5, RangeOfAppend DEF CompleteUserRead
  <2>2. QED
    BY <2>1
<1>6. CASE SwapQueues
  BY <1>6 DEF SwapQueues
<1>7. CASE ExecuteUserEvent
  BY <1>7 DEF ExecuteUserEvent
<1>8. CASE AwaitUserRead
  BY <1>8 DEF AwaitUserRead
<1>9. CASE ResumeUserSpace
  BY <1>9 DEF ResumeUserSpace
<1>10. CASE ResumeOp
  <2>1. UserRead \in Range(batch) => UserRead \in Range(batch')
    BY <1>10, HeadAndTail DEF ResumeOp
  <2>2. QED
    BY <1>10, <2>1 DEF ResumeOp
<1>11. CASE SubmitRing \/ CheckStop \/ WaitCqe \/ WaitInterrupted
  BY <1>11 DEF SubmitRing, CheckStop, WaitCqe, WaitInterrupted
(* Completions that leave the ring are in the batch. *)
<1>12. CASE PeekBatch
  <2>1. CASE cq = <<>>
    BY <1>12, <2>1 DEF PeekBatch
  <2>2. CASE cq # <<>>
    <3> DEFINE n == IF Len(cq) < MaxBatch THEN Len(cq) ELSE MaxBatch
    <3>1. n \in 0 .. Len(cq)
      OBVIOUS
    <3>2. batch' = SubSeq(cq, 1, n) /\ cq' = SubSeq(cq, n + 1, Len(cq))
      BY <1>12, <2>2 DEF PeekBatch
    <3> HIDE DEF n
    <3>3. Range(cq) \subseteq Range(batch') \cup Range(cq')
      BY <3>1, <3>2, RangeOfCut
    <3>4. batch = <<>>
      BY <1>12 DEF PeekBatch, InUse
    <3>5. UserRead \notin Range(batch)
      BY <3>4 DEF Range
    <3>6. QED
      BY <1>12, <2>2, <3>3, <3>5 DEF PeekBatch
  <2>3. QED
    BY <2>1, <2>2
<1>13. CASE UNCHANGED loopVars
  BY <1>13 DEF loopVars
<1>14. QED
  BY <1>1, <1>2, <1>3, <1>4, <1>5, <1>6, <1>7, <1>8, <1>9, <1>10, <1>11, <1>12, <1>13
     DEF LoopNext, LoopStep

(* Every step moves events along the two deques without losing, repeating or
   overtaking one. *)
LEMMA NextInOrder ==
  ASSUME LoopInv, [LoopNext]_loopVars
  PROVE  InOrderExactlyOnce'
<1> USE DEF LoopInv, LoopTypeOK, InOrderExactlyOnce, queueVars, userVars, ringVars, runVars
<1>1. ASSUME NEW d \in Dispatchers, NEW e \in Events, DispatchUserEvent(d, e)
      PROVE  InOrderExactlyOnce'
  <2>1. executed \o readQ \in Seq(Events) /\ <<e>> \in Seq(Events)
    BY ConcatProperties
  <2>2. writeQ' = writeQ \o <<e>> /\ dispatched' = dispatched \o <<e>>
    BY <1>1, AppendIsConcat DEF DispatchUserEvent
  <2>3. ((executed \o readQ) \o writeQ) \o <<e>> = (executed \o readQ) \o (writeQ \o <<e>>)
    BY <2>1, ConcatAssociative
  <2>4. executed' = executed /\ readQ' = readQ
    BY <1>1 DEF DispatchUserEvent
  <2>5. QED
    BY <2>2, <2>3, <2>4
<1>2. CASE SwapQueues
  <2>1. readQ = <<>>
    BY <1>2 DEF SwapQueues, InUse
  <2>2. executed \o <<>> = executed /\ executed \o writeQ \in Seq(Events)
    BY ConcatEmptySeq, ConcatProperties
  <2>3. (executed \o writeQ) \o <<>> = executed \o writeQ
    BY <2>2, ConcatEmptySeq
  <2>4. QED
    BY <1>2, <2>1, <2>2, <2>3 DEF SwapQueues
<1>3. CASE ExecuteUserEvent
  <2> DEFINE h == <<Head(readQ)>>
  <2>1. h \in Seq(Events) /\ Tail(readQ) \in Seq(Events) /\ readQ = h \o Tail(readQ)
    BY <1>3, HeadAndTail, HeadThenTail DEF ExecuteUserEvent
  <2>2. executed' = executed \o h
    <3>1. Head(readQ) \in Events /\ executed' = Append(executed, Head(readQ))
      BY <1>3, HeadAndTail DEF ExecuteUserEvent
    <3>2. QED
      BY <3>1, AppendIsConcat
  <2>3. (executed \o h) \o Tail(readQ) = executed \o readQ
    <3>1. h \in Seq(Events) /\ Tail(readQ) \in Seq(Events) /\ executed \in Seq(Events)
      BY <2>1
    <3> HIDE DEF h, LoopInv, LoopTypeOK, InOrderExactlyOnce
    <3>2. (executed \o h) \o Tail(readQ) = executed \o (h \o Tail(readQ))
      BY <3>1, ConcatAssociative
    <3>3. QED
      BY <2>1, <3>2
  <2>4. readQ' = Tail(readQ) /\ writeQ' = writeQ /\ dispatched' = dispatched
    BY <1>3 DEF ExecuteUserEvent
  <2>5. QED
    BY <2>2, <2>3, <2>4
<1>4. CASE UNCHANGED <<dispatched, executed, readQ, writeQ>>
  BY <1>4
<1>5. QED
  BY <1>1, <1>2, <1>3, <1>4
     DEF LoopNext, LoopStep, loopVars, Wake, RequestStop, CompleteOp, CompleteUserRead, AwaitUserRead,
         ResumeUserSpace, ResumeOp, SubmitRing, CheckStop, WaitCqe, WaitInterrupted, PeekBatch

-----------------------------------------------------------------------------

(* The invariant of the event loop holds in every reachable state. *)
LEMMA LoopInvariant == LoopSpec => []LoopInv
<1>1. LoopInv /\ [LoopNext]_loopVars => LoopInv'
  BY NextTypes, NextNoLostWakeup, NextInOrder DEF LoopInv
<1>2. QED
  BY InitLoopInv, <1>1, PTL DEF LoopSpec

(* Every variable of the event loop keeps its type. *)
THEOREM TypeCorrect == LoopSpec => []LoopTypeOK
BY LoopInvariant, PTL DEF LoopInv

(* event_loop never sleeps on a non-empty queue: whatever the interleaving of
   dispatch_user_event(), its late wake(), the stop callback and the reads of
   the eventfd, events in the write deque are noticed. *)
THEOREM WakeupsAreKept == LoopSpec => []NoLostWakeup
BY LoopInvariant, PTL DEF LoopInv

(* event_loop executes each dispatched event at most once, in the order of
   dispatch, and the swap of the deques drops none. *)
THEOREM EventsInOrder == LoopSpec => []InOrderExactlyOnce
BY LoopInvariant, PTL DEF LoopInv
=============================================================================
