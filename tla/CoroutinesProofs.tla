------------------------- MODULE CoroutinesProofs ---------------------------
(***************************************************************************)
(* Theorems about parts that are built from coroutines: the proxies of     *)
(* engine_enabled (Proxy), the observable (Observable), the barrier        *)
(* (AsyncBarrier) and the awaitables (Awaitables).  The inductive          *)
(* invariants stand in those modules.                                      *)
(***************************************************************************)
EXTENDS Proxy, Observable, AsyncBarrier, Awaitables, SequenceTheorems, FiniteSetTheorems, TLAPS

-----------------------------------------------------------------------------
(***************************************************************************)
(* The proxies of engine_enabled.                                          *)
(***************************************************************************)

(* Every overload of engine_enabled::proxy() starts the member in the thread
   that was asked for and brings the caller back to its own, wherever the
   member ends; a generator as long as its caller stays in one thread. *)
THEOREM ProxyKeepsThreadsHolds == ProxySpec => []ProxyKeepsThreads
<1>1. ProxyInit => ProxyInv
  <2>1. ProxyInit => moved \in BOOLEAN
    BY Zenon DEF ProxyInit
  <2>2. QED
    BY <2>1 DEF ProxyInit, ProxyInv, ProxyKeepsThreads, BodyInThread, CallerInThread
<1>2. ASSUME ProxyInv, [ProxyNext]_proxyVars
      PROVE  ProxyInv'
  <2>1. CASE EnterProxy
    BY <1>2, <2>1, ProxyAssumption
    DEF EnterProxy, MustMove, ProxyInv, SameCaller, ProxyKeepsThreads, BodyInThread, CallerInThread
  <2>2. CASE RunBody
    BY <1>2, <2>2
    DEF RunBody, ProxyInv, SameCaller, ProxyKeepsThreads, BodyInThread, CallerInThread
  <2>3. CASE LeaveProxy
    BY <1>2, <2>3, ProxyAssumption
    DEF LeaveProxy, Returns, ProxyInv, SameCaller, ProxyKeepsThreads, BodyInThread, CallerInThread
  <2>4. CASE CallerMoves
    BY <1>2, <2>4
    DEF CallerMoves, ProxyInv, SameCaller, ProxyKeepsThreads, BodyInThread, CallerInThread
  <2>5. CASE UNCHANGED proxyVars
    BY <1>2, <2>5
    DEF proxyVars, ProxyInv, SameCaller, ProxyKeepsThreads, BodyInThread, CallerInThread
  <2>6. QED
    BY <1>2, <2>1, <2>2, <2>3, <2>4, <2>5 DEF ProxyNext
<1>3. ProxyInv => ProxyKeepsThreads
  BY DEF ProxyInv
<1>4. QED
  BY <1>1, <1>2, <1>3, PTL DEF ProxySpec

-----------------------------------------------------------------------------
(***************************************************************************)
(* Sequences.                                                              *)
(***************************************************************************)

(* Appending to the second part of a concatenation. *)
LEMMA ConcatAppend ==
  ASSUME NEW S, NEW h \in Seq(S), NEW p \in Seq(S), NEW x \in S
  PROVE  h \o Append(p, x) = Append(h \o p, x)
<1>1. Append(p, x) = p \o <<x>> /\ h \o p \in Seq(S) /\ <<x>> \in Seq(S)
  BY AppendIsConcat, ConcatProperties
<1>2. Append(h \o p, x) = (h \o p) \o <<x>>
  BY <1>1, AppendIsConcat
<1>3. QED
  BY <1>1, <1>2, ConcatAssociative

(* Moving the head of the second part to the end of the first. *)
LEMMA ConcatTake ==
  ASSUME NEW S, NEW h \in Seq(S), NEW p \in Seq(S), p # << >>
  PROVE  /\ Head(p) \in S /\ Tail(p) \in Seq(S)
         /\ Append(h, Head(p)) \o Tail(p) = h \o p
<1>1. Head(p) \in S /\ Tail(p) \in Seq(S) /\ p = <<Head(p)>> \o Tail(p) /\ <<Head(p)>> \in Seq(S)
  <2>1. Head(p) \in S /\ Tail(p) \in Seq(S) /\ <<Head(p)>> \in Seq(S)
    OBVIOUS
  <2>2. p = <<Head(p)>> \o Tail(p)
    BY <2>1, HeadTailProperties
  <2>3. QED
    BY <2>1, <2>2
<1>2. Append(h, Head(p)) = h \o <<Head(p)>>
  BY <1>1, AppendIsConcat
<1>3. (h \o <<Head(p)>>) \o Tail(p) = h \o (<<Head(p)>> \o Tail(p))
  BY <1>1, ConcatAssociative
<1>4. QED
  BY <1>1, <1>2, <1>3

(* Removing the only occurrence of an element. *)
LEMMA RemoveAtFacts ==
  ASSUME NEW S, NEW s \in Seq(S), NEW k \in DOMAIN s,
         \A i, j \in DOMAIN s : s[i] = s[j] => i = j
  PROVE  LET r == RemoveAt(s, k) IN
         /\ r \in Seq(S)
         /\ \A i, j \in DOMAIN r : r[i] = r[j] => i = j
         /\ \A x : (\E i \in DOMAIN r : r[i] = x) <=> x # s[k] /\ (\E i \in DOMAIN s : s[i] = x)
<1> DEFINE a == SubSeq(s, 1, k - 1)
           b == SubSeq(s, k + 1, Len(s))
           r == RemoveAt(s, k)
<1>0. Len(s) \in Nat /\ k \in 1 .. Len(s) /\ DOMAIN s = 1 .. Len(s)
  OBVIOUS
<1>1. a \in Seq(S) /\ Len(a) = k - 1 /\ \A i \in 1 .. (k - 1) : a[i] = s[i]
  BY <1>0, SubSeqProperties
<1>2. b \in Seq(S) /\ Len(b) = Len(s) - k /\ \A i \in 1 .. (Len(s) - k) : b[i] = s[k + i]
  BY <1>0, SubSeqProperties
<1>3. r = a \o b
  BY DEF RemoveAt
<1> HIDE DEF a, b, r
<1>4. /\ r \in Seq(S) /\ Len(r) = Len(s) - 1 /\ DOMAIN r = 1 .. (Len(s) - 1)
      /\ \A i \in 1 .. (k - 1) : r[i] = s[i]
      /\ \A i \in k .. (Len(s) - 1) : r[i] = s[i + 1]
  <2>1. r \in Seq(S) /\ Len(r) = Len(s) - 1 /\ DOMAIN r = 1 .. (Len(s) - 1)
    <3>1. r \in Seq(S) /\ Len(r) = Len(a) + Len(b)
      BY <1>1, <1>2, <1>3, ConcatProperties
    <3>2. Len(r) = Len(s) - 1
      BY <1>0, <1>1, <1>2, <3>1
    <3>3. QED
      BY <3>1, <3>2
  <2>2. \A i \in 1 .. (k - 1) : r[i] = s[i]
    BY <1>0, <1>1, <1>2, <1>3
  <2>3. ASSUME NEW i \in k .. (Len(s) - 1)
        PROVE  r[i] = s[i + 1]
    <3>1. r[i] = b[i - (k - 1)]
      BY <1>0, <1>1, <1>2, <1>3
    <3>2. b[i - (k - 1)] = s[k + (i - (k - 1))]
      BY <1>0, <1>2
    <3>3. k + (i - (k - 1)) = i + 1
      BY <1>0
    <3>4. QED
      BY <3>1, <3>2, <3>3
  <2>4. QED
    BY <2>1, <2>2, <2>3
<1>5. ASSUME NEW i \in DOMAIN r
      PROVE  \E m \in DOMAIN s : m # k /\ r[i] = s[m] /\ (m = i \/ m = i + 1) /\ (i < k <=> m = i)
  <2>1. CASE i < k
    BY <1>0, <1>4, <2>1
  <2>2. CASE i >= k
    <3>1. i + 1 \in DOMAIN s /\ i + 1 # k /\ r[i] = s[i + 1] /\ i + 1 # i
      BY <1>0, <1>4, <2>2
    <3>2. QED
      BY <1>0, <1>4, <2>2, <3>1
  <2>3. QED
    BY <1>0, <1>4, <2>1, <2>2
<1>6. ASSUME NEW i \in DOMAIN r, NEW j \in DOMAIN r, r[i] = r[j]
      PROVE  i = j
  <2>1. PICK m \in DOMAIN s : m # k /\ r[i] = s[m] /\ (m = i \/ m = i + 1) /\ (i < k <=> m = i)
    BY <1>5
  <2>2. PICK n \in DOMAIN s : n # k /\ r[j] = s[n] /\ (n = j \/ n = j + 1) /\ (j < k <=> n = j)
    BY <1>5
  <2>3. m = n
    BY <1>6, <2>1, <2>2
  <2>4. QED
    BY <1>0, <1>4, <2>1, <2>2, <2>3
<1>7. ASSUME NEW m \in DOMAIN s, s[m] # s[k]
      PROVE  \E i \in DOMAIN r : r[i] = s[m]
  <2>1. CASE m < k
    BY <1>0, <1>4, <2>1
  <2>2. CASE m > k
    <3>1. m - 1 \in k .. (Len(s) - 1) /\ m - 1 \in DOMAIN r /\ (m - 1) + 1 = m
      BY <1>0, <1>4, <2>2
    <3>2. QED
      BY <1>4, <3>1
  <2>3. QED
    BY <1>0, <1>7, <2>1, <2>2
<1>8. ASSUME NEW x
      PROVE  (\E i \in DOMAIN r : r[i] = x) <=> x # s[k] /\ (\E i \in DOMAIN s : s[i] = x)
  <2>1. ASSUME NEW i \in DOMAIN r, r[i] = x
        PROVE  x # s[k] /\ (\E m \in DOMAIN s : s[m] = x)
    <3>1. PICK m \in DOMAIN s : m # k /\ r[i] = s[m]
      BY <1>5
    <3>2. QED
      BY <2>1, <3>1
  <2>2. QED
    BY <1>7, <2>1
<1>9. QED
  BY <1>4, <1>6, <1>8 DEF r

(* The head and the tail of a sequence without repetitions. *)
LEMMA InjectiveTail ==
  ASSUME NEW S, NEW s \in Seq(S), s # << >>, \A i, j \in DOMAIN s : s[i] = s[j] => i = j
  PROVE  /\ Head(s) = s[1] /\ 1 \in DOMAIN s /\ Head(s) \in S /\ Tail(s) \in Seq(S)
         /\ \A i \in DOMAIN Tail(s) : /\ i \in Nat /\ i + 1 \in DOMAIN s /\ i + 1 # 1
                                      /\ Tail(s)[i] = s[i + 1] /\ Tail(s)[i] # Head(s)
         /\ \A i \in DOMAIN s : i # 1 => i - 1 \in DOMAIN Tail(s) /\ (i - 1) + 1 = i
         /\ \A i, j \in DOMAIN Tail(s) : Tail(s)[i] = Tail(s)[j] => i = j
<1>1. /\ Head(s) = s[1] /\ 1 \in DOMAIN s /\ Head(s) \in S /\ Tail(s) \in Seq(S)
      /\ Len(s) \in Nat /\ DOMAIN s = 1 .. Len(s) /\ DOMAIN Tail(s) = 1 .. (Len(s) - 1)
      /\ \A i \in DOMAIN Tail(s) : Tail(s)[i] = s[i + 1]
  BY HeadTailProperties
<1>2. \A i \in DOMAIN Tail(s) : i \in Nat /\ i + 1 \in DOMAIN s /\ i + 1 # 1
  BY <1>1
<1>3. \A i \in DOMAIN Tail(s) : Tail(s)[i] # Head(s)
  BY <1>1, <1>2
<1>4. \A i \in DOMAIN s : i # 1 => i - 1 \in DOMAIN Tail(s) /\ (i - 1) + 1 = i
  BY <1>1
<1>5. ASSUME NEW i \in DOMAIN Tail(s), NEW j \in DOMAIN Tail(s), Tail(s)[i] = Tail(s)[j]
      PROVE  i = j
  <2>1. i + 1 = j + 1
    BY <1>1, <1>2, <1>5
  <2>2. QED
    BY <1>2, <2>1
<1>6. QED
  BY <1>1, <1>2, <1>3, <1>4, <1>5

(* What a sequence holds after an append. *)
LEMMA AppendFacts ==
  ASSUME NEW S, NEW s \in Seq(S), NEW x \in S
  PROVE  /\ Append(s, x) \in Seq(S)
         /\ Len(s) + 1 \in DOMAIN Append(s, x) /\ Append(s, x)[Len(s) + 1] = x
         /\ \A i \in DOMAIN s : i \in DOMAIN Append(s, x) /\ Append(s, x)[i] = s[i]
         /\ \A i \in DOMAIN Append(s, x) :
               i = Len(s) + 1 \/ (i \in DOMAIN s /\ Append(s, x)[i] = s[i])
<1>1. /\ Append(s, x) \in Seq(S) /\ Len(s) \in Nat /\ DOMAIN s = 1 .. Len(s)
      /\ DOMAIN Append(s, x) = 1 .. (Len(s) + 1)
      /\ Append(s, x)[Len(s) + 1] = x
      /\ \A i \in 1 .. Len(s) : Append(s, x)[i] = s[i]
  BY AppendProperties
<1>2. QED
  BY <1>1

(* A sequence without repetitions is as long as the set of its elements. *)
LEMMA InjectiveLength ==
  ASSUME NEW S, NEW s \in Seq(S), \A i, j \in DOMAIN s : s[i] = s[j] => i = j
  PROVE  IsFiniteSet(ToSet(s)) /\ Cardinality(ToSet(s)) = Len(s)
<1> DEFINE n == Len(s)
           T == ToSet(s)
<1>1. n \in Nat /\ DOMAIN s = 1 .. n /\ T = {s[i] : i \in 1 .. n}
  BY DEF ToSet
<1>2. s \in Bijection(1 .. n, T)
  <2>1. s \in [1 .. n -> T]
    BY <1>1
  <2>2. s \in Injection(1 .. n, T)
    BY <1>1, <2>1 DEF Injection, IsInjective
  <2>3. s \in Surjection(1 .. n, T)
    BY <1>1, <2>1 DEF Surjection
  <2>4. QED
    BY <2>2, <2>3 DEF Bijection
<1>3. IsFiniteSet(1 .. n) /\ Cardinality(1 .. n) = n
  BY <1>1, FS_Interval
<1> HIDE DEF n, T
<1>4. ExistsBijection(1 .. n, T)
  BY <1>2 DEF ExistsBijection
<1>5. QED
  BY <1>3, <1>4, FS_Bijection, FS_SameCardinalityBij DEF n, T

-----------------------------------------------------------------------------
(***************************************************************************)
(* The observable.                                                         *)
(***************************************************************************)

(* The loop of emit() that runs has an observer to reach. *)
LEMMA PostFacts ==
  ASSUME ObservableTypeOK, MutexInv, NEW e \in Emissions, PostResult(e)
  PROVE  /\ emitting[e] = "posting" /\ mutex = e /\ todo[e] \in Seq(Observers) /\ todo[e] # << >>
         /\ Head(todo[e]) \in Observers /\ obs[Head(todo[e])] \in Staying
         /\ Head(todo[e]) = todo[e][1] /\ 1 \in DOMAIN todo[e]
         /\ Tail(todo[e]) \in Seq(Observers)
         /\ DOMAIN Tail(todo[e]) = 1 .. (Len(todo[e]) - 1) /\ DOMAIN todo[e] = 1 .. Len(todo[e])
         /\ \A i \in DOMAIN Tail(todo[e]) : Tail(todo[e])[i] = todo[e][i + 1]
<1>1. /\ emitting[e] = "posting" /\ mutex = e /\ todo[e] \in Seq(Observers) /\ todo[e] # << >>
  BY DEF PostResult, ObservableTypeOK, MutexInv
<1>2. /\ Head(todo[e]) \in Observers /\ Head(todo[e]) = todo[e][1] /\ 1 \in DOMAIN todo[e]
      /\ Tail(todo[e]) \in Seq(Observers)
      /\ DOMAIN Tail(todo[e]) = 1 .. (Len(todo[e]) - 1) /\ DOMAIN todo[e] = 1 .. Len(todo[e])
      /\ \A i \in DOMAIN Tail(todo[e]) : Tail(todo[e])[i] = todo[e][i + 1]
  BY <1>1, HeadTailProperties
<1>3. obs[Head(todo[e])] \in Staying
  BY <1>2 DEF MutexInv
<1>4. QED
  BY <1>1, <1>2, <1>3

(* The observer that is erased is the one its disconnect() looks for. *)
LEMMA EraseFacts ==
  ASSUME ObservableTypeOK, MutexInv, NEW o \in Observers, Erase(o)
  PROVE  /\ members' \in Seq(Observers)
         /\ \A i, j \in DOMAIN members' : members'[i] = members'[j] => i = j
         /\ \A x : (\E i \in DOMAIN members' : members'[i] = x)
                      <=> x # o /\ (\E i \in DOMAIN members : members[i] = x)
<1>1. obs[o] \in Staying /\ members' = RemoveAt(members, Position(o))
  BY DEF Erase, Staying
<1>2. \E i \in DOMAIN members : members[i] = o
  BY <1>1 DEF MutexInv
<1>3. Position(o) \in DOMAIN members /\ members[Position(o)] = o
  BY <1>2 DEF Position
<1>4. members \in Seq(Observers) /\ \A i, j \in DOMAIN members : members[i] = members[j] => i = j
  BY DEF ObservableTypeOK, MutexInv
<1>5. /\ RemoveAt(members, Position(o)) \in Seq(Observers)
      /\ \A i, j \in DOMAIN RemoveAt(members, Position(o)) :
            RemoveAt(members, Position(o))[i] = RemoveAt(members, Position(o))[j] => i = j
      /\ \A x : (\E i \in DOMAIN RemoveAt(members, Position(o)) :
                       RemoveAt(members, Position(o))[i] = x)
                   <=> x # members[Position(o)] /\ (\E i \in DOMAIN members : members[i] = x)
  BY <1>3, <1>4, RemoveAtFacts, Zenon
<1>6. QED
  BY <1>1, <1>3, <1>5

(* Every step keeps the types. *)
LEMMA ObservableTypeStep ==
  ASSUME ObservableTypeOK, MutexInv, OwedOnceInv, [ObservableNext]_observableVars
  PROVE  ObservableTypeOK'
<1>1. ASSUME NEW e \in Emissions, Emit(e)
      PROVE  ObservableTypeOK'
  <2>1. Len(members) + 1 \in Int
    BY DEF ObservableTypeOK
  <2>2. QED
    BY <1>1, <2>1 DEF Emit, LatchCount, observerVars, ObservableTypeOK
<1>2. ASSUME NEW e \in Emissions, PostResult(e)
      PROVE  ObservableTypeOK'
  <2> DEFINE o == Head(todo[e])
  <2>1. o \in Observers /\ Tail(todo[e]) \in Seq(Observers) /\ obs[o] \in Staying
    BY <1>2, PostFacts
  <2>2. /\ pending' = [pending EXCEPT ![o] = Append(pending[o], e)]
        /\ obs' = [obs EXCEPT ![o] = Woken(obs[o])]
        /\ addressed' = [addressed EXCEPT ![o] = Append(addressed[o], e)]
        /\ todo' = [todo EXCEPT ![e] = Tail(todo[e])]
        /\ abandoned' = [abandoned EXCEPT ![o] = Woken(abandoned[o])]
        /\ UNCHANGED <<members, reading, crashed, heard, latch>>
        /\ \/ emitting' = [emitting EXCEPT ![e] = "arriving"] /\ mutex' = Free
           \/ UNCHANGED <<emitting, mutex>>
    BY <1>2, <2>1 DEF PostResult, Enqueue, ObservableTypeOK
  <2> HIDE DEF o
  <2>a. abandoned' \in [Observers -> {"no", "suspended", "posted"}]
    BY <2>1, <2>2 DEF Woken, ObservableTypeOK
  <2>3. pending' \in [Observers -> Seq(Emissions)] /\ addressed' \in [Observers -> Seq(Emissions)]
    BY <2>1, <2>2 DEF ObservableTypeOK
  <2>4. Woken(obs[o]) \in Staying
    BY <2>1 DEF Woken, Staying
  <2>5. obs' \in [Observers -> Staying \cup {"out", "dying", "released", "gone"}]
    BY <2>1, <2>2, <2>4 DEF ObservableTypeOK
  <2>6. QED
    BY <2>1, <2>2, <2>3, <2>5, <2>a DEF ObservableTypeOK
<1>3. ASSUME NEW e \in Emissions, EmitArrive(e) \/ EmitReturn(e)
      PROVE  ObservableTypeOK'
  <2>1. UNCHANGED <<mutex, members, observerVars, todo>>
    BY <1>3 DEF EmitArrive, EmitReturn
  <2>2. emitting' \in [Emissions -> {"idle", "posting", "arriving", "waiting", "over"}]
    BY <1>3 DEF EmitArrive, EmitReturn, ObservableTypeOK
  <2>3. latch' \in [Emissions -> Int]
    BY <1>3 DEF EmitArrive, EmitReturn, ObservableTypeOK
  <2>4. QED
    BY <2>1, <2>2, <2>3 DEF observerVars, ObservableTypeOK
<1>4. ASSUME NEW o \in Observers, Connect(o)
      PROVE  ObservableTypeOK'
  BY <1>4 DEF Connect, emitVars, ObservableTypeOK, Staying
<1>5. ASSUME NEW o \in Observers, Take(o)
      PROVE  ObservableTypeOK'
  <2>1. pending[o] \in Seq(Emissions) /\ pending[o] # << >> /\ heard[o] \in Seq(Emissions)
    BY <1>5 DEF Take, ObservableTypeOK
  <2>2. Head(pending[o]) \in Emissions /\ Tail(pending[o]) \in Seq(Emissions)
    BY <2>1
  <2>3. Append(heard[o], Head(pending[o])) \in Seq(Emissions)
    BY <2>1, <2>2
  <2>4. QED
    BY <1>5, <2>2, <2>3 DEF Take, emitVars, ObservableTypeOK, Staying
<1>6. ASSUME NEW o \in Observers, SuspendObserver(o) \/ Disconnect(o)
      PROVE  ObservableTypeOK'
  BY <1>6 DEF SuspendObserver, Disconnect, emitVars, ObservableTypeOK, Staying
<1>7. ASSUME NEW o \in Observers, DropGuard(o)
      PROVE  ObservableTypeOK'
  <2>1. latch' \in [Emissions -> Int]
    <3>1. reading[o] \in Emissions
      BY <1>7 DEF DropGuard, OwedOnceInv, ObservableTypeOK
    <3>2. QED
      BY <1>7, <3>1 DEF DropGuard, ObservableTypeOK
  <2>2. /\ reading' \in [Observers -> Emissions \cup {Free}]
        /\ obs' \in [Observers -> Staying \cup {"out", "dying", "released", "gone"}]
    BY <1>7 DEF DropGuard, ObservableTypeOK, Staying
  <2>3. UNCHANGED <<mutex, members, pending, abandoned, crashed, addressed, heard, emitting, todo>>
    BY <1>7 DEF DropGuard
  <2>4. QED
    BY <2>1, <2>2, <2>3 DEF ObservableTypeOK
<1>8. ASSUME NEW o \in Observers, Erase(o)
      PROVE  ObservableTypeOK'
  <2>1. members' \in Seq(Observers)
    BY <1>8, EraseFacts
  <2>2. QED
    BY <1>8, <2>1 DEF Erase, emitVars, ObservableTypeOK
<1>9. ASSUME NEW o \in Observers, ReleasePending(o)
      PROVE  ObservableTypeOK'
  <2>1. Head(pending[o]) \in Emissions
    BY <1>9 DEF ReleasePending, ObservableTypeOK
  <2>2. latch' \in [Emissions -> Int]
    BY <1>9, <2>1 DEF ReleasePending, ObservableTypeOK
  <2>3. obs' \in [Observers -> Staying \cup {"out", "dying", "released", "gone"}]
    BY <1>9 DEF ReleasePending, ObservableTypeOK
  <2>4. UNCHANGED <<mutex, members, pending, reading, abandoned, crashed, addressed, heard,
                    emitting, todo>>
    BY <1>9 DEF ReleasePending
  <2>5. QED
    BY <2>2, <2>3, <2>4 DEF ObservableTypeOK
<1>10. ASSUME NEW o \in Observers, ReadLink(o)
       PROVE  ObservableTypeOK'
  <2>1. pending[o] \in Seq(Emissions) /\ pending[o] # << >>
    BY <1>10 DEF ReadLink, ObservableTypeOK, OwedOnceInv
  <2>2. Tail(pending[o]) \in Seq(Emissions)
    BY <2>1
  <2>3. QED
    BY <1>10, <2>2 DEF ReadLink, emitVars, ObservableTypeOK
<1>11. ASSUME NEW o \in Observers, Gone(o)
       PROVE  ObservableTypeOK'
  BY <1>11 DEF Gone, emitVars, ObservableTypeOK
<1>12. ASSUME NEW o \in Observers, ResumeAbandoned(o)
       PROVE  ObservableTypeOK'
  BY <1>12 DEF ResumeAbandoned, emitVars, ObservableTypeOK
<1>13. CASE UNCHANGED observableVars
  BY <1>13 DEF observableVars, observerVars, emitVars, ObservableTypeOK
<1>14. QED
  BY <1>1, <1>2, <1>3, <1>4, <1>5, <1>6, <1>7, <1>8, <1>9, <1>10, <1>11, <1>12, <1>13
  DEF ObservableNext, EmitStep, ObserveStep, LeaveStep, TakeReady, ResumeObserver

(* A connected observer moves on, and everybody else stays as they are. *)
LEMMA MutexObserverMoves ==
  ASSUME ObservableTypeOK, MutexInv, NEW o \in Observers, obs[o] \in Staying,
         \A p \in Observers \ {o} : obs'[p] = obs[p], obs'[o] \in Staying,
         UNCHANGED <<mutex, members, emitting, todo>>
  PROVE  MutexInv'
<1>1. \A p \in Observers : /\ obs'[p] \in Staying <=> obs[p] \in Staying
                           /\ obs'[p] \in {"dying", "released"} => obs[p] \in {"dying", "released"}
  BY DEF Staying
<1>2. \A e \in Emissions : \A i \in DOMAIN todo[e] : todo[e][i] \in Observers
  BY DEF ObservableTypeOK
<1>3. \A e \in Emissions : \A i \in DOMAIN todo[e] : obs'[todo[e][i]] \in Staying
  BY <1>1, <1>2 DEF MutexInv
<1>4. QED
  BY <1>1, <1>3 DEF MutexInv

(* Every step keeps the mutex and what it protects right. *)
LEMMA MutexStep ==
  ASSUME ObservableTypeOK, MutexInv, OwedOnceInv, [ObservableNext]_observableVars
  PROVE  MutexInv'
<1>1. ASSUME NEW e \in Emissions, Emit(e)
      PROVE  MutexInv'
  <2>1. CASE members = << >>
    <3>1. /\ UNCHANGED <<mutex, members, todo, obs>> /\ emitting[e] = "idle"
          /\ emitting'[e] = "over" /\ \A f \in Emissions \ {e} : emitting'[f] = emitting[f]
      BY <1>1, <2>1 DEF Emit, observerVars, ObservableTypeOK
    <3>2. \A f \in Emissions : emitting'[f] = "posting" <=> emitting[f] = "posting"
      BY <3>1
    <3>3. QED
      BY <3>1, <3>2 DEF MutexInv
  <2>2. CASE members # << >>
    <3>1. /\ UNCHANGED <<members, obs>> /\ mutex = Free /\ mutex' = e
          /\ emitting'[e] = "posting" /\ \A f \in Emissions \ {e} : emitting'[f] = emitting[f]
          /\ todo'[e] = members /\ \A f \in Emissions \ {e} : todo'[f] = todo[f]
      BY <1>1, <2>2 DEF Emit, observerVars, ObservableTypeOK
    <3>2. \A f \in Emissions : emitting[f] # "posting" /\ todo[f] = << >>
      BY <3>1, ObservableAssumption DEF MutexInv
    <3>3. \A i \in DOMAIN members : members[i] \in Observers /\ obs[members[i]] \in Staying
      BY DEF MutexInv, ObservableTypeOK
    <3>4. \A o \in Observers : obs[o] \notin {"dying", "released"}
      BY <3>1, ObservableAssumption DEF MutexInv
    <3>5. \A f \in Emissions : (emitting'[f] = "posting" <=> mutex' = f)
                               /\ (emitting'[f] = "posting" <=> todo'[f] # << >>)
      BY <2>2, <3>1, <3>2
    <3>6. \A f \in Emissions : \A i \in DOMAIN todo'[f] : obs'[todo'[f][i]] \in Staying
      BY <3>1, <3>2, <3>3
    <3>7. \A f \in Emissions : \A i, j \in DOMAIN todo'[f] : todo'[f][i] = todo'[f][j] => i = j
      BY <3>1, <3>2 DEF MutexInv
    <3>8. QED
      BY <3>1, <3>4, <3>5, <3>6, <3>7 DEF MutexInv
  <2>3. QED
    BY <2>1, <2>2
<1>2. ASSUME NEW e \in Emissions, PostResult(e)
      PROVE  MutexInv'
  <2> DEFINE o == Head(todo[e])
             rest == Tail(todo[e])
  <2>1. /\ emitting[e] = "posting" /\ mutex = e
        /\ o \in Observers /\ obs[o] \in Staying /\ rest \in Seq(Observers)
        /\ DOMAIN rest = 1 .. (Len(todo[e]) - 1) /\ DOMAIN todo[e] = 1 .. Len(todo[e])
        /\ Len(todo[e]) \in Nat
        /\ \A i \in DOMAIN rest : rest[i] = todo[e][i + 1]
    BY <1>2, PostFacts
  <2>2. /\ obs' = [obs EXCEPT ![o] = Woken(obs[o])]
        /\ todo' = [todo EXCEPT ![e] = rest]
        /\ members' = members
        /\ \/ /\ Len(todo[e]) = 1 /\ emitting' = [emitting EXCEPT ![e] = "arriving"]
              /\ mutex' = Free
           \/ Len(todo[e]) # 1 /\ UNCHANGED <<emitting, mutex>>
    BY <1>2, <2>1 DEF PostResult, ObservableTypeOK
  <2> HIDE DEF o, rest
  <2>3. \A p \in Observers : obs'[p] \in Staying <=> obs[p] \in Staying
    BY <2>1, <2>2 DEF Woken, Staying, ObservableTypeOK
  <2>4. \A p \in Observers : obs'[p] \notin {"dying", "released"}
    <3>1. \A p \in Observers : obs[p] \notin {"dying", "released"}
      BY <2>1, ObservableAssumption DEF MutexInv
    <3>2. QED
      BY <2>1, <2>2, <3>1 DEF Woken, ObservableTypeOK
  <2>5. todo'[e] = rest /\ \A f \in Emissions \ {e} : todo'[f] = todo[f] /\ todo[f] = << >>
                                                      /\ emitting[f] # "posting"
    BY <2>1, <2>2 DEF MutexInv, ObservableTypeOK
  <2>6. rest = << >> <=> Len(todo[e]) = 1
    <3>1. todo[e] \in Seq(Observers) /\ todo[e] # << >>
      BY <1>2, PostFacts
    <3>2. Len(rest) = Len(todo[e]) - 1
      BY <3>1, HeadTailProperties DEF rest
    <3>3. rest = << >> <=> Len(rest) = 0
      BY <2>1, EmptySeq
    <3>4. QED
      BY <2>1, <3>2, <3>3
  <2>7. \A f \in Emissions : (emitting'[f] = "posting" <=> mutex' = f)
                             /\ (emitting'[f] = "posting" <=> todo'[f] # << >>)
    <3>1. emitting \in [Emissions -> {"idle", "posting", "arriving", "waiting", "over"}]
      BY DEF ObservableTypeOK
    <3>2. QED
      BY <2>1, <2>2, <2>5, <2>6, <3>1, ObservableAssumption
  <2>8. \A i \in DOMAIN rest : i + 1 \in DOMAIN todo[e] /\ rest[i] \in Observers
    BY <2>1
  <2>9. \A f \in Emissions : \A i \in DOMAIN todo'[f] : obs'[todo'[f][i]] \in Staying
    <3>1. \A i \in DOMAIN rest : obs[rest[i]] \in Staying
      BY <2>1, <2>8 DEF MutexInv
    <3>2. \A i \in DOMAIN rest : obs'[rest[i]] \in Staying
      BY <2>3, <2>8, <3>1
    <3>3. QED
      BY <2>5, <3>2
  <2>10. \A f \in Emissions : \A i, j \in DOMAIN todo'[f] : todo'[f][i] = todo'[f][j] => i = j
    <3>1. ASSUME NEW i \in DOMAIN rest, NEW j \in DOMAIN rest, rest[i] = rest[j]
          PROVE  i = j
      <4>1. i + 1 = j + 1
        BY <2>1, <2>8, <3>1 DEF MutexInv
      <4>2. QED
        BY <2>1, <4>1
    <3>2. QED
      BY <2>5, <3>1
  <2>11. QED
    BY <2>2, <2>3, <2>4, <2>7, <2>9, <2>10 DEF MutexInv
<1>3. ASSUME NEW e \in Emissions, EmitArrive(e) \/ EmitReturn(e)
      PROVE  MutexInv'
  <2>1. UNCHANGED <<mutex, members, obs, todo>>
    BY <1>3 DEF EmitArrive, EmitReturn, observerVars
  <2>2. \A f \in Emissions : emitting'[f] = "posting" <=> emitting[f] = "posting"
    BY <1>3 DEF EmitArrive, EmitReturn, ObservableTypeOK
  <2>3. QED
    BY <2>1, <2>2 DEF MutexInv
<1>4. ASSUME NEW o \in Observers, Connect(o)
      PROVE  MutexInv'
  <2>1. /\ obs[o] = "out" /\ mutex = Free /\ UNCHANGED <<mutex, emitting, todo>>
        /\ obs'[o] = "running" /\ \A p \in Observers \ {o} : obs'[p] = obs[p]
        /\ members' = Append(members, o) /\ members \in Seq(Observers)
    BY <1>4 DEF Connect, emitVars, ObservableTypeOK
  <2>2. /\ DOMAIN members = 1 .. Len(members) /\ DOMAIN members' = 1 .. (Len(members) + 1)
        /\ members'[Len(members) + 1] = o /\ Len(members) \in Nat
        /\ \A i \in DOMAIN members : members'[i] = members[i]
    BY <2>1
  <2>3. \A i \in DOMAIN members : members[i] # o /\ members[i] \in Observers
    <3>1. ~\E i \in DOMAIN members : members[i] = o
      BY <2>1 DEF MutexInv, Staying
    <3>2. QED
      BY <2>1, <3>1
  <2>4. \A i, j \in DOMAIN members' : members'[i] = members'[j] => i = j
    <3>1. \A i \in DOMAIN members' : i \in DOMAIN members \/ i = Len(members) + 1
      BY <2>2
    <3>2. QED
      BY <2>2, <2>3, <3>1 DEF MutexInv
  <2>5. \A p \in Observers : obs'[p] \in Staying <=> \E i \in DOMAIN members' : members'[i] = p
    <3>1. ASSUME NEW p \in Observers \ {o}
          PROVE  (\E i \in DOMAIN members' : members'[i] = p)
                    <=> (\E i \in DOMAIN members : members[i] = p)
      BY <2>2
    <3>2. \E i \in DOMAIN members' : members'[i] = o
      BY <2>2
    <3>3. QED
      BY <2>1, <3>1, <3>2 DEF MutexInv, Staying
  <2>6. \A f \in Emissions : todo[f] = << >> /\ emitting[f] # "posting"
    BY <2>1, ObservableAssumption DEF MutexInv
  <2>7. QED
    BY <2>1, <2>4, <2>5, <2>6 DEF MutexInv
<1>5. ASSUME NEW o \in Observers, obs[o] \in {"running", "posted"}, Take(o)
      PROVE  MutexInv'
  <2>1. obs[o] \in Staying /\ obs'[o] \in Staying /\ \A p \in Observers \ {o} : obs'[p] = obs[p]
    BY <1>5 DEF Take, ObservableTypeOK, Staying
  <2>2. UNCHANGED <<mutex, members, emitting, todo>>
    BY <1>5 DEF Take, emitVars
  <2>3. QED
    BY <2>1, <2>2, MutexObserverMoves
<1>6. ASSUME NEW o \in Observers, SuspendObserver(o) \/ Disconnect(o) \/ DropGuard(o)
      PROVE  MutexInv'
  <2>1. UNCHANGED <<mutex, members, emitting, todo>>
    BY <1>6 DEF SuspendObserver, Disconnect, DropGuard, emitVars
  <2>2. CASE obs' = obs
    BY <2>1, <2>2 DEF MutexInv
  <2>3. CASE obs' # obs
    <3>1. /\ obs[o] \in Staying /\ obs'[o] \in Staying
          /\ \A p \in Observers \ {o} : obs'[p] = obs[p]
      BY <1>6, <2>3 DEF SuspendObserver, Disconnect, DropGuard, ObservableTypeOK, Staying
    <3>2. QED
      BY <2>1, <3>1, MutexObserverMoves
  <2>4. QED
    BY <2>2, <2>3
<1>7. ASSUME NEW o \in Observers, Erase(o)
      PROVE  MutexInv'
  <2>1. /\ mutex = Free /\ mutex' = o /\ UNCHANGED <<emitting, todo>>
        /\ obs'[o] = "dying" /\ \A p \in Observers \ {o} : obs'[p] = obs[p]
    BY <1>7 DEF Erase, emitVars, ObservableTypeOK
  <2>2. /\ \A i, j \in DOMAIN members' : members'[i] = members'[j] => i = j
        /\ \A x : (\E i \in DOMAIN members' : members'[i] = x)
                     <=> x # o /\ (\E i \in DOMAIN members : members[i] = x)
    BY <1>7, EraseFacts
  <2>3. \A f \in Emissions : todo[f] = << >> /\ emitting[f] # "posting" /\ f # o
    BY <2>1, ObservableAssumption DEF MutexInv
  <2>4. \A p \in Observers : obs[p] \notin {"dying", "released"}
    BY <2>1, ObservableAssumption DEF MutexInv
  <2>5. \A p \in Observers : obs'[p] \in Staying <=> \E i \in DOMAIN members' : members'[i] = p
    BY <2>1, <2>2 DEF MutexInv, Staying
  <2>6. \A p \in Observers : obs'[p] \in {"dying", "released"} => mutex' = p
    BY <2>1, <2>4
  <2>7. QED
    BY <2>1, <2>2, <2>3, <2>5, <2>6 DEF MutexInv
<1>8. ASSUME NEW o \in Observers, ReleasePending(o) \/ ReadLink(o)
      PROVE  MutexInv'
  <2>1. /\ obs[o] \in {"dying", "released"} /\ obs'[o] \in {"dying", "released"}
        /\ \A p \in Observers \ {o} : obs'[p] = obs[p]
        /\ UNCHANGED <<mutex, members, emitting, todo>>
    BY <1>8 DEF ReleasePending, ReadLink, emitVars, ObservableTypeOK
  <2>2. mutex = o /\ \A f \in Emissions : todo[f] = << >>
    BY <2>1, ObservableAssumption DEF MutexInv
  <2>3. QED
    BY <2>1, <2>2 DEF MutexInv, Staying
<1>9. ASSUME NEW o \in Observers, Gone(o)
      PROVE  MutexInv'
  <2>1. /\ obs[o] = "dying" /\ obs'[o] = "gone" /\ mutex' = Free
        /\ \A p \in Observers \ {o} : obs'[p] = obs[p]
        /\ UNCHANGED <<members, emitting, todo>>
    BY <1>9 DEF Gone, emitVars, ObservableTypeOK
  <2>2. mutex = o /\ \A f \in Emissions : todo[f] = << >> /\ emitting[f] # "posting" /\ f # Free
    BY <2>1, ObservableAssumption DEF MutexInv
  <2>3. \A p \in Observers \ {o} : obs[p] \notin {"dying", "released"}
    BY <2>2 DEF MutexInv
  <2>4. QED
    BY <2>1, <2>2, <2>3 DEF MutexInv, Staying
<1>10. CASE UNCHANGED observableVars \/ \E o \in Observers : ResumeAbandoned(o)
  BY <1>10 DEF ResumeAbandoned, observableVars, observerVars, emitVars, MutexInv
<1>11. QED
  BY <1>1, <1>2, <1>3, <1>4, <1>5, <1>6, <1>7, <1>8, <1>9, <1>10
  DEF ObservableNext, EmitStep, ObserveStep, LeaveStep, TakeReady, ResumeObserver

(* An observer that neither takes nor is given a result. *)
LEMMA OwedOthers ==
  ASSUME OwedOnceInv, UNCHANGED <<pending, reading, todo>>,
         \A p \in Observers : /\ obs'[p] \in Unguarded => obs[p] \in Unguarded
                              /\ obs'[p] = "reading" => obs[p] = "reading"
                              /\ obs'[p] = "released" => pending[p] # << >>,
         \A f \in Emissions : emitting[f] # "idle" => emitting'[f] # "idle",
         ObservableTypeOK
  PROVE  OwedOnceInv'
<1>1. \A p \in Observers : \A i \in DOMAIN pending[p] : pending[p][i] \in Emissions
  BY DEF ObservableTypeOK
<1>2. QED
  BY <1>1 DEF OwedOnceInv, InTodo

(* Every step keeps it that nobody owes a result twice. *)
LEMMA OwedStep ==
  ASSUME ObservableTypeOK, MutexInv, OwedOnceInv, LatchCountInv, [ObservableNext]_observableVars
  PROVE  OwedOnceInv'
<1>0. \A p \in Observers : /\ pending[p] \in Seq(Emissions)
                           /\ \A i \in DOMAIN pending[p] : pending[p][i] \in Emissions
  BY DEF ObservableTypeOK
<1>1. ASSUME NEW e \in Emissions, Emit(e)
      PROVE  OwedOnceInv'
  <2>1. /\ UNCHANGED <<pending, obs, reading>> /\ emitting[e] = "idle"
        /\ \A f \in Emissions : emitting[f] # "idle" => emitting'[f] # "idle"
        /\ \A f \in Emissions \ {e} : todo'[f] = todo[f]
    BY <1>1 DEF Emit, observerVars, ObservableTypeOK
  <2>2. \A o \in Observers : reading[o] # e /\ \A i \in DOMAIN pending[o] : pending[o][i] # e
    <3>1. \A o \in Observers : reading[o] # e
      BY <2>1 DEF LatchCountInv, Owes
    <3>2. QED
      BY <2>1, <3>1 DEF OwedOnceInv
  <2>3. \A o \in Observers, f \in Emissions : InTodo(o, f)' =>
           reading[o] # f /\ \A i \in DOMAIN pending[o] : pending[o][i] # f
    BY <2>1, <2>2 DEF OwedOnceInv, InTodo
  <2>4. QED
    BY <1>0, <2>1, <2>3 DEF OwedOnceInv
<1>2. ASSUME NEW e \in Emissions, PostResult(e)
      PROVE  OwedOnceInv'
  <2> DEFINE o == Head(todo[e])
             rest == Tail(todo[e])
  <2>1. /\ o \in Observers /\ obs[o] \in Staying /\ InTodo(o, e)
        /\ mutex = e /\ emitting[e] = "posting"
    BY <1>2, PostFacts DEF InTodo
  <2>2. /\ pending' = [pending EXCEPT ![o] = Append(pending[o], e)]
        /\ obs' = [obs EXCEPT ![o] = Woken(obs[o])]
        /\ todo' = [todo EXCEPT ![e] = rest]
        /\ reading' = reading
        /\ \/ emitting' = [emitting EXCEPT ![e] = "arriving"]
           \/ emitting' = emitting
    BY <1>2, <2>1 DEF PostResult, Enqueue, ObservableTypeOK
  <2>3. \A p \in Observers, f \in Emissions : InTodo(p, f)' => f = e /\ p # o /\ InTodo(p, e)
    <3>0. /\ \A f \in Emissions \ {e} : todo[f] = << >> /\ todo'[f] = todo[f]
          /\ todo'[e] = rest
      BY <2>1, <2>2 DEF MutexInv, ObservableTypeOK
    <3>1. /\ todo[e] \in Seq(Observers) /\ todo[e] # << >>
          /\ \A i, j \in DOMAIN todo[e] : todo[e][i] = todo[e][j] => i = j
      BY <1>2, PostFacts DEF MutexInv
    <3>2. \A i \in DOMAIN rest : i + 1 \in DOMAIN todo[e] /\ rest[i] = todo[e][i + 1] /\ rest[i] # o
      BY <3>1, InjectiveTail
    <3> HIDE DEF o, rest
    <3>3. ASSUME NEW p \in Observers, NEW f \in Emissions, InTodo(p, f)'
          PROVE  f = e /\ p # o /\ InTodo(p, e)
      <4>1. PICK i \in DOMAIN todo'[f] : todo'[f][i] = p
        BY <3>3 DEF InTodo
      <4>2. f = e
        BY <3>0, <4>1
      <4>3. QED
        BY <3>0, <3>2, <4>1, <4>2 DEF InTodo
    <3>4. QED
      BY <3>3
  <2> HIDE DEF o, rest
  <2>4. \A p \in Observers \ {o} : pending'[p] = pending[p] /\ obs'[p] = obs[p]
    BY <2>2 DEF ObservableTypeOK
  <2>5. /\ pending'[o] = Append(pending[o], e) /\ obs'[o] \in Staying
        /\ obs'[o] = "reading" => obs[o] = "reading"
        /\ obs'[o] \in Unguarded => obs[o] \in Unguarded
    BY <2>1, <2>2 DEF ObservableTypeOK, Woken, Staying, Unguarded
  <2>6. \A f \in Emissions : emitting[f] # "idle" => emitting'[f] # "idle"
    BY <2>2 DEF ObservableTypeOK
  <2>7. reading[o] # e /\ \A i \in DOMAIN pending[o] : pending[o][i] # e
    BY <2>1 DEF OwedOnceInv
  <2>8. /\ \A i \in DOMAIN pending[o] : i \in DOMAIN pending'[o] /\ pending'[o][i] = pending[o][i]
        /\ pending'[o][Len(pending[o]) + 1] = e
        /\ \A i \in DOMAIN pending'[o] :
              i = Len(pending[o]) + 1 \/ (i \in DOMAIN pending[o] /\ pending'[o][i] = pending[o][i])
    BY <1>0, <2>1, <2>5, AppendFacts
  <2>9. \A i, j \in DOMAIN pending'[o] : pending'[o][i] = pending'[o][j] => i = j
    BY <2>1, <2>7, <2>8 DEF OwedOnceInv
  <2>10. \A i \in DOMAIN pending'[o] : reading[o] # pending'[o][i] /\ emitting'[pending'[o][i]] # "idle"
    <3>1. emitting'[e] # "idle"
      BY <2>1, <2>6
    <3>2. QED
      BY <1>0, <2>1, <2>6, <2>7, <2>8, <3>1 DEF OwedOnceInv
  <2>11. ASSUME NEW p \in Observers
         PROVE  /\ obs'[p] \in Unguarded => reading'[p] = Free
                /\ obs'[p] = "reading" => reading'[p] # Free
                /\ obs'[p] = "released" => pending'[p] # << >>
                /\ \A i, j \in DOMAIN pending'[p] : pending'[p][i] = pending'[p][j] => i = j
                /\ \A i \in DOMAIN pending'[p] : /\ reading'[p] # pending'[p][i]
                                                 /\ emitting'[pending'[p][i]] # "idle"
                /\ \A f \in Emissions : InTodo(p, f)' =>
                      reading'[p] # f /\ \A i \in DOMAIN pending'[p] : pending'[p][i] # f
    <3>1. CASE p = o
      BY <2>1, <2>2, <2>3, <2>5, <2>9, <2>10, <3>1 DEF OwedOnceInv, Staying
    <3>2. CASE p # o
      BY <1>0, <2>1, <2>2, <2>3, <2>4, <2>6, <3>2 DEF OwedOnceInv
    <3>3. QED
      BY <3>1, <3>2
  <2>12. QED
    BY <2>11 DEF OwedOnceInv
<1>3. ASSUME NEW e \in Emissions, EmitArrive(e) \/ EmitReturn(e)
      PROVE  OwedOnceInv'
  <2>1. UNCHANGED <<pending, reading, todo, obs>>
    BY <1>3 DEF EmitArrive, EmitReturn, observerVars
  <2>2. \A f \in Emissions : emitting[f] # "idle" => emitting'[f] # "idle"
    BY <1>3 DEF EmitArrive, EmitReturn, ObservableTypeOK
  <2>3. \A p \in Observers : obs[p] = "released" => pending[p] # << >>
    BY DEF OwedOnceInv
  <2>4. QED
    BY <2>1, <2>2, <2>3, OwedOthers
<1>4. ASSUME NEW o \in Observers,
             Connect(o) \/ SuspendObserver(o) \/ Disconnect(o) \/ Erase(o) \/ ReleasePending(o) \/ Gone(o)
      PROVE  OwedOnceInv'
  <2>1. UNCHANGED <<pending, reading, todo, emitting>>
    BY <1>4 DEF Connect, SuspendObserver, Disconnect, Erase, ReleasePending, Gone, emitVars
  <2>2. /\ obs'[o] # "reading" /\ \A p \in Observers \ {o} : obs'[p] = obs[p]
        /\ obs'[o] \in Unguarded => obs[o] \in Unguarded
        /\ obs'[o] = "released" => pending[o] # << >>
    BY <1>4 DEF Connect, SuspendObserver, Disconnect, Erase, ReleasePending, Gone, ObservableTypeOK,
                Unguarded
  <2>3. \A p \in Observers : obs[p] = "released" => pending[p] # << >>
    BY DEF OwedOnceInv
  <2>4. QED
    BY <2>1, <2>2, <2>3, OwedOthers
<1>5. ASSUME NEW o \in Observers, Take(o) \/ ReadLink(o)
      PROVE  OwedOnceInv'
  <2>1. /\ pending[o] # << >> /\ pending'[o] = Tail(pending[o])
        /\ \A p \in Observers \ {o} : /\ pending'[p] = pending[p] /\ obs'[p] = obs[p]
                                      /\ reading'[p] = reading[p]
        /\ UNCHANGED <<todo, emitting>>
    BY <1>5 DEF Take, ReadLink, emitVars, ObservableTypeOK, OwedOnceInv
  <2>2. \/ obs'[o] = "reading" /\ reading'[o] = Head(pending[o])
        \/ obs[o] = "released" /\ obs'[o] = "dying" /\ reading'[o] = reading[o]
    BY <1>5 DEF Take, ReadLink, emitVars, ObservableTypeOK
  <2>3. /\ Head(pending[o]) = pending[o][1] /\ 1 \in DOMAIN pending[o]
        /\ \A i \in DOMAIN Tail(pending[o]) :
              /\ i + 1 \in DOMAIN pending[o] /\ Tail(pending[o])[i] = pending[o][i + 1]
              /\ Tail(pending[o])[i] # Head(pending[o])
        /\ \A i, j \in DOMAIN Tail(pending[o]) : Tail(pending[o])[i] = Tail(pending[o])[j] => i = j
    BY <1>0, <2>1, InjectiveTail DEF OwedOnceInv
  <2>4. /\ Head(pending[o]) \in Emissions /\ Head(pending[o]) # Free
    BY <1>0, <2>3, ObservableAssumption
  <2>5. obs'[o] \notin Unguarded /\ (obs'[o] = "reading" => reading'[o] # Free)
    BY <2>2, <2>4 DEF Unguarded
  <2>6. \A i \in DOMAIN pending'[o] : reading'[o] # pending'[o][i] /\ emitting'[pending'[o][i]] # "idle"
    BY <2>1, <2>2, <2>3 DEF OwedOnceInv
  <2>7. \A f \in Emissions : InTodo(o, f)' =>
           reading'[o] # f /\ \A i \in DOMAIN pending'[o] : pending'[o][i] # f
    BY <2>1, <2>2, <2>3 DEF OwedOnceInv, InTodo
  <2>8. ASSUME NEW p \in Observers \ {o}
        PROVE  /\ obs'[p] \in Unguarded => reading'[p] = Free
               /\ obs'[p] = "reading" => reading'[p] # Free
               /\ obs'[p] = "released" => pending'[p] # << >>
               /\ \A i, j \in DOMAIN pending'[p] : pending'[p][i] = pending'[p][j] => i = j
               /\ \A i \in DOMAIN pending'[p] : /\ reading'[p] # pending'[p][i]
                                                /\ emitting'[pending'[p][i]] # "idle"
               /\ \A f \in Emissions : InTodo(p, f)' =>
                     reading'[p] # f /\ \A i \in DOMAIN pending'[p] : pending'[p][i] # f
    BY <2>1 DEF OwedOnceInv, InTodo
  <2>9. obs'[o] # "released"
    BY <2>2
  <2>10. \A i, j \in DOMAIN pending'[o] : pending'[o][i] = pending'[o][j] => i = j
    BY <2>1, <2>3
  <2>11. QED
    BY <2>5, <2>6, <2>7, <2>8, <2>9, <2>10 DEF OwedOnceInv
<1>6. ASSUME NEW o \in Observers, DropGuard(o)
      PROVE  OwedOnceInv'
  <2>1. /\ UNCHANGED <<pending, todo, emitting>>
        /\ reading'[o] = Free /\ obs'[o] # "reading"
        /\ obs'[o] = "released" => obs[o] = "released"
        /\ \A p \in Observers \ {o} : obs'[p] = obs[p] /\ reading'[p] = reading[p]
    BY <1>6 DEF DropGuard, ObservableTypeOK
  <2>2. \A p \in Observers, f \in Emissions : InTodo(p, f)' <=> InTodo(p, f)
    BY <2>1 DEF InTodo
  <2>3. Free \notin Emissions
    BY ObservableAssumption
  <2>4. QED
    BY <1>0, <2>1, <2>2, <2>3 DEF OwedOnceInv
<1>7. CASE UNCHANGED observableVars \/ \E o \in Observers : ResumeAbandoned(o)
  BY <1>7 DEF ResumeAbandoned, observableVars, observerVars, emitVars, OwedOnceInv, InTodo
<1>8. QED
  BY <1>1, <1>2, <1>3, <1>4, <1>5, <1>6, <1>7
  DEF ObservableNext, EmitStep, ObserveStep, LeaveStep, TakeReady, ResumeObserver

(* Every step keeps the order of what an observer hears. *)
LEMMA HeardStep ==
  ASSUME ObservableTypeOK, MutexInv, OwedOnceInv, HeardInOrder, [ObservableNext]_observableVars
  PROVE  HeardInOrder'
<1>0. \A p \in Observers : /\ pending[p] \in Seq(Emissions) /\ heard[p] \in Seq(Emissions)
                           /\ addressed[p] \in Seq(Emissions)
  BY DEF ObservableTypeOK
<1>1. ASSUME NEW e \in Emissions, Emit(e) \/ EmitArrive(e) \/ EmitReturn(e)
      PROVE  HeardInOrder'
  BY <1>1 DEF Emit, EmitArrive, EmitReturn, observerVars, HeardInOrder
<1>2. ASSUME NEW e \in Emissions, PostResult(e)
      PROVE  HeardInOrder'
  <2> DEFINE o == Head(todo[e])
  <2>1. o \in Observers /\ obs[o] \in Staying
    BY <1>2, PostFacts
  <2>2. /\ pending' = [pending EXCEPT ![o] = Append(pending[o], e)]
        /\ obs' = [obs EXCEPT ![o] = Woken(obs[o])]
        /\ addressed' = [addressed EXCEPT ![o] = Append(addressed[o], e)]
        /\ heard' = heard
    BY <1>2, <2>1 DEF PostResult, Enqueue, ObservableTypeOK
  <2> HIDE DEF o
  <2>3. /\ pending'[o] = Append(pending[o], e) /\ addressed'[o] = Append(addressed[o], e)
        /\ obs'[o] # "suspended"
        /\ \A p \in Observers \ {o} : /\ pending'[p] = pending[p] /\ obs'[p] = obs[p]
                                      /\ addressed'[p] = addressed[p]
    BY <2>1, <2>2 DEF ObservableTypeOK, Woken
  <2>4. heard[o] \o pending[o] = addressed[o]
    BY <2>1 DEF HeardInOrder, Staying
  <2>5. heard[o] \o pending'[o] = addressed'[o]
    <3>1. heard[o] \o Append(pending[o], e) = Append(heard[o] \o pending[o], e)
      <4>1. heard[o] \in Seq(Emissions) /\ pending[o] \in Seq(Emissions)
        BY <1>0, <2>1
      <4>2. \A h, p \in Seq(Emissions) : h \o Append(p, e) = Append(h \o p, e)
        BY ConcatAppend
      <4>3. QED
        BY <4>1, <4>2, Zenon
    <3>2. QED
      BY <2>3, <2>4, <3>1
  <2>6. QED
    BY <2>2, <2>3, <2>5 DEF HeardInOrder
<1>3. ASSUME NEW o \in Observers, Connect(o) \/ SuspendObserver(o) \/ Disconnect(o) \/ DropGuard(o)
      PROVE  HeardInOrder'
  <2>1. UNCHANGED <<pending, addressed, heard>>
    BY <1>3 DEF Connect, SuspendObserver, Disconnect, DropGuard
  <2>2. /\ \A p \in Observers \ {o} : obs'[p] = obs[p]
        /\ obs[o] \notin {"dying", "released", "gone"} \/ obs'[o] = obs[o]
        /\ obs'[o] = "suspended" => pending[o] = << >>
    BY <1>3 DEF Connect, SuspendObserver, Disconnect, DropGuard, ObservableTypeOK, HeardInOrder
  <2>3. QED
    BY <2>1, <2>2 DEF HeardInOrder
<1>4. ASSUME NEW o \in Observers, obs[o] \in {"running", "posted"}, Take(o)
      PROVE  HeardInOrder'
  <2>1. /\ pending[o] # << >> /\ pending'[o] = Tail(pending[o])
        /\ heard'[o] = Append(heard[o], Head(pending[o])) /\ obs'[o] = "reading"
        /\ addressed' = addressed
        /\ \A p \in Observers \ {o} : /\ pending'[p] = pending[p] /\ obs'[p] = obs[p]
                                      /\ heard'[p] = heard[p]
    BY <1>4 DEF Take, ObservableTypeOK
  <2>2. heard'[o] \o pending'[o] = heard[o] \o pending[o]
    <3>1. Append(heard[o], Head(pending[o])) \o Tail(pending[o]) = heard[o] \o pending[o]
      <4>1. heard[o] \in Seq(Emissions) /\ pending[o] \in Seq(Emissions)
        BY <1>0
      <4>2. \A h, p \in Seq(Emissions) :
               p # << >> => Append(h, Head(p)) \o Tail(p) = h \o p
        BY ConcatTake
      <4>3. QED
        BY <2>1, <4>1, <4>2, Zenon
    <3>2. QED
      BY <2>1, <3>1
  <2>3. heard[o] \o pending[o] = addressed[o]
    BY <1>4 DEF HeardInOrder
  <2>4. QED
    BY <2>1, <2>2, <2>3 DEF HeardInOrder
<1>5. ASSUME NEW o \in Observers, LeaveStep(o)
      PROVE  HeardInOrder'
  <2>1. /\ obs'[o] \in {"dying", "released", "gone"}
        /\ \A p \in Observers \ {o} : obs'[p] = obs[p] /\ pending'[p] = pending[p]
        /\ UNCHANGED <<addressed, heard>>
    BY <1>5 DEF LeaveStep, Erase, ReleasePending, ReadLink, Gone, ObservableTypeOK
  <2>2. QED
    BY <2>1 DEF HeardInOrder
<1>6. CASE UNCHANGED observableVars \/ \E o \in Observers : ResumeAbandoned(o)
  BY <1>6 DEF ResumeAbandoned, observableVars, observerVars, HeardInOrder
<1>7. QED
  BY <1>1, <1>2, <1>3, <1>4, <1>5, <1>6
  DEF ObservableNext, EmitStep, ObserveStep, TakeReady, ResumeObserver

(* Who owes the release of a result is finitely many. *)
LEMMA OwesFinite ==
  ASSUME NEW e \in Emissions
  PROVE  IsFiniteSet(Owes(e)) /\ Cardinality(Owes(e)) \in Nat
<1>1. Owes(e) \subseteq Observers
  BY DEF Owes
<1>2. IsFiniteSet(Owes(e))
  BY <1>1, ObservableAssumption, FS_Subset
<1>3. QED
  BY <1>2, FS_CardinalityType

(* A step that changes neither who owes what nor a count. *)
LEMMA CountSame ==
  ASSUME LatchCountInv, \A f \in Emissions : Owes(f)' = Owes(f), latch' = latch,
         \A f \in Emissions : emitting'[f] = emitting[f] \/ (emitting[f] = "posting" /\ emitting'[f] = "arriving")
  PROVE  LatchCountInv'
<1>1. ASSUME NEW f \in Emissions
      PROVE  IF emitting'[f] \in {"idle", "over"} THEN Owes(f)' = {}
             ELSE latch'[f] = Cardinality(Owes(f)')
                              + IF emitting'[f] \in {"posting", "arriving"} THEN 1 ELSE 0
  <2>1. IF emitting[f] \in {"idle", "over"} THEN Owes(f) = {}
        ELSE latch[f] = Cardinality(Owes(f))
                        + IF emitting[f] \in {"posting", "arriving"} THEN 1 ELSE 0
    BY DEF LatchCountInv
  <2>2. emitting'[f] \in {"idle", "over"} <=> emitting[f] \in {"idle", "over"}
    OBVIOUS
  <2>3. emitting'[f] \in {"posting", "arriving"} <=> emitting[f] \in {"posting", "arriving"}
    OBVIOUS
  <2>4. QED
    BY <2>1, <2>2, <2>3
<1>2. QED
  BY <1>1 DEF LatchCountInv

(* A step in which an observer releases a result. *)
LEMMA CountRelease ==
  ASSUME ObservableTypeOK, LatchCountInv, NEW e \in Emissions, NEW o \in Owes(e),
         Owes(e)' = Owes(e) \ {o}, \A f \in Emissions \ {e} : Owes(f)' = Owes(f),
         latch' = [latch EXCEPT ![e] = @ - 1], emitting' = emitting
  PROVE  LatchCountInv'
<1>1. Cardinality(Owes(e)') = Cardinality(Owes(e)) - 1 /\ Cardinality(Owes(e)) \in Nat
  BY OwesFinite, FS_RemoveElement
<1>2. latch'[e] = latch[e] - 1 /\ \A f \in Emissions \ {e} : latch'[f] = latch[f]
  BY DEF ObservableTypeOK
<1>3. emitting[e] \notin {"idle", "over"}
  BY DEF LatchCountInv
<1>4. latch[e] = Cardinality(Owes(e)) + IF emitting[e] \in {"posting", "arriving"} THEN 1 ELSE 0
  BY <1>3 DEF LatchCountInv
<1>5. latch'[e] = Cardinality(Owes(e)') + IF emitting[e] \in {"posting", "arriving"} THEN 1 ELSE 0
  BY <1>1, <1>2, <1>4
<1>6. ASSUME NEW f \in Emissions \ {e}
      PROVE  IF emitting'[f] \in {"idle", "over"} THEN Owes(f)' = {}
             ELSE latch'[f] = Cardinality(Owes(f)')
                              + IF emitting'[f] \in {"posting", "arriving"} THEN 1 ELSE 0
  <2>1. Owes(f)' = Owes(f) /\ latch'[f] = latch[f] /\ emitting'[f] = emitting[f]
    BY <1>2
  <2>2. QED
    BY <2>1 DEF LatchCountInv
<1>7. QED
  BY <1>3, <1>5, <1>6 DEF LatchCountInv

(* Every step keeps the counts of the latches. *)
LEMMA LatchCountStep ==
  ASSUME ObservableTypeOK, MutexInv, OwedOnceInv, LatchCountInv, [ObservableNext]_observableVars
  PROVE  LatchCountInv'
<1>0. \A p \in Observers : /\ pending[p] \in Seq(Emissions)
                           /\ \A i \in DOMAIN pending[p] : pending[p][i] \in Emissions
  BY DEF ObservableTypeOK
<1>1. ASSUME NEW e \in Emissions, Emit(e)
      PROVE  LatchCountInv'
  <2>1. /\ UNCHANGED <<pending, obs, reading, members>> /\ emitting[e] = "idle"
        /\ \A f \in Emissions \ {e} : /\ todo'[f] = todo[f] /\ latch'[f] = latch[f]
                                      /\ emitting'[f] = emitting[f]
    BY <1>1 DEF Emit, observerVars, ObservableTypeOK
  <2>2. Owes(e) = {} /\ \A f \in Emissions \ {e} : Owes(f)' = Owes(f)
    <3>1. \A f \in Emissions \ {e} : Owes(f)' = Owes(f)
      BY <2>1 DEF Owes, InPending, InTodo
    <3>2. QED
      BY <2>1, <3>1 DEF LatchCountInv
  <2>3. CASE members = << >>
    <3>1. emitting'[e] = "over" /\ todo' = todo
      BY <1>1, <2>3 DEF Emit, ObservableTypeOK
    <3>2. Owes(e)' = Owes(e)
      BY <2>1, <3>1 DEF Owes, InPending, InTodo
    <3>3. QED
      BY <2>1, <2>2, <3>1, <3>2 DEF LatchCountInv
  <2>4. CASE members # << >>
    <3>1. emitting'[e] = "posting" /\ todo'[e] = members /\ latch'[e] = Len(members) + 1
      BY <1>1, <2>4 DEF Emit, LatchCount, ObservableTypeOK
    <3>2. Owes(e)' = ToSet(members)
      <4>1. \A o \in Observers : reading[o] # e /\ ~InPending(o, e)
        BY <2>2 DEF Owes
      <4>2. \A o \in Observers : InPending(o, e)' <=> InPending(o, e)
        BY <2>1 DEF InPending
      <4>3. \A o \in Observers : o \in Owes(e)' <=> \E i \in DOMAIN members : members[i] = o
        BY <2>1, <3>1, <4>1, <4>2 DEF Owes, InTodo
      <4>4. \A i \in DOMAIN members : members[i] \in Observers
        BY DEF ObservableTypeOK
      <4>5. Owes(e)' \subseteq Observers
        BY DEF Owes
      <4>6. QED
        BY <4>3, <4>4, <4>5 DEF ToSet
    <3>3. Cardinality(ToSet(members)) = Len(members)
      BY InjectiveLength DEF ObservableTypeOK, MutexInv
    <3>4. QED
      BY <2>1, <2>2, <3>1, <3>2, <3>3 DEF LatchCountInv
  <2>5. QED
    BY <2>3, <2>4
<1>2. ASSUME NEW e \in Emissions, PostResult(e)
      PROVE  LatchCountInv'
  <2> DEFINE o == Head(todo[e])
             rest == Tail(todo[e])
  <2>1. o \in Observers /\ obs[o] \in Staying /\ emitting[e] = "posting"
    BY <1>2, PostFacts
  <2>2. /\ pending' = [pending EXCEPT ![o] = Append(pending[o], e)]
        /\ obs' = [obs EXCEPT ![o] = Woken(obs[o])]
        /\ todo' = [todo EXCEPT ![e] = rest]
        /\ UNCHANGED <<reading, latch>>
        /\ emitting' = emitting \/ emitting' = [emitting EXCEPT ![e] = "arriving"]
    BY <1>2, <2>1 DEF PostResult, Enqueue, ObservableTypeOK
  <2>3. \A p \in Observers : InTodo(p, e) <=> p = o \/ InTodo(p, e)'
    <3>1. todo[e] \in Seq(Observers) /\ todo[e] # << >> /\ todo'[e] = rest
          /\ \A i, j \in DOMAIN todo[e] : todo[e][i] = todo[e][j] => i = j
      BY <1>2, <2>2, PostFacts DEF MutexInv, ObservableTypeOK
    <3>2. /\ o = todo[e][1] /\ 1 \in DOMAIN todo[e]
          /\ \A i \in DOMAIN rest : i + 1 \in DOMAIN todo[e] /\ rest[i] = todo[e][i + 1]
          /\ \A i \in DOMAIN todo[e] : i # 1 => i - 1 \in DOMAIN rest /\ (i - 1) + 1 = i
      BY <3>1, InjectiveTail
    <3> HIDE DEF o, rest
    <3>3. ASSUME NEW p \in Observers, InTodo(p, e)
          PROVE  p = o \/ InTodo(p, e)'
      <4>1. PICK i \in DOMAIN todo[e] : todo[e][i] = p
        BY <3>3 DEF InTodo
      <4>2. CASE i # 1
        <5>1. i - 1 \in DOMAIN rest /\ rest[i - 1] = p
          BY <3>2, <4>1, <4>2
        <5>2. QED
          BY <3>1, <5>1 DEF InTodo
      <4>3. QED
        BY <3>2, <4>1, <4>2
    <3>4. \A p \in Observers : InTodo(p, e)' => InTodo(p, e)
      BY <3>1, <3>2 DEF InTodo
    <3>5. InTodo(o, e)
      BY <3>2 DEF InTodo
    <3>6. QED
      BY <3>3, <3>4, <3>5
  <2> HIDE DEF o, rest
  <2>4. \A p \in Observers, f \in Emissions \ {e} : InTodo(p, f)' <=> InTodo(p, f)
    BY <2>2 DEF InTodo, ObservableTypeOK
  <2>5. /\ pending'[o] = Append(pending[o], e) /\ obs'[o] # "released" /\ obs[o] # "released"
        /\ \A p \in Observers \ {o} : pending'[p] = pending[p] /\ obs'[p] = obs[p]
    BY <2>1, <2>2 DEF ObservableTypeOK, Woken, Staying
  <2>6. \A p \in Observers, f \in Emissions : InPending(p, f)' <=> InPending(p, f) \/ (p = o /\ f = e)
    <3>1. /\ Len(pending[o]) + 1 \in DOMAIN pending'[o] /\ pending'[o][Len(pending[o]) + 1] = e
          /\ \A i \in DOMAIN pending[o] : i \in DOMAIN pending'[o] /\ pending'[o][i] = pending[o][i]
          /\ \A i \in DOMAIN pending'[o] :
                i = Len(pending[o]) + 1 \/ (i \in DOMAIN pending[o] /\ pending'[o][i] = pending[o][i])
      BY <1>0, <2>1, <2>5, AppendFacts
    <3>2. \A p \in Observers, f \in Emissions :
             p = o => (InPending(p, f)' <=> InPending(p, f) \/ f = e)
      BY <2>5, <3>1 DEF InPending
    <3>3. \A p \in Observers \ {o}, f \in Emissions : InPending(p, f)' <=> InPending(p, f)
      BY <2>5 DEF InPending
    <3>4. QED
      BY <2>1, <3>2, <3>3
  <2>7. \A f \in Emissions : Owes(f)' = Owes(f)
    BY <2>2, <2>3, <2>4, <2>6 DEF Owes
  <2>8. \A f \in Emissions :
           emitting'[f] = emitting[f] \/ (emitting[f] = "posting" /\ emitting'[f] = "arriving")
    BY <2>1, <2>2 DEF ObservableTypeOK
  <2>9. QED
    BY <2>2, <2>7, <2>8, CountSame
<1>3. ASSUME NEW e \in Emissions, EmitArrive(e) \/ EmitReturn(e)
      PROVE  LatchCountInv'
  <2>1. /\ UNCHANGED <<pending, reading, todo, obs>>
        /\ \A f \in Emissions \ {e} : latch'[f] = latch[f] /\ emitting'[f] = emitting[f]
    BY <1>3 DEF EmitArrive, EmitReturn, observerVars, ObservableTypeOK
  <2>2. \A f \in Emissions : Owes(f)' = Owes(f)
    BY <2>1 DEF Owes, InPending, InTodo
  <2>3. Cardinality(Owes(e)) \in Nat /\ IsFiniteSet(Owes(e))
    BY OwesFinite
  <2>4. CASE EmitArrive(e)
    <3>1. /\ emitting[e] = "arriving" /\ emitting'[e] = "waiting" /\ latch'[e] = latch[e] - 1
      BY <2>4 DEF EmitArrive, ObservableTypeOK
    <3>2. latch[e] = Cardinality(Owes(e)) + 1
      BY <3>1 DEF LatchCountInv
    <3>3. latch'[e] = Cardinality(Owes(e)) + 0
      BY <2>3, <3>1, <3>2
    <3>4. QED
      BY <2>1, <2>2, <3>1, <3>3 DEF LatchCountInv
  <2>5. CASE EmitReturn(e)
    <3>1. emitting[e] = "waiting" /\ latch[e] <= 0 /\ emitting'[e] = "over"
      BY <2>5 DEF EmitReturn, ObservableTypeOK
    <3>2. latch[e] = Cardinality(Owes(e)) + 0
      BY <3>1 DEF LatchCountInv
    <3>3. Owes(e) = {}
      <4>1. Cardinality(Owes(e)) = 0
        BY <2>3, <3>1, <3>2
      <4>2. QED
        BY <2>3, <4>1, FS_EmptySet
    <3>4. QED
      BY <2>1, <2>2, <3>1, <3>3 DEF LatchCountInv
  <2>6. QED
    BY <1>3, <2>4, <2>5
<1>4. ASSUME NEW o \in Observers,
             Connect(o) \/ SuspendObserver(o) \/ Disconnect(o) \/ Erase(o) \/ Gone(o)
      PROVE  LatchCountInv'
  <2>1. UNCHANGED <<pending, reading, todo, emitting, latch>>
    BY <1>4 DEF Connect, SuspendObserver, Disconnect, Erase, Gone, emitVars
  <2>2. \A p \in Observers : obs'[p] = "released" <=> obs[p] = "released"
    BY <1>4 DEF Connect, SuspendObserver, Disconnect, Erase, Gone, ObservableTypeOK
  <2>3. \A f \in Emissions : Owes(f)' = Owes(f)
    BY <2>1, <2>2 DEF Owes, InPending, InTodo
  <2>4. QED
    BY <2>1, <2>3, CountSame
<1>5. ASSUME NEW o \in Observers, (obs[o] \in {"running", "posted"} /\ Take(o)) \/ ReadLink(o)
      PROVE  LatchCountInv'
  <2>1. /\ pending[o] # << >> /\ pending'[o] = Tail(pending[o])
        /\ \A p \in Observers \ {o} : /\ pending'[p] = pending[p] /\ obs'[p] = obs[p]
                                      /\ reading'[p] = reading[p]
        /\ UNCHANGED <<todo, emitting, latch>>
    BY <1>5 DEF Take, ReadLink, emitVars, ObservableTypeOK, OwedOnceInv
  <2>2. \/ /\ obs[o] \in {"running", "posted"} /\ obs'[o] = "reading"
           /\ reading'[o] = Head(pending[o])
        \/ obs[o] = "released" /\ obs'[o] = "dying" /\ reading'[o] = reading[o]
    BY <1>5 DEF Take, ReadLink, emitVars, ObservableTypeOK
  <2>3. /\ Head(pending[o]) = pending[o][1] /\ 1 \in DOMAIN pending[o]
        /\ \A i \in DOMAIN Tail(pending[o]) :
              /\ i + 1 \in DOMAIN pending[o] /\ i + 1 # 1
              /\ Tail(pending[o])[i] = pending[o][i + 1]
        /\ \A i \in DOMAIN pending[o] : i # 1 => i - 1 \in DOMAIN Tail(pending[o]) /\ (i - 1) + 1 = i
    BY <1>0, <2>1, InjectiveTail DEF OwedOnceInv
  <2>4. obs[o] # "released" => reading[o] = Free
    BY <2>2 DEF OwedOnceInv, Unguarded
  <2>5. \A f \in Emissions : InPending(o, f)' <=> \E i \in DOMAIN pending[o] : i # 1 /\ pending[o][i] = f
    <3>1. ASSUME NEW f \in Emissions, InPending(o, f)'
          PROVE  \E i \in DOMAIN pending[o] : i # 1 /\ pending[o][i] = f
      BY <2>1, <2>3, <3>1 DEF InPending
    <3>2. ASSUME NEW f \in Emissions, NEW i \in DOMAIN pending[o], i # 1, pending[o][i] = f
          PROVE  InPending(o, f)'
      <4>1. i - 1 \in DOMAIN Tail(pending[o]) /\ Tail(pending[o])[i - 1] = f
        BY <2>3, <3>2
      <4>2. obs'[o] # "released"
        BY <2>2
      <4>3. QED
        BY <2>1, <4>1, <4>2 DEF InPending
    <3>3. QED
      BY <3>1, <3>2
  <2>6. \A f \in Emissions : reading'[o] = f \/ InPending(o, f)' <=> reading[o] = f \/ InPending(o, f)
    <3>1. CASE obs[o] = "released"
      <4>1. \A f \in Emissions : InPending(o, f) <=> \E i \in DOMAIN pending[o] : i # 1 /\ pending[o][i] = f
        BY <3>1 DEF InPending
      <4>2. QED
        BY <2>2, <2>5, <3>1, <4>1
    <3>2. CASE obs[o] # "released"
      <4>1. \A f \in Emissions : InPending(o, f) <=> \E i \in DOMAIN pending[o] : pending[o][i] = f
        BY <3>2 DEF InPending
      <4>2. reading'[o] = pending[o][1]
        BY <2>2, <2>3, <3>2
      <4>3. \A f \in Emissions : reading[o] # f
        BY <2>4, <3>2, ObservableAssumption
      <4>4. QED
        BY <2>3, <2>5, <4>1, <4>2, <4>3
    <3>3. QED
      BY <3>1, <3>2
  <2>7. \A p \in Observers \ {o}, f \in Emissions : InPending(p, f)' <=> InPending(p, f)
    BY <2>1 DEF InPending
  <2>8. \A p \in Observers, f \in Emissions : InTodo(p, f)' <=> InTodo(p, f)
    BY <2>1 DEF InTodo
  <2>9. \A f \in Emissions : Owes(f)' = Owes(f)
    BY <2>1, <2>6, <2>7, <2>8 DEF Owes
  <2>10. QED
    BY <2>1, <2>9, CountSame
<1>6. ASSUME NEW o \in Observers, DropGuard(o)
      PROVE  LatchCountInv'
  <2>0. PICK e \in Emissions : e = reading[o]
    BY <1>6 DEF DropGuard, OwedOnceInv, ObservableTypeOK
  <2>1. reading[o] = e
    BY <2>0
  <2>2. /\ UNCHANGED <<pending, todo, emitting>> /\ latch' = [latch EXCEPT ![e] = @ - 1]
        /\ reading'[o] = Free /\ (obs'[o] = "released" <=> obs[o] = "released")
        /\ \A p \in Observers \ {o} : obs'[p] = obs[p] /\ reading'[p] = reading[p]
    BY <1>6, <2>0 DEF DropGuard, ObservableTypeOK
  <2>3. \A p \in Observers, f \in Emissions : /\ InTodo(p, f)' <=> InTodo(p, f)
                                              /\ InPending(p, f)' <=> InPending(p, f)
    BY <2>1, <2>2 DEF InTodo, InPending
  <2>4. ~InTodo(o, e) /\ ~InPending(o, e)
    BY <2>1 DEF OwedOnceInv, InPending
  <2>5. Owes(e)' = Owes(e) \ {o} /\ o \in Owes(e)
    BY <2>1, <2>2, <2>3, <2>4, ObservableAssumption DEF Owes
  <2>6. \A f \in Emissions \ {e} : Owes(f)' = Owes(f)
    BY <2>1, <2>2, <2>3, ObservableAssumption DEF Owes
  <2>7. QED
    BY <2>1, <2>2, <2>5, <2>6, CountRelease
<1>7. ASSUME NEW o \in Observers, ReleasePending(o)
      PROVE  LatchCountInv'
  <2>0. PICK e \in Emissions : e = Head(pending[o]) /\ e = pending[o][1] /\ 1 \in DOMAIN pending[o]
    <3>1. pending[o] # << >>
      BY <1>7 DEF ReleasePending
    <3>2. QED
      BY <1>0, <3>1, InjectiveTail DEF OwedOnceInv
  <2>1. /\ obs[o] = "dying" /\ pending[o] # << >> /\ obs'[o] = "released"
        /\ latch' = [latch EXCEPT ![e] = @ - 1]
        /\ UNCHANGED <<pending, reading, todo, emitting>>
        /\ \A p \in Observers \ {o} : obs'[p] = obs[p]
    BY <1>7, <2>0 DEF ReleasePending, ObservableTypeOK
  <2>2. e = pending[o][1] /\ 1 \in DOMAIN pending[o]
    BY <2>0
  <2>3. \A p \in Observers \ {o}, f \in Emissions : InPending(p, f)' <=> InPending(p, f)
    BY <2>1 DEF InPending
  <2>4. \A f \in Emissions \ {e} : InPending(o, f)' <=> InPending(o, f)
    BY <2>1, <2>2 DEF InPending
  <2>5. InPending(o, e) /\ ~InPending(o, e)'
    BY <2>1, <2>2 DEF InPending, OwedOnceInv
  <2>6. reading[o] # e /\ ~InTodo(o, e)
    BY <2>2 DEF OwedOnceInv
  <2>7. \A p \in Observers, f \in Emissions : InTodo(p, f)' <=> InTodo(p, f)
    BY <2>1 DEF InTodo
  <2>8. Owes(e)' = Owes(e) \ {o} /\ o \in Owes(e)
    BY <2>1, <2>2, <2>3, <2>5, <2>6, <2>7 DEF Owes
  <2>9. \A f \in Emissions \ {e} : Owes(f)' = Owes(f)
    BY <2>1, <2>3, <2>4, <2>7 DEF Owes
  <2>10. QED
    BY <2>1, <2>2, <2>8, <2>9, CountRelease
<1>8. CASE UNCHANGED observableVars \/ \E o \in Observers : ResumeAbandoned(o)
  <2>1. UNCHANGED <<pending, reading, todo, obs, emitting, latch>>
    BY <1>8 DEF ResumeAbandoned, observableVars, observerVars, emitVars
  <2>2. \A f \in Emissions : Owes(f)' = Owes(f)
    BY <2>1 DEF Owes, InPending, InTodo
  <2>3. QED
    BY <2>1, <2>2, CountSame
<1>9. QED
  BY <1>1, <1>2, <1>3, <1>4, <1>5, <1>6, <1>7, <1>8
  DEF ObservableNext, EmitStep, ObserveStep, LeaveStep, TakeReady, ResumeObserver

(* The invariant of the observable. *)
LEMMA ObservableInvariant == ObservableSpec => []ObservableInv
<1>1. ObservableInit => ObservableInv
  <2>1. SUFFICES ASSUME ObservableInit
                 PROVE  ObservableInv
    OBVIOUS
  <2>2. ObservableTypeOK
    <3>1. crashed \in BOOLEAN
      BY <2>1, Zenon DEF ObservableInit
    <3>2. QED
      BY <2>1, <3>1 DEF ObservableInit, ObservableTypeOK, Staying
  <2>3. MutexInv
    BY <2>1, ObservableAssumption DEF ObservableInit, MutexInv, Staying
  <2>4. OwedOnceInv
    BY <2>1 DEF ObservableInit, OwedOnceInv, InTodo
  <2>5. HeardInOrder
    BY <2>1 DEF ObservableInit, HeardInOrder
  <2>6. LatchCountInv
    BY <2>1, ObservableAssumption DEF ObservableInit, LatchCountInv, Owes, InPending, InTodo
  <2>7. QED
    BY <2>2, <2>3, <2>4, <2>5, <2>6 DEF ObservableInv
<1>2. ObservableInv /\ [ObservableNext]_observableVars => ObservableInv'
  BY ObservableTypeStep, MutexStep, OwedStep, HeardStep, LatchCountStep DEF ObservableInv
<1>3. QED
  BY <1>1, <1>2, PTL DEF ObservableSpec

(* An observer takes the emissions it was addressed by in order, each once,
   and never sleeps on one: the lists of pending_result that emit() appends
   to and await_resume() takes from, for any number of observers. *)
THEOREM HeardInOrderHolds == ObservableSpec => []HeardInOrder
<1>1. ObservableInv => HeardInOrder
  BY DEF ObservableInv
<1>2. QED
  BY <1>1, ObservableInvariant, PTL

(* An emit() returns, and its results are gone, only when no guard and no
   list refers to them, the link that a departing observer has still to read
   excepted: the latch counts exactly the references that are left. *)
THEOREM ResultsLiveHolds == ObservableSpec => []ResultsLive
<1>1. ASSUME ObservableInv
      PROVE  ResultsLive
  <2>1. SUFFICES ASSUME NEW o \in Observers
                 PROVE  /\ reading[o] # Free => emitting[reading[o]] # "over"
                        /\ \A i \in 1 .. Len(pending[o]) :
                              emitting[pending[o][i]] = "over" => i = 1 /\ obs[o] = "released"
    BY DEF ResultsLive
  <2>2. \A e \in Emissions : emitting[e] = "over" => o \notin Owes(e)
    BY <1>1 DEF ObservableInv, LatchCountInv
  <2>3. /\ reading[o] \in Emissions \cup {Free} /\ pending[o] \in Seq(Emissions)
        /\ \A i \in 1 .. Len(pending[o]) : pending[o][i] \in Emissions /\ i \in DOMAIN pending[o]
    BY <1>1 DEF ObservableInv, ObservableTypeOK
  <2>4. reading[o] # Free => emitting[reading[o]] # "over"
    BY <2>2, <2>3 DEF Owes
  <2>5. ASSUME NEW i \in 1 .. Len(pending[o]), emitting[pending[o][i]] = "over"
        PROVE  i = 1 /\ obs[o] = "released"
    BY <2>2, <2>3, <2>5 DEF Owes, InPending
  <2>6. QED
    BY <2>4, <2>5
<1>2. QED
  BY <1>1, ObservableInvariant, PTL

-----------------------------------------------------------------------------
(***************************************************************************)
(* The lists of the barrier.                                               *)
(***************************************************************************)

(* A list without repetition stays one when a new element is put in front. *)
LEMMA PushFacts ==
  ASSUME NEW S, NEW s \in Seq(S), NEW x \in S, IsInjective(s), x \notin ToSet(s)
  PROVE  /\ <<x>> \o s \in Seq(S) /\ Len(<<x>> \o s) = Len(s) + 1
         /\ IsInjective(<<x>> \o s)
         /\ ToSet(<<x>> \o s) = ToSet(s) \cup {x}
<1> DEFINE t == <<x>> \o s
<1>1. /\ Len(s) \in Nat /\ DOMAIN s = 1 .. Len(s) /\ t \in Seq(S) /\ Len(t) = Len(s) + 1
      /\ DOMAIN t = 1 .. (Len(s) + 1) /\ t[1] = x
  OBVIOUS
<1>2. \A i \in DOMAIN t : i # 1 => i - 1 \in DOMAIN s /\ t[i] = s[i - 1]
  OBVIOUS
<1>3. \A i \in DOMAIN s : i + 1 \in DOMAIN t /\ t[i + 1] = s[i]
  OBVIOUS
<1>4. \A i \in DOMAIN s : s[i] # x
  BY DEF ToSet
<1> HIDE DEF t
<1>5. IsInjective(t)
  <2> SUFFICES ASSUME NEW i \in DOMAIN t, NEW j \in DOMAIN t, t[i] = t[j]
               PROVE  i = j
    BY DEF IsInjective
  <2>1. CASE i = 1 \/ j = 1
    BY <1>1, <1>2, <1>4, <2>1
  <2>2. CASE i # 1 /\ j # 1
    <3>1. i - 1 = j - 1
      BY <1>2, <2>2 DEF IsInjective
    <3>2. QED
      BY <1>1, <3>1
  <2>3. QED
    BY <2>1, <2>2
<1>6. ToSet(t) \subseteq ToSet(s) \cup {x}
  BY <1>1, <1>2 DEF ToSet
<1>7. ToSet(s) \cup {x} \subseteq ToSet(t)
  <2>1. x \in ToSet(t)
    BY <1>1 DEF ToSet
  <2>2. ToSet(s) \subseteq ToSet(t)
    BY <1>3 DEF ToSet
  <2>3. QED
    BY <2>1, <2>2
<1>8. QED
  BY <1>1, <1>5, <1>6, <1>7 DEF t

(* The window at the end of a list is an end of the list. *)
LEMMA WindowFacts ==
  ASSUME NEW S, NEW s \in Seq(S), NEW n \in Nat \ {0}, n <= Len(s)
  PROVE  /\ Window(s, n) \in Seq(S) /\ Len(Window(s, n)) = n
         /\ \A i \in 1 .. n : Window(s, n)[i] = s[Len(s) - n + i]
<1>1. /\ Len(s) \in Nat /\ Len(s) - n + 1 \in Int /\ \A i \in (Len(s) - n + 1) .. Len(s) : s[i] \in S
  OBVIOUS
<1>2. /\ Window(s, n) \in Seq(S) /\ Len(Window(s, n)) = n
      /\ \A i \in 1 .. (Len(s) - (Len(s) - n + 1) + 1) : Window(s, n)[i] = s[(Len(s) - n + 1) + i - 1]
  BY <1>1, SubSeqProperties DEF Window
<1>3. QED
  BY <1>1, <1>2

(* A window does not see what is linked in front of it. *)
LEMMA WindowPush ==
  ASSUME NEW S, NEW s \in Seq(S), NEW x \in S, NEW n \in Nat \ {0}, n <= Len(s)
  PROVE  Window(<<x>> \o s, n) = Window(s, n)
<1> DEFINE t == <<x>> \o s
<1>1. /\ Len(s) \in Nat /\ t \in Seq(S) /\ Len(t) = Len(s) + 1
      /\ \A i \in 1 .. Len(s) : t[i + 1] = s[i]
  OBVIOUS
<1> HIDE DEF t
<1>2. n <= Len(t)
  BY <1>1
<1>3. /\ Window(s, n) \in Seq(S) /\ Len(Window(s, n)) = n
      /\ \A i \in 1 .. n : Window(s, n)[i] = s[Len(s) - n + i]
  BY WindowFacts
<1>4. /\ Window(t, n) \in Seq(S) /\ Len(Window(t, n)) = n
      /\ \A i \in 1 .. n : Window(t, n)[i] = t[Len(t) - n + i]
  <2>1. t \in Seq(S)
    BY <1>1
  <2>2. QED
    BY <1>2, <2>1, WindowFacts, Zenon
<1>5. ASSUME NEW i \in 1 .. n
      PROVE  Window(t, n)[i] = Window(s, n)[i]
  <2>1. Len(s) - n + i \in 1 .. Len(s) /\ Len(t) - n + i = (Len(s) - n + i) + 1
    BY <1>1
  <2>2. QED
    BY <1>1, <1>3, <1>4, <2>1
<1>6. Window(t, n) = Window(s, n)
  BY <1>3, <1>4, <1>5, SeqEqual
<1>7. QED
  BY <1>6 DEF t

(* Cutting the window off behind the node that links to its first one takes
   exactly the window out of the list. *)
LEMMA CutFacts ==
  ASSUME NEW S, NEW s \in Seq(S), IsInjective(s), NEW n \in Nat \ {0}, n <= Len(s)
  PROVE  LET w == Window(s, n)
             r == SubSeq(s, 1, Place(s, w[1]) - 1)
         IN  /\ w \in Seq(S) /\ Len(w) = n /\ IsInjective(w)
             /\ Contains(s, w[1])
             /\ r \in Seq(S) /\ Len(r) = Len(s) - n /\ IsInjective(r)
             /\ ToSet(r) \cap ToSet(w) = {}
             /\ ToSet(r) \cup ToSet(w) = ToSet(s)
<1> DEFINE w == Window(s, n)
           m == Len(s) - n
           r == SubSeq(s, 1, Place(s, w[1]) - 1)
<1>1. Len(s) \in Nat /\ DOMAIN s = 1 .. Len(s) /\ m \in Nat /\ m + n = Len(s)
  OBVIOUS
<1>2. w \in Seq(S) /\ Len(w) = n /\ DOMAIN w = 1 .. n /\ \A i \in 1 .. n : w[i] = s[m + i]
  BY WindowFacts
<1> HIDE DEF w, m
<1>3. w[1] = s[m + 1] /\ m + 1 \in DOMAIN s
  BY <1>1, <1>2
<1>4. Place(s, w[1]) = m + 1
  BY <1>3 DEF Place, IsInjective
<1>5. r = SubSeq(s, 1, m)
  BY <1>1, <1>4
<1>6. /\ r \in Seq(S) /\ Len(r) = m /\ DOMAIN r = 1 .. m
      /\ \A i \in 1 .. m : r[i] = s[i]
  <2>1. \A i \in 1 .. m : s[i] \in S
    BY <1>1
  <2>2. /\ SubSeq(s, 1, m) \in Seq(S) /\ Len(SubSeq(s, 1, m)) = m
        /\ \A i \in 1 .. m : SubSeq(s, 1, m)[i] = s[i]
    BY <1>1, <2>1, SubSeqProperties
  <2>3. r \in Seq(S) /\ Len(r) = m /\ \A i \in 1 .. m : r[i] = s[i]
    BY <1>5, <2>2, Zenon
  <2>4. DOMAIN r = 1 .. m
    BY <2>3, LenProperties, Zenon
  <2>5. QED
    BY <2>3, <2>4
<1> HIDE DEF r
<1>7. \A i \in 1 .. m : i \in DOMAIN s
  BY <1>1
<1>8. \A i \in 1 .. n : m + i \in DOMAIN s /\ \A j \in 1 .. m : j # m + i
  BY <1>1
<1>9. IsInjective(w)
  <2> SUFFICES ASSUME NEW i \in 1 .. n, NEW j \in 1 .. n, w[i] = w[j]
               PROVE  i = j
    BY <1>2 DEF IsInjective
  <2>1. m + i = m + j
    BY <1>2, <1>8 DEF IsInjective
  <2>2. QED
    BY <1>1, <2>1
<1>10. IsInjective(r)
  BY <1>6, <1>7 DEF IsInjective
<1>11. ToSet(r) \cap ToSet(w) = {}
  <2>1. ASSUME NEW i \in DOMAIN r, NEW j \in DOMAIN w
        PROVE  r[i] # w[j]
    BY <1>2, <1>6, <1>7, <1>8 DEF IsInjective
  <2>2. QED
    BY <2>1 DEF ToSet
<1>12. ToSet(r) \subseteq ToSet(s) /\ ToSet(w) \subseteq ToSet(s)
  BY <1>2, <1>6, <1>7, <1>8 DEF ToSet
<1>13. ToSet(s) \subseteq ToSet(r) \cup ToSet(w)
  <2> SUFFICES ASSUME NEW i \in DOMAIN s
               PROVE  s[i] \in ToSet(r) \/ s[i] \in ToSet(w)
    BY DEF ToSet
  <2>1. CASE i \in 1 .. m
    BY <1>6, <2>1 DEF ToSet
  <2>2. CASE i \notin 1 .. m
    <3>1. i - m \in 1 .. n /\ m + (i - m) = i
      BY <1>1, <2>2
    <3>2. QED
      BY <1>2, <3>1 DEF ToSet
  <2>3. QED
    BY <2>1, <2>2
<1>14. Contains(s, w[1])
  BY <1>1, <1>3 DEF Contains
<1>15. QED
  BY <1>2, <1>6, <1>9, <1>10, <1>11, <1>12, <1>13, <1>14 DEF w, m, r

(* The rest of a list without repetition is the list without its first
   element. *)
LEMMA TailFacts ==
  ASSUME NEW S, NEW s \in Seq(S), s # <<>>, IsInjective(s)
  PROVE  /\ s[1] \in S /\ s[1] \in ToSet(s)
         /\ Tail(s) \in Seq(S) /\ IsInjective(Tail(s))
         /\ ToSet(Tail(s)) = ToSet(s) \ {s[1]}
<1> DEFINE t == Tail(s)
<1>1. /\ Len(s) \in Nat /\ DOMAIN s = 1 .. Len(s) /\ 1 \in DOMAIN s /\ s[1] \in S
      /\ t \in Seq(S) /\ DOMAIN t = 1 .. (Len(s) - 1)
      /\ \A i \in DOMAIN t : t[i] = s[i + 1]
  BY HeadTailProperties
<1> HIDE DEF t
<1>2. \A i \in DOMAIN t : i + 1 \in DOMAIN s /\ i + 1 # 1
  BY <1>1
<1>3. IsInjective(t)
  <2> SUFFICES ASSUME NEW i \in DOMAIN t, NEW j \in DOMAIN t, t[i] = t[j]
               PROVE  i = j
    BY DEF IsInjective
  <2>1. i + 1 = j + 1
    BY <1>1, <1>2 DEF IsInjective
  <2>2. QED
    BY <1>1, <2>1
<1>4. ToSet(t) \subseteq ToSet(s) \ {s[1]}
  BY <1>1, <1>2 DEF ToSet, IsInjective
<1>5. ToSet(s) \ {s[1]} \subseteq ToSet(t)
  <2> SUFFICES ASSUME NEW i \in DOMAIN s, s[i] # s[1]
               PROVE  s[i] \in ToSet(t)
    BY DEF ToSet
  <2>1. i - 1 \in DOMAIN t /\ (i - 1) + 1 = i
    BY <1>1
  <2>2. t[i - 1] = s[i]
    BY <1>1, <2>1
  <2>3. QED
    BY <2>1, <2>2 DEF ToSet
<1>6. s[1] \in ToSet(s)
  BY <1>1 DEF ToSet
<1>7. QED
  BY <1>1, <1>3, <1>4, <1>5, <1>6 DEF t

-----------------------------------------------------------------------------
(***************************************************************************)
(* The barrier.                                                            *)
(***************************************************************************)

(* What a step of execution k leaves of the executions. *)
Moved(k, p, w, d, o) ==
    /\ completions' \in Seq(Execution)
    /\ Len(completions') = Len(completions)
    /\ completions'[k].pc = p /\ completions'[k].window = w
    /\ completions'[k].drops = d /\ completions'[k].old = o
    /\ \A l \in 1..Len(completions) : l # k => completions'[l] = completions[l]

(* Replacing one execution leaves the others alone. *)
LEMMA MoveFacts ==
  ASSUME BarrierTypeOK, NEW k \in 1..Len(completions), NEW new \in Execution,
         completions' = [completions EXCEPT ![k] = new]
  PROVE  Moved(k, new.pc, new.window, new.drops, new.old)
<1>1. completions \in Seq(Execution)
  BY DEF BarrierTypeOK
<1>2. /\ completions' \in Seq(Execution) /\ Len(completions') = Len(completions)
      /\ \A l \in 1..Len(completions) : completions'[l] = IF l = k THEN new ELSE completions[l]
  BY <1>1, ExceptSeq
<1>3. QED
  BY <1>2 DEF Moved

(* What appending a new execution leaves. *)
LEMMA BeginFacts ==
  ASSUME NEW c \in Seq(Execution)
  PROVE  LET d == Append(c, Begun) IN
         /\ d \in Seq(Execution)
         /\ Len(c) \in Nat /\ Len(d) = Len(c) + 1
         /\ d[Len(c) + 1].pc = "acquire"
         /\ \A l \in 1..Len(c) : d[l] = c[l]
<1>1. Begun \in Execution /\ Begun.pc = "acquire"
  <2>1. <<>> \in Seq(Frames)
    BY EmptySeq
  <2>2. QED
    BY <2>1 DEF Begun, Execution, NoWindow
<1>2. QED
  BY <1>1, AppendProperties

(* The fields of an execution. *)
LEMMA ExecutionFacts ==
  ASSUME BarrierTypeOK, NEW k \in 1..Len(completions)
  PROVE  /\ completions[k] \in Execution
         /\ completions[k].pc \in {"acquire", "trim", "function", "reduce", "refill", "resume", "done"}
         /\ completions[k].window \in Seq(Frames)
         /\ completions[k].drops \in Nat /\ completions[k].old \in Int
<1>1. completions[k] \in Execution
  BY DEF BarrierTypeOK
<1>2. QED
  BY <1>1 DEF Execution

(* aquire_window() gives execution k the oldest expected_ frames. *)
LEMMA AcquireMoves ==
  ASSUME BarrierTypeOK, NEW k \in 1..Len(completions), AcquireWindow(k)
  PROVE  /\ completions[k].pc = "acquire" /\ Len(workingSet) >= expected
         /\ Window(workingSet, expected) \in Seq(Frames)
         /\ Moved(k, "trim", Window(workingSet, expected), completions[k].drops, completions[k].old)
<1>1. WindowSize = expected /\ expected \in Nat \ {0} /\ workingSet \in Seq(Frames)
  BY DEF BarrierTypeOK, WindowSize
<1>2. Len(workingSet) >= expected
  BY <1>1 DEF AcquireWindow
<1>3. Window(workingSet, expected) \in Seq(Frames)
  BY <1>1, <1>2, WindowFacts
<1> DEFINE new == [completions[k] EXCEPT !.pc = "trim", !.window = Window(workingSet, expected)]
<1>4. /\ new \in Execution /\ new.pc = "trim" /\ new.window = Window(workingSet, expected)
      /\ new.drops = completions[k].drops /\ new.old = completions[k].old
  BY <1>3, ExecutionFacts DEF Execution
<1>5. completions[k].pc = "acquire" /\ completions' = [completions EXCEPT ![k] = new]
  BY <1>1 DEF AcquireWindow, Complete
<1> HIDE DEF new
<1>6. Moved(k, new.pc, new.window, new.drops, new.old)
  BY <1>4, <1>5, MoveFacts
<1>7. QED
  BY <1>2, <1>3, <1>4, <1>5, <1>6

(* Trimming changes nothing but where the execution stands. *)
LEMMA TrimMoves ==
  ASSUME BarrierTypeOK, NEW k \in 1..Len(completions), Trim(k)
  PROVE  /\ completions[k].pc = "trim"
         /\ Moved(k, "function", completions[k].window, completions[k].drops, completions[k].old)
<1> DEFINE new == [completions[k] EXCEPT !.pc = "function"]
<1>1. /\ new \in Execution /\ new.pc = "function" /\ new.window = completions[k].window
      /\ new.drops = completions[k].drops /\ new.old = completions[k].old
  BY ExecutionFacts DEF Execution
<1>2. completions[k].pc = "trim" /\ completions' = [completions EXCEPT ![k] = new]
  BY DEF Trim, Complete
<1> HIDE DEF new
<1>3. Moved(k, new.pc, new.window, new.drops, new.old)
  BY <1>1, <1>2, MoveFacts
<1>4. QED
  BY <1>1, <1>2, <1>3

(* Those who leave with a window are finitely many frames. *)
LEMMA LeavingFacts ==
  ASSUME BarrierTypeOK, NEW w \in Seq(Frames)
  PROVE  /\ Leaving(w) \subseteq Frames /\ IsFiniteSet(Leaving(w))
         /\ Cardinality(Leaving(w)) \in Nat
<1>1. Leaving(w) \subseteq Frames
  BY DEF Leaving, ToSet
<1>2. QED
  BY <1>1, BarrierAssumption, FS_Subset, FS_CardinalityType

(* The drop tokens of the window are counted. *)
LEMMA FunctionMoves ==
  ASSUME BarrierTypeOK, NEW k \in 1..Len(completions), RunFunction(k)
  PROVE  /\ completions[k].pc = "function"
         /\ Moved(k, "reduce", completions[k].window, Cardinality(Leaving(completions[k].window)),
                  completions[k].old)
<1> DEFINE d == Cardinality(Leaving(completions[k].window))
           new == [completions[k] EXCEPT !.pc = "reduce", !.drops = d]
<1>1. d \in Nat
  BY ExecutionFacts, LeavingFacts
<1>2. completions[k].pc = "function" /\ completions' = [completions EXCEPT ![k] = new]
  BY DEF RunFunction, Complete
<1> HIDE DEF d
<1>3. /\ new \in Execution /\ new.pc = "reduce" /\ new.window = completions[k].window
      /\ new.drops = d /\ new.old = completions[k].old
  BY <1>1, ExecutionFacts DEF Execution
<1> HIDE DEF new
<1>4. Moved(k, new.pc, new.window, new.drops, new.old)
  BY <1>2, <1>3, MoveFacts
<1>5. QED
  BY <1>2, <1>3, <1>4 DEF d

(* Reducing expected_ leaves the execution its window. *)
LEMMA ReduceMoves ==
  ASSUME BarrierTypeOK, NEW k \in 1..Len(completions), Reduce(k)
  PROVE  /\ completions[k].pc = "reduce"
         /\ Moved(k, "refill", completions[k].window, completions[k].drops, completions[k].old)
<1> DEFINE new == [completions[k] EXCEPT !.pc = "refill"]
<1>1. /\ new \in Execution /\ new.pc = "refill" /\ new.window = completions[k].window
      /\ new.drops = completions[k].drops /\ new.old = completions[k].old
  BY ExecutionFacts DEF Execution
<1>2. completions[k].pc = "reduce" /\ completions' = [completions EXCEPT ![k] = new]
  BY DEF Reduce, Complete
<1> HIDE DEF new
<1>3. Moved(k, new.pc, new.window, new.drops, new.old)
  BY <1>1, <1>2, MoveFacts
<1>4. QED
  BY <1>1, <1>2, <1>3

(* The refill remembers what it found in count_. *)
LEMMA RefillMoves ==
  ASSUME BarrierTypeOK, NEW k \in 1..Len(completions), Refill(k)
  PROVE  /\ completions[k].pc = "refill"
         /\ Moved(k, "resume", completions[k].window, completions[k].drops, remaining)
<1> DEFINE new == [completions[k] EXCEPT !.pc = "resume", !.old = remaining]
<1>1. remaining \in Int
  BY DEF BarrierTypeOK
<1>2. /\ new \in Execution /\ new.pc = "resume" /\ new.window = completions[k].window
      /\ new.drops = completions[k].drops /\ new.old = remaining
  BY <1>1, ExecutionFacts DEF Execution
<1>3. completions[k].pc = "refill" /\ completions' = [completions EXCEPT ![k] = new]
  BY DEF Refill, Complete
<1> HIDE DEF new
<1>4. Moved(k, new.pc, new.window, new.drops, new.old)
  BY <1>2, <1>3, MoveFacts
<1>5. QED
  BY <1>2, <1>3, <1>4

(* Resuming takes the first frame out of the window. *)
LEMMA ResumeMoves ==
  ASSUME BarrierTypeOK, NEW k \in 1..Len(completions), ResumeFrame(k)
  PROVE  /\ completions[k].pc = "resume" /\ completions[k].window # <<>>
         /\ Moved(k, "resume", Tail(completions[k].window), completions[k].drops, completions[k].old)
<1> DEFINE w == completions[k].window
           new == [completions[k] EXCEPT !.window = Tail(w)]
<1>1. completions[k].pc = "resume" /\ w # <<>> /\ completions' = [completions EXCEPT ![k] = new]
  BY DEF ResumeFrame, Complete
<1>2. w \in Seq(Frames)
  BY ExecutionFacts
<1>3. Tail(w) \in Seq(Frames)
  BY <1>1, <1>2, HeadTailProperties
<1>4. /\ new \in Execution /\ new.pc = "resume" /\ new.window = Tail(w)
      /\ new.drops = completions[k].drops /\ new.old = completions[k].old
  BY <1>1, <1>3, ExecutionFacts DEF Execution
<1> HIDE DEF new
<1>5. Moved(k, new.pc, new.window, new.drops, new.old)
  BY <1>1, <1>4, MoveFacts
<1>6. QED
  BY <1>1, <1>4, <1>5

(* complete_phase() ends, and another execution begins if the next phase is full. *)
LEMMA EndMoves ==
  ASSUME BarrierTypeOK, NEW k \in 1..Len(completions), ExecuteAgain(k)
  PROVE  /\ completions[k].pc = "resume" /\ completions[k].window = <<>>
         /\ completions' \in Seq(Execution)
         /\ completions'[k].pc = "done"
         /\ \A l \in 1..Len(completions) : l # k => completions'[l] = completions[l]
         /\ IF PhaseFull(completions[k].old)
            THEN /\ Len(completions') = Len(completions) + 1
                 /\ completions'[Len(completions) + 1].pc = "acquire"
            ELSE Len(completions') = Len(completions)
<1> DEFINE new == [completions[k] EXCEPT !.pc = "done"]
           ended == [completions EXCEPT ![k] = new]
<1>1. /\ completions[k].pc = "resume" /\ completions[k].window = <<>>
      /\ completions' = IF PhaseFull(completions[k].old) THEN Append(ended, Begun) ELSE ended
  BY DEF ExecuteAgain
<1>2. new \in Execution /\ new.pc = "done"
  BY ExecutionFacts DEF Execution
<1> HIDE DEF new
<1>3. /\ ended \in Seq(Execution) /\ Len(ended) = Len(completions) /\ ended[k].pc = "done"
      /\ \A l \in 1..Len(completions) : l # k => ended[l] = completions[l]
  <2>1. completions \in Seq(Execution)
    BY DEF BarrierTypeOK
  <2>2. /\ ended \in Seq(Execution) /\ Len(ended) = Len(completions)
        /\ \A l \in 1..Len(completions) : ended[l] = IF l = k THEN new ELSE completions[l]
    BY <1>2, <2>1, ExceptSeq
  <2>3. QED
    BY <1>2, <2>2
<1> HIDE DEF ended
<1>4. CASE PhaseFull(completions[k].old)
  <2>1. /\ Append(ended, Begun) \in Seq(Execution)
        /\ Len(Append(ended, Begun)) = Len(ended) + 1
        /\ Append(ended, Begun)[Len(ended) + 1].pc = "acquire"
        /\ \A l \in 1..Len(ended) : Append(ended, Begun)[l] = ended[l]
    BY <1>3, BeginFacts
  <2>2. completions' = Append(ended, Begun)
    BY <1>1, <1>4
  <2>3. QED
    BY <1>1, <1>3, <1>4, <2>1, <2>2
<1>5. CASE ~ PhaseFull(completions[k].old)
  BY <1>1, <1>3, <1>5
<1>6. QED
  BY <1>4, <1>5

(* How the number of frames that are about to link themselves changes. *)
LEMMA LinkingFacts ==
  /\ IsFiniteSet(Linking) /\ Cardinality(Linking) \in Nat
  /\ (\A g \in Frames : at'[g] \in {"linking", "dropping"} <=> at[g] \in {"linking", "dropping"}) =>
         Linking' = Linking
  /\ \A f \in Frames :
         (\A g \in Frames \ {f} : at'[g] = at[g]) =>
             /\ at[f] \notin {"linking", "dropping"} /\ at'[f] \in {"linking", "dropping"} =>
                    Cardinality(Linking') = Cardinality(Linking) + 1
             /\ at[f] \in {"linking", "dropping"} /\ at'[f] \notin {"linking", "dropping"} =>
                    Cardinality(Linking') = Cardinality(Linking) - 1
<1>1. Linking \subseteq Frames
  BY DEF Linking
<1>2. IsFiniteSet(Linking) /\ Cardinality(Linking) \in Nat
  BY <1>1, BarrierAssumption, FS_Subset, FS_CardinalityType
<1>3. (\A g \in Frames : at'[g] \in {"linking", "dropping"} <=> at[g] \in {"linking", "dropping"}) =>
         Linking' = Linking
  BY DEF Linking
<1>4. ASSUME NEW f \in Frames, \A g \in Frames \ {f} : at'[g] = at[g],
             at[f] \notin {"linking", "dropping"}, at'[f] \in {"linking", "dropping"}
      PROVE  Cardinality(Linking') = Cardinality(Linking) + 1
  <2>1. Linking' = Linking \cup {f} /\ f \notin Linking
    BY <1>4 DEF Linking
  <2>2. QED
    BY <1>2, <2>1, FS_AddElement
<1>5. ASSUME NEW f \in Frames, \A g \in Frames \ {f} : at'[g] = at[g],
             at[f] \in {"linking", "dropping"}, at'[f] \notin {"linking", "dropping"}
      PROVE  Cardinality(Linking') = Cardinality(Linking) - 1
  <2>1. Linking' = Linking \ {f} /\ f \in Linking
    BY <1>5 DEF Linking
  <2>2. QED
    BY <1>2, <2>1, FS_RemoveElement
<1>6. QED
  BY <1>2, <1>3, <1>4, <1>5

(* A step that touches neither the lists nor who is suspended in them. *)
LEMMA QuietFrames ==
  ASSUME BarrierInv, UNCHANGED <<scenario, expected, workingSet, completions>>,
         \A g \in Frames : /\ at'[g] = "gone" <=> at[g] = "gone"
                           /\ at'[g] = "waiting" <=> at[g] = "waiting"
                           /\ last'[g] => at'[g] \in {"linking", "dropping"}
                           /\ at'[g] \in {"dropping", "gone"} => g \in scenario.droppers
  PROVE  ListsInv' /\ EverybodyInv'
<1>1. /\ workingSet \in Seq(Frames) /\ BarrierTypeOK
      /\ FramesInList /\ WindowsApart /\ EverybodyInv
      /\ \A k \in 1..Len(completions) : WindowInv(k)
  BY DEF BarrierInv, BarrierTypeOK, ListsInv
<1>2. \A s \in Seq(Frames) : \A f \in ToSet(s) : f \in Frames
  BY DEF ToSet
<1>3. \A g \in Frames : Suspended(g)' <=> Suspended(g)
  BY DEF Suspended
<1>4. FramesInList'
  BY <1>1, <1>2, <1>3 DEF FramesInList
<1>5. ASSUME NEW k \in 1..Len(completions)
      PROVE  WindowInv(k)'
  <2>1. completions[k].window \in Seq(Frames)
    BY <1>1, ExecutionFacts
  <2>2. Leaving(completions[k].window)' = Leaving(completions[k].window)
    BY <1>2, <2>1 DEF Leaving
  <2>3. WindowInv(k)
    BY <1>1
  <2>4. \A f \in ToSet(completions[k].window) : Suspended(f) => Suspended(f)'
    BY <1>2, <1>3, <2>1
  <2>5. QED
    BY <2>2, <2>3, <2>4 DEF WindowInv, Owns
<1>6. WindowsApart'
  BY <1>1 DEF WindowsApart, Owns
<1>7. Out' = Out
  BY DEF Out, Keeps
<1>8. EverybodyInv'
  BY <1>1, <1>7 DEF EverybodyInv, Everybody, Cuts
<1>9. QED
  BY <1>4, <1>5, <1>6, <1>8 DEF ListsInv

(* Whoever is in the list or in a window that has been cut out is a frame
   that is suspended. *)
LEMMA ListedFacts ==
  ASSUME BarrierInv
  PROVE  /\ \A f \in ToSet(workingSet) : f \in Frames /\ Suspended(f)
         /\ \A k \in 1..Len(completions) : Owns(k) =>
                \A f \in ToSet(completions[k].window) : f \in Frames /\ Suspended(f)
<1>1. \A s \in Seq(Frames) : \A f \in ToSet(s) : f \in Frames
  BY DEF ToSet
<1>2. BarrierTypeOK /\ workingSet \in Seq(Frames) /\ FramesInList
      /\ \A k \in 1..Len(completions) : WindowInv(k)
  BY DEF BarrierInv, BarrierTypeOK, ListsInv
<1>3. ASSUME NEW k \in 1..Len(completions), Owns(k), NEW f \in ToSet(completions[k].window)
      PROVE  f \in Frames /\ Suspended(f)
  <2>1. completions[k].window \in Seq(Frames)
    BY <1>2, ExecutionFacts
  <2>2. QED
    BY <1>1, <1>2, <1>3, <2>1 DEF WindowInv
<1>4. QED
  BY <1>1, <1>2, <1>3 DEF FramesInList

(* The phases that have been cut out can be counted. *)
LEMMA PhasesFacts ==
  ASSUME BarrierTypeOK
  PROVE  Phases \subseteq 1..Len(completions) /\ IsFiniteSet(Phases) /\ Cardinality(Phases) \in Nat
<1>1. Phases \subseteq 1..Len(completions) /\ Len(completions) \in Nat
  BY DEF Phases, BarrierTypeOK
<1>2. IsFiniteSet(1..Len(completions))
  BY <1>1, FS_Interval
<1>3. QED
  BY <1>1, <1>2, FS_Subset, FS_CardinalityType

(* arrive_and_wait() and arrive_and_drop(), the subtraction. *)
LEMMA SubtractStep ==
  ASSUME BarrierInv, NEW f \in Frames, NEW onward \in {"linking", "dropping"}, Subtract(f, onward),
         onward = "dropping" => f \in scenario.droppers
  PROVE  BarrierInv'
<1>1. /\ at[f] = "running" /\ remaining' = remaining - 1
      /\ at' = [at EXCEPT ![f] = onward]
      /\ last' = [last EXCEPT ![f] = remaining = 1]
      /\ arrived' = [arrived EXCEPT ![f] = @ + 1]
      /\ UNCHANGED <<scenario, expected, workingSet, passed, completions>>
  BY DEF Subtract, IsLast
<1>2. BarrierTypeOK /\ ListsInv /\ OneInCharge /\ CountMatchesList /\ EverybodyInv /\ PhaseInv
  BY DEF BarrierInv, PhaseAccounted
<1>3. \A g \in Frames : /\ at'[g] = IF g = f THEN onward ELSE at[g]
                        /\ last'[g] = IF g = f THEN remaining = 1 ELSE last[g]
                        /\ arrived'[g] = IF g = f THEN arrived[g] + 1 ELSE arrived[g]
  BY <1>1, <1>2 DEF BarrierTypeOK
<1>4. BarrierTypeOK'
  <2>1. remaining' \in Int
    BY <1>1, <1>2 DEF BarrierTypeOK
  <2>2. last' \in [Frames -> BOOLEAN]
    BY <1>1, <1>2, Zenon DEF BarrierTypeOK
  <2>3. arrived' \in [Frames -> Nat]
    BY <1>1, <1>2 DEF BarrierTypeOK
  <2>4. at' \in [Frames -> {"running", "linking", "dropping", "waiting", "gone", "posted"}]
    BY <1>1, <1>2 DEF BarrierTypeOK
  <2>5. QED
    BY <1>1, <1>2, <2>1, <2>2, <2>3, <2>4 DEF BarrierTypeOK
<1>5. ListsInv' /\ EverybodyInv'
  <2>1. \A g \in Frames : /\ last[g] => at[g] \in {"linking", "dropping"}
                          /\ at[g] \in {"dropping", "gone"} => g \in scenario.droppers
    BY <1>2 DEF ListsInv, FramesInList
  <2>2. \A g \in Frames : /\ at'[g] = "gone" <=> at[g] = "gone"
                          /\ at'[g] = "waiting" <=> at[g] = "waiting"
                          /\ last'[g] => at'[g] \in {"linking", "dropping"}
                          /\ at'[g] \in {"dropping", "gone"} => g \in scenario.droppers
    BY <1>1, <1>3, <2>1
  <2>3. QED
    BY <1>1, <2>2, QuietFrames
<1>6. OneInCharge'
  <2>1. ~ last[f]
    BY <1>1, <1>2 DEF ListsInv, FramesInList
  <2>2. \A k \in 1..Len(completions) : InCharge(k)' <=> InCharge(k)
    BY <1>1 DEF InCharge, PhaseFull
  <2>3. remaining \in Int
    BY <1>2 DEF BarrierTypeOK
  <2>4. CASE remaining = 1
    <3>1. (\A g \in Frames : ~ last[g]) /\ \A k \in 1..Len(completions) : ~ InCharge(k)
      BY <1>2, <2>4 DEF OneInCharge
    <3>2. \A g \in Frames : last'[g] <=> g = f
      BY <1>3, <2>4, <3>1
    <3>3. remaining' <= 0
      BY <1>1, <2>4
    <3>4. QED
      BY <1>1, <2>2, <3>1, <3>2, <3>3 DEF OneInCharge
  <2>5. CASE remaining # 1
    <3>1. \A g \in Frames : last'[g] <=> last[g]
      BY <1>3, <2>1, <2>5
    <3>2. remaining' <= 0 <=> remaining <= 0
      BY <1>1, <2>3, <2>5
    <3>3. QED
      BY <1>1, <1>2, <2>2, <3>1, <3>2 DEF OneInCharge
  <2>6. QED
    BY <2>4, <2>5
<1>7. CountMatchesList'
  <2>1. \A g \in Frames \ {f} : at'[g] = at[g]
    BY <1>3
  <2>2. Cardinality(Linking') = Cardinality(Linking) + 1 /\ Cardinality(Linking) \in Nat
    BY <1>1, <1>3, <2>1, LinkingFacts
  <2>3. remaining \in Int /\ Len(workingSet) \in Nat
    BY <1>2 DEF BarrierTypeOK
  <2>4. remaining' + Len(workingSet') + Cardinality(Linking') = remaining + Len(workingSet) + Cardinality(Linking)
    BY <1>1, <2>2, <2>3
  <2>5. QED
    BY <1>1, <1>2, <2>4 DEF CountMatchesList
<1>8. PhaseInv'
  <2> SUFFICES ASSUME Everybody, NEW g \in Frames
               PROVE  InPhase(g, Cardinality(Phases))'
    BY <1>1 DEF PhaseInv, Everybody
  <2>1. Phases' = Phases
    BY <1>1 DEF Phases, Owns
  <2>2. PICK n \in Nat : n = Cardinality(Phases)
    BY <1>2, PhasesFacts
  <2>3. InPhase(g, n)
    BY <1>2, <2>2 DEF PhaseInv
  <2>4. arrived[g] \in Nat /\ passed[g] \in Nat
    BY <1>2 DEF BarrierTypeOK
  <2>5. InPhase(g, n)'
    <3>1. CASE g = f
      BY <1>1, <1>3, <2>3, <2>4, <3>1 DEF InPhase, Owns
    <3>2. CASE g # f
      BY <1>1, <1>3, <2>3, <3>2 DEF InPhase, Owns
    <3>3. QED
      BY <3>1, <3>2
  <2>6. QED
    BY <2>1, <2>2, <2>5
<1>9. QED
  BY <1>4, <1>5, <1>6, <1>7, <1>8 DEF BarrierInv, PhaseAccounted

(* An event loop resumes a frame. *)
LEMMA BarrierResumeStep ==
  ASSUME BarrierInv, NEW f \in Frames, BarrierResume(f)
  PROVE  BarrierInv'
<1>1. /\ at[f] = "posted"
      /\ at' = [at EXCEPT ![f] = "running"]
      /\ passed' = [passed EXCEPT ![f] = @ + 1]
      /\ UNCHANGED <<scenario, expected, remaining, workingSet, last, arrived, completions>>
  BY DEF BarrierResume
<1>2. BarrierTypeOK /\ ListsInv /\ OneInCharge /\ CountMatchesList /\ EverybodyInv /\ PhaseInv
  BY DEF BarrierInv, PhaseAccounted
<1>3. \A g \in Frames : /\ at'[g] = IF g = f THEN "running" ELSE at[g]
                        /\ passed'[g] = IF g = f THEN passed[g] + 1 ELSE passed[g]
  BY <1>1, <1>2 DEF BarrierTypeOK
<1>4. BarrierTypeOK'
  <2>1. passed' \in [Frames -> Nat]
    BY <1>1, <1>2 DEF BarrierTypeOK
  <2>2. at' \in [Frames -> {"running", "linking", "dropping", "waiting", "gone", "posted"}]
    BY <1>1, <1>2 DEF BarrierTypeOK
  <2>3. QED
    BY <1>1, <1>2, <2>1, <2>2 DEF BarrierTypeOK
<1>5. ListsInv' /\ EverybodyInv'
  <2>1. \A g \in Frames : /\ last[g] => at[g] \in {"linking", "dropping"}
                          /\ at[g] \in {"dropping", "gone"} => g \in scenario.droppers
    BY <1>2 DEF ListsInv, FramesInList
  <2>2. \A g \in Frames : /\ at'[g] = "gone" <=> at[g] = "gone"
                          /\ at'[g] = "waiting" <=> at[g] = "waiting"
                          /\ last'[g] => at'[g] \in {"linking", "dropping"}
                          /\ at'[g] \in {"dropping", "gone"} => g \in scenario.droppers
    BY <1>1, <1>3, <2>1
  <2>3. QED
    BY <1>1, <2>2, QuietFrames
<1>6. OneInCharge'
  BY <1>1, <1>2 DEF OneInCharge, InCharge, PhaseFull
<1>7. CountMatchesList'
  <2>1. Linking' = Linking
    BY <1>1, <1>3, LinkingFacts
  <2>2. QED
    BY <1>1, <1>2, <2>1 DEF CountMatchesList
<1>8. PhaseInv'
  <2> SUFFICES ASSUME Everybody, NEW g \in Frames
               PROVE  InPhase(g, Cardinality(Phases))'
    BY <1>1 DEF PhaseInv, Everybody
  <2>1. Phases' = Phases
    BY <1>1 DEF Phases, Owns
  <2>2. PICK n \in Nat : n = Cardinality(Phases)
    BY <1>2, PhasesFacts
  <2>3. InPhase(g, n)
    BY <1>2, <2>2 DEF PhaseInv
  <2>4. arrived[g] \in Nat /\ passed[g] \in Nat
    BY <1>2 DEF BarrierTypeOK
  <2>5. InPhase(g, n)'
    <3>1. CASE g = f
      BY <1>1, <1>3, <2>3, <2>4, <3>1 DEF InPhase, Owns
    <3>2. CASE g # f
      BY <1>1, <1>3, <2>3, <3>2 DEF InPhase, Owns
    <3>3. QED
      BY <3>1, <3>2
  <2>6. QED
    BY <2>1, <2>2, <2>5
<1>9. QED
  BY <1>4, <1>5, <1>6, <1>7, <1>8 DEF BarrierInv, PhaseAccounted

(* A frame is linked in front of the list, and begins to complete the phase if it was
   the last one. *)
LEMMA LinkStep ==
  ASSUME BarrierInv, NEW f \in Frames, Link(f)
  PROVE  BarrierInv'
<1>1. /\ at[f] \in {"linking", "dropping"}
      /\ workingSet' = <<f>> \o workingSet
      /\ at' = [at EXCEPT ![f] = IF at[f] = "linking" THEN "waiting" ELSE "gone"]
      /\ completions' = IF last[f] THEN Append(completions, Begun) ELSE completions
      /\ last' = [last EXCEPT ![f] = FALSE]
      /\ UNCHANGED <<scenario, expected, remaining, arrived, passed>>
  BY DEF Link
<1>2. BarrierTypeOK /\ ListsInv /\ OneInCharge /\ CountMatchesList /\ EverybodyInv /\ PhaseInv
  BY DEF BarrierInv, PhaseAccounted
<1>3. \A g \in Frames :
         /\ at'[g] = IF g = f THEN IF at[f] = "linking" THEN "waiting" ELSE "gone" ELSE at[g]
         /\ last'[g] = IF g = f THEN FALSE ELSE last[g]
  BY <1>1, <1>2 DEF BarrierTypeOK
<1>4. /\ completions' \in Seq(Execution) /\ Len(completions) \in Nat
      /\ \A l \in 1..Len(completions) : l \in 1..Len(completions') /\ completions'[l] = completions[l]
      /\ \A l \in 1..Len(completions') :
             l \in 1..Len(completions) \/ (last[f] /\ l = Len(completions) + 1 /\ completions'[l].pc = "acquire")
      /\ last[f] => /\ Len(completions) + 1 \in 1..Len(completions')
                    /\ completions'[Len(completions) + 1].pc = "acquire"
  <2>1. completions \in Seq(Execution)
    BY <1>2 DEF BarrierTypeOK
  <2>2. CASE last[f]
    <3>1. completions' = Append(completions, Begun)
      BY <1>1, <2>2
    <3>2. /\ completions' \in Seq(Execution) /\ Len(completions) \in Nat
          /\ Len(completions') = Len(completions) + 1
          /\ completions'[Len(completions) + 1].pc = "acquire"
          /\ \A l \in 1..Len(completions) : completions'[l] = completions[l]
      BY <2>1, <3>1, BeginFacts
    <3>3. QED
      BY <2>2, <3>2
  <2>3. CASE ~ last[f]
    BY <1>1, <2>1, <2>3
  <2>4. QED
    BY <2>2, <2>3
<1>5. f \notin ToSet(workingSet) /\ \A l \in 1..Len(completions) : Owns(l) => f \notin ToSet(completions[l].window)
  BY <1>1, ListedFacts DEF Suspended
<1>6. /\ workingSet' \in Seq(Frames) /\ Len(workingSet') = Len(workingSet) + 1
      /\ IsInjective(workingSet') /\ ToSet(workingSet') = ToSet(workingSet) \cup {f}
      /\ Len(workingSet) \in Nat
  BY <1>1, <1>2, <1>5, PushFacts DEF BarrierTypeOK, ListsInv, FramesInList
<1>7. BarrierTypeOK'
  <2>1. last' \in [Frames -> BOOLEAN]
    BY <1>1, <1>2, Zenon DEF BarrierTypeOK
  <2>2. at' \in [Frames -> {"running", "linking", "dropping", "waiting", "gone", "posted"}]
    BY <1>1, <1>2 DEF BarrierTypeOK
  <2>3. QED
    BY <1>1, <1>2, <1>4, <1>6, <2>1, <2>2 DEF BarrierTypeOK
<1>8. FramesInList'
  <2>1. FramesInList
    BY <1>2 DEF ListsInv
  <2>2. \A g \in Frames : /\ last'[g] => at'[g] \in {"linking", "dropping"}
                          /\ at'[g] \in {"dropping", "gone"} => g \in scenario'.droppers
    <3> SUFFICES ASSUME NEW g \in Frames
                 PROVE  /\ last'[g] => at'[g] \in {"linking", "dropping"}
                        /\ at'[g] \in {"dropping", "gone"} => g \in scenario'.droppers
      OBVIOUS
    <3>1. /\ last[g] => at[g] \in {"linking", "dropping"}
          /\ at[g] \in {"dropping", "gone"} => g \in scenario.droppers
          /\ scenario' = scenario
      BY <1>1, <2>1 DEF FramesInList
    <3>2. CASE g = f
      <4>1. ~ last'[g]
        BY <1>3, <3>2
      <4>2. at'[g] = IF at[g] = "linking" THEN "waiting" ELSE "gone"
        BY <1>3, <3>2
      <4>3. at[g] \in {"linking", "dropping"}
        BY <1>1, <3>2
      <4>4. QED
        BY <3>1, <4>1, <4>2, <4>3
    <3>3. CASE g # f
      BY <1>3, <3>1, <3>3
    <3>4. QED
      BY <3>2, <3>3
  <2>3. \A g \in ToSet(workingSet') : Suspended(g)'
    BY <1>1, <1>3, <1>6, ListedFacts DEF Suspended
  <2>4. QED
    BY <1>6, <2>2, <2>3 DEF FramesInList
<1>9. ASSUME NEW k \in 1..Len(completions')
      PROVE  WindowInv(k)'
  <2>1. CASE k \notin 1..Len(completions)
    BY <1>4, <2>1 DEF WindowInv, Owns
  <2>2. CASE k \in 1..Len(completions)
    <3>1. completions'[k] = completions[k] /\ WindowInv(k)
      BY <1>2, <1>4, <2>2 DEF ListsInv
    <3>2. ASSUME completions[k].pc = "trim"
          PROVE  Len(workingSet') >= expected' /\ completions[k].window = Window(workingSet', expected')
      <4>1. /\ workingSet \in Seq(Frames) /\ expected \in Nat \ {0} /\ expected <= Len(workingSet)
            /\ completions[k].window = Window(workingSet, expected)
        BY <1>2, <3>1, <3>2 DEF BarrierTypeOK, WindowInv
      <4>2. Window(<<f>> \o workingSet, expected) = Window(workingSet, expected)
        BY <4>1, WindowPush
      <4>3. QED
        BY <1>1, <1>6, <4>1, <4>2
    <3>3. ASSUME Owns(k), NEW g \in ToSet(completions[k].window)
          PROVE  /\ Suspended(g)' /\ g \notin ToSet(workingSet')
                 /\ at'[g] = at[g]
      <4>1. g \in Frames /\ g # f /\ g \notin ToSet(workingSet) /\ Suspended(g)
        BY <1>5, <2>2, <3>1, <3>3, ListedFacts DEF WindowInv
      <4>2. QED
        BY <1>3, <1>6, <4>1 DEF Suspended
    <3>4. Owns(k) => {g \in ToSet(completions[k].window) : at'[g] = "gone"} = Leaving(completions[k].window)
      BY <3>3 DEF Leaving
    <3>5. completions[k].pc = "reduce" =>
             completions'[k].drops = Cardinality({g \in ToSet(completions'[k].window) : at'[g] = "gone"})
      BY <3>1, <3>4 DEF WindowInv, Owns
    <3>6. QED
      BY <3>1, <3>2, <3>3, <3>5 DEF WindowInv, Owns, Leaving
  <2>3. QED
    BY <2>1, <2>2
<1>10. WindowsApart'
  <2> SUFFICES ASSUME NEW k \in 1..Len(completions'), NEW l \in 1..Len(completions'),
                      k # l, Owns(k)', Owns(l)'
               PROVE  ToSet(completions'[k].window) \cap ToSet(completions'[l].window) = {}
    BY DEF WindowsApart
  <2>1. k \in 1..Len(completions) /\ l \in 1..Len(completions)
    BY <1>4 DEF Owns
  <2>2. completions'[k] = completions[k] /\ completions'[l] = completions[l]
    BY <1>4, <2>1
  <2>3. QED
    BY <1>2, <2>1, <2>2 DEF ListsInv, WindowsApart, Owns
<1>11. OneInCharge'
  <2>1. \A k \in 1..Len(completions) : InCharge(k)' <=> InCharge(k)
    BY <1>1, <1>4 DEF InCharge, PhaseFull
  <2>2. CASE last[f]
    <3>1. /\ \A g \in Frames : last[g] => g = f
          /\ \A k \in 1..Len(completions) : ~ InCharge(k)
          /\ remaining <= 0
      BY <1>2, <2>2 DEF OneInCharge
    <3>2. \A g \in Frames : ~ last'[g]
      BY <1>3, <3>1
    <3>3. PICK m \in Nat : m = Len(completions) + 1
      BY <1>4
    <3>4. m \in 1..Len(completions') /\ InCharge(m)'
      BY <1>4, <2>2, <3>3 DEF InCharge
    <3>5. \A k \in 1..Len(completions') : InCharge(k)' <=> k = m
      BY <1>4, <2>1, <3>1, <3>3, <3>4
    <3>6. QED
      BY <1>1, <3>1, <3>2, <3>4, <3>5 DEF OneInCharge
  <2>3. CASE ~ last[f]
    <3>1. completions' = completions /\ \A g \in Frames : last'[g] <=> last[g]
      BY <1>1, <1>3, <2>3
    <3>2. QED
      BY <1>1, <1>2, <2>1, <3>1 DEF OneInCharge
  <2>4. QED
    BY <2>2, <2>3
<1>12. CountMatchesList'
  <2>1. Cardinality(Linking') = Cardinality(Linking) - 1 /\ Cardinality(Linking) \in Nat
    <3>1. \A g \in Frames \ {f} : at'[g] = at[g]
      BY <1>3
    <3>2. at'[f] \notin {"linking", "dropping"}
      BY <1>3
    <3>3. QED
      BY <1>1, <3>1, <3>2, LinkingFacts
  <2>2. remaining \in Int
    BY <1>2 DEF BarrierTypeOK
  <2>3. remaining' + Len(workingSet') + Cardinality(Linking') = remaining + Len(workingSet) + Cardinality(Linking)
    BY <1>1, <1>6, <2>1, <2>2
  <2>4. (\E k \in 1..Len(completions') : completions'[k].pc \in {"function", "reduce", "refill"}) <=>
           \E k \in 1..Len(completions) : completions[k].pc \in {"function", "reduce", "refill"}
    BY <1>4
  <2>5. QED
    BY <1>1, <1>2, <2>3, <2>4 DEF CountMatchesList
<1>13. EverybodyInv'
  <2> SUFFICES ASSUME Everybody
               PROVE  /\ expected' = Cardinality(Frames \ Out')
                      /\ \A k \in 1..Len(completions') :
                             /\ completions'[k].pc = "resume" => completions'[k].old = 0
                             /\ ~ Cuts(k)'
    BY <1>1 DEF EverybodyInv, Everybody
  <2>1. Out' = Out
    <3>1. \A k \in 1..Len(completions') : Keeps(k)' <=> (k \in 1..Len(completions) /\ Keeps(k))
      BY <1>4 DEF Keeps
    <3>2. ASSUME NEW g \in Frames
          PROVE  g \in Out' <=> g \in Out
      <4>1. CASE g = f
        BY <1>1, <1>6, <4>1 DEF Out
      <4>2. CASE g # f
        BY <1>3, <1>4, <1>6, <3>1, <4>2 DEF Out
      <4>3. QED
        BY <4>1, <4>2
    <3>3. QED
      BY <3>2 DEF Out
  <2>2. \A k \in 1..Len(completions) : ~ Cuts(k)
    BY <1>1, <1>2, <1>5 DEF EverybodyInv, Cuts, Owns
  <2>3. \A k \in 1..Len(completions') : ~ Cuts(k)'
    BY <1>4, <2>2 DEF Cuts
  <2>4. \A k \in 1..Len(completions') : completions'[k].pc = "resume" => completions'[k].old = 0
    BY <1>2, <1>4 DEF EverybodyInv
  <2>5. QED
    BY <1>1, <1>2, <2>1, <2>3, <2>4 DEF EverybodyInv
<1>14. PhaseInv'
  <2> SUFFICES ASSUME Everybody, NEW g \in Frames
               PROVE  InPhase(g, Cardinality(Phases))'
    BY <1>1 DEF PhaseInv, Everybody
  <2>1. Phases' = Phases
    BY <1>4 DEF Phases, Owns
  <2>2. PICK n \in Nat : n = Cardinality(Phases)
    BY <1>2, PhasesFacts
  <2>3. InPhase(g, n)
    BY <1>2, <2>2 DEF PhaseInv
  <2>4. arrived[g] \in Nat /\ passed[g] \in Nat
    BY <1>2 DEF BarrierTypeOK
  <2>5. \A k \in 1..Len(completions') :
           Owns(k)' => k \in 1..Len(completions) /\ Owns(k) /\ completions'[k] = completions[k]
    BY <1>4 DEF Owns
  <2>6. InPhase(g, n)'
    <3>1. CASE g = f
      <4>1. arrived[f] = n + 1 /\ passed[f] = n
        BY <1>1, <2>3, <3>1 DEF InPhase
      <4>2. \A k \in 1..Len(completions') : Owns(k)' => f \notin ToSet(completions'[k].window)
        BY <1>5, <2>5
      <4>3. at'[f] \in {"waiting", "gone"}
        BY <1>3
      <4>4. QED
        BY <1>1, <2>2, <3>1, <4>1, <4>2, <4>3 DEF InPhase
    <3>2. CASE g # f
      <4>1. at'[g] = at[g] /\ (g \in ToSet(workingSet') <=> g \in ToSet(workingSet))
        BY <1>3, <1>6, <3>2
      <4>2. QED
        BY <1>1, <2>3, <2>5, <4>1 DEF InPhase
    <3>3. QED
      BY <3>1, <3>2
  <2>7. QED
    BY <2>1, <2>2, <2>6
<1>15. QED
  BY <1>7, <1>8, <1>9, <1>10, <1>11, <1>12, <1>13, <1>14 DEF BarrierInv, PhaseAccounted, ListsInv

(* A step that moves no frame, cuts no window out and ends none of the
   phases. *)
LEMMA QuietPhases ==
  ASSUME BarrierInv, UNCHANGED <<scenario, workingSet, frameVars>>, Phases' = Phases,
         \A l \in 1..Len(completions') :
             Owns(l)' => /\ l \in 1..Len(completions) /\ Owns(l)
                         /\ completions'[l].window = completions[l].window
  PROVE  FramesInList' /\ PhaseInv'
<1>1. BarrierTypeOK /\ FramesInList /\ PhaseInv
  BY DEF BarrierInv, ListsInv
<1>2. at' = at /\ last' = last /\ arrived' = arrived /\ passed' = passed
  BY DEF frameVars
<1>3. FramesInList'
  BY <1>1, <1>2 DEF FramesInList, Suspended
<1>4. ASSUME Everybody, NEW g \in Frames
      PROVE  InPhase(g, Cardinality(Phases))'
  <2>1. PICK n \in Nat : n = Cardinality(Phases)
    BY <1>1, PhasesFacts
  <2>2. InPhase(g, n)
    BY <1>1, <1>4, <2>1 DEF PhaseInv
  <2>3. InPhase(g, n)'
    BY <1>2, <2>2 DEF InPhase
  <2>4. QED
    BY <2>1, <2>3
<1>5. QED
  BY <1>3, <1>4 DEF PhaseInv, Everybody

(* The window is acquired. *)
LEMMA AcquireStep ==
  ASSUME BarrierInv, NEW k \in 1..Len(completions), AcquireWindow(k)
  PROVE  BarrierInv'
<1>1. BarrierTypeOK /\ ListsInv /\ OneInCharge /\ CountMatchesList /\ EverybodyInv
  BY DEF BarrierInv, PhaseAccounted
<1>2. /\ completions[k].pc = "acquire" /\ Len(workingSet) >= expected
      /\ Moved(k, "trim", Window(workingSet, expected), completions[k].drops, completions[k].old)
  BY <1>1, AcquireMoves
<1>3. /\ UNCHANGED <<scenario, workingSet, frameVars>> /\ expected' = expected /\ remaining' = remaining
      /\ at' = at /\ last' = last /\ arrived' = arrived /\ passed' = passed
  BY DEF AcquireWindow, frameVars
<1>4. /\ completions' \in Seq(Execution) /\ Len(completions') = Len(completions)
      /\ completions'[k].pc = "trim" /\ completions'[k].window = Window(workingSet, expected)
      /\ \A l \in 1..Len(completions) : l # k => completions'[l] = completions[l]
  BY <1>2 DEF Moved
<1>5. BarrierTypeOK'
  BY <1>1, <1>3, <1>4 DEF BarrierTypeOK
<1>6. \A l \in 1..Len(completions) : /\ Owns(l)' <=> Owns(l)
                                     /\ Owns(l) => completions'[l] = completions[l]
  BY <1>2, <1>4 DEF Owns
<1>7. FramesInList' /\ PhaseInv'
  <2>1. Phases' = Phases
    BY <1>2, <1>4, <1>6 DEF Phases
  <2>2. QED
    BY <1>3, <1>4, <1>6, <2>1, QuietPhases
<1>8. ASSUME NEW l \in 1..Len(completions)
      PROVE  WindowInv(l)'
  <2>1. CASE l = k
    BY <1>2, <1>3, <1>4, <2>1 DEF WindowInv, Owns
  <2>2. CASE l # k
    BY <1>1, <1>3, <1>4, <2>2 DEF ListsInv, WindowInv, Owns, Leaving, Suspended
  <2>3. QED
    BY <2>1, <2>2
<1>9. WindowsApart'
  BY <1>1, <1>4, <1>6 DEF ListsInv, WindowsApart
<1>10. OneInCharge'
  <2>1. \A l \in 1..Len(completions) : InCharge(l)' <=> InCharge(l)
    BY <1>2, <1>3, <1>4 DEF InCharge, PhaseFull
  <2>2. QED
    BY <1>1, <1>3, <1>4, <2>1 DEF OneInCharge
<1>11. \A l \in 1..Len(completions) : /\ Cuts(l)' <=> Cuts(l)
                                      /\ Cuts(l) => completions'[l] = completions[l]
  BY <1>2, <1>4 DEF Cuts
<1>12. CountMatchesList'
  BY <1>1, <1>3, <1>4, <1>11 DEF CountMatchesList, Cuts, Linking
<1>13. EverybodyInv'
  <2>1. Out' = Out
    <3>1. \A l \in 1..Len(completions) : /\ Keeps(l)' <=> Keeps(l)
                                         /\ Keeps(l) => completions'[l] = completions[l]
      BY <1>2, <1>4 DEF Keeps
    <3>2. QED
      BY <1>3, <1>4, <3>1 DEF Out
  <2>2. \A l \in 1..Len(completions) :
           completions'[l].pc = "resume" => completions'[l] = completions[l]
    BY <1>2, <1>4
  <2>3. QED
    BY <1>1, <1>3, <1>4, <1>11, <2>1, <2>2 DEF EverybodyInv, Everybody
<1>14. QED
  BY <1>4, <1>5, <1>7, <1>8, <1>9, <1>10, <1>12, <1>13 DEF BarrierInv, ListsInv, PhaseAccounted

(* The completion function runs. *)
LEMMA FunctionStep ==
  ASSUME BarrierInv, NEW k \in 1..Len(completions), RunFunction(k)
  PROVE  BarrierInv'
<1>1. BarrierTypeOK /\ ListsInv /\ OneInCharge /\ CountMatchesList /\ EverybodyInv
  BY DEF BarrierInv, PhaseAccounted
<1>2. /\ completions[k].pc = "function"
      /\ Moved(k, "reduce", completions[k].window, Cardinality(Leaving(completions[k].window)),
               completions[k].old)
  BY <1>1, FunctionMoves
<1>3. /\ UNCHANGED <<scenario, workingSet, frameVars>> /\ expected' = expected /\ remaining' = remaining
      /\ at' = at /\ last' = last /\ arrived' = arrived /\ passed' = passed
  BY DEF RunFunction, frameVars
<1>4. /\ completions' \in Seq(Execution) /\ Len(completions') = Len(completions)
      /\ completions'[k].pc = "reduce" /\ completions'[k].window = completions[k].window
      /\ completions'[k].drops = Cardinality(Leaving(completions[k].window))
      /\ \A l \in 1..Len(completions) : l # k => completions'[l] = completions[l]
  BY <1>2 DEF Moved
<1>5. BarrierTypeOK'
  BY <1>1, <1>3, <1>4 DEF BarrierTypeOK
<1>6. \A l \in 1..Len(completions) : /\ Owns(l)' <=> Owns(l)
                                     /\ Cuts(l)' <=> Cuts(l)
                                     /\ Keeps(l)' <=> Keeps(l)
                                     /\ completions'[l].window = completions[l].window
  BY <1>2, <1>4 DEF Owns, Cuts, Keeps
<1>7. FramesInList' /\ PhaseInv'
  <2>1. Phases' = Phases
    BY <1>2, <1>4, <1>6 DEF Phases
  <2>2. QED
    BY <1>3, <1>4, <1>6, <2>1, QuietPhases
<1>8. ASSUME NEW l \in 1..Len(completions)
      PROVE  WindowInv(l)'
  <2>1. CASE l = k
    BY <1>1, <1>2, <1>3, <1>4, <2>1 DEF ListsInv, WindowInv, Owns, Leaving, Suspended
  <2>2. CASE l # k
    BY <1>1, <1>3, <1>4, <2>2 DEF ListsInv, WindowInv, Owns, Leaving, Suspended
  <2>3. QED
    BY <2>1, <2>2
<1>9. WindowsApart'
  BY <1>1, <1>4, <1>6 DEF ListsInv, WindowsApart
<1>10. OneInCharge'
  <2>1. \A l \in 1..Len(completions) : InCharge(l)' <=> InCharge(l)
    BY <1>2, <1>3, <1>4 DEF InCharge, PhaseFull
  <2>2. QED
    BY <1>1, <1>3, <1>4, <2>1 DEF OneInCharge
<1>11. CountMatchesList'
  BY <1>1, <1>3, <1>4, <1>6 DEF CountMatchesList, Cuts, Linking
<1>12. EverybodyInv'
  <2>1. Out' = Out
    BY <1>3, <1>4, <1>6 DEF Out
  <2>2. \A l \in 1..Len(completions) :
           completions'[l].pc = "resume" => completions'[l] = completions[l]
    BY <1>2, <1>4
  <2>3. QED
    BY <1>1, <1>3, <1>4, <1>6, <2>1, <2>2 DEF EverybodyInv, Everybody
<1>13. QED
  BY <1>4, <1>5, <1>7, <1>8, <1>9, <1>10, <1>11, <1>12 DEF BarrierInv, ListsInv, PhaseAccounted

(* Who is in charge is alone. *)
LEMMA AloneInCharge ==
  ASSUME BarrierInv, NEW k \in 1..Len(completions), InCharge(k)
  PROVE  /\ \A l \in 1..Len(completions) : InCharge(l) <=> l = k
         /\ \A f \in Frames : ~ last[f]
         /\ remaining <= 0
BY DEF BarrierInv, PhaseAccounted, OneInCharge

(* count_ is refilled: the execution stays in charge if the next phase is full already. *)
LEMMA RefillStep ==
  ASSUME BarrierInv, NEW k \in 1..Len(completions), Refill(k)
  PROVE  BarrierInv'
<1>1. BarrierTypeOK /\ ListsInv /\ OneInCharge /\ CountMatchesList /\ EverybodyInv
  BY DEF BarrierInv, PhaseAccounted
<1>2. /\ completions[k].pc = "refill"
      /\ Moved(k, "resume", completions[k].window, completions[k].drops, remaining)
  BY <1>1, RefillMoves
<1>3. /\ UNCHANGED <<scenario, workingSet, frameVars>> /\ expected' = expected
      /\ remaining' = remaining + expected
      /\ at' = at /\ last' = last /\ arrived' = arrived /\ passed' = passed
  BY DEF Refill, frameVars
<1>4. /\ completions' \in Seq(Execution) /\ Len(completions') = Len(completions)
      /\ completions'[k].pc = "resume" /\ completions'[k].window = completions[k].window
      /\ completions'[k].old = remaining
      /\ \A l \in 1..Len(completions) : l # k => completions'[l] = completions[l]
  BY <1>2 DEF Moved
<1>5. remaining \in Int /\ expected \in Nat \ {0} /\ Len(workingSet) \in Nat /\ Cardinality(Linking) \in Nat
  BY <1>1, LinkingFacts DEF BarrierTypeOK
<1>6. BarrierTypeOK'
  <2>1. remaining' \in Int
    BY <1>3, <1>5
  <2>2. QED
    BY <1>1, <1>3, <1>4, <2>1 DEF BarrierTypeOK
<1>7. \A l \in 1..Len(completions) : /\ Owns(l)' <=> Owns(l)
                                     /\ Keeps(l)' <=> Keeps(l)
                                     /\ completions'[l].window = completions[l].window
  BY <1>2, <1>4 DEF Owns, Keeps
<1>8. FramesInList' /\ PhaseInv'
  <2>1. Phases' = Phases
    BY <1>2, <1>4, <1>7 DEF Phases
  <2>2. QED
    BY <1>3, <1>4, <1>7, <2>1, QuietPhases
<1>9. ASSUME NEW l \in 1..Len(completions)
      PROVE  WindowInv(l)'
  <2>1. CASE l = k
    BY <1>1, <1>2, <1>3, <1>4, <2>1 DEF ListsInv, WindowInv, Owns, Leaving, Suspended
  <2>2. CASE l # k
    BY <1>1, <1>3, <1>4, <2>2 DEF ListsInv, WindowInv, Owns, Leaving, Suspended
  <2>3. QED
    BY <2>1, <2>2
<1>10. WindowsApart'
  BY <1>1, <1>4, <1>7 DEF ListsInv, WindowsApart
<1>11. /\ \A l \in 1..Len(completions) : InCharge(l) <=> l = k
       /\ \A f \in Frames : ~ last[f]
       /\ remaining <= 0
  <2>1. InCharge(k)
    BY <1>2 DEF InCharge
  <2>2. QED
    BY <2>1, AloneInCharge
<1>12. OneInCharge'
  <2>1. \A l \in 1..Len(completions) : l # k => ~ InCharge(l)'
    BY <1>3, <1>4, <1>11 DEF InCharge, PhaseFull
  <2>2. InCharge(k)' <=> remaining' <= 0
    <3>1. InCharge(k)' <=> remaining <= - expected
      BY <1>3, <1>4 DEF InCharge, PhaseFull
    <3>2. remaining' <= 0 <=> remaining <= - expected
      BY <1>3, <1>5
    <3>3. QED
      BY <3>1, <3>2
  <2>3. QED
    BY <1>3, <1>4, <1>11, <2>1, <2>2 DEF OneInCharge
<1>13. \A l \in 1..Len(completions) : (Cuts(l) <=> l = k) /\ ~ Cuts(l)'
  BY <1>2, <1>4, <1>11 DEF Cuts, InCharge
<1>14. remaining + Len(workingSet) + Cardinality(Linking) = 0
  BY <1>1, <1>13 DEF CountMatchesList, Cuts
<1>15. CountMatchesList'
  <2>1. remaining' + Len(workingSet) + Cardinality(Linking) = expected
    BY <1>3, <1>5, <1>14
  <2>2. Linking' = Linking
    BY <1>3 DEF Linking
  <2>3. QED
    BY <1>3, <1>4, <1>13, <2>1, <2>2 DEF CountMatchesList, Cuts
<1>16. EverybodyInv'
  <2> SUFFICES ASSUME Everybody
               PROVE  /\ expected' = Cardinality(Frames \ Out')
                      /\ \A l \in 1..Len(completions) :
                             completions'[l].pc = "resume" => completions'[l].old = 0
    BY <1>3, <1>4, <1>13 DEF EverybodyInv, Everybody
  <2>1. Out' = Out
    BY <1>3, <1>4, <1>7 DEF Out
  <2>2. workingSet = <<>> /\ \A f \in Frames : at[f] = "gone" \/ f \in ToSet(completions[k].window)
    BY <1>1, <1>13 DEF EverybodyInv
  <2>3. Linking = {}
    <3>1. Owns(k)
      BY <1>2 DEF Owns
    <3>2. \A f \in Frames : Suspended(f)
      BY <2>2, <3>1, ListedFacts DEF Suspended
    <3>3. QED
      BY <3>2 DEF Linking, Suspended
  <2>4. remaining = 0
    <3>1. Cardinality(Linking) = 0 /\ Len(workingSet) = 0
      BY <2>2, <2>3, FS_EmptySet
    <3>2. QED
      BY <1>5, <1>14, <3>1
  <2>5. QED
    BY <1>1, <1>3, <1>4, <2>1, <2>4 DEF EverybodyInv
<1>17. QED
  BY <1>4, <1>6, <1>8, <1>9, <1>10, <1>12, <1>15, <1>16 DEF BarrierInv, ListsInv, PhaseAccounted

(* What expected_ is reduced by are those who leave with the window: somebody
   is still expected, and those who are expected are those who have not
   left. *)
LEMMA ReduceFacts ==
  ASSUME ProperUse, BarrierInv, NEW k \in 1..Len(completions), Reduce(k)
  PROVE  /\ expected' \in Nat \ {0}
         /\ Everybody => expected' = Cardinality(Frames \ Out')
         /\ Everybody \/ expected' = expected
<1>1. BarrierTypeOK /\ ListsInv /\ EverybodyInv
  BY DEF BarrierInv
<1>2. /\ completions[k].pc = "reduce"
      /\ Moved(k, "refill", completions[k].window, completions[k].drops, completions[k].old)
  BY <1>1, ReduceMoves
<1>3. /\ workingSet' = workingSet /\ at' = at /\ expected' = expected - completions[k].drops
  BY DEF Reduce, frameVars
<1>4. /\ Len(completions') = Len(completions) /\ completions'[k].pc = "refill"
      /\ \A l \in 1..Len(completions) : l # k => completions'[l] = completions[l]
  BY <1>2 DEF Moved
<1> DEFINE leaving == Leaving(completions[k].window)
<1>5. completions[k].drops = Cardinality(leaving)
  BY <1>1, <1>2 DEF ListsInv, WindowInv
<1>6. leaving \subseteq Frames /\ IsFiniteSet(leaving) /\ Cardinality(leaving) \in Nat
  BY <1>1, ExecutionFacts, LeavingFacts
<1>7. expected \in Nat \ {0} /\ scenario \in Scenarios
  BY <1>1 DEF BarrierTypeOK
<1>8. \A g \in Frames : at[g] = "gone" => g \in scenario.droppers
  BY <1>1 DEF ListsInv, FramesInList
<1>9. \A g \in leaving : at[g] = "gone" /\ g \in ToSet(completions[k].window)
  BY DEF Leaving
<1>10. scenario.droppers = {} => leaving = {}
  BY <1>6, <1>8, <1>9
<1>11. Out' = Out \cup leaving /\ Out \cap leaving = {}
  <2>1. Keeps(k) /\ Owns(k) /\ ~ Keeps(k)'
    BY <1>2, <1>4 DEF Keeps, Owns
  <2>2. \A l \in 1..Len(completions) : l # k =>
           /\ Keeps(l)' <=> Keeps(l)
           /\ completions'[l].window = completions[l].window
    BY <1>4 DEF Keeps
  <2>3. Out \cap leaving = {}
    BY <1>9, <2>1 DEF Out
  <2>4. ASSUME NEW g \in leaving
        PROVE  g \in Out'
    <3>1. at[g] = "gone" /\ g \notin ToSet(workingSet)
      BY <1>1, <1>9, <2>1 DEF ListsInv, WindowInv
    <3>2. \A l \in 1..Len(completions) : l # k /\ Keeps(l) => g \notin ToSet(completions[l].window)
      BY <1>1, <1>9, <2>1 DEF ListsInv, WindowsApart, Keeps, Owns
    <3>3. QED
      BY <1>3, <1>4, <1>6, <2>1, <2>2, <3>1, <3>2 DEF Out
  <2>5. ASSUME NEW g \in Out
        PROVE  g \in Out'
    BY <1>3, <1>4, <2>1, <2>2 DEF Out
  <2>6. ASSUME NEW g \in Out', g \notin Out
        PROVE  g \in leaving
    <3>1. g \in Frames /\ at[g] = "gone" /\ g \notin ToSet(workingSet)
      BY <1>3 DEF Out
    <3>2. \A l \in 1..Len(completions) : l # k /\ Keeps(l) => g \notin ToSet(completions[l].window)
      BY <1>4, <2>2 DEF Out
    <3>3. g \in ToSet(completions[k].window)
      BY <2>6, <3>1, <3>2 DEF Out
    <3>4. QED
      BY <3>1, <3>3 DEF Leaving
  <2>7. QED
    BY <2>3, <2>4, <2>5, <2>6
<1> HIDE DEF leaving
<1>12. Everybody => expected' = Cardinality(Frames \ Out')
  <2> SUFFICES ASSUME Everybody
               PROVE  expected' = Cardinality(Frames \ Out')
    OBVIOUS
  <2>1. expected = Cardinality(Frames \ Out)
    BY <1>1 DEF EverybodyInv
  <2>2. IsFiniteSet(Frames \ Out) /\ Cardinality(Frames \ Out) \in Nat
    BY BarrierAssumption, FS_Difference, FS_CardinalityType
  <2>3. Frames \ Out' = (Frames \ Out) \ leaving /\ (Frames \ Out) \cap leaving = leaving
    BY <1>6, <1>11
  <2>4. Cardinality(Frames \ Out') = Cardinality(Frames \ Out) - Cardinality(leaving)
    BY <2>2, <2>3, FS_Difference
  <2>5. QED
    BY <1>3, <1>5, <2>1, <2>4
<1>13. CASE scenario.droppers = {}
  <2>1. completions[k].drops = 0
    BY <1>5, <1>10, <1>13, FS_EmptySet
  <2>2. expected' = expected
    BY <1>3, <1>7, <2>1
  <2>3. QED
    BY <1>7, <1>12, <2>2
<1>14. CASE scenario.droppers # {}
  <2>1. Everybody /\ scenario.droppers # Frames /\ scenario.droppers \subseteq Frames
    BY <1>7, <1>14, BarrierAssumption DEF ProperUse, Everybody
  <2>2. PICK g \in Frames : g \notin scenario.droppers
    BY <2>1
  <2>3. g \in Frames \ Out'
    BY <1>3, <1>8, <2>2 DEF Out
  <2>4. IsFiniteSet(Frames \ Out') /\ Cardinality(Frames \ Out') \in Nat
    BY BarrierAssumption, FS_Difference, FS_CardinalityType
  <2>5. Cardinality(Frames \ Out') # 0
    BY <2>3, <2>4, FS_EmptySet
  <2>6. QED
    BY <1>12, <2>1, <2>4, <2>5
<1>15. QED
  BY <1>13, <1>14

(* expected_ is reduced: no execution that has been refilled gets in charge by it. *)
LEMMA ReduceStep ==
  ASSUME ProperUse, BarrierInv, NEW k \in 1..Len(completions), Reduce(k)
  PROVE  BarrierInv'
<1>1. BarrierTypeOK /\ ListsInv /\ OneInCharge /\ CountMatchesList /\ EverybodyInv
  BY DEF BarrierInv, PhaseAccounted
<1>2. /\ completions[k].pc = "reduce"
      /\ Moved(k, "refill", completions[k].window, completions[k].drops, completions[k].old)
  BY <1>1, ReduceMoves
<1>3. /\ UNCHANGED <<scenario, workingSet, frameVars>> /\ remaining' = remaining
      /\ at' = at /\ last' = last /\ arrived' = arrived /\ passed' = passed
  BY DEF Reduce, frameVars
<1>4. /\ completions' \in Seq(Execution) /\ Len(completions') = Len(completions)
      /\ completions'[k].pc = "refill" /\ completions'[k].window = completions[k].window
      /\ \A l \in 1..Len(completions) : l # k => completions'[l] = completions[l]
  BY <1>2 DEF Moved
<1>5. /\ expected' \in Nat \ {0}
      /\ Everybody => expected' = Cardinality(Frames \ Out')
      /\ Everybody \/ expected' = expected
  BY ReduceFacts
<1>6. BarrierTypeOK'
  BY <1>1, <1>3, <1>4, <1>5 DEF BarrierTypeOK
<1>7. \A l \in 1..Len(completions) : /\ Owns(l)' <=> Owns(l)
                                     /\ Cuts(l)' <=> Cuts(l)
                                     /\ completions'[l].window = completions[l].window
  BY <1>2, <1>4 DEF Owns, Cuts
<1>8. FramesInList' /\ PhaseInv'
  <2>1. Phases' = Phases
    BY <1>2, <1>4, <1>7 DEF Phases
  <2>2. QED
    BY <1>3, <1>4, <1>7, <2>1, QuietPhases
<1>9. /\ \A l \in 1..Len(completions) : InCharge(l) <=> l = k
      /\ \A f \in Frames : ~ last[f]
      /\ remaining <= 0
  <2>1. InCharge(k)
    BY <1>2 DEF InCharge
  <2>2. QED
    BY <2>1, AloneInCharge
<1>10. ASSUME NEW l \in 1..Len(completions)
       PROVE  WindowInv(l)'
  <2>1. completions'[l].pc # "trim"
    BY <1>4, <1>9 DEF InCharge
  <2>2. CASE l = k
    BY <1>1, <1>2, <1>3, <1>4, <2>1, <2>2 DEF ListsInv, WindowInv, Owns, Suspended
  <2>3. CASE l # k
    BY <1>1, <1>3, <1>4, <2>1, <2>3 DEF ListsInv, WindowInv, Owns, Leaving, Suspended
  <2>4. QED
    BY <2>2, <2>3
<1>11. WindowsApart'
  BY <1>1, <1>4, <1>7 DEF ListsInv, WindowsApart
<1>12. OneInCharge'
  <2>1. InCharge(k)'
    BY <1>4 DEF InCharge
  <2>2. ASSUME NEW l \in 1..Len(completions), l # k
        PROVE  ~ InCharge(l)'
    <3>1. completions'[l] = completions[l] /\ ~ InCharge(l)
      BY <1>4, <1>9, <2>2
    <3>2. CASE expected' = expected
      BY <3>1, <3>2 DEF InCharge, PhaseFull
    <3>3. CASE Everybody
      <4>1. completions[l].pc = "resume" => ~ completions[l].old <= - expected'
        BY <1>1, <1>5, <3>3 DEF EverybodyInv
      <4>2. QED
        BY <3>1, <4>1 DEF InCharge, PhaseFull
    <3>4. QED
      BY <1>5, <3>2, <3>3
  <2>3. QED
    BY <1>3, <1>4, <1>9, <2>1, <2>2 DEF OneInCharge
<1>13. CountMatchesList'
  <2>1. Cuts(k) /\ Cuts(k)'
    BY <1>2, <1>4 DEF Cuts
  <2>2. Linking' = Linking
    BY <1>3 DEF Linking
  <2>3. remaining + Len(workingSet) + Cardinality(Linking) = 0
    BY <1>1, <2>1 DEF CountMatchesList, Cuts
  <2>4. QED
    BY <1>3, <1>4, <2>1, <2>2, <2>3 DEF CountMatchesList, Cuts
<1>14. EverybodyInv'
  <2>1. \A l \in 1..Len(completions) :
           completions'[l].pc = "resume" => completions'[l] = completions[l]
    BY <1>2, <1>4
  <2>2. QED
    BY <1>1, <1>3, <1>4, <1>5, <1>7, <2>1 DEF EverybodyInv, Everybody
<1>15. QED
  BY <1>4, <1>6, <1>8, <1>10, <1>11, <1>12, <1>13, <1>14 DEF BarrierInv, ListsInv, PhaseAccounted

(* complete_phase() hands a phase that is full over to its next execution. *)
LEMMA AgainStep ==
  ASSUME BarrierInv, NEW k \in 1..Len(completions), ExecuteAgain(k)
  PROVE  BarrierInv'
<1>1. BarrierTypeOK /\ ListsInv /\ OneInCharge /\ CountMatchesList /\ EverybodyInv
  BY DEF BarrierInv, PhaseAccounted
<1>2. /\ UNCHANGED <<scenario, workingSet, frameVars>> /\ expected' = expected /\ remaining' = remaining
      /\ at' = at /\ last' = last /\ arrived' = arrived /\ passed' = passed
  BY DEF ExecuteAgain, frameVars
<1> DEFINE full == PhaseFull(completions[k].old)
<1>3. PICK m \in Nat : m = Len(completions) + 1
  BY <1>1 DEF BarrierTypeOK
<1>4. /\ completions[k].pc = "resume"
      /\ completions' \in Seq(Execution) /\ completions'[k].pc = "done"
      /\ \A l \in 1..Len(completions) : l # k => completions'[l] = completions[l]
      /\ \A l \in 1..Len(completions) : l # m /\ l \in 1..Len(completions')
      /\ \A l \in 1..Len(completions') : l \in 1..Len(completions) \/ (full /\ l = m)
      /\ full => m \in 1..Len(completions') /\ completions'[m].pc = "acquire"
  <2>1. Len(completions) \in Nat
    BY <1>1 DEF BarrierTypeOK
  <2>2. /\ completions[k].pc = "resume"
        /\ completions' \in Seq(Execution) /\ completions'[k].pc = "done"
        /\ \A l \in 1..Len(completions) : l # k => completions'[l] = completions[l]
        /\ IF full THEN Len(completions') = m /\ completions'[m].pc = "acquire"
           ELSE Len(completions') = Len(completions)
    BY <1>1, <1>3, EndMoves
  <2> HIDE DEF full
  <2>3. QED
    BY <1>3, <2>1, <2>2
<1>5. InCharge(k) <=> full
  BY <1>4 DEF InCharge
<1> HIDE DEF full
<1>6. BarrierTypeOK'
  BY <1>1, <1>2, <1>4 DEF BarrierTypeOK
<1>7. \A l \in 1..Len(completions') :
         /\ Owns(l)' => l \in 1..Len(completions) /\ l # k /\ Owns(l)
         /\ Cuts(l)' <=> l \in 1..Len(completions) /\ Cuts(l)
         /\ Keeps(l)' <=> l \in 1..Len(completions) /\ Keeps(l)
  BY <1>4 DEF Owns, Cuts, Keeps
<1>8. \A l \in 1..Len(completions) : l # k => completions'[l].window = completions[l].window
  BY <1>4
<1>9. FramesInList' /\ PhaseInv'
  <2>1. Phases' = Phases
    BY <1>4 DEF Phases, Owns
  <2>2. QED
    BY <1>2, <1>7, <1>8, <2>1, QuietPhases
<1>10. ASSUME NEW l \in 1..Len(completions')
       PROVE  WindowInv(l)'
  <2>1. CASE l = k \/ l \notin 1..Len(completions)
    BY <1>4, <2>1 DEF WindowInv, Owns
  <2>2. CASE l # k /\ l \in 1..Len(completions)
    BY <1>1, <1>2, <1>4, <2>2 DEF ListsInv, WindowInv, Owns, Leaving, Suspended
  <2>3. QED
    BY <2>1, <2>2
<1>11. WindowsApart'
  BY <1>1, <1>7, <1>8 DEF ListsInv, WindowsApart
<1>12. OneInCharge'
  <2>1. \A l \in 1..Len(completions) : l # k => (InCharge(l)' <=> InCharge(l))
    BY <1>2, <1>4 DEF InCharge, PhaseFull
  <2>2. ~ InCharge(k)'
    BY <1>4 DEF InCharge
  <2>3. CASE full
    <3>1. /\ \A l \in 1..Len(completions) : InCharge(l) <=> l = k
          /\ \A f \in Frames : ~ last[f]
          /\ remaining <= 0
      BY <1>5, <2>3, AloneInCharge
    <3>2. InCharge(m)'
      BY <1>4, <2>3 DEF InCharge
    <3>3. \A l \in 1..Len(completions') : InCharge(l)' <=> l = m
      BY <1>4, <2>1, <2>2, <3>1, <3>2
    <3>4. QED
      BY <1>2, <1>4, <2>3, <3>1, <3>2, <3>3 DEF OneInCharge
  <2>4. CASE ~ full
    <3>1. \A l : l \in 1..Len(completions') <=> l \in 1..Len(completions)
      BY <1>4, <2>4
    <3>2. \A l \in 1..Len(completions) : InCharge(l)' <=> InCharge(l)
      BY <1>5, <2>1, <2>2, <2>4
    <3>3. QED
      BY <1>1, <1>2, <3>1, <3>2 DEF OneInCharge
  <2>5. QED
    BY <2>3, <2>4
<1>13. CountMatchesList'
  <2>1. Linking' = Linking
    BY <1>2 DEF Linking
  <2>2. (\E l \in 1..Len(completions') : Cuts(l)') <=> \E l \in 1..Len(completions) : Cuts(l)
    BY <1>4, <1>7
  <2>3. QED
    BY <1>1, <1>2, <2>1, <2>2 DEF CountMatchesList, Cuts
<1>14. EverybodyInv'
  <2>1. Out' = Out
    <3>1. \A l \in 1..Len(completions) : Keeps(l) => l # k
      BY <1>4 DEF Keeps
    <3>2. QED
      BY <1>2, <1>4, <1>7, <1>8, <3>1 DEF Out
  <2>2. \A l \in 1..Len(completions') : completions'[l].pc = "resume" =>
           l \in 1..Len(completions) /\ completions'[l] = completions[l]
    BY <1>4
  <2>3. \A l \in 1..Len(completions') : Cuts(l)' =>
           l \in 1..Len(completions) /\ Cuts(l) /\ completions'[l] = completions[l]
    BY <1>4, <1>7 DEF Cuts
  <2>4. QED
    BY <1>1, <1>2, <2>1, <2>2, <2>3 DEF EverybodyInv, Everybody
<1>15. QED
  BY <1>6, <1>9, <1>10, <1>11, <1>12, <1>13, <1>14 DEF BarrierInv, ListsInv, PhaseAccounted

(* A frame of the window is resumed: it is in no other window and not in the list. *)
LEMMA ResumeFrameStep ==
  ASSUME BarrierInv, NEW k \in 1..Len(completions), ResumeFrame(k)
  PROVE  BarrierInv'
<1>1. BarrierTypeOK /\ ListsInv /\ OneInCharge /\ CountMatchesList /\ EverybodyInv /\ PhaseInv
  BY DEF BarrierInv, PhaseAccounted
<1>2. /\ completions[k].pc = "resume" /\ completions[k].window # <<>>
      /\ Moved(k, "resume", Tail(completions[k].window), completions[k].drops, completions[k].old)
  BY <1>1, ResumeMoves
<1>3. PICK f \in Frames :
         /\ f = completions[k].window[1] /\ f \in ToSet(completions[k].window)
         /\ Tail(completions[k].window) \in Seq(Frames) /\ IsInjective(Tail(completions[k].window))
         /\ ToSet(Tail(completions[k].window)) = ToSet(completions[k].window) \ {f}
  <2>1. completions[k].window \in Seq(Frames)
    BY <1>1, ExecutionFacts
  <2>2. IsInjective(completions[k].window)
    BY <1>1, <1>2 DEF ListsInv, WindowInv, Owns
  <2>3. QED
    BY <1>2, <2>1, <2>2, TailFacts
<1>4. /\ UNCHANGED <<scenario, expected, remaining, workingSet, last, arrived, passed>>
      /\ at' = [at EXCEPT ![f] = IF at[f] = "gone" THEN "gone" ELSE "posted"]
  BY <1>3 DEF ResumeFrame
<1>5. \A g \in Frames : at'[g] = IF g = f THEN IF at[f] = "gone" THEN "gone" ELSE "posted" ELSE at[g]
  BY <1>1, <1>4 DEF BarrierTypeOK
<1>6. /\ completions' \in Seq(Execution) /\ Len(completions') = Len(completions)
      /\ completions'[k].pc = "resume" /\ completions'[k].window = Tail(completions[k].window)
      /\ completions'[k].old = completions[k].old
      /\ \A l \in 1..Len(completions) : l # k => completions'[l] = completions[l]
  BY <1>2 DEF Moved
<1>7. /\ Owns(k) /\ Owns(k)' /\ Suspended(f) /\ f \notin ToSet(workingSet)
      /\ at[f] \in {"waiting", "gone"}
  BY <1>1, <1>2, <1>3, <1>6 DEF ListsInv, WindowInv, Owns, Suspended
<1>8. BarrierTypeOK'
  <2>1. at' \in [Frames -> {"running", "linking", "dropping", "waiting", "gone", "posted"}]
    BY <1>1, <1>4 DEF BarrierTypeOK
  <2>2. QED
    BY <1>1, <1>4, <1>6, <2>1 DEF BarrierTypeOK
<1>9. \A l \in 1..Len(completions) : /\ completions'[l].pc = completions[l].pc
                                     /\ completions'[l].old = completions[l].old
                                     /\ l # k => completions'[l].window = completions[l].window
                                     /\ ToSet(completions'[l].window) \subseteq ToSet(completions[l].window)
  BY <1>2, <1>3, <1>6
<1>10. \A l \in 1..Len(completions) : Owns(l) => f \notin ToSet(completions'[l].window)
  <2>1. f \notin ToSet(completions'[k].window)
    BY <1>3, <1>6
  <2>2. \A l \in 1..Len(completions) : l # k /\ Owns(l) => f \notin ToSet(completions[l].window)
    BY <1>1, <1>3, <1>7 DEF ListsInv, WindowsApart
  <2>3. QED
    BY <1>9, <2>1, <2>2
<1>11. \A l \in 1..Len(completions) : /\ Owns(l)' <=> Owns(l)
                                      /\ Cuts(l)' <=> Cuts(l)
                                      /\ Keeps(l)' <=> Keeps(l)
                                      /\ Cuts(l) \/ Keeps(l) => l # k
                                      /\ InCharge(l)' <=> InCharge(l)
  BY <1>2, <1>4, <1>9 DEF Owns, Cuts, Keeps, InCharge, PhaseFull
<1>12. FramesInList'
  <2>1. FramesInList
    BY <1>1 DEF ListsInv
  <2>2. \A g \in Frames : /\ last'[g] => at'[g] \in {"linking", "dropping"}
                          /\ at'[g] \in {"dropping", "gone"} => g \in scenario'.droppers
    <3> SUFFICES ASSUME NEW g \in Frames
                 PROVE  /\ last[g] => at'[g] \in {"linking", "dropping"}
                        /\ at'[g] \in {"dropping", "gone"} => g \in scenario.droppers
      BY <1>4
    <3>1. /\ last[g] => at[g] \in {"linking", "dropping"}
          /\ at[g] \in {"dropping", "gone"} => g \in scenario.droppers
      BY <2>1 DEF FramesInList
    <3>2. CASE g = f
      BY <1>5, <1>7, <3>1, <3>2
    <3>3. CASE g # f
      BY <1>5, <3>1, <3>3
    <3>4. QED
      BY <3>2, <3>3
  <2>3. \A g \in ToSet(workingSet) : Suspended(g)'
    BY <1>5, <1>7, ListedFacts DEF Suspended
  <2>4. QED
    BY <1>4, <2>1, <2>2, <2>3 DEF FramesInList
<1>13. ASSUME NEW l \in 1..Len(completions)
       PROVE  WindowInv(l)'
  <2>1. WindowInv(l)
    BY <1>1 DEF ListsInv
  <2>2. ASSUME Owns(l), NEW g \in ToSet(completions'[l].window)
        PROVE  Suspended(g)' /\ g \notin ToSet(workingSet') /\ at'[g] = at[g]
    <3>1. g \in Frames /\ g # f /\ Suspended(g) /\ g \notin ToSet(workingSet)
      BY <1>9, <1>10, <2>1, <2>2, ListedFacts DEF WindowInv
    <3>2. QED
      BY <1>4, <1>5, <3>1 DEF Suspended
  <2>3. Owns(l) => IsInjective(completions'[l].window)
    BY <1>3, <1>6, <2>1 DEF WindowInv
  <2>4. completions[l].pc = "reduce" =>
           /\ completions'[l] = completions[l]
           /\ {g \in ToSet(completions'[l].window) : at'[g] = "gone"} = Leaving(completions[l].window)
    BY <1>2, <1>6, <2>2 DEF Leaving, Owns
  <2>5. completions[l].pc = "trim" => completions'[l] = completions[l]
    BY <1>2, <1>6
  <2>6. QED
    BY <1>4, <1>9, <1>11, <2>1, <2>2, <2>3, <2>4, <2>5 DEF WindowInv, Leaving
<1>14. WindowsApart'
  <2> SUFFICES ASSUME NEW i \in 1..Len(completions), NEW j \in 1..Len(completions), i # j, Owns(i), Owns(j)
               PROVE  ToSet(completions'[i].window) \cap ToSet(completions'[j].window) = {}
    BY <1>6, <1>11 DEF WindowsApart
  <2>1. ToSet(completions[i].window) \cap ToSet(completions[j].window) = {}
    BY <1>1 DEF ListsInv, WindowsApart
  <2>2. QED
    BY <1>9, <2>1
<1>15. OneInCharge'
  BY <1>1, <1>4, <1>6, <1>11 DEF OneInCharge
<1>16. CountMatchesList'
  <2>1. Linking' = Linking
    BY <1>5, <1>7, LinkingFacts
  <2>2. QED
    BY <1>1, <1>4, <1>6, <1>11, <2>1 DEF CountMatchesList, Cuts
<1>17. EverybodyInv'
  <2>1. \A g \in Frames : at'[g] = "gone" <=> at[g] = "gone"
    BY <1>5
  <2>2. Out' = Out
    BY <1>4, <1>6, <1>9, <1>11, <2>1 DEF Out
  <2>3. QED
    BY <1>1, <1>4, <1>6, <1>9, <1>11, <2>1, <2>2 DEF EverybodyInv, Everybody
<1>18. PhaseInv'
  <2> SUFFICES ASSUME Everybody, NEW g \in Frames
               PROVE  InPhase(g, Cardinality(Phases))'
    BY <1>4 DEF PhaseInv, Everybody
  <2>1. Phases' = Phases
    BY <1>6, <1>9, <1>11 DEF Phases
  <2>2. PICK n \in Nat : n = Cardinality(Phases)
    BY <1>1, PhasesFacts
  <2>3. InPhase(g, n)
    BY <1>1, <2>2 DEF PhaseInv
  <2>4. arrived[g] \in Nat /\ passed[g] \in Nat
    BY <1>1 DEF BarrierTypeOK
  <2>5. InPhase(g, n)'
    <3>1. CASE g = f
      <4>1. /\ at[f] = "waiting" => arrived[f] = n /\ passed[f] = n - 1
            /\ passed[f] <= n
        BY <1>3, <1>7, <2>2, <2>3, <2>4, <3>1 DEF InPhase
      <4>2. at'[f] = IF at[f] = "gone" THEN "gone" ELSE "posted"
        BY <1>5
      <4>3. QED
        BY <1>4, <1>7, <3>1, <4>1, <4>2 DEF InPhase
    <3>2. CASE g # f
      <4>1. at'[g] = at[g]
        BY <1>5, <3>2
      <4>2. QED
        BY <1>4, <1>6, <1>9, <1>11, <2>3, <4>1 DEF InPhase
    <3>3. QED
      BY <3>1, <3>2
  <2>6. QED
    BY <2>1, <2>2, <2>5
<1>19. QED
  BY <1>6, <1>8, <1>12, <1>13, <1>14, <1>15, <1>16, <1>17, <1>18
  DEF BarrierInv, ListsInv, PhaseAccounted

(* The window is cut out.  When everybody is expected, nobody stays in the list. *)
LEMMA TrimStep ==
  ASSUME BarrierInv, NEW k \in 1..Len(completions), Trim(k)
  PROVE  BarrierInv'
<1>1. BarrierTypeOK /\ ListsInv /\ OneInCharge /\ CountMatchesList /\ EverybodyInv /\ PhaseInv
  BY DEF BarrierInv, PhaseAccounted
<1>2. /\ completions[k].pc = "trim"
      /\ Moved(k, "function", completions[k].window, completions[k].drops, completions[k].old)
  BY <1>1, TrimMoves
<1>3. /\ scenario' = scenario /\ expected' = expected /\ remaining' = remaining
      /\ at' = at /\ last' = last /\ arrived' = arrived /\ passed' = passed
  BY DEF Trim, frameVars
<1>4. /\ completions' \in Seq(Execution) /\ Len(completions') = Len(completions)
      /\ completions'[k].pc = "function" /\ completions'[k].window = completions[k].window
      /\ \A l \in 1..Len(completions) : l # k => completions'[l] = completions[l]
  BY <1>2 DEF Moved
<1> DEFINE w == completions[k].window
<1>5. /\ workingSet \in Seq(Frames) /\ IsInjective(workingSet) /\ expected \in Nat \ {0}
      /\ expected <= Len(workingSet) /\ w = Window(workingSet, expected)
      /\ Len(workingSet) \in Nat
  <2>1. workingSet \in Seq(Frames) /\ expected \in Nat \ {0} /\ Len(workingSet) \in Nat
    BY <1>1 DEF BarrierTypeOK
  <2>2. IsInjective(workingSet)
    BY <1>1 DEF ListsInv, FramesInList
  <2>3. Len(workingSet) >= expected /\ w = Window(workingSet, expected)
    BY <1>1, <1>2 DEF ListsInv, WindowInv
  <2>4. QED
    BY <2>1, <2>2, <2>3
<1>6. /\ w \in Seq(Frames) /\ Len(w) = expected /\ IsInjective(w)
      /\ workingSet' \in Seq(Frames) /\ Len(workingSet') = Len(workingSet) - expected
      /\ IsInjective(workingSet')
      /\ ToSet(workingSet') \cap ToSet(w) = {}
      /\ ToSet(workingSet') \cup ToSet(w) = ToSet(workingSet)
  <2> DEFINE r == SubSeq(workingSet, 1, Place(workingSet, w[1]) - 1)
  <2>1. /\ w \in Seq(Frames) /\ Len(w) = expected /\ IsInjective(w)
        /\ Contains(workingSet, w[1])
        /\ r \in Seq(Frames) /\ Len(r) = Len(workingSet) - expected /\ IsInjective(r)
        /\ ToSet(r) \cap ToSet(w) = {}
        /\ ToSet(r) \cup ToSet(w) = ToSet(workingSet)
    BY <1>5, CutFacts
  <2>2. workingSet' = r
    BY <2>1 DEF Trim
  <2> HIDE DEF r
  <2>3. QED
    BY <2>1, <2>2
<1> HIDE DEF w
<1>7. BarrierTypeOK'
  BY <1>1, <1>3, <1>4, <1>6 DEF BarrierTypeOK
<1>8. \A f \in ToSet(workingSet) : f \in Frames /\ Suspended(f)
  BY ListedFacts
<1>9. FramesInList'
  BY <1>1, <1>3, <1>6, <1>8 DEF ListsInv, FramesInList, Suspended
<1>10. /\ \A l \in 1..Len(completions) : InCharge(l) <=> l = k
       /\ \A f \in Frames : ~ last[f]
       /\ remaining <= 0
  <2>1. InCharge(k)
    BY <1>2 DEF InCharge
  <2>2. QED
    BY <2>1, AloneInCharge
<1>11. \A l \in 1..Len(completions) :
          /\ completions'[l].window = completions[l].window
          /\ l # k => /\ completions'[l] = completions[l]
                      /\ completions[l].pc \notin {"acquire", "trim", "function", "reduce", "refill"}
  BY <1>4, <1>10 DEF InCharge
<1>12. ASSUME NEW l \in 1..Len(completions)
       PROVE  WindowInv(l)'
  <2>1. CASE l = k
    <3>1. \A f \in ToSet(w) : Suspended(f) /\ f \notin ToSet(workingSet')
      BY <1>6, <1>8
    <3>2. QED
      BY <1>3, <1>4, <1>6, <2>1, <3>1 DEF WindowInv, Suspended, w
  <2>2. CASE l # k
    <3>1. WindowInv(l) /\ \A f \in ToSet(workingSet') : f \in ToSet(workingSet)
      BY <1>1, <1>6 DEF ListsInv
    <3>2. QED
      BY <1>3, <1>11, <2>2, <3>1 DEF WindowInv, Suspended, Owns
  <2>3. QED
    BY <2>1, <2>2
<1>13. WindowsApart'
  <2> SUFFICES ASSUME NEW i \in 1..Len(completions), NEW j \in 1..Len(completions), i # j, Owns(i)', Owns(j)'
               PROVE  ToSet(completions[i].window) \cap ToSet(completions[j].window) = {}
    BY <1>4, <1>11 DEF WindowsApart
  <2>1. ASSUME NEW l \in 1..Len(completions), l # k, Owns(l)'
        PROVE  Owns(l) /\ ToSet(completions[l].window) \cap ToSet(w) = {}
    <3>1. Owns(l)
      BY <1>11, <2>1 DEF Owns
    <3>2. \A f \in ToSet(completions[l].window) : f \notin ToSet(workingSet)
      BY <1>1, <3>1 DEF ListsInv, WindowInv
    <3>3. QED
      BY <1>6, <3>1, <3>2
  <2>2. CASE i = k
    BY <2>1, <2>2 DEF w
  <2>3. CASE j = k
    BY <2>1, <2>3 DEF w
  <2>4. CASE i # k /\ j # k
    BY <1>1, <2>1, <2>4 DEF ListsInv, WindowsApart
  <2>5. QED
    BY <2>2, <2>3, <2>4
<1>14. OneInCharge'
  <2>1. \A l \in 1..Len(completions) : InCharge(l)' <=> InCharge(l)
    BY <1>2, <1>3, <1>4 DEF InCharge, PhaseFull
  <2>2. QED
    BY <1>1, <1>3, <1>4, <2>1 DEF OneInCharge
<1>15. CountMatchesList'
  <2>1. \A l \in 1..Len(completions) : completions[l].pc \notin {"function", "reduce", "refill"}
    BY <1>2, <1>11
  <2>2. remaining + Len(workingSet) + Cardinality(Linking) = expected
    BY <1>1, <2>1 DEF CountMatchesList
  <2>3. Linking' = Linking /\ Cardinality(Linking) \in Nat /\ remaining \in Int
    BY <1>1, <1>3, LinkingFacts DEF BarrierTypeOK
  <2>4. remaining + Len(workingSet') + Cardinality(Linking) = 0
    BY <1>5, <1>6, <2>2, <2>3
  <2>5. QED
    BY <1>3, <1>4, <2>3, <2>4 DEF CountMatchesList
<1>16. Out' = Out
  <2>1. ASSUME NEW f \in Frames
        PROVE  f \in Out' <=> f \in Out
    <3>1. \A l \in 1..Len(completions) : Keeps(l)' <=> l = k
      BY <1>4, <1>11 DEF Keeps
    <3>2. \A l \in 1..Len(completions) : ~ Keeps(l)
      BY <1>2, <1>11 DEF Keeps
    <3>3. f \in Out' <=> at[f] = "gone" /\ f \notin ToSet(workingSet') /\ f \notin ToSet(w)
      BY <1>3, <1>4, <3>1 DEF Out, w
    <3>4. f \in Out <=> at[f] = "gone" /\ f \notin ToSet(workingSet)
      BY <3>2 DEF Out
    <3>5. QED
      BY <1>6, <3>3, <3>4
  <2>2. QED
    BY <2>1 DEF Out
<1>17. Everybody => workingSet' = <<>> /\ \A f \in Frames : at[f] = "gone" \/ f \in ToSet(w)
  <2> SUFFICES ASSUME Everybody
               PROVE  workingSet' = <<>> /\ \A f \in Frames : at[f] = "gone" \/ f \in ToSet(w)
    OBVIOUS
  <2>1. expected = Cardinality(Frames \ Out) /\ IsFiniteSet(Frames \ Out)
    BY <1>1, BarrierAssumption, FS_Difference DEF EverybodyInv
  <2>2. ToSet(workingSet) \subseteq Frames \ Out
    BY <1>8 DEF Out
  <2>3. ToSet(w) \subseteq Frames \ Out
    BY <1>6, <2>2
  <2>4. Cardinality(ToSet(w)) = expected
    BY <1>6, InjectiveLength DEF IsInjective
  <2>5. ToSet(w) = Frames \ Out
    BY <2>1, <2>3, <2>4, FS_Subset
  <2>6. \A f \in Frames : at[f] = "gone" \/ f \in ToSet(w)
    BY <2>5 DEF Out
  <2>7. ToSet(workingSet') = {}
    BY <1>6, <2>2, <2>5
  <2>8. workingSet' = <<>>
    BY <1>6, <2>7 DEF ToSet
  <2>9. QED
    BY <2>6, <2>8
<1>18. EverybodyInv'
  <2>1. \A l \in 1..Len(completions) : Cuts(l)' <=> l = k
    BY <1>4, <1>11 DEF Cuts
  <2>2. \A l \in 1..Len(completions) : completions'[l].pc = "resume" => completions'[l] = completions[l]
    BY <1>4
  <2>3. QED
    BY <1>1, <1>3, <1>4, <1>16, <1>17, <2>1, <2>2 DEF EverybodyInv, Everybody, w
<1>19. PhaseInv'
  <2> SUFFICES ASSUME Everybody, NEW g \in Frames
               PROVE  InPhase(g, Cardinality(Phases))'
    BY <1>3 DEF PhaseInv, Everybody
  <2>1. PICK n \in Nat : n = Cardinality(Phases)
    BY <1>1, PhasesFacts
  <2>2. Cardinality(Phases') = n + 1
    <3>1. Phases' = Phases \cup {k} /\ k \notin Phases
      BY <1>2, <1>4 DEF Phases, Owns
    <3>2. QED
      BY <1>1, <2>1, <3>1, PhasesFacts, FS_AddElement
  <2>3. InPhase(g, n)
    BY <1>1, <2>1 DEF PhaseInv
  <2>4. arrived[g] \in Nat /\ passed[g] \in Nat
    BY <1>1 DEF BarrierTypeOK
  <2>5. PICK m \in Nat : m = n + 1
    OBVIOUS
  <2>6. InPhase(g, m)'
    <3>1. CASE at[g] = "gone"
      BY <1>3, <2>3, <2>4, <2>5, <3>1 DEF InPhase
    <3>2. CASE at[g] # "gone"
      <4>1. g \in ToSet(w) /\ g \in ToSet(workingSet)
        BY <1>6, <1>17, <3>2
      <4>2. at[g] = "waiting"
        BY <1>8, <3>2, <4>1 DEF Suspended
      <4>3. arrived[g] = m /\ passed[g] = m - 1
        BY <2>3, <2>4, <2>5, <4>1, <4>2 DEF InPhase
      <4>4. g \notin ToSet(workingSet')
        BY <1>6, <4>1
      <4>5. QED
        BY <1>3, <4>2, <4>3, <4>4 DEF InPhase
    <3>3. QED
      BY <3>1, <3>2
  <2>7. QED
    BY <2>2, <2>5, <2>6
<1>20. QED
  BY <1>4, <1>7, <1>9, <1>12, <1>13, <1>14, <1>15, <1>18, <1>19
  DEF BarrierInv, ListsInv, PhaseAccounted

(* The inductive invariant of the barrier. *)
LEMMA BarrierInvariant ==
  ASSUME ProperUse
  PROVE  BarrierSpec => []BarrierInv
<1>1. BarrierInit => BarrierInv
  <2> SUFFICES ASSUME BarrierInit
               PROVE  BarrierInv
    OBVIOUS
  <2> USE DEF BarrierInit
  <2>1. scenario \in Scenarios /\ scenario.expected \in Nat \ {0}
    BY BarrierAssumption
  <2>2. workingSet = <<>> /\ completions = <<>> /\ Len(completions) = 0 /\ Len(workingSet) = 0
    OBVIOUS
  <2>3. \A f \in Frames : at[f] = "running" /\ ~ last[f] /\ arrived[f] = 0 /\ passed[f] = 0
    OBVIOUS
  <2>4. BarrierTypeOK
    <3>1. last \in [Frames -> BOOLEAN]
      BY Zenon
    <3>2. workingSet \in Seq(Frames) /\ completions \in Seq(Execution)
      BY EmptySeq
    <3>3. /\ at \in [Frames -> {"running", "linking", "dropping", "waiting", "gone", "posted"}]
          /\ arrived \in [Frames -> Nat] /\ passed \in [Frames -> Nat]
      OBVIOUS
    <3>4. expected \in Nat \ {0} /\ remaining \in Int
      BY <2>1
    <3>5. QED
      BY <2>1, <3>1, <3>2, <3>3, <3>4 DEF BarrierTypeOK
  <2>5. ListsInv
    BY <2>2, <2>3 DEF ListsInv, FramesInList, WindowsApart, IsInjective, ToSet
  <2>6. OneInCharge
    BY <2>1, <2>2, <2>3 DEF OneInCharge
  <2>7. Linking = {} /\ Out = {}
    BY <2>3 DEF Linking, Out
  <2>8. CountMatchesList
    BY <2>1, <2>2, <2>7, FS_EmptySet DEF CountMatchesList
  <2>9. EverybodyInv
    <3>1. Frames \ Out = Frames
      BY <2>7
    <3>2. Everybody => expected = Cardinality(Frames \ Out)
      BY <3>1, Zenon DEF Everybody
    <3>3. \A k \in 1..Len(completions) : FALSE
      BY <2>2
    <3>4. QED
      BY <3>2, <3>3, Zenon DEF EverybodyInv
  <2>10. PhaseInv
    <3>1. Phases = {}
      BY <2>2 DEF Phases
    <3>2. Cardinality(Phases) = 0
      BY <3>1, FS_EmptySet
    <3>3. \A f \in Frames : InPhase(f, 0)
      BY <2>2, <2>3 DEF InPhase
    <3>4. QED
      BY <3>2, <3>3 DEF PhaseInv
  <2>11. QED
    BY <2>4, <2>5, <2>6, <2>8, <2>9, <2>10 DEF BarrierInv, PhaseAccounted
<1>2. ASSUME BarrierInv, [BarrierNext]_barrierVars
      PROVE  BarrierInv'
  <2>1. ASSUME NEW f \in Frames, ArriveAndWait(f)
        PROVE  BarrierInv'
    BY <1>2, <2>1, SubtractStep DEF ArriveAndWait
  <2>2. ASSUME NEW f \in Frames, ArriveAndDrop(f)
        PROVE  BarrierInv'
    BY <1>2, <2>2, SubtractStep DEF ArriveAndDrop
  <2>3. ASSUME NEW f \in Frames, Link(f) \/ BarrierResume(f)
        PROVE  BarrierInv'
    BY <1>2, <2>3, LinkStep, BarrierResumeStep
  <2>4. ASSUME NEW k \in 1..Len(completions), CompleteStep(k)
        PROVE  BarrierInv'
    BY <1>2, <2>4, AcquireStep, TrimStep, FunctionStep, ReduceStep, RefillStep, ResumeFrameStep, AgainStep
    DEF CompleteStep
  <2>5. CASE UNCHANGED barrierVars
    <3> USE <1>2, <2>5 DEF BarrierInv, barrierVars, frameVars
    <3>1. BarrierTypeOK'
      BY DEF BarrierTypeOK
    <3>2. ListsInv'
      <4>1. FramesInList'
        BY DEF ListsInv, FramesInList, Suspended
      <4>2. completions' = completions
        OBVIOUS
      <4>3. ASSUME NEW k \in 1..Len(completions)
            PROVE  WindowInv(k)'
        <5>1. WindowInv(k)
          BY DEF ListsInv
        <5>2. QED
          BY <5>1 DEF WindowInv, Owns, Suspended, Leaving
      <4>4. WindowsApart'
        BY DEF ListsInv, WindowsApart, Owns
      <4>5. QED
        BY <4>1, <4>2, <4>3, <4>4, Zenon DEF ListsInv
    <3>3. PhaseAccounted'
      BY DEF PhaseAccounted, OneInCharge, CountMatchesList, InCharge, PhaseFull, Linking
    <3>4. EverybodyInv'
      BY DEF EverybodyInv, Everybody, Cuts, Out, Keeps
    <3>5. PhaseInv'
      BY DEF PhaseInv, Everybody, InPhase, Phases, Owns
    <3>6. QED
      BY <3>1, <3>2, <3>3, <3>4, <3>5
  <2>6. QED
    BY <1>2, <2>1, <2>2, <2>3, <2>4, <2>5 DEF BarrierNext
<1>3. QED
  BY <1>1, <1>2, PTL DEF BarrierSpec

(* Every phase of the barrier is completed once, by exactly one execution of
   complete_phase(), and count_ agrees with the list, for any number of frames
   and of early arrivals; where frames may leave, everybody must be expected
   and one must stay. *)
THEOREM PhasesAreAccounted ==
  ASSUME ProperUse
  PROVE  BarrierSpec => []PhaseAccounted
<1>1. BarrierInv => PhaseAccounted
  BY DEF BarrierInv
<1>2. QED
  BY <1>1, BarrierInvariant, PTL

(* Nobody passes arrive_and_wait() before everybody who still takes part has
   arrived as often. *)
THEOREM NobodyGetsAhead ==
  ASSUME ProperUse
  PROVE  BarrierSpec => []NobodyAhead
<1>1. BarrierInv => NobodyAhead
  <2> SUFFICES ASSUME BarrierInv, Everybody, NEW f \in Frames, NEW g \in Frames, at[g] # "gone"
               PROVE  passed[f] <= arrived[g]
    BY DEF NobodyAhead, Everybody
  <2>1. BarrierTypeOK /\ PhaseInv
    BY DEF BarrierInv
  <2>2. PICK n \in Nat : n = Cardinality(Phases)
    BY <2>1, PhasesFacts
  <2>3. InPhase(f, n) /\ InPhase(g, n)
    BY <2>1, <2>2 DEF PhaseInv
  <2>4. /\ at[g] \in {"running", "linking", "dropping", "waiting", "gone", "posted"}
        /\ arrived[g] \in Nat /\ passed[f] \in Nat
    BY <2>1 DEF BarrierTypeOK
  <2>5. arrived[g] >= n
    BY <2>3, <2>4 DEF InPhase
  <2>6. passed[f] <= n
    BY <2>3 DEF InPhase
  <2>7. QED
    BY <2>4, <2>5, <2>6
<1>2. QED
  BY <1>1, BarrierInvariant, PTL

(* Under the same conditions complete_phase() never begins before the frames of
   a whole phase are linked or about to be, which is what line 592 says of it
   and what does not hold when they are not met. *)
THEOREM BeginsWithAPhase ==
  ASSUME ProperUse
  PROVE  BarrierSpec => []BegunWhenWaiting
<1>1. BarrierInv => BegunWhenWaiting
  <2> SUFFICES ASSUME BarrierInv, NEW k \in 1..Len(completions), completions[k].pc = "acquire"
               PROVE  Len(workingSet) + Cardinality(Linking) >= expected
    BY DEF BegunWhenWaiting, BarrierInv, BarrierTypeOK, WindowSize
  <2>1. BarrierTypeOK /\ CountMatchesList
    BY DEF BarrierInv, PhaseAccounted
  <2>2. InCharge(k)
    BY DEF InCharge
  <2>3. /\ \A l \in 1..Len(completions) : InCharge(l) <=> l = k
        /\ remaining <= 0
    BY <2>2, AloneInCharge
  <2>4. \A l \in 1..Len(completions) : completions[l].pc \notin {"function", "reduce", "refill"}
    BY <2>3 DEF InCharge
  <2>5. remaining + Len(workingSet) + Cardinality(Linking) = expected
    BY <2>1, <2>4 DEF CountMatchesList
  <2>6. /\ remaining \in Int /\ expected \in Nat /\ Len(workingSet) \in Nat
        /\ Cardinality(Linking) \in Nat
    BY <2>1, LinkingFacts DEF BarrierTypeOK
  <2>7. QED
    BY <2>3, <2>5, <2>6
<1>2. QED
  BY <1>1, BarrierInvariant, PTL

-----------------------------------------------------------------------------
(***************************************************************************)
(* The awaitables.                                                         *)
(***************************************************************************)

(* What replacing, adding and removing the innermost function leaves of a
   stack on which all the others only return. *)
LEMMA StackFacts ==
  ASSUME NEW S, NEW s \in Seq(S), NEW x \in S
  PROVE  /\ <<x>> \o s \in Seq(S) /\ <<x>> \o s # <<>> /\ (<<x>> \o s)[1] = x
         /\ \A i \in DOMAIN (<<x>> \o s) : i # 1 => \E j \in DOMAIN s : (<<x>> \o s)[i] = s[j]
         /\ s # <<>> =>
               /\ Tail(s) \in Seq(S)
               /\ \A i \in DOMAIN Tail(s) : \E j \in DOMAIN s : j # 1 /\ Tail(s)[i] = s[j]
<1> DEFINE t == <<x>> \o s
<1>1. /\ Len(s) \in Nat /\ DOMAIN s = 1 .. Len(s) /\ t \in Seq(S) /\ Len(t) = Len(s) + 1
      /\ DOMAIN t = 1 .. (Len(s) + 1) /\ t[1] = x /\ t # <<>>
  OBVIOUS
<1>2. \A i \in DOMAIN t : i # 1 => i - 1 \in DOMAIN s /\ t[i] = s[i - 1]
  OBVIOUS
<1> HIDE DEF t
<1>3. ASSUME s # <<>>
      PROVE  /\ Tail(s) \in Seq(S)
             /\ \A i \in DOMAIN Tail(s) : \E j \in DOMAIN s : j # 1 /\ Tail(s)[i] = s[j]
  <2>1. /\ Tail(s) \in Seq(S) /\ Len(Tail(s)) = Len(s) - 1 /\ DOMAIN Tail(s) = 1 .. Len(Tail(s))
        /\ \A i \in 1 .. Len(Tail(s)) : Tail(s)[i] = s[i + 1]
    BY <1>3, HeadTailProperties
  <2>2. \A i \in DOMAIN Tail(s) : i + 1 \in DOMAIN s /\ i + 1 # 1 /\ Tail(s)[i] = s[i + 1]
    BY <1>1, <2>1
  <2>3. QED
    BY <2>1, <2>2
<1>4. QED
  BY <1>1, <1>2, <1>3 DEF t

(* Every step of an awaitable keeps its invariant. *)
LEMMA AwaitStepInv ==
  ASSUME AwaitInv, [AwaitableNext]_awaitableVars
  PROVE  AwaitInv'
<1> DEFINE F == {"suspend", "notify", "return"}
<1>1. /\ stack \in Seq(F)
      /\ \A i \in DOMAIN stack : i # 1 => stack[i] = "return"
      /\ (stack # <<>> /\ stack[1] # "return") => operation = "none"
      /\ continued = IF awaiting = "resumed" THEN 1 ELSE 0
      /\ awaiting # "awaiting" => operation = "none" /\ \A i \in DOMAIN stack : stack[i] = "return"
      /\ awaiting = "idle" => stack = <<>>
      /\ stack # <<>> => 1 \in DOMAIN stack
  BY DEF AwaitInv
<1>2. ASSUME stack # <<>>
      PROVE  /\ Tail(stack) \in Seq(F)
             /\ \A i \in DOMAIN Tail(stack) : Tail(stack)[i] = "return"
  BY <1>1, <1>2, StackFacts
<1>3. ASSUME NEW s \in Seq(F), \A i \in DOMAIN s : s[i] = "return", NEW x \in F
      PROVE  /\ <<x>> \o s \in Seq(F) /\ <<x>> \o s # <<>> /\ (<<x>> \o s)[1] = x
             /\ \A i \in DOMAIN (<<x>> \o s) : i # 1 => (<<x>> \o s)[i] = "return"
             /\ x = "return" => \A i \in DOMAIN (<<x>> \o s) : (<<x>> \o s)[i] = "return"
  BY <1>3, StackFacts
<1>4. <<>> \in Seq(F) /\ \A i \in DOMAIN <<>> : FALSE
  BY EmptySeq
<1>5. \A x \in F : <<x>> \in Seq(F) /\ <<x>>[1] = x /\ DOMAIN <<x>> = {1} /\ <<x>> # <<>>
  OBVIOUS
<1>6. ASSUME NEW ready \in BOOLEAN, BeginAwait(ready)
      PROVE  AwaitInv'
  <2>1. stack = <<>> /\ operation = "none" /\ continued = 0 /\ operation' = operation
    BY <1>1, <1>6 DEF BeginAwait
  <2>2. CASE ready
    <3>1. awaiting' = "resumed" /\ continued' = 1 /\ stack' = <<>>
      BY <1>6, <2>1, <2>2 DEF BeginAwait, Continue
    <3>2. QED
      BY <1>4, <2>1, <3>1 DEF AwaitInv
  <2>3. CASE ~ ready
    <3>1. awaiting' = "awaiting" /\ continued' = 0 /\ stack' = <<"suspend">>
      BY <1>6, <2>1, <2>3 DEF BeginAwait
    <3>2. stack' \in Seq(F) /\ DOMAIN stack' = {1}
      BY <1>5, <3>1
    <3>3. QED
      BY <2>1, <3>1, <3>2 DEF AwaitInv
  <2>4. QED
    BY <2>2, <2>3
<1>7. ASSUME stack # <<>>, stack[1] # "return"
      PROVE  awaiting = "awaiting" /\ operation = "none" /\ continued = 0
  BY <1>1, <1>7
<1>8. ASSUME stack # <<>>, NEW x \in F, stack' = Become(x)
      PROVE  /\ stack' \in Seq(F) /\ stack' # <<>> /\ stack'[1] = x
             /\ \A i \in DOMAIN stack' : i # 1 => stack'[i] = "return"
  BY <1>2, <1>3, <1>8 DEF Become
<1>9. CASE Submitted
  <2>1. /\ stack # <<>> /\ stack[1] = "suspend" /\ stack' = Become("return")
        /\ operation' = "submitted" /\ awaiting' = awaiting /\ continued' = continued
    BY <1>9 DEF Submitted, Top
  <2>2. awaiting = "awaiting" /\ continued = 0
    BY <1>7, <2>1
  <2>3. /\ stack' \in Seq(F) /\ stack' # <<>> /\ stack'[1] = "return"
        /\ \A i \in DOMAIN stack' : i # 1 => stack'[i] = "return"
    BY <1>8, <2>1
  <2>4. QED
    BY <2>1, <2>2, <2>3 DEF AwaitInv
<1>10. CASE QueueFull
  <2>1. /\ stack # <<>> /\ stack[1] = "suspend" /\ Execute_(Become("return")) /\ operation' = operation
    BY <1>10 DEF QueueFull, Top
  <2>2. awaiting = "awaiting" /\ continued = 0 /\ operation = "none"
    BY <1>7, <2>1
  <2> DEFINE below == Become("return")
  <2>3. below \in Seq(F) /\ \A i \in DOMAIN below : below[i] = "return"
    BY <1>2, <1>3, <2>1 DEF Become
  <2>4. below # <<>>
    BY <1>2, <1>3, <2>1 DEF Become
  <2> HIDE DEF below
  <2>5. CASE form.stateful
    <3>1. stack' = <<"notify">> \o below /\ awaiting' = awaiting /\ continued' = continued
      BY <2>1, <2>5 DEF Execute_, below
    <3>2. /\ stack' \in Seq(F) /\ stack' # <<>> /\ stack'[1] = "notify"
          /\ \A i \in DOMAIN stack' : i # 1 => stack'[i] = "return"
      BY <1>3, <2>3, <3>1
    <3>3. QED
      BY <2>1, <2>2, <3>1, <3>2 DEF AwaitInv
  <2>6. CASE ~ form.stateful
    <3>1. stack' = below /\ awaiting' = "resumed" /\ continued' = 1
      BY <2>1, <2>2, <2>6 DEF Execute_, Continue, below
    <3>2. QED
      BY <2>1, <2>2, <2>3, <3>1 DEF AwaitInv
  <2>7. QED
    BY <2>5, <2>6
<1>11. CASE Decline \/ NotifyResume
  <2>1. /\ stack # <<>> /\ stack[1] # "return" /\ stack' = Tail(stack) /\ operation' = operation
        /\ awaiting' = "resumed" /\ continued' = continued + 1
    BY <1>11 DEF Decline, NotifyResume, Top, Return, Continue
  <2>2. QED
    BY <1>2, <1>7, <2>1 DEF AwaitInv
<1>12. CASE Completed
  <2>1. stack = <<>> /\ operation = "submitted" /\ operation' = "none" /\ Execute_(<<>>)
    BY <1>12 DEF Completed
  <2>2. awaiting = "awaiting" /\ continued = 0
    BY <1>1, <2>1
  <2>3. CASE form.stateful
    <3>1. stack' = <<"notify">> \o <<>> /\ awaiting' = awaiting /\ continued' = continued
      BY <2>1, <2>3 DEF Execute_
    <3>2. /\ stack' \in Seq(F) /\ stack' # <<>> /\ stack'[1] = "notify"
          /\ \A i \in DOMAIN stack' : i # 1 => stack'[i] = "return"
      BY <1>3, <1>4, <3>1
    <3>3. QED
      BY <2>1, <2>2, <3>1, <3>2 DEF AwaitInv
  <2>4. CASE ~ form.stateful
    <3>1. stack' = <<>> /\ awaiting' = "resumed" /\ continued' = 1
      BY <2>1, <2>2, <2>4 DEF Execute_, Continue
    <3>2. QED
      BY <1>4, <2>1, <3>1 DEF AwaitInv
  <2>5. QED
    BY <2>3, <2>4
<1>13. CASE Returned
  <2>1. /\ stack # <<>> /\ stack' = Tail(stack)
        /\ operation' = operation /\ awaiting' = awaiting /\ continued' = continued
    BY <1>13 DEF Returned, AfterSuspend, Return
  <2>2. /\ stack' \in Seq(F) /\ \A i \in DOMAIN stack' : stack'[i] = "return"
    BY <1>2, <2>1
  <2>3. stack' # <<>> => stack'[1] = "return"
    BY <2>2
  <2>4. QED
    BY <1>1, <2>1, <2>2, <2>3 DEF AwaitInv
<1>14. CASE NotifyAgain
  <2>1. /\ stack # <<>> /\ stack[1] = "notify" /\ stack' = Become("suspend")
        /\ operation' = operation /\ awaiting' = awaiting /\ continued' = continued
    BY <1>14 DEF NotifyAgain, Top
  <2>2. /\ stack' \in Seq(F) /\ stack' # <<>> /\ stack'[1] = "suspend"
        /\ \A i \in DOMAIN stack' : i # 1 => stack'[i] = "return"
    BY <1>8, <2>1
  <2>3. awaiting = "awaiting" /\ operation = "none" /\ continued = 0
    BY <1>7, <2>1
  <2>4. QED
    BY <2>1, <2>2, <2>3 DEF AwaitInv
<1>15. CASE UNCHANGED awaitableVars
  BY <1>15 DEF awaitableVars, AwaitInv
<1>16. QED
  BY <1>6, <1>9, <1>10, <1>11, <1>12, <1>13, <1>14, <1>15 DEF AwaitableNext, AwaitStep

(* Whoever awaits is continued at most once, and nothing below uses the
   awaitable afterwards, for any number of operations that fail inside the
   calls that begin them. *)
THEOREM ContinuedAtMostOnce == AwaitableSpec => []ContinuedOnce
<1>1. AwaitableInit => AwaitInv
  <2>1. <<>> \in Seq({"suspend", "notify", "return"})
    BY EmptySeq
  <2>2. QED
    BY <2>1 DEF AwaitableInit, AwaitInv
<1>2. AwaitInv => ContinuedOnce
  BY DEF AwaitInv, ContinuedOnce
<1>3. QED
  BY <1>1, <1>2, AwaitStepInv, PTL DEF AwaitableSpec
=============================================================================
