------------------------------ MODULE IoProofs -------------------------------
(***************************************************************************)
(* Theorems about the parts that talk to the kernel: async_file, its       *)
(* descriptors and whole-file transfers; tcp_stream, its operations, their *)
(* tokens and its descriptor; timer_service and its timerfd; the engine,   *)
(* its stop() and its signal_handler.                                      *)
(***************************************************************************)
EXTENDS AsyncFile, Streams, TimerService, Engine, FiniteSetTheorems, SequenceTheorems, TLAPS

(* A non-empty set of naturals has a least element. *)
LEMMA MinFacts ==
  ASSUME NEW S \in SUBSET Nat, S # {}
  PROVE  Min(S) \in S /\ \A y \in S : Min(S) <= y
<1>1. PICK x \in S : \A y \in S : ~(<<y, x>> \in OpToRel(<, Nat))
  BY NatLessThanWellFounded, WFMin
<1>2. \A y \in S : ~(y < x)
  BY <1>1 DEF OpToRel
<1>3. \A y \in S : x <= y
  BY <1>2
<1>4. QED
  BY <1>3 DEF Min

-----------------------------------------------------------------------------
(***************************************************************************)
(* async_file: descriptors                                                 *)
(***************************************************************************)

(* DescriptorsOwned, for objects and for requests to close. *)
FilesOwn == \A f \in Files : f \notin strays /\ file_[f] # 0 =>
                file_[f] \in opened /\ ownerOf[file_[f]] = f
ClosersOwn == \A c \in Closers : c \notin strays /\ closeFd[c] # 0 =>
                closeFd[c] \in opened /\ ownerOf[closeFd[c]] = c
FilesHold == \A d \in Fds : ownerOf[d] \in Files =>
                file_[ownerOf[d]] = d /\ ownerOf[d] \notin strays
ClosersHold == \A d \in Fds : ownerOf[d] \in Closers =>
                closeFd[ownerOf[d]] = d /\ ownerOf[d] \notin strays
OpenIsNotFree == \A d \in Fds : d \in opened <=> ownerOf[d] # "free"

LEMMA OwnedParts ==
  DescriptorsOwned <=> FilesOwn /\ ClosersOwn /\ FilesHold /\ ClosersHold /\ OpenIsNotFree
BY FileAssumption DEF DescriptorsOwned, HeldIsOwned, NoneForgotten, Held, Holders,
   FilesOwn, ClosersOwn, FilesHold, ClosersHold, OpenIsNotFree

LEMMA OwnedPartsNext ==
  DescriptorsOwned' <=> FilesOwn' /\ ClosersOwn' /\ FilesHold' /\ ClosersHold' /\ OpenIsNotFree'
BY FileAssumption DEF DescriptorsOwned, HeldIsOwned, NoneForgotten, Held, Holders,
   FilesOwn, ClosersOwn, FilesHold, ClosersHold, OpenIsNotFree

(* Who is who, and that number 0 is a descriptor. *)
LEMMA HolderFacts ==
  /\ 0 \in Fds /\ Fds \subseteq Int
  /\ \A h \in Files : h \in Holders /\ h \notin Closers
  /\ \A h \in Closers : h \in Holders /\ h \notin Files
  /\ \A h \in Holders : /\ h \in Files \/ h \in Closers
                        /\ h # "free" /\ h # "process" /\ h # "lost"
BY FileAssumption DEF Fds, Holders

(* A new object, whose file_ is a stray unless it is 0. *)
LEMMA ConstructFileKeeps ==
  ASSUME DescriptorInv, NEW f \in Files, ConstructFile(f)
  PROVE  DescriptorInv'
<1> USE HolderFacts, OwnedParts DEF DescriptorInv
<1>1. PICK g \in Garbage :
        /\ object[f] = "dead" /\ file_' = [file_ EXCEPT ![f] = g]
        /\ object' = [object EXCEPT ![f] = "live"]
        /\ strays' = IF g # 0 THEN strays \cup {f} ELSE strays
        /\ UNCHANGED <<opened, closeState, closeFd, ownerOf>>
  BY DEF ConstructFile, closeVars
<1>2. g \in Int
  BY FileAssumption
<1>3. f \notin strays /\ \A d \in Fds : ownerOf[d] # f
  BY <1>1 DEF FilesHold
<1>4. FilesOwn'
  BY <1>1, <1>2, <1>3 DEF FilesOwn
<1>5. ClosersOwn' /\ ClosersHold' /\ OpenIsNotFree'
  BY <1>1, <1>2 DEF ClosersOwn, ClosersHold, OpenIsNotFree
<1>6. FilesHold'
  BY <1>1, <1>2, <1>3 DEF FilesHold
<1>7. QED
  BY <1>1, <1>2, <1>3, <1>4, <1>5, <1>6, OwnedPartsNext

(* The start of an open() touches no descriptor. *)
LEMMA OpenKeeps ==
  ASSUME DescriptorInv, NEW f \in Files, Open(f)
  PROVE  DescriptorInv'
<1>1. /\ object' = [object EXCEPT ![f] = IF @ = "live" THEN "opening" ELSE "creating"]
      /\ object[f] \in {"live", "dead"}
      /\ UNCHANGED <<file_, opened, closeState, closeFd, ownerOf, strays>>
  BY DEF Open, closeVars
<1>2. DescriptorsOwned'
  BY <1>1 DEF DescriptorInv, DescriptorsOwned, HeldIsOwned, NoneForgotten, Held
<1>3. QED
  BY <1>1, <1>2 DEF DescriptorInv

(* The number the kernel hands out was nobody's. *)
LEMMA OpenDoneKeeps ==
  ASSUME DescriptorInv, NEW f \in Files, OpenDone(f)
  PROVE  DescriptorInv'
<1> USE HolderFacts, OwnedParts DEF DescriptorInv
<1>1. object[f] \in {"opening", "creating"} /\ UNCHANGED <<closeState, closeFd>>
  BY DEF OpenDone, closeVars
<1>2. OpenFailed(f) => /\ object' \in [Files -> {"dead", "live", "opening", "creating"}]
                       /\ \A g \in Files : object'[g] \in {"dead", "creating"} =>
                                           object[g] \in {"dead", "creating"}
  BY <1>1 DEF OpenFailed
<1>3. CASE OpenFailed(f) /\ UNCHANGED <<file_, opened, ownerOf, strays>>
  <2>1. DescriptorsOwned'
    BY <1>1, <1>3 DEF DescriptorsOwned, HeldIsOwned, NoneForgotten, Held
  <2>2. QED
    BY <1>1, <1>2, <1>3, <2>1
<1> DEFINE d == Min(Fds \ opened)
<1>4. ASSUME opened # Fds PROVE d \in Fds /\ d \notin opened
  <2>1. Fds \subseteq Nat
    BY FileAssumption DEF Fds
  <2>2. opened \subseteq Fds
    OBVIOUS
  <2>3. Fds \ opened \in SUBSET Nat /\ Fds \ opened # {}
    BY <1>4, <2>1, <2>2, Zenon
  <2>4. QED
    BY <2>3, MinFacts
<1>5. CASE /\ opened # Fds /\ opened' = opened \cup {d}
           /\ d > 0 /\ file_' = [file_ EXCEPT ![f] = d]
           /\ object' = [object EXCEPT ![f] = "live"]
           /\ ownerOf' = [HandOver(f, "lost") EXCEPT ![d] = f]
           /\ strays' = strays \ {f}
  <2> HIDE DEF d
  <2>1. d \in Fds /\ d \notin opened /\ d # 0 /\ ownerOf[d] = "free"
    <3>1. d \in Fds /\ d \notin opened /\ d > 0
      BY <1>4, <1>5, Zenon
    <3>2. d # 0
      BY <3>1
    <3>3. ownerOf[d] = "free"
      BY <3>1 DEF OpenIsNotFree
    <3>4. QED
      BY <3>1, <3>2, <3>3
  <2>2. \A x \in Fds : ownerOf'[x] = IF x = d THEN f ELSE IF ownerOf[x] = f THEN "lost" ELSE ownerOf[x]
    BY <1>5, <2>1 DEF HandOver
  <2>3. ownerOf' \in [Fds -> Holders \cup {"free", "process", "lost"}]
    BY <1>5, <2>1 DEF HandOver
  <2>4. FilesOwn'
    BY <1>5, <2>1, <2>2 DEF FilesOwn
  <2>5. ClosersOwn'
    BY <1>1, <1>5, <2>1, <2>2 DEF ClosersOwn
  <2>6. FilesHold'
    BY <1>5, <2>1, <2>2 DEF FilesHold
  <2>7. ClosersHold'
    BY <1>1, <1>5, <2>1, <2>2 DEF ClosersHold
  <2>8. OpenIsNotFree'
    BY <1>5, <2>1, <2>2 DEF OpenIsNotFree
  <2>9. QED
    BY <1>1, <1>5, <2>1, <2>2, <2>3, <2>4, <2>5, <2>6, <2>7, <2>8, OwnedPartsNext
<1>6. CASE /\ opened # Fds /\ opened' = opened \cup {d} /\ ~(d > 0)
           /\ ownerOf' = [ownerOf EXCEPT ![d] = "lost"]
           /\ OpenFailed(f) /\ UNCHANGED <<file_, strays>>
  <2> HIDE DEF d
  <2>1. d = 0 /\ d \notin opened /\ ownerOf[d] = "free"
    BY <1>4, <1>6, FileAssumption DEF OpenIsNotFree, Fds
  <2>2. FilesOwn' /\ FilesHold' /\ OpenIsNotFree'
    BY <1>6, <2>1 DEF FilesOwn, FilesHold, OpenIsNotFree
  <2>3. ClosersOwn' /\ ClosersHold'
    BY <1>1, <1>6, <2>1 DEF ClosersOwn, ClosersHold
  <2>4. QED
    BY <1>1, <1>2, <1>6, <2>1, <2>2, <2>3, OwnedPartsNext
<1>7. QED
  BY <1>3, <1>5, <1>6 DEF OpenDone

(* A move hands what f has, and whether it is f's, to g. *)
LEMMA MoveFileKeeps ==
  ASSUME DescriptorInv, NEW f \in Files, NEW g \in Files, MoveFile(f, g)
  PROVE  DescriptorInv'
<1> USE HolderFacts, OwnedParts DEF DescriptorInv
<1>1. /\ object[f] \in {"live", "opening"} /\ object[g] = "dead"
      /\ object' = [object EXCEPT ![g] = "live"]
      /\ file_' = [file_ EXCEPT ![g] = file_[f], ![f] = 0]
      /\ strays' = IF f \in strays THEN (strays \ {f}) \cup {g} ELSE strays
      /\ UNCHANGED <<opened, closeState, closeFd>>
  BY DEF MoveFile, MovedFrom, Usable, closeVars
<1>2. f # g /\ g \notin strays
  BY <1>1
<1>3. /\ ownerOf' \in [Fds -> Holders \cup {"free", "process", "lost"}]
      /\ \A d \in Fds : ownerOf'[d] = IF ownerOf[d] = f THEN g ELSE ownerOf[d]
  BY DEF MoveFile, HandOver
<1>4. \A d \in Fds : ownerOf[d] # g
  BY <1>1 DEF FilesHold
<1>5. FilesOwn'
  BY <1>1, <1>2, <1>3 DEF FilesOwn
<1>6. ClosersOwn' /\ ClosersHold'
  BY <1>1, <1>3 DEF ClosersOwn, ClosersHold
<1>7. FilesHold'
  BY <1>1, <1>2, <1>3, <1>4 DEF FilesHold
<1>8. OpenIsNotFree'
  BY <1>1, <1>3 DEF OpenIsNotFree
<1>9. QED
  BY <1>1, <1>2, <1>3, <1>5, <1>6, <1>7, <1>8, OwnedPartsNext

(* A request to close that was idle held nothing. *)
LEMMA StartCloseFacts ==
  ASSUME DescriptorInv, NEW c \in Closers, NEW f \in Files, NEW how \in {"background", "await"},
         StartClose(c, f, how)
  PROVE  /\ closeState[c] = "idle" /\ closeFd[c] = 0 /\ c \notin strays
         /\ closeState' \in [Closers -> {"idle", "background", "await", "failed"}]
         /\ closeState'[c] # "idle" /\ \A x \in Closers \ {c} : closeState'[x] = closeState[x]
         /\ closeFd' \in [Closers -> Int]
         /\ closeFd'[c] = file_[f] /\ \A x \in Closers \ {c} : closeFd'[x] = closeFd[x]
         /\ \A d \in Fds : ownerOf[d] # c
<1> USE HolderFacts, OwnedParts DEF DescriptorInv
<1>1. closeState[c] = "idle" /\ closeFd[c] = 0 /\ c \notin strays
  BY DEF StartClose
<1>2. \A d \in Fds : ownerOf[d] # c
  BY <1>1 DEF ClosersHold
<1>3. QED
  BY <1>1, <1>2 DEF StartClose

(* An assignment to g, which had nothing or whose number is closed. *)
LEMMA AssignFileKeeps ==
  ASSUME DescriptorInv, NEW f \in Files, NEW g \in Files, AssignFile(f, g)
  PROVE  DescriptorInv'
<1> USE HolderFacts, OwnedParts DEF DescriptorInv
<1> DEFINE moved == IF f \in strays /\ f # g THEN {g} ELSE {}
<1>1. /\ object[f] \in {"live", "opening"} /\ object[g] \in {"live", "opening"}
      /\ file_' = [file_ EXCEPT ![g] = file_[f], ![f] = 0]
      /\ UNCHANGED <<object, opened>>
  BY DEF AssignFile, MovedFrom, Usable
<1>2. CASE /\ file_[g] = 0 /\ ownerOf' = HandOver(f, g)
           /\ strays' = (strays \ {f}) \cup moved
           /\ UNCHANGED closeVars
  <2>1. g \notin strays /\ \A d \in Fds : ownerOf[d] # g
    BY <1>2 DEF FilesHold
  <2>2. /\ ownerOf' \in [Fds -> Holders \cup {"free", "process", "lost"}]
        /\ \A d \in Fds : ownerOf'[d] = IF ownerOf[d] = f THEN g ELSE ownerOf[d]
    BY <1>2 DEF HandOver
  <2>3. FilesOwn'
    BY <1>1, <1>2, <2>1, <2>2 DEF FilesOwn
  <2>4. ClosersOwn' /\ ClosersHold'
    BY <1>1, <1>2, <2>2 DEF ClosersOwn, ClosersHold, closeVars
  <2>5. FilesHold'
    BY <1>1, <1>2, <2>1, <2>2 DEF FilesHold
  <2>6. OpenIsNotFree'
    BY <1>1, <2>2 DEF OpenIsNotFree
  <2>7. QED
    BY <1>1, <1>2, <2>1, <2>2, <2>3, <2>4, <2>5, <2>6, OwnedPartsNext DEF closeVars
<1>3. ASSUME NEW c \in Closers, file_[g] # 0, StartClose(c, g, "background"),
             ownerOf' = [d \in Fds |-> IF ownerOf[d] = g THEN c
                                       ELSE IF ownerOf[d] = f THEN g ELSE ownerOf[d]],
             strays' = (strays \ {f, g}) \cup moved \cup (IF g \in strays THEN {c} ELSE {})
      PROVE  DescriptorInv'
  <2>1. /\ closeState[c] = "idle" /\ closeFd[c] = 0 /\ c \notin strays
        /\ closeState' \in [Closers -> {"idle", "background", "await", "failed"}]
        /\ closeState'[c] # "idle" /\ \A x \in Closers \ {c} : closeState'[x] = closeState[x]
        /\ closeFd' \in [Closers -> Int]
        /\ closeFd'[c] = file_[g] /\ \A x \in Closers \ {c} : closeFd'[x] = closeFd[x]
        /\ \A d \in Fds : ownerOf[d] # c
    BY <1>3, StartCloseFacts
  <2>2. /\ ownerOf' \in [Fds -> Holders \cup {"free", "process", "lost"}]
        /\ \A d \in Fds : ownerOf'[d] = IF ownerOf[d] = g THEN c
                                        ELSE IF ownerOf[d] = f THEN g ELSE ownerOf[d]
    BY <1>3
  <2>3. FilesOwn'
    BY <1>1, <1>3, <2>1, <2>2 DEF FilesOwn
  <2>4. ClosersOwn'
    BY <1>1, <1>3, <2>1, <2>2 DEF ClosersOwn, FilesOwn
  <2>5. FilesHold'
    BY <1>1, <1>3, <2>1, <2>2 DEF FilesHold
  <2>6. ClosersHold'
    BY <1>1, <1>3, <2>1, <2>2 DEF ClosersHold, FilesHold
  <2>7. OpenIsNotFree'
    BY <1>1, <2>2 DEF OpenIsNotFree
  <2>8. QED
    BY <1>1, <1>3, <2>1, <2>2, <2>3, <2>4, <2>5, <2>6, <2>7, OwnedPartsNext
<1>4. QED
  BY <1>2, <1>3 DEF AssignFile

(* The destructor and close() hand what f has to a request to close; f then
   has nothing. *)
LEMMA CloseOfFileKeeps ==
  ASSUME DescriptorInv, NEW f \in Files, NEW c \in Closers, NEW how \in {"background", "await"},
         StartClose(c, f, how), ownerOf' = HandOver(f, c),
         strays' = IF f \in strays \/ file_[f] = 0 THEN (strays \ {f}) \cup {c} ELSE strays,
         object[f] \in {"live", "opening"},
         object' \in [Files -> {"dead", "live", "opening", "creating"}],
         \A g \in Files \ {f} : object'[g] = object[g],
         file_' = [file_ EXCEPT ![f] = 0], opened' = opened
  PROVE  DescriptorInv'
<1> USE HolderFacts, OwnedParts DEF DescriptorInv
<1>1. /\ closeState[c] = "idle" /\ closeFd[c] = 0 /\ c \notin strays
      /\ closeState' \in [Closers -> {"idle", "background", "await", "failed"}]
      /\ closeState'[c] # "idle" /\ \A x \in Closers \ {c} : closeState'[x] = closeState[x]
      /\ closeFd' \in [Closers -> Int]
      /\ closeFd'[c] = file_[f] /\ \A x \in Closers \ {c} : closeFd'[x] = closeFd[x]
      /\ \A d \in Fds : ownerOf[d] # c
  BY StartCloseFacts
<1>2. /\ ownerOf' \in [Fds -> Holders \cup {"free", "process", "lost"}]
      /\ \A d \in Fds : ownerOf'[d] = IF ownerOf[d] = f THEN c ELSE ownerOf[d]
  BY DEF HandOver
<1>3. f \notin strays'
  BY DEF Holders
<1>4. FilesOwn'
  BY <1>2 DEF FilesOwn
<1>5. ClosersOwn'
  BY <1>1, <1>2 DEF ClosersOwn, FilesOwn
<1>6. FilesHold'
  BY <1>1, <1>2 DEF FilesHold
<1>7. ClosersHold'
  BY <1>1, <1>2 DEF ClosersHold, FilesHold
<1>8. OpenIsNotFree'
  BY <1>2 DEF OpenIsNotFree
<1>9. QED
  BY <1>1, <1>2, <1>3, <1>4, <1>5, <1>6, <1>7, <1>8, OwnedPartsNext

LEMMA DestructFileKeeps ==
  ASSUME DescriptorInv, NEW f \in Files, DestructFile(f)
  PROVE  DescriptorInv'
<1>1. /\ object[f] = "live" /\ object' = [object EXCEPT ![f] = "dead"]
      /\ file_' = [file_ EXCEPT ![f] = 0] /\ opened' = opened
  BY DEF DestructFile
<1>2. CASE file_[f] = 0 /\ UNCHANGED <<closeVars, ownerOf, strays>>
  <2> USE HolderFacts, OwnedParts DEF DescriptorInv
  <2>1. f \notin strays /\ file_' = file_
    BY <1>1, <1>2
  <2>2. DescriptorsOwned'
    BY <1>1, <1>2, <2>1 DEF DescriptorsOwned, HeldIsOwned, NoneForgotten, Held, closeVars
  <2>3. QED
    BY <1>1, <1>2, <2>1, <2>2 DEF closeVars
<1>3. ASSUME NEW c \in Closers, file_[f] # 0, StartClose(c, f, "background"),
             ownerOf' = HandOver(f, c),
             strays' = IF f \in strays THEN (strays \ {f}) \cup {c} ELSE strays
      PROVE  DescriptorInv'
  <2>1. strays' = IF f \in strays \/ file_[f] = 0 THEN (strays \ {f}) \cup {c} ELSE strays
    BY <1>3
  <2>2. /\ object' \in [Files -> {"dead", "live", "opening", "creating"}]
        /\ \A g \in Files \ {f} : object'[g] = object[g]
    BY <1>1 DEF DescriptorInv
  <2>3. QED
    BY <1>1, <1>3, <2>1, <2>2, CloseOfFileKeeps
<1>4. QED
  BY <1>2, <1>3 DEF DestructFile

LEMMA CloseFileKeeps ==
  ASSUME DescriptorInv, NEW f \in Files, CloseFile(f)
  PROVE  DescriptorInv'
<1>1. object' \in [Files -> {"dead", "live", "opening", "creating"}] /\ object' = object
  BY DEF CloseFile, DescriptorInv
<1>2. QED
  BY <1>1, CloseOfFileKeeps DEF CloseFile, Usable

(* A close takes the number from whoever owns it; the owner is a stray then. *)
LEMMA ReleaseKeeps ==
  ASSUME DescriptorInv, NEW c \in Closers, closeState[c] # "idle",
         UNCHANGED <<object, file_>>, NEW goesOn \in BOOLEAN,
         closeFd[c] \in opened,
         opened' = opened \ {closeFd[c]},
         ownerOf' = [ownerOf EXCEPT ![closeFd[c]] = "free"],
         closeState' \in [Closers -> {"idle", "background", "await", "failed"}],
         closeState'[c] = "idle" => ~goesOn,
         \A x \in Closers \ {c} : closeState'[x] = closeState[x],
         closeFd' = IF goesOn THEN closeFd ELSE [closeFd EXCEPT ![c] = 0],
         strays' = (IF goesOn THEN strays \cup {c} ELSE strays \ {c}) \cup Robbed(c, closeFd[c])
  PROVE  DescriptorInv'
<1> USE HolderFacts, OwnedParts DEF DescriptorInv
<1> DEFINE d == closeFd[c]
           robbed == Robbed(c, d)
<1>1. d \in Fds /\ d \in opened
  OBVIOUS
<1>2. \A h \in robbed : h = ownerOf[d] /\ h \in Holders /\ h # c
  BY <1>1 DEF Robbed
<1>3. ownerOf[d] \in Holders /\ ownerOf[d] # c => ownerOf[d] \in robbed
  BY <1>1 DEF Robbed
<1>4. /\ ownerOf' \in [Fds -> Holders \cup {"free", "process", "lost"}]
      /\ \A x \in Fds : ownerOf'[x] = IF x = d THEN "free" ELSE ownerOf[x]
      /\ opened' = opened \ {d}
  BY <1>1
<1>5. strays' = (IF goesOn THEN strays \cup {c} ELSE strays \ {c}) \cup robbed
  OBVIOUS
<1>6. /\ closeFd' \in [Closers -> Int] /\ \A x \in Closers \ {c} : closeFd'[x] = closeFd[x]
      /\ ~goesOn => closeFd'[c] = 0
  OBVIOUS
<1>7. \A h \in robbed : h \in Files => file_[h] = d /\ d # 0
  BY <1>1, <1>2 DEF FilesHold
<1> HIDE DEF d, robbed
<1>8. FilesOwn'
  BY <1>1, <1>3, <1>4, <1>5 DEF FilesOwn
<1>9. ClosersOwn'
  BY <1>1, <1>3, <1>4, <1>5, <1>6 DEF ClosersOwn
<1>10. FilesHold'
  BY <1>1, <1>2, <1>4, <1>5 DEF FilesHold
<1>11. ClosersHold'
  <2>1. ASSUME NEW x \in Fds, ownerOf'[x] \in Closers PROVE x # d /\ ownerOf[x] = ownerOf'[x]
    BY <1>4, <2>1
  <2>2. ASSUME NEW x \in Fds, ownerOf[x] \in Closers, x # d
        PROVE  ownerOf[x] # c /\ ownerOf[x] \notin robbed
    <3>1. closeFd[ownerOf[x]] = x
      BY <2>2 DEF ClosersHold
    <3>2. ownerOf[x] # c
      BY <2>2, <3>1 DEF d
    <3>3. ownerOf[x] # ownerOf[d]
      BY <1>1, <2>2, <3>1 DEF ClosersHold
    <3>4. QED
      BY <1>2, <3>2, <3>3
  <2>3. QED
    BY <1>5, <1>6, <2>1, <2>2 DEF ClosersHold
<1>12. OpenIsNotFree'
  BY <1>1, <1>4 DEF OpenIsNotFree
<1>13. \A h \in strays' \cap Files : file_'[h] # 0
  BY <1>2, <1>5, <1>7
<1>14. strays' \subseteq Holders
  BY <1>2, <1>5
<1>15. \A h \in robbed : h \in Closers => closeState[h] # "idle"
  <2>1. ASSUME NEW h \in robbed, h \in Closers, closeState[h] = "idle" PROVE FALSE
    <3>1. closeFd[h] = 0 /\ closeFd[h] = d
      BY <1>1, <1>2, <2>1 DEF ClosersHold
    <3>2. QED
      BY <1>2, <3>1
  <2>2. QED
    BY <2>1
<1>16. \A x \in Closers : closeState'[x] = "idle" => closeFd'[x] = 0 /\ x \notin strays'
  BY <1>2, <1>5, <1>6, <1>15
<1>17. \A x \in Files : object'[x] \in {"dead", "creating"} => file_'[x] = 0 /\ x \notin strays'
  BY <1>2, <1>5, <1>7
<1>18. ownerOf'[0] \notin Holders
  BY <1>4
<1>19. opened' \subseteq Fds
  BY <1>4
<1>20. QED
  BY <1>4, <1>6, <1>8, <1>9, <1>10, <1>11, <1>12, <1>13, <1>14, <1>16, <1>17, <1>18, <1>19,
     OwnedPartsNext

(* A close that releases nothing: it goes on with its number, or ends, and
   what was its own is nobody's. *)
LEMMA NoReleaseKeeps ==
  ASSUME DescriptorInv, NEW c \in Closers, closeState[c] # "idle",
         UNCHANGED <<object, file_, opened>>, NEW goesOn \in BOOLEAN,
         ownerOf' = IF goesOn THEN ownerOf ELSE HandOver(c, "lost"),
         closeState' \in [Closers -> {"idle", "background", "await", "failed"}],
         closeState'[c] = "idle" => ~goesOn,
         \A x \in Closers \ {c} : closeState'[x] = closeState[x],
         closeFd' = IF goesOn THEN closeFd ELSE [closeFd EXCEPT ![c] = 0],
         strays' = IF goesOn THEN strays ELSE strays \ {c}
  PROVE  DescriptorInv'
<1> USE HolderFacts, OwnedParts DEF DescriptorInv
<1>1. CASE goesOn
  <2>1. DescriptorsOwned'
    BY <1>1 DEF DescriptorsOwned, HeldIsOwned, NoneForgotten, Held
  <2>2. QED
    BY <1>1, <2>1
<1>2. CASE ~goesOn
  <2>1. /\ ownerOf' \in [Fds -> Holders \cup {"free", "process", "lost"}]
        /\ \A x \in Fds : ownerOf'[x] = IF ownerOf[x] = c THEN "lost" ELSE ownerOf[x]
    BY <1>2 DEF HandOver
  <2>2. FilesOwn'
    BY <1>2, <2>1 DEF FilesOwn
  <2>3. ClosersOwn'
    BY <1>2, <2>1 DEF ClosersOwn
  <2>4. FilesHold'
    BY <1>2, <2>1 DEF FilesHold
  <2>5. ClosersHold'
    BY <1>2, <2>1 DEF ClosersHold
  <2>6. OpenIsNotFree'
    BY <1>2, <2>1 DEF OpenIsNotFree
  <2>7. QED
    BY <1>2, <2>1, <2>2, <2>3, <2>4, <2>5, <2>6, OwnedPartsNext
<1>3. QED
  BY <1>1, <1>2

LEMMA CloseDoneKeeps ==
  ASSUME DescriptorInv, NEW c \in Closers, CloseDone(c)
  PROVE  DescriptorInv'
<1>1. closeState[c] \in {"background", "await"} /\ UNCHANGED <<object, file_>>
  BY DEF CloseDone
<1> DEFINE d == closeFd[c]
           on(ok) == closeState[c] = "background" /\ ~ok
<1>2. PICK released, ok \in BOOLEAN :
        /\ released => d \in opened
        /\ opened' = IF released THEN opened \ {d} ELSE opened
        /\ closeState' = [closeState EXCEPT ![c] = IF on(ok) THEN "failed" ELSE "idle"]
        /\ closeFd' = IF on(ok) THEN closeFd ELSE [closeFd EXCEPT ![c] = 0]
        /\ ownerOf' = IF released THEN [ownerOf EXCEPT ![d] = "free"]
                    ELSE IF on(ok) THEN ownerOf ELSE HandOver(c, "lost")
        /\ strays' = (IF on(ok) THEN strays \cup (IF released THEN {c} ELSE {})
                      ELSE strays \ {c})
                     \cup (IF released THEN Robbed(c, d) ELSE {})
  BY DEF CloseDone
<1> DEFINE goesOn == on(ok)
<1>3. /\ closeState' \in [Closers -> {"idle", "background", "await", "failed"}]
      /\ closeState'[c] = "idle" => ~goesOn
      /\ \A x \in Closers \ {c} : closeState'[x] = closeState[x]
      /\ goesOn \in BOOLEAN /\ closeState[c] # "idle"
  BY <1>1, <1>2 DEF DescriptorInv
<1>4. CASE released
  <2>1. strays' = (IF goesOn THEN strays \cup {c} ELSE strays \ {c}) \cup Robbed(c, closeFd[c])
    BY <1>2, <1>4
  <2>2. /\ closeFd[c] \in opened /\ opened' = opened \ {closeFd[c]}
        /\ ownerOf' = [ownerOf EXCEPT ![closeFd[c]] = "free"]
        /\ closeFd' = IF goesOn THEN closeFd ELSE [closeFd EXCEPT ![c] = 0]
    BY <1>2, <1>4
  <2> HIDE DEF goesOn
  <2>3. QED
    BY <1>1, <1>3, <2>1, <2>2, ReleaseKeeps
<1>5. CASE ~released
  <2>1. strays' = IF goesOn THEN strays ELSE strays \ {c}
    BY <1>2, <1>5
  <2>2. /\ opened' = opened /\ ownerOf' = IF goesOn THEN ownerOf ELSE HandOver(c, "lost")
        /\ closeFd' = IF goesOn THEN closeFd ELSE [closeFd EXCEPT ![c] = 0]
    BY <1>2, <1>5
  <2> HIDE DEF goesOn
  <2>3. QED
    BY <1>1, <1>3, <2>1, <2>2, NoReleaseKeeps
<1>6. QED
  BY <1>4, <1>5

(* The second close hits whatever is open under the number by then. *)
LEMMA ResumeCloseKeeps ==
  ASSUME DescriptorInv, NEW c \in Closers, ResumeClose(c)
  PROVE  DescriptorInv'
<1> DEFINE d == closeFd[c]
<1>1. /\ closeState[c] # "idle" /\ UNCHANGED <<object, file_>>
      /\ closeState' \in [Closers -> {"idle", "background", "await", "failed"}]
      /\ \A x \in Closers \ {c} : closeState'[x] = closeState[x]
      /\ closeFd' = IF FALSE THEN closeFd ELSE [closeFd EXCEPT ![c] = 0]
      /\ opened' = opened \ {d}
      /\ ownerOf' = IF d \in opened THEN [ownerOf EXCEPT ![d] = "free"] ELSE ownerOf
      /\ strays' = (strays \ {c}) \cup (IF d \in opened THEN Robbed(c, d) ELSE {})
  BY DEF ResumeClose, DescriptorInv
<1>2. CASE d \in opened
  <2>1. strays' = (IF FALSE THEN strays \cup {c} ELSE strays \ {c}) \cup Robbed(c, closeFd[c])
    BY <1>1, <1>2
  <2>2. QED
    BY <1>1, <1>2, <2>1, ReleaseKeeps
<1>3. CASE d \notin opened
  <2>1. HandOver(c, "lost") = ownerOf
    <3>1. \A x \in Fds : ownerOf[x] # c
      BY <1>3, OwnedParts, HolderFacts DEF DescriptorInv, ClosersHold, OpenIsNotFree
    <3>2. QED
      BY <3>1 DEF HandOver, DescriptorInv
  <2>2. /\ opened' = opened /\ ownerOf' = IF FALSE THEN ownerOf ELSE HandOver(c, "lost")
        /\ strays' = IF FALSE THEN strays ELSE strays \ {c}
    BY <1>1, <1>3, <2>1
  <2>3. QED
    BY <1>1, <2>2, NoReleaseKeeps
<1>4. QED
  BY <1>2, <1>3

(* Every step keeps the descriptors owned. *)
LEMMA NextDescriptorInv == DescriptorInv /\ [FileNext]_asyncFileVars => DescriptorInv'
<1> SUFFICES ASSUME DescriptorInv, [FileNext]_asyncFileVars PROVE DescriptorInv'
  OBVIOUS
<1>1. CASE OwnerNext
  BY <1>1, ConstructFileKeeps, OpenKeeps, OpenDoneKeeps, MoveFileKeeps, AssignFileKeeps,
     DestructFileKeeps, CloseFileKeeps, CloseDoneKeeps, ResumeCloseKeeps
     DEF OwnerNext
<1>2. CASE UNCHANGED fileVars
  BY <1>2 DEF fileVars, closeVars, DescriptorInv, DescriptorsOwned, HeldIsOwned,
     NoneForgotten, Held
<1>3. TransferNext \/ UNCHANGED asyncFileVars => UNCHANGED fileVars
  BY DEF TransferNext, ReadFile, WriteToFile, JobOver, TransferStep, ReadSome, ReadFails,
     WriteSome, asyncFileVars, fileVars
<1>4. QED
  BY <1>1, <1>2, <1>3 DEF FileNext

(* Through every sequence of opens, moves, closes and destructions of
   async_file objects, what an object or a close holds is open and its own,
   and no descriptor is forgotten: the only ones that hold a number that is
   not theirs are objects never opened, close() of nothing, background closes
   whose request failed after it released the number, and those whose number
   one of these closed.  For any number of objects, closes and descriptors,
   and whatever an uninitialised file_ holds. *)
THEOREM DescriptorsAreOwned == FileSpec => []DescriptorsOwned
<1>1. FileInit => DescriptorInv
  BY FileAssumption, HolderFacts
     DEF FileInit, DescriptorInv, DescriptorsOwned, HeldIsOwned, NoneForgotten, Held, Fds,
     Holders
<1>2. DescriptorInv /\ [FileNext]_asyncFileVars => DescriptorInv'
  BY NextDescriptorInv
<1>3. DescriptorInv => DescriptorsOwned
  BY DEF DescriptorInv
<1>4. QED
  BY <1>1, <1>2, <1>3, PTL DEF FileSpec

-----------------------------------------------------------------------------
(***************************************************************************)
(* async_file: whole-file transfers                                        *)
(***************************************************************************)

(* The first request is told from the later ones. *)
LEMMA TurnFacts ==
  ASSUME NEW t \in 0 .. 4
  PROVE  /\ NextTurn(t) \in 0 .. 4 /\ NextTurn(t) # 0
         /\ NextTurn(t) <= 1 => t = 0
         /\ NextTurn(t) <= 2 => t = 0 \/ t = 1
BY DEF NextTurn

(* One wrap of a counter. *)
LEMMA ModWrap ==
  ASSUME NEW m \in Nat, m > 0, NEW x \in Int, x >= m, x < 2 * m
  PROVE  x % m = x - m
OBVIOUS

(* Where the offset is not negative, it is the place that was reached. *)
LEMMA OffSetFits ==
  ASSUME Half \in Nat, Half >= 3, NEW k \in 0 .. 2 * Half - 2, OffSet(k) >= 0
  PROVE  k \in Nat /\ k < Half
<1>1. k \in Nat /\ 2 * Half \in Nat /\ k <= 2 * Half - 2
  OBVIOUS
<1>2. ASSUME k >= Half PROVE FALSE
  <2>1. (k + Half) % (2 * Half) = k + Half - 2 * Half
    BY <1>1, <1>2, ModWrap
  <2>2. QED
    BY <1>1, <1>2, <2>1 DEF OffSet
<1>3. QED
  BY <1>1, <1>2

(* Sequences that agree are the same. *)
LEMMA SameSeq ==
  ASSUME NEW s \in Seq(Nat), NEW t \in Seq(Nat), Len(s) = Len(t),
         \A i \in 1 .. Len(t) : s[i] = t[i]
  PROVE  s = t
OBVIOUS

(* Prefixes of two sequences that agree there are the same. *)
LEMMA PrefixFacts ==
  ASSUME NEW s \in Seq(Nat), NEW t \in Seq(Nat), NEW k \in Nat, k <= Len(s), k <= Len(t)
  PROVE  /\ Len(SubSeq(s, 1, k)) = k
         /\ (\A i \in 1 .. k : s[i] = t[i]) => SubSeq(s, 1, k) = SubSeq(t, 1, k)
OBVIOUS

(* read_file(): it begins, and a read moves some of what is left. *)
LEMMA ReadKeeps ==
  ASSUME TransferInv, ReadFile \/ ReadSome \/ ReadFails
  PROVE  TransferInv'
<1>0. Half \in Nat /\ Half >= 3 /\ Source \in Seq(Nat) /\ Len(Source) \in Nat
  BY FileAssumption
<1>1. CASE ReadFile
  <2>1. /\ job' = [Idle EXCEPT !.kind = IF disk = <<>> THEN "read done" ELSE "read",
                               !.buffer = [i \in DOMAIN disk |-> 0]]
        /\ disk' = disk
    BY <1>1 DEF ReadFile
  <2> DEFINE zeros == [i \in DOMAIN disk |-> 0]
  <2>2. zeros \in Seq(Nat) /\ Len(zeros) = Len(disk) /\ (disk = <<>> => zeros = disk)
    BY DEF TransferInv
  <2>3. /\ job'.kind = IF disk = <<>> THEN "read done" ELSE "read"
        /\ job'.buffer = zeros /\ job'.current = 0 /\ job'.failed = FALSE /\ job'.turn = 0
    BY <2>1 DEF Idle
  <2> HIDE DEF zeros
  <2>4. ~job'.failed
    BY <2>3, Zenon
  <2>5. disk \in Seq(Nat) /\ (disk # <<>> => Len(disk) > 0)
    BY DEF TransferInv
  <2>6. TransferCounted'
    BY <2>1, <2>2, <2>3, <2>4, <2>5 DEF TransferCounted
  <2>7. QED
    BY <1>0, <2>1, <2>2, <2>3, <2>4, <2>5, <2>6 DEF TransferInv
<1>2. CASE ReadSome
  <2>0. job.kind = "read" /\ OffSet(job.current) >= 0
    BY <1>2, Zenon DEF ReadSome
  <2>1. /\ OffSet(job.current) >= 0
        /\ job.current \in 0 .. 2 * Half - 2 /\ job.current < Len(disk)
        /\ job.turn \in 0 .. 4 /\ (job.turn = 0 => job.current = 0)
        /\ job.buffer \in Seq(Nat) /\ Len(job.buffer) = Len(disk) /\ disk \in Seq(Nat)
    BY <2>0, Zenon DEF TransferInv
  <2> DEFINE moved(n) == [i \in DOMAIN job.buffer |->
                            IF i <= n THEN disk[job.current + i] ELSE job.buffer[i]]
  <2>2. PICK n \in Moved(Request(Len(job.buffer), job.current)) :
          /\ job.current + n <= Len(disk)
          /\ job' = [job EXCEPT !.buffer = moved(n), !.current = job.current + n,
                        !.turn = NextTurn(job.turn),
                        !.kind = IF job.current + n = Len(job.buffer) THEN "read done" ELSE "read"]
    BY <1>2, Zenon DEF ReadSome
  <2>3. n \in 1 .. Half - 1
    <3>1. Request(Len(job.buffer), job.current) \in Int
      BY <1>0, <2>1 DEF Request
    <3>2. QED
      BY <1>0, <3>1 DEF Moved
  <2>4. disk' = disk /\ job.current + n <= Len(disk)
    BY <1>2, <2>2, Zenon DEF ReadSome
  <2>5. job.current \in Nat /\ job.current < Half
    BY <1>0, <2>1, OffSetFits
  <2> DEFINE now == job.current + n
             buf == moved(n)
  <2>6. /\ buf \in Seq(Nat) /\ Len(buf) = Len(disk)
        /\ \A i \in 1 .. Len(disk) : buf[i] = IF i <= n THEN disk[job.current + i] ELSE job.buffer[i]
    <3>1. DOMAIN job.buffer = 1 .. Len(disk)
      BY <2>1
    <3>2. \A i \in 1 .. Len(disk) :
            (IF i <= n THEN disk[job.current + i] ELSE job.buffer[i]) \in Nat
      <4>1. ASSUME NEW i \in 1 .. Len(disk), i <= n PROVE disk[job.current + i] \in Nat
        <5>1. Len(disk) \in Nat
          BY <2>1
        <5>2. job.current + i \in 1 .. Len(disk)
          BY <1>0, <2>3, <2>4, <2>5, <4>1, <5>1
        <5>3. disk \in Seq(Nat)
          BY <2>1, Zenon
        <5>4. QED
          BY <5>2, <5>3, ElementOfSeq, Zenon
      <4>2. ASSUME NEW i \in 1 .. Len(disk) PROVE job.buffer[i] \in Nat
        <5>1. job.buffer \in Seq(Nat) /\ i \in 1 .. Len(job.buffer)
          BY <2>1, Zenon
        <5>2. QED
          BY <5>1, ElementOfSeq, Zenon
      <4>3. QED
        BY <4>1, <4>2
    <3>3. buf \in [1 .. Len(disk) -> Nat]
      BY <3>1, <3>2
    <3>4. QED
      BY <2>1, <3>1, <3>3
  <2>7. job'.buffer = buf /\ job'.current = now /\ job'.turn = NextTurn(job.turn)
    BY <2>2
  <2>8. /\ ~job'.failed /\ job'.kind # "write" /\ job'.kind # "write done"
        /\ job'.kind = "read" => now # Len(disk)
        /\ job'.kind = "read done" => now = Len(disk)
    <3>1. /\ job'.failed = job.failed
          /\ job'.kind = IF now = Len(disk) THEN "read done" ELSE "read"
      BY <2>1, <2>2
    <3>2. ~job.failed
      BY <2>0, Zenon DEF TransferInv
    <3>3. QED
      BY <3>1, <3>2, Zenon
  <2>9. /\ job'.turn \in 0 .. 4 /\ job'.turn # 0 /\ (job'.turn <= 1 => job.turn = 0)
        /\ now \in 0 .. 2 * Half - 2 /\ now <= Len(disk)
    <3>1. now \in 0 .. 2 * Half - 2 /\ now <= Len(disk)
      BY <1>0, <2>1, <2>3, <2>4, <2>5
    <3>2. /\ NextTurn(job.turn) \in 0 .. 4 /\ NextTurn(job.turn) # 0
          /\ NextTurn(job.turn) <= 1 => job.turn = 0
      BY <2>1, TurnFacts
    <3>3. QED
      BY <2>7, <3>1, <3>2
  <2>10. job'.turn <= 1 => \A i \in 1 .. now : buf[i] = disk[i]
    <3>1. ASSUME job'.turn <= 1 PROVE job.current = 0
      BY <2>1, <2>9, <3>1
    <3>2. ASSUME job.current = 0, NEW i \in 1 .. now PROVE i <= n /\ job.current + i = i /\ i \in 1 .. Len(disk)
      <4>1. Len(disk) \in Nat
        BY <2>1
      <4>2. QED
        BY <2>3, <2>4, <3>2, <4>1
    <3>3. QED
      BY <2>6, <3>1, <3>2
  <2> HIDE DEF buf, now, moved
  <2>11. ASSUME job'.turn <= 1, now = Len(disk) PROVE buf = SubSeq(disk, 1, now)
    <3>1. disk = SubSeq(disk, 1, now)
      BY <2>1, <2>11
    <3>2. buf = disk
      <4>1. \A i \in 1 .. Len(disk) : buf[i] = disk[i]
        BY <2>10, <2>11
      <4>2. buf \in Seq(Nat) /\ disk \in Seq(Nat) /\ Len(buf) = Len(disk)
        BY <2>1, <2>6
      <4>3. QED
        BY <4>1, <4>2, SameSeq, Zenon
    <3>3. QED
      BY <3>1, <3>2
  <2>12. TransferCounted'
    <3>1. OnePiece' => job'.turn <= 1
      BY <2>8, Zenon DEF OnePiece
    <3>2. job'.kind = "read done" =>
            /\ Len(job'.buffer) = job'.current /\ job'.current = Len(disk')
            /\ OnePiece' => job'.buffer = SubSeq(disk', 1, job'.current)
      BY <2>4, <2>6, <2>7, <2>8, <2>11, <3>1, Zenon
    <3>3. QED
      BY <2>8, <3>2, Zenon DEF TransferCounted
  <2>13. job'.kind = "read" =>
            /\ job'.current < Len(disk')
            /\ job'.buffer \in Seq(Nat) /\ Len(job'.buffer) = Len(disk')
            /\ job'.turn = 0 => job'.current = 0
            /\ job'.turn = 1 => \A i \in 1 .. job'.current : job'.buffer[i] = disk'[i]
    <3>1. now # Len(disk) => now < Len(disk)
      BY <1>0, <2>1, <2>9
    <3>2. job'.turn = 1 => job'.turn <= 1
      OBVIOUS
    <3>3. QED
      BY <2>4, <2>6, <2>7, <2>8, <2>9, <2>10, <3>1, <3>2, Zenon
  <2>14. QED
    BY <2>1, <2>4, <2>7, <2>8, <2>9, <2>12, <2>13, Zenon DEF TransferInv
<1>3. CASE ReadFails
  <2>1. job.kind = "read"
    BY <1>3, Zenon DEF ReadFails
  <2>2. /\ job.current \in 0 .. 2 * Half - 2 /\ job.current < Len(disk)
        /\ job.turn \in 0 .. 4 /\ (job.turn = 0 => job.current = 0)
        /\ (job.turn = 1 => \A i \in 1 .. job.current : job.buffer[i] = disk[i])
        /\ job.buffer \in Seq(Nat) /\ Len(job.buffer) = Len(disk) /\ disk \in Seq(Nat)
    BY <2>1, Zenon DEF TransferInv
  <2>3. /\ job' = [job EXCEPT !.buffer = SubSeq(job.buffer, 1, job.current),
                              !.turn = NextTurn(job.turn), !.kind = "read done", !.failed = TRUE]
        /\ disk' = disk
    BY <1>3, Zenon DEF ReadFails, Resize
  <2>4. /\ job'.current = job.current /\ job'.turn = NextTurn(job.turn)
        /\ job'.buffer = SubSeq(job.buffer, 1, job.current)
    <3> DEFINE cut == SubSeq(job.buffer, 1, job.current)
    <3>1. job' = [job EXCEPT !.buffer = cut, !.turn = NextTurn(job.turn),
                             !.kind = "read done", !.failed = TRUE]
      BY <2>3
    <3> HIDE DEF cut
    <3>2. job'.current = job.current /\ job'.turn = NextTurn(job.turn) /\ job'.buffer = cut
      BY <3>1
    <3>3. QED
      BY <3>2, Zenon DEF cut
  <2>5. job'.kind = "read done" /\ job'.failed
    <3>1. job'.kind = "read done" /\ job'.failed = TRUE
      BY <2>3
    <3>2. QED
      BY <3>1, Zenon
  <2>6. /\ NextTurn(job.turn) \in 0 .. 4
        /\ NextTurn(job.turn) <= 2 => job.turn = 0 \/ job.turn = 1
    BY <2>2, TurnFacts
  <2>7. /\ Len(SubSeq(job.buffer, 1, job.current)) = job.current
        /\ (\A i \in 1 .. job.current : job.buffer[i] = disk[i]) =>
              SubSeq(job.buffer, 1, job.current) = SubSeq(disk, 1, job.current)
        /\ job.current = 0 => \A i \in 1 .. job.current : job.buffer[i] = disk[i]
    <3>1. job.current \in Nat /\ job.current <= Len(job.buffer) /\ job.current <= Len(disk)
      BY <1>0, <2>2
    <3>2. job.current = 0 => \A i \in 1 .. job.current : job.buffer[i] = disk[i]
      OBVIOUS
    <3>3. QED
      BY <2>2, <3>1, <3>2, PrefixFacts, Zenon
  <2>8. OnePiece' => job'.turn <= 2
    BY <2>5, Zenon DEF OnePiece
  <2>9. OnePiece' => SubSeq(job.buffer, 1, job.current) = SubSeq(disk, 1, job.current)
    BY <2>2, <2>4, <2>6, <2>7, <2>8, Zenon
  <2>10. TransferCounted'
    BY <2>3, <2>4, <2>5, <2>7, <2>9, Zenon DEF TransferCounted
  <2>11. QED
    BY <2>2, <2>3, <2>4, <2>5, <2>6, <2>10, Zenon DEF TransferInv
<1>4. QED
  BY <1>1, <1>2, <1>3

(* write_to_file(): it begins, and a write moves some bytes to the end of the
   file, or fails. *)
LEMMA WriteKeeps ==
  ASSUME TransferInv, WriteToFile \/ WriteSome
  PROVE  TransferInv'
<1>0. Half \in Nat /\ Half >= 3 /\ Source \in Seq(Nat) /\ Len(Source) \in Nat
  BY FileAssumption
<1>1. CASE WriteToFile
  <2>1. disk' = <<>> /\ job'.current = 0 /\ job'.turn = 0
    BY <1>1 DEF WriteToFile, Idle
  <2>6. /\ job'.kind # "read" /\ job'.kind # "read done"
        /\ job'.kind = "write" => Source # <<>>
        /\ job'.kind = "write done" => Source = <<>>
    <3>1. job'.kind = IF Source = <<>> THEN "write done" ELSE "write"
      BY <1>1 DEF WriteToFile, Idle
    <3>2. QED
      BY <3>1, Zenon
  <2>2. /\ Source # <<>> => Len(Source) > 0
        /\ disk' \in Seq(Nat) /\ Len(disk') = 0
        /\ Source = <<>> => Len(Source) = 0 /\ SubSeq(Source, 1, 0) = <<>>
    BY <1>0, <2>1
  <2>3. TransferCounted'
    <3>1. 0 <= 0
      OBVIOUS
    <3>2. QED
      BY <2>1, <2>6, <2>2, <3>1, Zenon DEF TransferCounted
  <2>4. job'.current \in 0 .. 2 * Half - 2 /\ job'.turn \in 0 .. 4 /\ job'.turn # 1
    BY <1>0, <2>1
  <2>5. QED
    BY <2>1, <2>6, <2>2, <2>3, <2>4 DEF TransferInv
<1>2. CASE WriteSome
  <2>0. /\ job.kind = "write" /\ job.current \in 0 .. 2 * Half - 2 /\ Len(disk) = job.current
        /\ job.current < Len(Source)
        /\ job.turn \in 0 .. 4 /\ (job.turn = 0 => job.current = 0)
        /\ (job.turn = 1 => \A i \in 1 .. job.current : disk[i] = Source[i])
        /\ disk \in Seq(Nat) /\ Source \in Seq(Nat) /\ Len(Source) \in Nat
    BY <1>0, <1>2, Zenon DEF WriteSome, TransferInv
  <2>1. /\ job.current \in Nat /\ Len(disk) = job.current
        /\ job.current < Len(Source) /\ job.current <= 2 * Half - 2
        /\ job.turn \in 0 .. 4 /\ (job.turn = 0 => job.current = 0)
        /\ (job.turn = 1 => \A i \in 1 .. job.current : disk[i] = Source[i])
        /\ disk \in Seq(Nat) /\ Source \in Seq(Nat) /\ Len(Source) \in Nat
    BY <1>0, <2>0
  <2> DEFINE now(rc) == IF rc > 0 THEN job.current + rc ELSE job.current
  <2>2. PICK rc \in {-1, 0} \cup Moved(Request(Len(Source), job.current)) :
          /\ rc >= 0 => OffSet(job.current) >= 0
          /\ disk' = [i \in 1 .. Max({Len(disk), now(rc)}) |->
                        IF i > job.current /\ i <= now(rc)
                        THEN Source[i - job.current] ELSE disk[i]]
          /\ job' = [job EXCEPT
                !.current = now(rc), !.turn = NextTurn(job.turn),
                !.failed = ~WriteGoesOn(rc),
                !.kind = IF now(rc) = Len(Source) \/ ~WriteGoesOn(rc) THEN "write done"
                         ELSE IF now(rc) > Len(Source) THEN "overrun" ELSE "write"]
    BY <1>2 DEF WriteSome
  <2> DEFINE k == now(rc)
  <2>3. Request(Len(Source), job.current) \in Nat /\ Request(Len(Source), job.current) <= Len(Source)
    BY <1>0, <2>1 DEF Request
  <2>4. rc \in Int /\ rc < Half /\ rc <= Len(Source) /\ (rc > 0 => job.current < Half)
    <3>1. rc \in Int /\ rc < Half /\ rc <= Len(Source)
      BY <1>0, <2>1, <2>3 DEF Moved
    <3>2. rc >= 0 => job.current < Half
      BY <1>0, <2>0, <2>2, OffSetFits
    <3>3. QED
      BY <3>1, <3>2
  <2>5. k \in Nat /\ k >= job.current /\ k <= 2 * Half - 2 /\ (rc <= 0 => k = job.current)
    BY <1>0, <2>1, <2>4
  <2>6. Max({Len(disk), k}) = k
    <3>1. \A x \in {Len(disk), k} : (\A y \in {Len(disk), k} : x >= y) <=> x = k
      BY <2>1, <2>5
    <3>2. QED
      BY <3>1 DEF Max
  <2>7. job'.current = k /\ job'.turn = NextTurn(job.turn)
    BY <2>2
  <2>8. /\ job'.failed <=> ~(rc > 0)
        /\ job'.kind # "read" /\ job'.kind # "read done"
        /\ job'.kind = "write" => k # Len(Source) /\ ~(k > Len(Source))
        /\ job'.kind = "write done" => k = Len(Source) \/ ~(rc > 0)
    <3>1. job'.kind = IF k = Len(Source) \/ ~(rc > 0) THEN "write done"
                      ELSE IF k > Len(Source) THEN "overrun" ELSE "write"
      BY <2>2 DEF WriteGoesOn
    <3>2. job'.failed = ~(rc > 0)
      BY <2>2 DEF WriteGoesOn
    <3>3. QED
      BY <3>1, <3>2, Zenon
  <2>9. disk' = [i \in 1 .. k |-> IF i > job.current /\ i <= k
                                  THEN Source[i - job.current] ELSE disk[i]]
    BY <2>2, <2>6
  <2>10. disk' \in Seq(Nat) /\ Len(disk') = k
    <3>1. ASSUME NEW i \in 1 .. k
          PROVE  (IF i > job.current /\ i <= k THEN Source[i - job.current] ELSE disk[i]) \in Nat
      <4>1. CASE i > job.current
        BY <2>1, <2>4, <2>5, <3>1, <4>1
      <4>2. CASE ~(i > job.current)
        BY <2>1, <2>5, <3>1, <4>2
      <4>3. QED
        BY <4>1, <4>2
    <3>2. disk' \in [1 .. k -> Nat]
      BY <2>9, <3>1
    <3>3. QED
      BY <2>5, <3>2
  <2>11. /\ job'.turn \in 0 .. 4 /\ job'.turn # 0
         /\ job'.turn <= 1 => job.turn = 0
         /\ job'.turn <= 2 => job.turn = 0 \/ job.turn = 1
    BY <2>1, <2>7, TurnFacts, Zenon
  <2> HIDE DEF k
  <2>12. ASSUME job'.turn <= 1 \/ (rc <= 0 /\ job'.turn <= 2)
         PROVE  \A i \in 1 .. k : disk'[i] = Source[i]
    <3>1. CASE job.turn = 0
      BY <2>1, <2>5, <2>9, <3>1
    <3>2. CASE rc <= 0 /\ job.turn = 1
      BY <2>1, <2>5, <2>9, <3>2
    <3>3. QED
      BY <2>1, <2>11, <2>12, <3>1, <3>2
  <2>13. ASSUME k <= Len(Source), job'.turn <= 1 \/ (rc <= 0 /\ job'.turn <= 2)
         PROVE  disk' = SubSeq(Source, 1, k)
    <3>1. /\ Len(SubSeq(Source, 1, k)) = k /\ SubSeq(Source, 1, k) \in Seq(Nat)
          /\ \A i \in 1 .. k : SubSeq(Source, 1, k)[i] = Source[i]
      BY <2>1, <2>5, <2>13
    <3>2. \A i \in 1 .. k : disk'[i] = Source[i]
      BY <2>12, <2>13
    <3>3. QED
      BY <2>10, <3>1, <3>2
  <2>14. /\ ~(rc > 0) => k <= Len(Source)
         /\ k = Len(Source) => k <= Len(Source)
         /\ ~(k > Len(Source)) /\ k # Len(Source) => k < Len(Source)
    BY <2>1, <2>4, <2>5
  <2>15. OnePiece' => job'.turn <= 1 \/ (rc <= 0 /\ job'.turn <= 2)
    <3>1. ~(rc > 0) => rc <= 0
      BY <2>4
    <3>2. QED
      BY <2>8, <3>1, Zenon DEF OnePiece
  <2>16. TransferCounted'
    BY <2>7, <2>8, <2>10, <2>13, <2>14, <2>15, Zenon DEF TransferCounted
  <2>17. k \in 0 .. 2 * Half - 2
    BY <1>0, <2>5
  <2>18. job'.turn = 1 => job'.turn <= 1
    OBVIOUS
  <2>19. QED
    BY <2>7, <2>8, <2>10, <2>11, <2>12, <2>14, <2>16, <2>17, <2>18, Zenon DEF TransferInv
<1>3. QED
  BY <1>1, <1>2

(* However the kernel cuts a transfer, and wherever the offset stops to fit,
   read_file() returns as many bytes as it has read and write_to_file() says
   how long the file is; all of them unless a request failed, and the right
   ones if they moved in one piece.  For every content and every data. *)
THEOREM TransfersAreCounted == FileSpec => []TransferCounted
<1>1. FileInit => TransferInv
  BY FileAssumption DEF FileInit, TransferInv, TransferCounted, Idle
<1>2. TransferInv /\ [FileNext]_asyncFileVars => TransferInv'
  <2> SUFFICES ASSUME TransferInv, [FileNext]_asyncFileVars PROVE TransferInv'
    OBVIOUS
  <2>1. CASE TransferNext
    <3>1. ASSUME JobOver PROVE TransferInv'
      <4>1. job'.kind = "none" /\ job'.turn = 0 /\ job'.current = 0 /\ disk' = disk
        BY <3>1 DEF JobOver, Idle
      <4>2. TransferCounted'
        BY <4>1 DEF TransferCounted
      <4>3. QED
        BY <4>1, <4>2, FileAssumption DEF TransferInv
    <3>2. QED
      BY <2>1, <3>1, ReadKeeps, WriteKeeps DEF TransferNext, TransferStep
  <2>2. CASE UNCHANGED <<disk, job>>
    BY <2>2 DEF TransferInv, TransferCounted, OnePiece
  <2>3. OwnerNext => UNCHANGED <<disk, job>>
    BY DEF OwnerNext, ConstructFile, Open, OpenDone, MoveFile, AssignFile, DestructFile,
       CloseFile, CloseDone, ResumeClose
  <2>4. QED
    BY <2>1, <2>2, <2>3 DEF FileNext, asyncFileVars
<1>3. TransferInv => TransferCounted
  BY DEF TransferInv
<1>4. QED
  BY <1>1, <1>2, <1>3, PTL DEF FileSpec

-----------------------------------------------------------------------------
(***************************************************************************)
(* tcp_stream                                                              *)
(***************************************************************************)

(* What a coroutine awaits. *)
IoRecord == [id : Nat, pc : {"none", "pending", "complete", "done"}, res : Nat,
             whole : BOOLEAN, offset : Nat, so_far : Nat, moved : Nat,
             clean : BOOLEAN, reads : Nat]

(* A new operation of actor a replaces what a awaited, becomes the token of
   its side, and tells the others of that side that their token is gone. *)
LEMMA SubmitFacts ==
  ASSUME StreamTypeOK, NEW a \in Actors, NEW whole \in BOOLEAN, NEW offset \in Nat,
         NEW reads \in Nat, Submit(a, whole, offset, reads)
  PROVE  /\ begun' \in Nat /\ token' \in [Sides -> Nat] /\ io' \in [Actors -> IoRecord]
         /\ \A s \in Sides : token'[s] = IF s = Side(a) THEN begun + 1 ELSE token[s]
         /\ io'[a].id = begun + 1 /\ io'[a].pc = "pending" /\ io'[a].whole = whole
         /\ io'[a].offset = offset /\ io'[a].so_far = 0 /\ io'[a].moved = 0
         /\ io'[a].clean => Alone(a)
         /\ \A b \in Actors \ {a} :
               /\ io'[b].id = io[b].id /\ io'[b].pc = io[b].pc /\ io'[b].res = io[b].res
               /\ io'[b].whole = io[b].whole /\ io'[b].offset = io[b].offset
               /\ io'[b].so_far = io[b].so_far /\ io'[b].moved = io[b].moved
               /\ io'[b].clean => io[b].clean /\ Side(b) # Side(a)
<1>1. begun' \in Nat /\ begun' = begun + 1
  BY DEF StreamTypeOK, Submit
<1>2. token' \in [Sides -> Nat] /\ \A s \in Sides : token'[s] = IF s = Side(a) THEN begun + 1 ELSE token[s]
  BY DEF StreamTypeOK, Submit, Side, Sides
<1>3. Alone(a) \in BOOLEAN
  BY DEF Alone
<1>4. \A b \in Actors : io[b] \in IoRecord
  BY DEF StreamTypeOK, IoRecord
<1>5. io'[a] = [NoIo EXCEPT !.id = begun + 1, !.pc = "pending", !.whole = whole,
                            !.offset = offset, !.clean = Alone(a), !.reads = reads]
  BY DEF Submit
<1>6. io'[a] = [id |-> begun + 1, pc |-> "pending", res |-> 0, whole |-> whole,
                offset |-> offset, so_far |-> 0, moved |-> 0, clean |-> Alone(a),
                reads |-> reads]
  BY <1>5 DEF NoIo
<1>7. io'[a] \in IoRecord
  BY <1>1, <1>3, <1>6 DEF IoRecord, StreamTypeOK
<1>8. ASSUME NEW b \in Actors \ {a}
      PROVE  /\ io'[b] \in IoRecord
             /\ io'[b].id = io[b].id /\ io'[b].pc = io[b].pc /\ io'[b].res = io[b].res
             /\ io'[b].whole = io[b].whole /\ io'[b].offset = io[b].offset
             /\ io'[b].so_far = io[b].so_far /\ io'[b].moved = io[b].moved
             /\ io'[b].clean => io[b].clean /\ Side(b) # Side(a)
  <2>1. io'[b] = [io[b] EXCEPT !.clean = @ /\ Side(b) # Side(a)]
    BY DEF Submit
  <2> DEFINE v == io[b].clean /\ Side(b) # Side(a)
  <2>2. v \in BOOLEAN
    OBVIOUS
  <2>3. io'[b] = [io[b] EXCEPT !.clean = v]
    BY <2>1
  <2> HIDE DEF v
  <2>4. io'[b] \in IoRecord /\ io'[b].clean = v
    BY <1>4, <2>2, <2>3 DEF IoRecord
  <2>5. /\ io'[b].id = io[b].id /\ io'[b].pc = io[b].pc /\ io'[b].res = io[b].res
        /\ io'[b].whole = io[b].whole /\ io'[b].offset = io[b].offset
        /\ io'[b].so_far = io[b].so_far /\ io'[b].moved = io[b].moved
    BY <1>4, <2>3 DEF IoRecord
  <2>6. io'[b].clean => io[b].clean /\ Side(b) # Side(a)
    BY <2>4, Zenon DEF v
  <2>7. QED
    BY <2>4, <2>5, <2>6
<1>9. io' \in [Actors -> IoRecord]
  <2>1. io' = [b \in Actors |-> io'[b]]
    BY DEF Submit
  <2>2. \A b \in Actors : io'[b] \in IoRecord
    BY <1>7, <1>8
  <2>3. QED
    BY <2>1, <2>2
<1>10. /\ io'[a].id = begun + 1 /\ io'[a].pc = "pending" /\ io'[a].whole = whole
       /\ io'[a].offset = offset /\ io'[a].so_far = 0 /\ io'[a].moved = 0
  BY <1>6
<1>11. io'[a].clean => Alone(a)
  <2>1. io'[a].clean = Alone(a)
    BY <1>6
  <2>2. QED
    BY <2>1, Zenon
<1>12. QED
  BY <1>1, <1>2, <1>8, <1>9, <1>10, <1>11

(* The kernel completes an operation with a result. *)
LEMMA KernelIoFacts ==
  ASSUME StreamTypeOK, NEW a \in Actors, KernelIo(a)
  PROVE  /\ io[a].pc = "pending"
         /\ io' \in [Actors -> IoRecord]
         /\ \A b \in Actors \ {a} : io'[b] = io[b]
         /\ io'[a].pc = "complete" /\ io'[a].moved = io[a].moved + io'[a].res
         /\ io'[a].res = 0 \/ io'[a].res <= Left(a)
         /\ io'[a].id = io[a].id /\ io'[a].so_far = io[a].so_far
         /\ io'[a].whole = io[a].whole /\ io'[a].offset = io[a].offset
         /\ io'[a].clean = io[a].clean
<1>1. \A b \in Actors : io[b] \in IoRecord
  BY DEF StreamTypeOK, IoRecord
<1>2. PICK n \in {0} \cup (IF sd = "open" THEN 1 .. Left(a) ELSE {}) :
        io' = [io EXCEPT ![a].pc = "complete", ![a].res = n, ![a].moved = @ + n]
  BY DEF KernelIo
<1>3. n \in Nat /\ (n = 0 \/ n <= Left(a))
  <2>1. Left(a) \in Int
    BY <1>1, StreamAssumption DEF Left, IoRecord
  <2>2. QED
    BY <2>1
<1>4. io'[a] = [io[a] EXCEPT !.pc = "complete", !.res = n, !.moved = io[a].moved + n]
  BY <1>2 DEF StreamTypeOK
<1>5. /\ io'[a] \in IoRecord
      /\ io'[a].pc = "complete" /\ io'[a].moved = io[a].moved + n /\ io'[a].res = n
      /\ io'[a].id = io[a].id /\ io'[a].so_far = io[a].so_far
      /\ io'[a].whole = io[a].whole /\ io'[a].offset = io[a].offset
      /\ io'[a].clean = io[a].clean
  <2>1. /\ io'[a].pc = "complete" /\ io'[a].moved = io[a].moved + n /\ io'[a].res = n
        /\ io'[a].id = io[a].id /\ io'[a].so_far = io[a].so_far
        /\ io'[a].whole = io[a].whole /\ io'[a].offset = io[a].offset
        /\ io'[a].clean = io[a].clean
    BY <1>1, <1>4 DEF IoRecord
  <2>2. io[a].moved + n \in Nat
    BY <1>1, <1>3 DEF IoRecord
  <2>3. io'[a] \in IoRecord
    BY <1>1, <1>3, <1>4, <2>2 DEF IoRecord
  <2>4. QED
    BY <2>1, <2>3
<1>6. \A b \in Actors \ {a} : io'[b] = io[b]
  BY <1>2 DEF StreamTypeOK
<1>7. io' \in [Actors -> IoRecord]
  <2>1. io' = [b \in Actors |-> io'[b]]
    BY <1>2 DEF StreamTypeOK
  <2>2. \A b \in Actors : io'[b] \in IoRecord
    BY <1>1, <1>5, <1>6
  <2>3. QED
    BY <2>1, <2>2
<1>8. QED
  BY <1>3, <1>5, <1>6, <1>7 DEF KernelIo

(* read() and write() go round. *)
LEMMA SubmitAgainFacts ==
  ASSUME StreamTypeOK, NEW a \in Actors, SubmitAgain(a)
  PROVE  /\ io[a].pc = "complete" /\ io[a].whole
         /\ io' \in [Actors -> IoRecord]
         /\ token' \in [Sides -> Nat]
         /\ \A s \in Sides : token'[s] = IF s = Side(a) THEN io[a].id ELSE token[s]
         /\ \A b \in Actors \ {a} : io'[b] = io[b]
         /\ io'[a].pc = "pending" /\ io'[a].so_far = io[a].so_far + io[a].res
         /\ io'[a].id = io[a].id /\ io'[a].moved = io[a].moved
         /\ io'[a].whole = io[a].whole /\ io'[a].offset = io[a].offset
         /\ io'[a].clean => io[a].clean
<1>1. \A b \in Actors : io[b] \in IoRecord
  BY DEF StreamTypeOK, IoRecord
<1> DEFINE v == io[a].clean /\ Alone(a)
<1>2. v \in BOOLEAN
  OBVIOUS
<1>3. io' = [io EXCEPT ![a].pc = "pending", ![a].so_far = @ + io[a].res, ![a].clean = v]
  BY DEF SubmitAgain, StreamTypeOK
<1>4. v => io[a].clean
  BY Zenon
<1> HIDE DEF v
<1>5. io'[a] = [io[a] EXCEPT !.pc = "pending", !.so_far = io[a].so_far + io[a].res, !.clean = v]
  BY <1>3 DEF StreamTypeOK
<1>6. /\ io'[a] \in IoRecord
      /\ io'[a].pc = "pending" /\ io'[a].so_far = io[a].so_far + io[a].res
      /\ io'[a].id = io[a].id /\ io'[a].moved = io[a].moved
      /\ io'[a].whole = io[a].whole /\ io'[a].offset = io[a].offset
      /\ io'[a].clean = v
  <2>1. /\ io'[a].pc = "pending" /\ io'[a].so_far = io[a].so_far + io[a].res
        /\ io'[a].id = io[a].id /\ io'[a].moved = io[a].moved
        /\ io'[a].whole = io[a].whole /\ io'[a].offset = io[a].offset
        /\ io'[a].clean = v
    BY <1>1, <1>5 DEF IoRecord
  <2>2. io[a].so_far + io[a].res \in Nat
    BY <1>1 DEF IoRecord
  <2>3. io'[a] \in IoRecord
    BY <1>1, <1>2, <1>5, <2>2 DEF IoRecord
  <2>4. QED
    BY <2>1, <2>3
<1>7. \A b \in Actors \ {a} : io'[b] = io[b]
  BY <1>3 DEF StreamTypeOK
<1>8. io' \in [Actors -> IoRecord]
  <2>1. io' = [b \in Actors |-> io'[b]]
    BY <1>3 DEF StreamTypeOK
  <2>2. \A b \in Actors : io'[b] \in IoRecord
    BY <1>1, <1>6, <1>7
  <2>3. QED
    BY <2>1, <2>2
<1>9. io[a].pc = "complete" /\ io[a].whole
  BY DEF SubmitAgain, Notify
<1>10. /\ token' \in [Sides -> Nat]
       /\ \A s \in Sides : token'[s] = IF s = Side(a) THEN io[a].id ELSE token[s]
  BY <1>1 DEF SubmitAgain, StreamTypeOK, Side, Sides, IoRecord
<1>11. io'[a].clean => io[a].clean
  BY <1>4, <1>6, Zenon
<1>12. QED
  BY <1>6, <1>7, <1>8, <1>9, <1>10, <1>11

(* A coroutine is resumed and its frame goes on. *)
LEMMA ResumeIoFacts ==
  ASSUME StreamTypeOK, NEW a \in Actors, ResumeIo(a)
  PROVE  /\ io[a].pc = "complete"
         /\ io' \in [Actors -> IoRecord]
         /\ token' \in [Sides -> Nat]
         /\ \A s \in Sides : token'[s] = IF s = Side(a) THEN 0 ELSE token[s]
         /\ \A b \in Actors \ {a} : io'[b] = io[b]
         /\ io'[a].pc \in {"none", "done"}
<1>1. \A b \in Actors : io[b] \in IoRecord
  BY DEF StreamTypeOK, IoRecord
<1>2. io' = [io EXCEPT ![a] = IF a # "drain" THEN NoIo
             ELSE [NoIo EXCEPT !.pc = "done", !.res = io[a].res, !.reads = io[a].reads]]
  BY DEF ResumeIo
<1>3. io'[a] \in IoRecord /\ io'[a].pc \in {"none", "done"}
  BY <1>1, <1>2 DEF StreamTypeOK, IoRecord, NoIo
<1>4. \A b \in Actors \ {a} : io'[b] = io[b]
  BY <1>2 DEF StreamTypeOK
<1>5. io' \in [Actors -> IoRecord]
  <2>1. io' = [b \in Actors |-> io'[b]]
    BY <1>2 DEF StreamTypeOK
  <2>2. \A b \in Actors : io'[b] \in IoRecord
    BY <1>1, <1>3, <1>4
  <2>3. QED
    BY <2>1, <2>2
<1>6. /\ token' \in [Sides -> Nat]
      /\ \A s \in Sides : token'[s] = IF s = Side(a) THEN 0 ELSE token[s]
  BY DEF ResumeIo, ClearToken, StreamTypeOK, Side, Sides
<1>7. QED
  BY <1>3, <1>4, <1>5, <1>6 DEF ResumeIo

(* A request to cancel completes, perhaps with its operation. *)
LEMMA KernelCancelFacts ==
  ASSUME StreamTypeOK, NEW s \in Sides, KernelCancel(s)
  PROVE  /\ io' \in [Actors -> IoRecord]
         /\ \A a \in Actors :
               \/ io'[a] = io[a]
               \/ /\ io[a].pc = "pending" /\ io'[a].pc = "complete" /\ io'[a].res = 0
                  /\ io'[a].id = io[a].id /\ io'[a].so_far = io[a].so_far
                  /\ io'[a].moved = io[a].moved /\ io'[a].whole = io[a].whole
                  /\ io'[a].offset = io[a].offset /\ io'[a].clean = io[a].clean
<1>1. \A b \in Actors : io[b] \in IoRecord
  BY DEF StreamTypeOK, IoRecord
<1>2. PICK code \in CancelCodes :
        io' = [a \in Actors |-> IF code = "done" /\ a \in Target(s)
                                THEN [io[a] EXCEPT !.pc = "complete", !.res = 0] ELSE io[a]]
  BY DEF KernelCancel
<1>3. ASSUME NEW a \in Actors, io'[a] # io[a]
      PROVE  /\ io'[a] \in IoRecord
             /\ io[a].pc = "pending" /\ io'[a].pc = "complete" /\ io'[a].res = 0
             /\ io'[a].id = io[a].id /\ io'[a].so_far = io[a].so_far
             /\ io'[a].moved = io[a].moved /\ io'[a].whole = io[a].whole
             /\ io'[a].offset = io[a].offset /\ io'[a].clean = io[a].clean
  <2>1. a \in Target(s) /\ io'[a] = [io[a] EXCEPT !.pc = "complete", !.res = 0]
    BY <1>2, <1>3
  <2>2. /\ io'[a].pc = "complete" /\ io'[a].res = 0
        /\ io'[a].id = io[a].id /\ io'[a].so_far = io[a].so_far
        /\ io'[a].moved = io[a].moved /\ io'[a].whole = io[a].whole
        /\ io'[a].offset = io[a].offset /\ io'[a].clean = io[a].clean
    BY <1>1, <2>1 DEF IoRecord
  <2>3. io'[a] \in IoRecord
    <3>1. \A n \in Nat : [io[a] EXCEPT !.pc = "complete", !.res = n] \in IoRecord
      BY <1>1 DEF IoRecord
    <3>2. QED
      BY <2>1, <3>1
  <2>4. io[a].pc = "pending"
    BY <2>1 DEF Target
  <2>5. QED
    BY <2>2, <2>3, <2>4
<1>4. io' \in [Actors -> IoRecord]
  <2>1. io' = [b \in Actors |-> io'[b]]
    BY <1>2
  <2>2. \A b \in Actors : io'[b] \in IoRecord
    BY <1>1, <1>3
  <2>3. QED
    BY <2>1, <2>2
<1>5. QED
  BY <1>3, <1>4

(* The canceller goes on; unless it failed nobody on that side counts on the
   token any more. *)
LEMMA ResumeCancelFacts ==
  ASSUME StreamTypeOK, NEW s \in Sides, ResumeCancel(s)
  PROVE  /\ io' \in [Actors -> IoRecord]
         /\ token' \in [Sides -> Nat]
         /\ \A r \in Sides : token'[r] # token[r] =>
               r = s /\ token'[r] = 0 /\ cancel[s].res # "failed"
         /\ \A a \in Actors :
               /\ io'[a].id = io[a].id /\ io'[a].pc = io[a].pc /\ io'[a].res = io[a].res
               /\ io'[a].whole = io[a].whole /\ io'[a].offset = io[a].offset
               /\ io'[a].so_far = io[a].so_far /\ io'[a].moved = io[a].moved
               /\ io'[a].clean => io[a].clean
               /\ Side(a) = s /\ cancel[s].res # "failed" => ~io'[a].clean
<1>1. \A b \in Actors : io[b] \in IoRecord
  BY DEF StreamTypeOK, IoRecord
<1>2. io' = [a \in Actors |-> IF Side(a) = s /\ cancel[s].res # "failed"
                              THEN [io[a] EXCEPT !.clean = FALSE] ELSE io[a]]
  BY DEF ResumeCancel
<1>3. ASSUME NEW a \in Actors
      PROVE  /\ io'[a] \in IoRecord
             /\ io'[a].id = io[a].id /\ io'[a].pc = io[a].pc /\ io'[a].res = io[a].res
             /\ io'[a].whole = io[a].whole /\ io'[a].offset = io[a].offset
             /\ io'[a].so_far = io[a].so_far /\ io'[a].moved = io[a].moved
             /\ io'[a].clean => io[a].clean
             /\ Side(a) = s /\ cancel[s].res # "failed" => ~io'[a].clean
  <2>1. CASE Side(a) = s /\ cancel[s].res # "failed"
    <3>1. io'[a] = [io[a] EXCEPT !.clean = FALSE]
      BY <1>2, <2>1
    <3>2. /\ io'[a] \in IoRecord
          /\ io'[a].id = io[a].id /\ io'[a].pc = io[a].pc /\ io'[a].res = io[a].res
          /\ io'[a].whole = io[a].whole /\ io'[a].offset = io[a].offset
          /\ io'[a].so_far = io[a].so_far /\ io'[a].moved = io[a].moved
          /\ io'[a].clean = FALSE
      BY <1>1, <3>1 DEF IoRecord
    <3>3. ~io'[a].clean
      BY <3>2, Zenon
    <3>4. QED
      BY <3>2, <3>3
  <2>2. CASE ~(Side(a) = s /\ cancel[s].res # "failed")
    <3>1. io'[a] = io[a]
      BY <1>2, <2>2
    <3>2. QED
      BY <1>1, <2>2, <3>1
  <2>3. QED
    BY <2>1, <2>2
<1>4. io' \in [Actors -> IoRecord]
  <2>1. io' = [b \in Actors |-> io'[b]]
    BY <1>2
  <2>2. QED
    BY <1>3, <2>1
<1>5. /\ token' \in [Sides -> Nat]
      /\ \A r \in Sides : token'[r] # token[r] =>
            r = s /\ token'[r] = 0 /\ cancel[s].res # "failed"
  BY DEF ResumeCancel, CancelClears, StreamTypeOK
<1>6. QED
  BY <1>3, <1>4, <1>5

(* Every step keeps the types. *)
LEMMA StreamTypeStep ==
  ASSUME StreamTypeOK, [StreamNext]_streamVars
  PROVE  StreamTypeOK'
<1> DEFINE Lives == {"none", "connecting", "alive", "destroyed"}
<1>0. /\ StreamTypeOK <=> /\ life \in Lives /\ begun \in Nat /\ token \in [Sides -> Nat]
                          /\ io \in [Actors -> IoRecord]
      /\ StreamTypeOK' <=> /\ life' \in Lives /\ begun' \in Nat /\ token' \in [Sides -> Nat]
                           /\ io' \in [Actors -> IoRecord]
  BY DEF StreamTypeOK, IoRecord
<1>1. CASE Accept \/ Connect \/ Connected \/ Shutdown \/ ShutdownWrite \/ Close \/ CloseResult
  BY <1>0, <1>1 DEF Accept, Connect, Connected, Shutdown, ShutdownWrite, Close, CloseResult
<1>2. CASE ShutdownRead
  <2>1. CASE io' = [io EXCEPT !["drain"] = NoIo] /\ UNCHANGED <<token, begun>>
    <3>1. NoIo \in IoRecord
      BY DEF NoIo, IoRecord
    <3>2. QED
      BY <1>0, <1>2, <2>1, <3>1 DEF ShutdownRead
  <2>2. CASE Submit("drain", FALSE, 0, IF shut = "drain" THEN io["drain"].reads + 1 ELSE 1)
    <3>1. (IF shut = "drain" THEN io["drain"].reads + 1 ELSE 1) \in Nat
      BY <1>0 DEF IoRecord, Actors
    <3>2. begun' \in Nat /\ token' \in [Sides -> Nat] /\ io' \in [Actors -> IoRecord]
      BY <2>2, <3>1, SubmitFacts DEF Actors
    <3>3. QED
      BY <1>0, <1>2, <3>2 DEF ShutdownRead
  <2>3. QED
    BY <1>2, <2>1, <2>2 DEF ShutdownRead
<1>3. CASE Destroy_
  BY <1>0, <1>3 DEF Destroy_, Sides
<1>4. ASSUME NEW a \in Actors, Begin(a)
      PROVE  StreamTypeOK'
  <2>1. PICK whole \in BOOLEAN, offset \in {0, 1} : Submit(a, whole, offset, 0)
    BY <1>4 DEF Begin
  <2>2. begun' \in Nat /\ token' \in [Sides -> Nat] /\ io' \in [Actors -> IoRecord]
    BY <2>1, SubmitFacts
  <2>3. QED
    BY <1>0, <1>4, <2>2 DEF Begin
<1>5. ASSUME NEW a \in Actors, KernelIo(a)
      PROVE  StreamTypeOK'
  BY <1>0, <1>5, KernelIoFacts DEF KernelIo
<1>6. ASSUME NEW a \in Actors, SubmitAgain(a)
      PROVE  StreamTypeOK'
  BY <1>0, <1>6, SubmitAgainFacts DEF SubmitAgain
<1>7. ASSUME NEW a \in Actors, ResumeIo(a)
      PROVE  StreamTypeOK'
  BY <1>0, <1>7, ResumeIoFacts DEF ResumeIo
<1>8. ASSUME NEW s \in Sides, Cancel(s)
      PROVE  StreamTypeOK'
  BY <1>0, <1>8 DEF Cancel
<1>9. ASSUME NEW s \in Sides, KernelCancel(s)
      PROVE  StreamTypeOK'
  BY <1>0, <1>9, KernelCancelFacts DEF KernelCancel
<1>10. ASSUME NEW s \in Sides, ResumeCancel(s)
       PROVE  StreamTypeOK'
  BY <1>0, <1>10, ResumeCancelFacts DEF ResumeCancel
<1>11. CASE UNCHANGED streamVars
  BY <1>0, <1>11 DEF streamVars
<1>12. QED
  BY <1>1, <1>2, <1>3, <1>4, <1>5, <1>6, <1>7, <1>8, <1>9, <1>10, <1>11 DEF StreamNext

(* An operation of a side is the new one, or one that has lost its claim on
   the token of that side. *)
LEMMA SubmitKeepsTokens ==
  ASSUME StreamTypeOK, TokenInv, NEW a \in Actors, NEW whole \in BOOLEAN,
         NEW offset \in Nat, NEW reads \in Nat, Submit(a, whole, offset, reads),
         life \notin {"none", "connecting"}, life' = life, ~Outstanding(a),
         a = "drain" => shut' = "drain",
         shut' = shut \/ a = "drain"
  PROVE  TokenInv'
<1>1. /\ \A s \in Sides : token'[s] = IF s = Side(a) THEN begun + 1 ELSE token[s]
      /\ io'[a].id = begun + 1 /\ io'[a].pc = "pending"
      /\ io'[a].clean => Alone(a)
      /\ \A b \in Actors \ {a} : /\ io'[b].id = io[b].id /\ io'[b].pc = io[b].pc
                                 /\ io'[b].clean => io[b].clean /\ Side(b) # Side(a)
  BY SubmitFacts
<1>2. \A s \in Sides : token'[s] # 0 =>
         \E b \in Actors : Side(b) = s /\ Outstanding(b)' /\ io'[b].id = token'[s]
  BY <1>1 DEF TokenInv, Outstanding
<1>3. \A b, c \in Actors : b # c /\ Side(b) = Side(c) /\ Outstanding(b)' /\ Outstanding(c)' =>
         ~io'[b].clean
  BY <1>1 DEF TokenInv, Outstanding, Alone
<1>4. PendingCancellable'
  BY <1>1 DEF TokenInv, PendingCancellable, Outstanding, Side, Sides
<1>5. Outstanding("drain")' => shut' = "drain"
  BY <1>1 DEF TokenInv, Outstanding, Actors
<1>6. QED
  BY <1>2, <1>3, <1>4, <1>5 DEF TokenInv

(* Every step keeps the tokens right. *)
LEMMA TokenStep ==
  ASSUME StreamTypeOK, TokenInv, [StreamNext]_streamVars
  PROVE  TokenInv'
<1>1. CASE Accept \/ Connect \/ Connected \/ Shutdown \/ ShutdownWrite \/ Close \/ CloseResult
  <2>1. /\ UNCHANGED <<token, io>>
        /\ life' = life \/ life \in {"none", "connecting"}
        /\ life' \in {"none", "connecting"} => life \in {"none", "connecting"} /\ shut' = shut
        /\ shut' = shut \/ shut # "drain"
    BY <1>1 DEF Accept, Connect, Connected, Shutdown, ShutdownWrite, Close, CloseResult,
                OwnerFree, TokenInv
  <2>2. QED
    BY <2>1 DEF TokenInv, PendingCancellable, Outstanding
<1>2. CASE ShutdownRead
  <2>0. life \in {"alive", "destroyed"} /\ life' = life /\ ~Outstanding("drain")
    BY <1>2 DEF ShutdownRead, TokenInv, Outstanding, StreamTypeOK
  <2>1. CASE /\ shut' = "over" /\ io' = [io EXCEPT !["drain"] = NoIo] 
             /\ UNCHANGED <<token, begun>>
    <3>1. /\ io'["drain"].pc = "none"
          /\ \A b \in Actors \ {"drain"} : io'[b] = io[b]
      BY <2>1 DEF StreamTypeOK, NoIo, Actors
    <3>2. QED
      BY <2>0, <2>1, <3>1 DEF TokenInv, PendingCancellable, Outstanding
  <2>2. CASE /\ shut' = "drain"
             /\ Submit("drain", FALSE, 0, IF shut = "drain" THEN io["drain"].reads + 1 ELSE 1)
    <3>1. (IF shut = "drain" THEN io["drain"].reads + 1 ELSE 1) \in Nat
      BY DEF StreamTypeOK, Actors
    <3>2. QED
      BY <2>0, <2>2, <3>1, SubmitKeepsTokens DEF Actors
  <2>3. QED
    BY <1>2, <2>1, <2>2 DEF ShutdownRead
<1>3. CASE Destroy_
  BY <1>3 DEF Destroy_, OwnerFree, TokenInv, PendingCancellable, Outstanding, StreamTypeOK
<1>4. ASSUME NEW a \in Actors, Begin(a)
      PROVE  TokenInv'
  <2>1. PICK whole \in BOOLEAN, offset \in {0, 1} : Submit(a, whole, offset, 0)
    BY <1>4 DEF Begin
  <2>2. QED
    BY <1>4, <2>1, SubmitKeepsTokens DEF Begin
<1>5. ASSUME NEW a \in Actors, KernelIo(a)
      PROVE  TokenInv'
  <2>1. /\ io[a].pc = "pending" /\ io'[a].pc = "complete" /\ io'[a].id = io[a].id
        /\ io'[a].clean = io[a].clean
        /\ \A b \in Actors \ {a} : io'[b] = io[b]
        /\ UNCHANGED <<life, shut, token>>
    BY <1>5, KernelIoFacts DEF KernelIo
  <2>2. \A b \in Actors : /\ Outstanding(b)' <=> Outstanding(b)
                          /\ io'[b].id = io[b].id /\ io'[b].clean = io[b].clean
    BY <2>1 DEF Outstanding
  <2>3. QED
    BY <2>1, <2>2 DEF TokenInv, PendingCancellable, Actors
<1>6. ASSUME NEW a \in Actors, SubmitAgain(a)
      PROVE  TokenInv'
  <2>1. /\ io[a].pc = "complete" /\ io'[a].pc = "pending" /\ io'[a].id = io[a].id
        /\ io'[a].clean => io[a].clean
        /\ \A b \in Actors \ {a} : io'[b] = io[b]
        /\ \A s \in Sides : token'[s] = IF s = Side(a) THEN io[a].id ELSE token[s]
        /\ UNCHANGED <<life, shut>>
    BY <1>6, SubmitAgainFacts DEF SubmitAgain
  <2>2. \A b \in Actors : /\ Outstanding(b)' <=> Outstanding(b)
                          /\ io'[b].id = io[b].id
                          /\ io'[b].clean => io[b].clean
    BY <2>1 DEF Outstanding
  <2>3. Outstanding(a)
    BY <2>1 DEF Outstanding
  <2>4. \A s \in Sides : token'[s] # 0 =>
           \E b \in Actors : Side(b) = s /\ Outstanding(b)' /\ io'[b].id = token'[s]
    BY <2>1, <2>2, <2>3 DEF TokenInv
  <2>5. \A b, c \in Actors : b # c /\ Side(b) = Side(c) /\ Outstanding(b)' /\ Outstanding(c)' =>
           ~io'[b].clean
    BY <2>2 DEF TokenInv
  <2>6. PendingCancellable'
    BY <2>1, <2>2, <2>3 DEF TokenInv, PendingCancellable, Side, Sides
  <2>7. QED
    BY <2>1, <2>2, <2>4, <2>5, <2>6 DEF TokenInv, Actors
<1>7. ASSUME NEW a \in Actors, ResumeIo(a)
      PROVE  TokenInv'
  <2>1. /\ io[a].pc = "complete" /\ io'[a].pc \in {"none", "done"}
        /\ \A b \in Actors \ {a} : io'[b] = io[b]
        /\ \A s \in Sides : token'[s] = IF s = Side(a) THEN 0 ELSE token[s]
        /\ UNCHANGED <<life, shut>>
    BY <1>7, ResumeIoFacts DEF ResumeIo
  <2>2. \A b \in Actors : /\ Outstanding(b)' <=> Outstanding(b) /\ b # a
                          /\ Outstanding(b)' => io'[b] = io[b]
    BY <2>1 DEF Outstanding
  <2>3. Outstanding(a)
    BY <2>1 DEF Outstanding
  <2>4. \A s \in Sides : token'[s] # 0 =>
           \E b \in Actors : Side(b) = s /\ Outstanding(b)' /\ io'[b].id = token'[s]
    BY <2>1, <2>2 DEF TokenInv
  <2>5. \A b, c \in Actors : b # c /\ Side(b) = Side(c) /\ Outstanding(b)' /\ Outstanding(c)' =>
           ~io'[b].clean
    BY <2>2 DEF TokenInv
  <2>6. PendingCancellable'
    BY <2>1, <2>2, <2>3 DEF TokenInv, PendingCancellable, Side, Sides
  <2>7. QED
    BY <2>1, <2>2, <2>4, <2>5, <2>6 DEF TokenInv, Actors
<1>8. ASSUME NEW s \in Sides, Cancel(s)
      PROVE  TokenInv'
  BY <1>8 DEF Cancel, TokenInv, PendingCancellable, Outstanding
<1>9. ASSUME NEW s \in Sides, KernelCancel(s)
      PROVE  TokenInv'
  <2>1. /\ \A a \in Actors : /\ Outstanding(a)' <=> Outstanding(a)
                             /\ io'[a].id = io[a].id /\ io'[a].clean = io[a].clean
        /\ UNCHANGED <<life, shut, token>>
    BY <1>9, KernelCancelFacts DEF KernelCancel, Outstanding
  <2>2. QED
    BY <2>1 DEF TokenInv, PendingCancellable, Actors
<1>10. ASSUME NEW s \in Sides, ResumeCancel(s)
       PROVE  TokenInv'
  <2>1. /\ \A r \in Sides : token'[r] # token[r] =>
               r = s /\ token'[r] = 0 /\ cancel[s].res # "failed"
        /\ \A a \in Actors :
               /\ Outstanding(a)' <=> Outstanding(a)
               /\ io'[a].id = io[a].id
               /\ io'[a].clean => io[a].clean
               /\ Side(a) = s /\ cancel[s].res # "failed" => ~io'[a].clean
        /\ UNCHANGED <<life, shut>>
    BY <1>10, ResumeCancelFacts DEF ResumeCancel, Outstanding
  <2>2. QED
    BY <2>1 DEF TokenInv, PendingCancellable, Actors, Side, Sides
<1>11. CASE UNCHANGED streamVars
  BY <1>11 DEF streamVars, TokenInv, PendingCancellable, Outstanding
<1>12. QED
  BY <1>1, <1>2, <1>3, <1>4, <1>5, <1>6, <1>7, <1>8, <1>9, <1>10, <1>11 DEF StreamNext

(* A token of a stream names an operation that is still under way, and an
   operation that nobody interfered with can be cancelled by it: set_cancel()
   and clear_cancel() of network_operation, write_cancel_ of tcp_stream. *)
THEOREM TokensNamePending == StreamSpec => []TokenNamesPending
<1>1. StreamInit => StreamTypeOK /\ TokenInv
  BY DEF StreamInit, StreamTypeOK, TokenInv, PendingCancellable, Outstanding, NoIo, Sides, Actors
<1>2. StreamTypeOK /\ TokenInv /\ [StreamNext]_streamVars => StreamTypeOK' /\ TokenInv'
  BY StreamTypeStep, TokenStep
<1>3. TokenInv => TokenNamesPending
  BY DEF TokenInv, TokenNamesPending, TokenIsLive
<1>4. QED
  BY <1>1, <1>2, <1>3, PTL DEF StreamSpec

(* What the loop of read() and write() has counted is what was moved. *)
LEMMA MovedStep ==
  ASSUME StreamTypeOK, MovedInv, [StreamNext]_streamVars
  PROVE  MovedInv'
<1>0. \A b \in Actors : /\ io[b].so_far \in Nat /\ io[b].res \in Nat /\ io[b].offset \in Nat
                        /\ io[b].moved \in Nat
  BY DEF StreamTypeOK
<1> DEFINE Same(b) == /\ io'[b].pc = io[b].pc /\ io'[b].res = io[b].res
                      /\ io'[b].whole = io[b].whole /\ io'[b].offset = io[b].offset
                      /\ io'[b].so_far = io[b].so_far /\ io'[b].moved = io[b].moved
<1>1. CASE Accept \/ Connect \/ Connected \/ Shutdown \/ ShutdownWrite \/ Close \/ CloseResult \/ Destroy_
  BY <1>1 DEF Accept, Connect, Connected, Shutdown, ShutdownWrite, Close, CloseResult, Destroy_,
              MovedInv
<1>2. ASSUME NEW a \in Actors, NEW whole \in BOOLEAN, NEW offset \in {0, 1}, NEW reads \in Nat,
             Submit(a, whole, offset, reads)
      PROVE  MovedInv'
  <2>1. /\ io'[a].pc = "pending" /\ io'[a].offset = offset
        /\ io'[a].so_far = 0 /\ io'[a].moved = 0
        /\ \A b \in Actors \ {a} : Same(b)
    BY <1>2, SubmitFacts
  <2>2. 0 + offset <= Size
    BY StreamAssumption
  <2>3. QED
    BY <2>1, <2>2 DEF MovedInv
<1>3. CASE ShutdownRead
  <2>1. CASE io' = [io EXCEPT !["drain"] = NoIo]
    <3>1. io'["drain"].pc = "none" /\ \A b \in Actors \ {"drain"} : io'[b] = io[b]
      BY <2>1 DEF StreamTypeOK, NoIo, Actors
    <3>2. QED
      BY <3>1 DEF MovedInv
  <2>2. CASE Submit("drain", FALSE, 0, IF shut = "drain" THEN io["drain"].reads + 1 ELSE 1)
    <3>1. (IF shut = "drain" THEN io["drain"].reads + 1 ELSE 1) \in Nat
      BY DEF StreamTypeOK, Actors
    <3>2. QED
      BY <1>2, <2>2, <3>1 DEF Actors
  <2>3. QED
    BY <1>3, <2>1, <2>2 DEF ShutdownRead
<1>4. ASSUME NEW a \in Actors, Begin(a)
      PROVE  MovedInv'
  <2>1. PICK whole \in BOOLEAN, offset \in {0, 1} : Submit(a, whole, offset, 0)
    BY <1>4 DEF Begin
  <2>2. QED
    BY <1>2, <2>1
<1>5. ASSUME NEW a \in Actors, KernelIo(a)
      PROVE  MovedInv'
  <2>1. /\ io[a].pc = "pending" /\ io'[a].pc = "complete"
        /\ io'[a].moved = io[a].moved + io'[a].res
        /\ io'[a].res = 0 \/ io'[a].res <= Left(a)
        /\ io'[a].so_far = io[a].so_far /\ io'[a].whole = io[a].whole
        /\ io'[a].offset = io[a].offset /\ io'[a].res \in Nat
        /\ \A b \in Actors \ {a} : io'[b] = io[b]
    BY <1>5, KernelIoFacts DEF IoRecord
  <2>2. io'[a].so_far + io'[a].res = io'[a].moved
    BY <1>0, <2>1 DEF MovedInv
  <2>3. io'[a].whole => io'[a].so_far + io'[a].res + io'[a].offset <= Size
    <3>1. io[a].whole => io[a].so_far + io[a].offset <= Size
      BY <2>1 DEF MovedInv
    <3>2. io[a].whole => io'[a].res = 0 \/ io'[a].res <= Size - io[a].so_far - io[a].offset
      BY <2>1 DEF Left
    <3>3. QED
      BY <1>0, <2>1, <3>1, <3>2, StreamAssumption
  <2>4. QED
    BY <2>1, <2>2, <2>3 DEF MovedInv
<1>6. ASSUME NEW a \in Actors, SubmitAgain(a)
      PROVE  MovedInv'
  <2>1. /\ io[a].pc = "complete" /\ io'[a].pc = "pending"
        /\ io'[a].so_far = io[a].so_far + io[a].res
        /\ io'[a].moved = io[a].moved /\ io'[a].whole = io[a].whole
        /\ io'[a].offset = io[a].offset
        /\ \A b \in Actors \ {a} : io'[b] = io[b]
    BY <1>6, SubmitAgainFacts
  <2>2. QED
    BY <2>1 DEF MovedInv
<1>7. ASSUME NEW a \in Actors, ResumeIo(a)
      PROVE  MovedInv'
  <2>1. io'[a].pc \in {"none", "done"} /\ \A b \in Actors \ {a} : io'[b] = io[b]
    BY <1>7, ResumeIoFacts
  <2>2. QED
    BY <2>1 DEF MovedInv
<1>8. ASSUME NEW s \in Sides, Cancel(s)
      PROVE  MovedInv'
  BY <1>8 DEF Cancel, MovedInv
<1>9. ASSUME NEW s \in Sides, KernelCancel(s)
      PROVE  MovedInv'
  <2>1. ASSUME NEW a \in Actors
        PROVE  /\ io'[a].pc = "pending" =>
                     /\ io'[a].so_far = io'[a].moved
                     /\ io'[a].whole => io'[a].so_far + io'[a].offset <= Size
               /\ io'[a].pc = "complete" =>
                     /\ io'[a].so_far + io'[a].res = io'[a].moved
                     /\ io'[a].whole => io'[a].so_far + io'[a].res + io'[a].offset <= Size
    <3>1. CASE io'[a] = io[a]
      BY <3>1 DEF MovedInv
    <3>2. CASE io'[a] # io[a]
      <4>1. /\ io[a].pc = "pending" /\ io'[a].pc = "complete" /\ io'[a].res = 0
            /\ io'[a].so_far = io[a].so_far /\ io'[a].moved = io[a].moved
            /\ io'[a].whole = io[a].whole /\ io'[a].offset = io[a].offset
        BY <1>9, <3>2, KernelCancelFacts
      <4>2. /\ io[a].so_far = io[a].moved
            /\ io[a].whole => io[a].so_far + io[a].offset <= Size
        BY <4>1 DEF MovedInv
      <4>3. io[a].so_far + 0 = io[a].so_far
        BY <1>0
      <4>4. QED
        BY <4>1, <4>2, <4>3
    <3>3. QED
      BY <3>1, <3>2
  <2>2. QED
    BY <2>1 DEF MovedInv
<1>10. ASSUME NEW s \in Sides, ResumeCancel(s)
       PROVE  MovedInv'
  <2>1. \A b \in Actors : Same(b)
    BY <1>10, ResumeCancelFacts
  <2>2. QED
    BY <2>1 DEF MovedInv
<1>11. CASE UNCHANGED streamVars
  BY <1>11 DEF streamVars, MovedInv
<1>12. QED
  BY <1>1, <1>3, <1>4, <1>5, <1>6, <1>7, <1>8, <1>9, <1>10, <1>11 DEF StreamNext

(* read() and write() of tcp_stream, when their coroutine is resumed, return
   exactly what was moved, and less than the whole buffer only after the end
   of the stream or an error. *)
THEOREM WholeOrReasonHolds == StreamSpec => []WholeOrReason
<1>1. StreamInit => StreamTypeOK /\ MovedInv
  BY DEF StreamInit, StreamTypeOK, MovedInv, NoIo, Sides, Actors
<1>2. StreamTypeOK /\ MovedInv /\ [StreamNext]_streamVars => StreamTypeOK' /\ MovedInv'
  BY StreamTypeStep, MovedStep
<1>3. StreamTypeOK /\ MovedInv => WholeOrReason
  <2>1. SUFFICES ASSUME StreamTypeOK, MovedInv, NEW a \in Actors,
                        io[a].pc = "complete", ~Notify(a)
                 PROVE  /\ io[a].so_far + io[a].res = io[a].moved
                        /\ io[a].whole /\ io[a].res > 0 => io[a].moved = Size - io[a].offset
    BY DEF WholeOrReason
  <2>2. /\ io[a].so_far \in Nat /\ io[a].res \in Nat /\ io[a].offset \in Nat
        /\ io[a].moved \in Nat /\ Size \in Nat
    BY <2>1, StreamAssumption DEF StreamTypeOK
  <2>3. /\ io[a].so_far + io[a].res = io[a].moved
        /\ io[a].whole => io[a].so_far + io[a].res + io[a].offset <= Size
    BY <2>1 DEF MovedInv
  <2>4. io[a].whole /\ io[a].res > 0 => io[a].so_far + io[a].res = Size
    BY <2>1 DEF Notify
  <2>5. QED
    BY <2>2, <2>3, <2>4
<1>4. QED
  BY <1>1, <1>2, <1>3, PTL DEF StreamSpec

(* The descriptor of a stream is closed at most once, and nobody takes it for
   open afterwards: close(), a connect that failed, and the destructor. *)
THEOREM ClosedAtMostOnce == StreamSpec => []ClosedOnce
<1>1. StreamInit => CloseInv
  BY DEF StreamInit, CloseInv
<1>2. ASSUME CloseInv, [StreamNext]_streamVars
      PROVE  CloseInv'
  <2>1. CASE Accept \/ Connect \/ Connected
    BY <1>2, <2>1 DEF Accept, Connect, Connected, CloseInv
  <2>2. CASE Shutdown \/ ShutdownWrite \/ ShutdownRead
    BY <1>2, <2>2 DEF Shutdown, ShutdownWrite, ShutdownRead, CloseInv
  <2>3. CASE Close \/ Destroy_
    BY <1>2, <2>3 DEF Close, Destroy_, OwnerFree, CloseInv
  <2>4. CASE CloseResult
    BY <1>2, <2>4 DEF CloseResult, SecondClose, CloseInv
  <2>5. ASSUME NEW a \in Actors, Begin(a) \/ KernelIo(a) \/ SubmitAgain(a) \/ ResumeIo(a)
        PROVE  CloseInv'
    BY <1>2, <2>5 DEF Begin, KernelIo, SubmitAgain, ResumeIo, CloseInv
  <2>6. ASSUME NEW s \in Sides, Cancel(s) \/ KernelCancel(s) \/ ResumeCancel(s)
        PROVE  CloseInv'
    BY <1>2, <2>6 DEF Cancel, KernelCancel, ResumeCancel, CloseInv
  <2>7. CASE UNCHANGED streamVars
    BY <1>2, <2>7 DEF streamVars, CloseInv
  <2>8. QED
    BY <1>2, <2>1, <2>2, <2>3, <2>4, <2>5, <2>6, <2>7 DEF StreamNext
<1>3. CloseInv => ClosedOnce
  BY DEF CloseInv, ClosedOnce
<1>4. QED
  BY <1>1, <1>2, <1>3, PTL DEF StreamSpec

-----------------------------------------------------------------------------
(***************************************************************************)
(* The timer service.                                                      *)
(***************************************************************************)

(* wait() adds one entry: the handle, at the end of the bucket of its mark. *)
LEMMA WaitFacts ==
  ASSUME TimerTypeOK, NEW h \in Handles, NEW ns \in Nat, NEW t \in Threads, wait(h, ns, t)
  PROVE  LET mark == current + ns IN
         /\ Marks' = Marks \cup {mark}
         /\ \A m \in Marks' : waiting'[m] \in Seq(Handles \X Threads)
         /\ \A m \in Marks : \A i \in DOMAIN waiting[m] :
               i \in DOMAIN waiting'[m] /\ waiting'[m][i] = waiting[m][i]
         /\ \E last \in DOMAIN waiting'[mark] :
               /\ waiting'[mark][last][1] = h
               /\ \A m \in Marks' : \A i \in DOMAIN waiting'[m] :
                     \/ m = mark /\ i = last
                     \/ m \in Marks /\ i \in DOMAIN waiting[m] /\ waiting'[m][i] = waiting[m][i]
<1> DEFINE mark == current + ns
<1>1. mark \in Nat
  BY DEF TimerTypeOK
<1>2. waiting' = [m \in Marks \cup {mark} |->
                    IF m # mark THEN waiting[m]
                    ELSE IF mark \notin Marks THEN << <<h, This>> >>
                    ELSE Append(waiting[m], <<h, t>>)]
  BY DEF wait
<1> HIDE DEF mark
<1>3. Marks' = Marks \cup {mark}
  BY <1>2 DEF Marks
<1>4. \A m \in Marks : m # mark => waiting'[m] = waiting[m]
  BY <1>2
<1>5. <<h, t>> \in Handles \X Threads /\ <<h, This>> \in Handles \X Threads
  BY TimerAssumption
<1>6. CASE mark \notin Marks
  <2>1. waiting'[mark] = << <<h, This>> >>
    BY <1>2, <1>6
  <2>2. waiting'[mark] \in Seq(Handles \X Threads) /\ DOMAIN waiting'[mark] = {1}
    BY <1>5, <2>1
  <2>3. waiting'[mark][1][1] = h
    BY <2>1
  <2>4. \A m \in Marks' : waiting'[m] \in Seq(Handles \X Threads)
    BY <1>3, <1>4, <2>2 DEF TimerTypeOK
  <2>5. \A m \in Marks : \A i \in DOMAIN waiting[m] :
           i \in DOMAIN waiting'[m] /\ waiting'[m][i] = waiting[m][i]
    BY <1>4, <1>6
  <2>6. \A m \in Marks' : \A i \in DOMAIN waiting'[m] :
           \/ m = mark /\ i = 1
           \/ m \in Marks /\ i \in DOMAIN waiting[m] /\ waiting'[m][i] = waiting[m][i]
    BY <1>3, <1>4, <2>2
  <2>7. QED
    BY <1>3, <2>2, <2>3, <2>4, <2>5, <2>6 DEF mark
<1>7. CASE mark \in Marks
  <2>1. waiting'[mark] = Append(waiting[mark], <<h, t>>) /\ waiting[mark] \in Seq(Handles \X Threads)
    BY <1>2, <1>7 DEF TimerTypeOK
  <2> DEFINE last == Len(waiting[mark]) + 1
  <2>2. /\ waiting'[mark] \in Seq(Handles \X Threads)
        /\ DOMAIN waiting'[mark] = 1 .. last
        /\ DOMAIN waiting[mark] = 1 .. (last - 1)
        /\ last \in Nat /\ last >= 1
        /\ waiting'[mark][last] = <<h, t>>
        /\ \A i \in 1 .. (last - 1) : waiting'[mark][i] = waiting[mark][i]
    BY <1>5, <2>1
  <2> HIDE DEF last
  <2>3. waiting'[mark][last][1] = h
    BY <2>2
  <2>4. \A m \in Marks' : waiting'[m] \in Seq(Handles \X Threads)
    BY <1>3, <1>4, <2>2 DEF TimerTypeOK
  <2>5. \A m \in Marks : \A i \in DOMAIN waiting[m] :
           i \in DOMAIN waiting'[m] /\ waiting'[m][i] = waiting[m][i]
    BY <1>4, <2>2
  <2>6. last \in DOMAIN waiting'[mark]
    BY <2>2
  <2>7. \A m \in Marks' : \A i \in DOMAIN waiting'[m] :
           \/ m = mark /\ i = last
           \/ m \in Marks /\ i \in DOMAIN waiting[m] /\ waiting'[m][i] = waiting[m][i]
    BY <1>3, <1>4, <1>7, <2>2
  <2>8. QED
    BY <1>3, <2>3, <2>4, <2>5, <2>6, <2>7 DEF mark
<1>8. QED
  BY <1>6, <1>7

(* A wait keeps the timer running for the first mark, and the waiters in
   their places. *)
LEMMA DelayedResumeKeeps ==
  ASSUME TimerInv, NEW h \in Handles, NEW ns \in Delays, NEW t \in Threads,
         DelayedResume(h, ns, t)
  PROVE  TimerInv'
<1>0. ns \in Nat
  BY TimerAssumption
<1>1. h \notin sleeping /\ UNCHANGED <<current, buffer>>
  BY DEF DelayedResume
<1>3. CASE ns = 0
  <2>1. UNCHANGED <<waiting, left, interval, ticks, sleeping>>
    BY <1>3 DEF DelayedResume
  <2>2. TimerTypeOK'
    BY <1>1, <2>1 DEF TimerInv, TimerTypeOK, Marks
  <2>3. ArmedWhileWaiting'
    BY <1>1, <2>1 DEF TimerInv, ArmedWhileWaiting, Marks
  <2>4. BucketsInv'
    BY <2>1 DEF TimerInv, BucketsInv, Marks
  <2>5. QED
    BY <2>2, <2>3, <2>4 DEF TimerInv
<1>4. CASE ns # 0
  <2> DEFINE mark == current + ns
  <2>1. wait(h, ns, t) /\ sleeping' = sleeping \cup {h}
    BY <1>4 DEF DelayedResume
  <2>2. mark \in Nat /\ mark > current /\ ns > 0 /\ current \in Nat
    BY <1>0, <1>4 DEF TimerInv, TimerTypeOK
  <2>3. /\ Marks' = Marks \cup {mark}
        /\ \A m \in Marks' : waiting'[m] \in Seq(Handles \X Threads)
        /\ \A m \in Marks : \A i \in DOMAIN waiting[m] :
              i \in DOMAIN waiting'[m] /\ waiting'[m][i] = waiting[m][i]
    BY <1>0, <2>1, WaitFacts DEF TimerInv
  <2>4. PICK last \in DOMAIN waiting'[mark] :
           /\ waiting'[mark][last][1] = h
           /\ \A m \in Marks' : \A i \in DOMAIN waiting'[m] :
                 \/ m = mark /\ i = last
                 \/ m \in Marks /\ i \in DOMAIN waiting[m] /\ waiting'[m][i] = waiting[m][i]
    BY <1>0, <2>1, WaitFacts DEF TimerInv
  <2>5. \/ UNCHANGED <<left, interval, ticks>> /\ (mark \in Marks \/ Marks # {})
        \/ left' = ns /\ interval' = ns /\ ticks' = 0
    BY <2>1 DEF wait, change_timer
  <2> HIDE DEF mark
  <2>6. TimerTypeOK'
    <3>1. Marks' \subseteq Nat /\ sleeping' \subseteq Handles
      BY <2>1, <2>2, <2>3 DEF TimerInv, TimerTypeOK
    <3>2. left' \in Nat /\ interval' \in Nat /\ ticks' \in Nat
      BY <1>0, <2>5 DEF TimerInv, TimerTypeOK
    <3>3. current' \in Nat /\ buffer' \in Nat
      BY <1>1 DEF TimerInv, TimerTypeOK
    <3>4. QED
      BY <2>3, <3>1, <3>2, <3>3 DEF TimerTypeOK
  <2>7. ArmedWhileWaiting'
    <3>1. \A m \in Marks' : m > current'
      BY <1>1, <2>2, <2>3 DEF TimerInv, ArmedWhileWaiting
    <3>2. Marks' # {} /\ left' > 0 /\ interval' > 0 /\ left' <= interval'
      BY <1>0, <2>2, <2>3, <2>5 DEF TimerInv, TimerTypeOK, ArmedWhileWaiting
    <3>3. QED
      BY <3>1, <3>2 DEF ArmedWhileWaiting
  <2>8. BucketsInv'
    <3>1. ASSUME NEW m \in Marks, NEW i \in DOMAIN waiting[m]
          PROVE  waiting[m][i][1] \in sleeping /\ waiting[m][i][1] \in Handles \ {h}
      BY <1>1 DEF TimerInv, BucketsInv, TimerTypeOK
    <3>2. \A m \in Marks' : \A i \in DOMAIN waiting'[m] :
             waiting'[m][i][1] \in sleeping'
      BY <2>1, <2>4, <3>1
    <3>3. \A m, n \in Marks' : \A i \in DOMAIN waiting'[m], j \in DOMAIN waiting'[n] :
             waiting'[m][i][1] = waiting'[n][j][1] => m = n /\ i = j
      <4>1. SUFFICES ASSUME NEW m \in Marks', NEW n \in Marks', NEW i \in DOMAIN waiting'[m],
                            NEW j \in DOMAIN waiting'[n], waiting'[m][i][1] = waiting'[n][j][1]
                     PROVE  m = n /\ i = j
        OBVIOUS
      <4>2. CASE m = mark /\ i = last
        BY <2>4, <3>1, <4>1, <4>2
      <4>3. CASE n = mark /\ j = last
        BY <2>4, <3>1, <4>1, <4>3
      <4>4. CASE /\ m \in Marks /\ i \in DOMAIN waiting[m] /\ waiting'[m][i] = waiting[m][i]
                 /\ n \in Marks /\ j \in DOMAIN waiting[n] /\ waiting'[n][j] = waiting[n][j]
        BY <4>1, <4>4 DEF TimerInv, BucketsInv
      <4>5. QED
        BY <2>4, <4>2, <4>3, <4>4
    <3>4. \A g \in sleeping' : \E m \in Marks' : \E i \in DOMAIN waiting'[m] : waiting'[m][i][1] = g
      <4>1. mark \in Marks'
        BY <2>3
      <4>2. \A g \in sleeping : \E m \in Marks : \E i \in DOMAIN waiting[m] : waiting[m][i][1] = g
        BY DEF TimerInv, BucketsInv
      <4>3. QED
        BY <2>1, <2>3, <2>4, <4>1, <4>2
    <3>5. QED
      BY <3>2, <3>3, <3>4 DEF BucketsInv
  <2>9. QED
    BY <2>6, <2>7, <2>8 DEF TimerInv
<1>5. QED
  BY <1>3, <1>4

(* run() resumes the whole of the buckets that are due, and arms the timer
   for the first of the rest. *)
LEMMA RunTickKeeps ==
  ASSUME TimerInv, RunTick
  PROVE  TimerInv'
<1> DEFINE moved == current + interval * buffer
           expired == {m \in Marks : m <= moved}
           rest == Marks \ expired
           resumed == UNION {ToSet(waiting[m]) : m \in expired}
<1>1. current \in Nat /\ moved \in Nat /\ moved >= current
  <2>1. current \in Nat /\ interval \in Nat /\ buffer \in Nat
    BY DEF TimerInv, TimerTypeOK
  <2>2. interval * buffer \in Nat
    BY <2>1
  <2>3. QED
    BY <2>1, <2>2
<1>2. /\ buffer' = 0
      /\ waiting' = [m \in rest |-> waiting[m]]
      /\ sleeping' = sleeping \ {r[1] : r \in resumed}
      /\ \/ rest = {} /\ current' = 0 /\ left' = 0 /\ interval' = 0 /\ ticks' = 0
         \/ /\ rest # {} /\ current' = moved /\ left' = Min(rest) - moved
            /\ interval' = Min(rest) - moved /\ ticks' = 0
  BY DEF RunTick, change_timer
<1> HIDE DEF moved
<1>3. rest \subseteq Nat /\ \A m \in rest : m > moved
  <2>1. Marks \subseteq Nat
    BY DEF TimerInv, TimerTypeOK
  <2>2. \A m \in Nat : m <= moved \/ m > moved
    BY <1>1
  <2>3. QED
    BY <2>1, <2>2
<1>4. Marks' = rest /\ \A m \in rest : m \in Marks /\ waiting'[m] = waiting[m]
  BY <1>2 DEF Marks
<1>5. rest # {} => Min(rest) - moved \in Nat /\ Min(rest) - moved > 0
  BY <1>1, <1>3, MinFacts
<1>6. \A r \in resumed : \E m \in expired : \E i \in DOMAIN waiting[m] : r = waiting[m][i]
  BY DEF ToSet
<1>7. \A m \in expired : \A i \in DOMAIN waiting[m] : waiting[m][i] \in resumed
  BY DEF ToSet
<1>8. \A m \in Marks : \A i \in DOMAIN waiting[m] :
         waiting[m][i] \in Handles \X Threads
  BY DEF TimerInv, TimerTypeOK
<1> HIDE DEF expired, rest, resumed
<1>10. \A m \in Marks : m \in expired \/ m \in rest
  BY DEF rest
<1>11. expired \subseteq Marks /\ rest \cap expired = {}
  BY DEF expired, rest
<1>13. TimerTypeOK'
  <2>2. Marks' \subseteq Nat /\ \A m \in Marks' : waiting'[m] \in Seq(Handles \X Threads)
    BY <1>3, <1>4 DEF TimerInv, TimerTypeOK
  <2>3. current' \in Nat /\ left' \in Nat /\ interval' \in Nat /\ ticks' \in Nat /\ buffer' \in Nat
    BY <1>1, <1>2, <1>5
  <2>4. sleeping' \subseteq Handles
    BY <1>2 DEF TimerInv, TimerTypeOK
  <2>5. QED
    BY <2>2, <2>3, <2>4 DEF TimerTypeOK
<1>14. ArmedWhileWaiting'
  <2>1. CASE rest = {}
    <3>1. Marks' = {} /\ left' = 0 /\ interval' = 0
      BY <1>2, <1>4, <2>1
    <3>2. QED
      BY <3>1 DEF ArmedWhileWaiting
  <2>2. CASE rest # {}
    <3> DEFINE first == Min(rest) - moved
    <3>1. /\ Marks' = rest /\ left' = first /\ interval' = first /\ current' = moved
          /\ first \in Nat /\ first > 0
      BY <1>2, <1>4, <1>5, <2>2
    <3> HIDE DEF first
    <3>2. QED
      BY <1>3, <2>2, <3>1 DEF ArmedWhileWaiting
  <2>3. QED
    BY <2>1, <2>2
<1>15. BucketsInv'
  <2>1. \A m \in Marks' : \A i \in DOMAIN waiting'[m] :
           waiting'[m][i][1] \in sleeping'
    <3>1. SUFFICES ASSUME NEW m \in rest, NEW i \in DOMAIN waiting[m]
                   PROVE  waiting[m][i][1] \in sleeping'
      BY <1>4
    <3>2. waiting[m][i][1] \in sleeping /\ m \in Marks
      BY <1>4 DEF TimerInv, BucketsInv
    <3>3. ASSUME NEW r \in resumed, r[1] = waiting[m][i][1]
          PROVE  FALSE
      <4>1. PICK n \in expired : \E j \in DOMAIN waiting[n] : r = waiting[n][j]
        BY <1>6
      <4>2. PICK j \in DOMAIN waiting[n] : r = waiting[n][j]
        BY <4>1
      <4>3. m = n
        BY <1>11, <3>2, <3>3, <4>2 DEF TimerInv, BucketsInv
      <4>4. QED
        BY <1>11, <4>3
    <3>4. QED
      BY <1>2, <3>2, <3>3
  <2>2. \A m, n \in Marks' : \A i \in DOMAIN waiting'[m], j \in DOMAIN waiting'[n] :
           waiting'[m][i][1] = waiting'[n][j][1] => m = n /\ i = j
    BY <1>4 DEF TimerInv, BucketsInv
  <2>3. ASSUME NEW h \in sleeping'
        PROVE  \E m \in Marks' : \E i \in DOMAIN waiting'[m] : waiting'[m][i][1] = h
    <3>1. h \in sleeping /\ \A r \in resumed : r[1] # h
      BY <1>2
    <3>2. PICK m \in Marks : \E i \in DOMAIN waiting[m] : waiting[m][i][1] = h
      BY <3>1 DEF TimerInv, BucketsInv
    <3>3. m \notin expired
      BY <1>7, <3>1, <3>2
    <3>4. QED
      BY <1>4, <1>10, <3>2, <3>3
  <2>4. QED
    BY <2>1, <2>2, <2>3 DEF BucketsInv
<1>16. QED
  BY <1>13, <1>14, <1>15 DEF TimerInv

(* The buckets hold a sleeper once and nobody else. *)
LEMMA BucketsInOne ==
  ASSUME TimerInv
  PROVE  InOneBucket
<1> DEFINE Entries == UNION {{m} \X DOMAIN waiting[m] : m \in Marks}
           Of(h) == {e \in Entries : waiting[e[1]][e[2]][1] = h}
<1>1. \A e : e \in Entries <=> \E m \in Marks : \E i \in DOMAIN waiting[m] : e = <<m, i>>
  OBVIOUS
<1> HIDE DEF Entries
<1>2. SUFFICES ASSUME NEW h \in Handles
               PROVE  Cardinality(Of(h)) = IF h \in sleeping THEN 1 ELSE 0
  BY DEF InOneBucket, Entries
<1>3. CASE h \notin sleeping
  <2>1. Of(h) = {}
    BY <1>1, <1>3 DEF TimerInv, BucketsInv
  <2>2. QED
    BY <1>3, <2>1, FS_EmptySet
<1>4. CASE h \in sleeping
  <2>1. PICK m \in Marks : \E i \in DOMAIN waiting[m] : waiting[m][i][1] = h
    BY <1>4 DEF TimerInv, BucketsInv
  <2>2. PICK i \in DOMAIN waiting[m] : waiting[m][i][1] = h
    BY <2>1
  <2>3. <<m, i>> \in Of(h)
    BY <1>1, <2>2
  <2>4. \A e \in Of(h) : e = <<m, i>>
    <3>1. SUFFICES ASSUME NEW e \in Of(h)
                   PROVE  e = <<m, i>>
      OBVIOUS
    <3>2. PICK n \in Marks : \E j \in DOMAIN waiting[n] : e = <<n, j>>
      BY <1>1
    <3>3. PICK j \in DOMAIN waiting[n] : e = <<n, j>>
      BY <3>2
    <3>4. waiting[n][j][1] = h
      BY <3>3
    <3>5. QED
      BY <2>2, <3>3, <3>4 DEF TimerInv, BucketsInv
  <2>5. Of(h) = {<<m, i>>}
    BY <2>3, <2>4
  <2>6. QED
    BY <1>4, <2>5, FS_Singleton
<1>5. QED
  BY <1>3, <1>4

(* The timer of an engine thread runs while anybody sleeps, marks never fall
   behind current_, and each sleeper is in one bucket once, so that it is
   resumed once: wait(), run() and change_timer(), for any delays, any number
   of expiries read late and wherever run() breaks off. *)
THEOREM TimerIsSafe == TimerSpec => []TimerSafe
<1>1. TimerInit => TimerInv
  BY TimerAssumption DEF TimerInit, TimerInv, TimerTypeOK, ArmedWhileWaiting, BucketsInv, Marks
<1>2. ASSUME TimerInv, [TimerNext]_timerVars
      PROVE  TimerInv'
  <2>1. CASE RunTick
    BY <1>2, <2>1, RunTickKeeps
  <2>2. ASSUME NEW h \in Handles, NEW ns \in Delays, NEW t \in Threads, DelayedResume(h, ns, t)
        PROVE  TimerInv'
    BY <1>2, <2>2, DelayedResumeKeeps
  <2>3. CASE Advance
    <3>1. UNCHANGED <<waiting, current, interval, buffer, sleeping>>
      BY <2>3 DEF Advance
    <3>2. /\ left' \in Nat /\ ticks' \in Nat
          /\ left' > 0 <=> left > 0
          /\ left' <= interval
      BY <1>2, <2>3 DEF Advance, TimerInv, TimerTypeOK, ArmedWhileWaiting
    <3>3. QED
      BY <1>2, <3>1, <3>2 DEF TimerInv, TimerTypeOK, ArmedWhileWaiting, BucketsInv, Marks
  <2>4. CASE CompleteRead
    <3>1. /\ UNCHANGED <<waiting, current, left, interval, sleeping>>
          /\ buffer' = ticks /\ ticks' = 0
      BY <2>4 DEF CompleteRead
    <3>2. QED
      BY <1>2, <3>1 DEF TimerInv, TimerTypeOK, ArmedWhileWaiting, BucketsInv, Marks
  <2>5. CASE RunBreaks \/ UNCHANGED timerVars
    <3>1. UNCHANGED <<waiting, current, left, interval, ticks, buffer, sleeping>>
      BY <2>5 DEF RunBreaks, timerVars
    <3>2. QED
      BY <1>2, <3>1 DEF TimerInv, TimerTypeOK, ArmedWhileWaiting, BucketsInv, Marks
  <2>6. QED
    BY <1>2, <2>1, <2>2, <2>3, <2>4, <2>5 DEF TimerNext
<1>3. TimerInv => TimerSafe
  BY BucketsInOne DEF TimerInv, TimerSafe
<1>4. QED
  BY <1>1, <1>2, <1>3, PTL DEF TimerSpec

-----------------------------------------------------------------------------
(***************************************************************************)
(* The engine and its signal handler.                                      *)
(***************************************************************************)

(* Workers are numbered from 0, and there is one. *)
LEMMA WorkersFacts == /\ Threads_ \in Nat \ {0}
                      /\ \A n \in 0 .. Threads_ : n < Threads_ => n \in Workers
                      /\ 0 .. Threads_ - 1 = Workers /\ 0 .. 0 - 1 = {}
BY EngineAssumption DEF Workers

(* Every step of the engine keeps what is said of its stops. *)
LEMMA StopStep ==
  ASSUME StopInv, [EngineNext]_engineVars
  PROVE  StopInv'
<1> USE DEF StopInv, StopNotLost, engineVars, startVars, stopVars, signalVars
<1>1. CASE StartEngine
  BY <1>1 DEF StartEngine
<1>2. CASE CreateWorker
  <2>1. created \in Workers /\ created + 1 \in 0 .. Threads_
    BY <1>2, WorkersFacts DEF CreateWorker
  <2>2. \A w \in Workers : worker'[w] = IF w = created THEN "started" ELSE worker[w]
    BY <1>2, <2>1 DEF CreateWorker
  <2>3. worker' \in [Workers -> {"none", "started", "latch", "loop", "deaf", "done"}]
    BY <1>2, <2>1 DEF CreateWorker
  <2>4. StopNotLost'
    BY <1>2, <2>2 DEF CreateWorker
  <2>5. QED
    BY <1>2, <2>1, <2>3, <2>4 DEF CreateWorker
<1>3. CASE AllCreated
  BY <1>3 DEF AllCreated
<1>4. CASE StartReturn
  BY <1>4, WorkersFacts DEF StartReturn
<1>5. CASE StopSignals
  BY <1>5 DEF StopSignals
<1>6. CASE RequestStops
  <2>1. created = 0 \/ created = Threads_
    BY <1>6 DEF RequestStops, MtxFree
  <2>2. 0 .. created - 1 \in {{}, Workers}
    BY <2>1, WorkersFacts
  <2>3. stop_source' \in {{}, Workers}
    BY <1>6, <2>2 DEF RequestStops
  <2>4. ASSUME NEW w \in stop_source', worker'[w] \in {"latch", "loop"}
        PROVE  w \in woken'
    BY <1>6, <2>4 DEF RequestStops
  <2>5. QED
    BY <1>6, <2>3, <2>4 DEF RequestStops
<1>7. CASE ReadSignal \/ PipeReadFails
  BY <1>7 DEF ReadSignal, PipeReadFails
<1>8. CASE DestroyEngine
  BY <1>8 DEF DestroyEngine
<1>9. ASSUME NEW w \in Workers, WorkerArrive(w)
      PROVE  StopInv'
  <2>1. worker' \in [Workers -> {"none", "started", "latch", "loop", "deaf", "done"}]
    BY <1>9 DEF WorkerArrive
  <2>2. \A v \in Workers : worker'[v] = IF v = w THEN "latch" ELSE worker[v]
    BY <1>9 DEF WorkerArrive
  <2>3. QED
    BY <1>9, <2>1, <2>2 DEF WorkerArrive
<1>10. ASSUME NEW w \in Workers, WorkerRun(w)
       PROVE  StopInv'
  <2>1. worker' \in [Workers -> {"none", "started", "latch", "loop", "deaf", "done"}]
    BY <1>10 DEF WorkerRun
  <2>2. \A v \in Workers : worker'[v] = IF v = w THEN IF w \in stop_source THEN "done" ELSE "loop"
                                        ELSE worker[v]
    BY <1>10 DEF WorkerRun
  <2>3. QED
    BY <1>10, <2>1, <2>2 DEF WorkerRun
<1>11. ASSUME NEW w \in Workers, WorkerStop(w)
       PROVE  StopInv'
  <2>1. worker' \in [Workers -> {"none", "started", "latch", "loop", "deaf", "done"}]
    BY <1>11 DEF WorkerStop
  <2>2. \A v \in Workers : worker'[v] = IF v = w THEN "done" ELSE worker[v]
    BY <1>11 DEF WorkerStop
  <2>3. QED
    BY <1>11, <2>1, <2>2 DEF WorkerStop
<1>12. ASSUME NEW w \in Workers, CallHandler(w)
       PROVE  StopInv'
  BY <1>12 DEF CallHandler
<1>16. ASSUME NEW w \in Workers, WorkerDeaf(w) \/ DeafStop(w)
       PROVE  StopInv'
  <2>1. PICK to \in {"deaf", "done"} : worker' = [worker EXCEPT ![w] = to]
    BY <1>16 DEF WorkerDeaf, DeafStop
  <2>2. worker' \in [Workers -> {"none", "started", "latch", "loop", "deaf", "done"}]
    BY <2>1
  <2>3. \A v \in Workers : worker'[v] = IF v = w THEN to ELSE worker[v]
    BY <2>1
  <2>4. UNCHANGED <<starter, created, stop_source, woken>>
    BY <1>16 DEF WorkerDeaf, DeafStop
  <2>5. QED
    BY <2>2, <2>3, <2>4
<1>13. ASSUME NEW s \in Signals, Install(s) \/ Raise(s) \/ \E w \in Workers \cup {AnyWorker} : Handle(s, w)
       PROVE  StopInv'
  BY <1>13 DEF Install, Raise, Handle
<1>14. CASE UNCHANGED engineVars
  BY <1>14
<1>15. QED
  BY <1>1, <1>2, <1>3, <1>4, <1>5, <1>6, <1>7, <1>8, <1>9, <1>10, <1>11, <1>12, <1>13, <1>14, <1>16 DEF EngineNext

(* A stop() reaches all the threads of the engine or, before start() and after
   it, none, and no worker enters its loop unwoken after one: what StopHeard
   rests on, for any number of threads and of stops. *)
THEOREM StopsAreNotLost == EngineSpec => []StopNotLost
<1>1. EngineInit => StopInv
  BY WorkersFacts DEF EngineInit, StopInv, StopNotLost
<1>2. StopInv => StopNotLost
  BY DEF StopInv
<1>3. QED
  BY <1>1, <1>2, StopStep, PTL DEF EngineSpec

(* The length of a sequence that is not empty. *)
LEMMA OneOrMore ==
  ASSUME NEW S, NEW s \in Seq(S), s # <<>>
  PROVE  Len(s) = 1 \/ Len(s) > 1
<1>1. Len(s) \in Nat \ {0}
  BY EmptySeq
<1>2. \A n \in Nat \ {0} : n = 1 \/ n > 1
  OBVIOUS
<1>3. QED
  BY <1>1, <1>2, Zenon

(* Every step of the engine keeps what is said of its handlers. *)
LEMMA HandlersStep ==
  ASSUME HandlersInv, [EngineNext]_engineVars
  PROVE  HandlersInv'
<1> USE DEF HandlersInv, engineVars, startVars, stopVars, signalVars
<1>1. CASE StartEngine \/ CreateWorker \/ AllCreated \/ StartReturn
  BY <1>1 DEF StartEngine, CreateWorker, AllCreated, StartReturn
<1>2. CASE RequestStops \/ ReadSignal \/ PipeReadFails \/ DestroyEngine
  BY <1>2 DEF RequestStops, ReadSignal, PipeReadFails, DestroyEngine
<1>3. CASE StopSignals
  <2>1. stops' \in Nat /\ stops' # 0
    BY <1>3 DEF StopSignals
  <2>2. os' \in [Signals -> {"default", "pipe"}]
    BY <1>3 DEF StopSignals
  <2>3. QED
    BY <1>3, <2>1, <2>2 DEF StopSignals
<1>4. ASSUME NEW w \in Workers, WorkerArrive(w) \/ WorkerRun(w) \/ WorkerStop(w)
                                \/ WorkerDeaf(w) \/ DeafStop(w) \/ CallHandler(w)
      PROVE  HandlersInv'
  BY <1>4 DEF WorkerArrive, WorkerRun, WorkerStop, WorkerDeaf, DeafStop, CallHandler
<1>5. ASSUME NEW s \in Signals, Install(s)
      PROVE  HandlersInv'
  <2>1. /\ s \in installing /\ installing' = {}
        /\ os' = [os EXCEPT ![s] = IF Len(handlers[s]) = 1 THEN "pipe" ELSE os[s]]
        /\ stops' = stops /\ handlers' = handlers
    BY <1>5 DEF Install, IsNew
  <2>2. os' \in [Signals -> {"default", "pipe"}]
    BY <2>1
  <2>3. ASSUME NEW t \in Signals, stops = 0, handlers[t] # <<>>
        PROVE  os'[t] = "pipe"
    <3>1. CASE t = s
      <4>1. Len(handlers[s]) = 1 \/ Len(handlers[s]) > 1
        <5>1. handlers[s] \in Seq(Workers \cup {AnyWorker}) /\ handlers[s] # <<>>
          BY <2>3, <3>1
        <5>2. QED
          BY <5>1, OneOrMore
      <4>2. CASE Len(handlers[s]) = 1
        BY <2>1, <3>1, <4>2
      <4>3. CASE Len(handlers[s]) > 1
        BY <2>1, <2>3, <3>1, <4>3
      <4>4. QED
        BY <4>1, <4>2, <4>3, Zenon
    <3>2. CASE t # s
      BY <2>1, <2>3, <3>2
    <3>3. QED
      BY <3>1, <3>2
  <2>4. QED
    BY <2>1, <2>2, <2>3
<1>6. ASSUME NEW s \in Signals, Raise(s)
      PROVE  HandlersInv'
  BY <1>6 DEF Raise
<1>7. ASSUME NEW s \in Signals, NEW w \in Workers \cup {AnyWorker}, Handle(s, w)
      PROVE  HandlersInv'
  <2>1. /\ installing = {} /\ installing' = {s} /\ os' = os /\ stops' = stops
        /\ handlers' = [handlers EXCEPT ![s] = Append(handlers[s], w)]
    BY <1>7 DEF Handle
  <2>2. /\ Append(handlers[s], w) \in Seq(Workers \cup {AnyWorker})
        /\ Len(handlers[s]) \in Nat /\ Len(Append(handlers[s], w)) = Len(handlers[s]) + 1
    BY AppendProperties
  <2>3. handlers' \in [Signals -> Seq(Workers \cup {AnyWorker})]
    BY <2>1, <2>2
  <2>4. \A t \in Signals : handlers'[t] = IF t = s THEN Append(handlers[s], w) ELSE handlers[t]
    BY <2>1
  <2>5. ASSUME NEW t \in Signals, stops = 0, handlers'[t] # <<>>,
               t \in installing' => Len(handlers'[t]) > 1
        PROVE  os[t] = "pipe"
    <3>1. CASE t = s
      <4>1. Len(handlers[s]) > 0
        BY <2>1, <2>2, <2>4, <2>5, <3>1
      <4>2. handlers[s] # <<>>
        BY <4>1
      <4>3. QED
        BY <2>1, <2>5, <3>1, <4>2
    <3>2. CASE t # s
      BY <2>1, <2>4, <2>5, <3>2
    <3>3. QED
      BY <3>1, <3>2
  <2>6. QED
    BY <2>1, <2>3, <2>5
<1>8. CASE UNCHANGED engineVars
  BY <1>8
<1>9. QED
  BY <1>1, <1>2, <1>3, <1>4, <1>5, <1>6, <1>7, <1>8 DEF EngineNext

(* Until a stop() or the destruction of the signal_handler, a signal for which handle() has returned is sent to the
   pipe, however the registrations of its functors and of others follow each
   other. *)
THEOREM RegisteredAreInstalled == EngineSpec => []RegisteredIsInstalled
<1>1. EngineInit => HandlersInv
  <2> SUFFICES ASSUME EngineInit
               PROVE  HandlersInv
    OBVIOUS
  <2>1. <<>> \in Seq(Workers \cup {AnyWorker})
    BY EmptySeq
  <2>2. QED
    BY <2>1 DEF EngineInit, HandlersInv
<1>2. HandlersInv => RegisteredIsInstalled
  BY DEF HandlersInv, RegisteredIsInstalled
<1>3. QED
  BY <1>1, <1>2, HandlersStep, PTL DEF EngineSpec
=============================================================================
