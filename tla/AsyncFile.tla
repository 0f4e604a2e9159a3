----------------------------- MODULE AsyncFile -------------------------------
(***************************************************************************)
(* zab::async_file (includes/zab/async_file.hpp): objects that own a file  *)
(* descriptor, which is opened and closed through the ring, moved, and     *)
(* closed in the background; and the loops of read_file() and              *)
(* write_to_file() around reads and writes that may move less than asked.  *)
(*                                                                         *)
(* The kernel hands out the lowest free number, so that a number is used   *)
(* again, and closes whatever is open under the number it is given.  The   *)
(* histories ownerOf and strays tell a number that is somebody's from one  *)
(* that somebody merely holds.                                             *)
(***************************************************************************)
EXTENDS Integers, FiniteSetsExt, SequencesExt

CONSTANTS Files,     \* async_file objects
          Closers,   \* bound: requests to close that are under way at a time
          MaxFd,     \* bound: descriptors 0 .. MaxFd
          Garbage,   \* values of an uninitialised file_
          Content,   \* what is in the file
          Source,    \* what is written to it
          Half       \* 2^31: an int32_t is in -Half .. Half - 1

ASSUME FileAssumption ==
    /\ MaxFd \in Nat /\ Garbage \subseteq Int
    /\ Half \in Nat /\ Half >= 3
    /\ Content \in Seq(Nat) /\ Source \in Seq(Nat)
    /\ Files \cap Closers = {}
    /\ {"free", "process", "lost"} \cap (Files \cup Closers) = {}

Fds == 0 .. MaxFd

Holders == Files \cup Closers

VARIABLES object,      \* "dead", "live", or that open() is suspended
          file_,       \* file_
          opened,      \* descriptors that are open
          closeState,  \* what each request to close is doing
          closeFd,     \* its _fd
          ownerOf,     \* history: whose a descriptor is
          strays,      \* history: who holds a number that is not theirs
          disk,        \* the contents of the file
          job          \* read_file() or write_to_file()

closeVars == <<closeState, closeFd>>
fileVars == <<object, file_, opened, closeVars, ownerOf, strays>>
asyncFileVars == <<fileVars, disk, job>>

(* turn tells the first request of a loop from the later ones, and each of
   them from the next: 0, 1, 2, 3, 4, 3, 4, ... *)
Idle == [kind |-> "none", current |-> 0, buffer |-> <<>>, failed |-> FALSE, turn |-> 0]

(* The standard input is open, and the program's. *)
FileInit ==
    /\ object = [f \in Files |-> "dead"]
    /\ file_ = [f \in Files |-> 0]
    /\ opened = {0}
    /\ closeState = [c \in Closers |-> "idle"]
    /\ closeFd = [c \in Closers |-> 0]
    /\ ownerOf = [d \in Fds |-> IF d = 0 THEN "process" ELSE "free"]
    /\ strays = {}
    /\ disk = Content
    /\ job = Idle

-----------------------------------------------------------------------------
(* The object and its descriptor *)

(* What was old's becomes new's. *)
HandOver(old, new) == [d \in Fds |-> IF ownerOf[d] = old THEN new ELSE ownerOf[d]]

(* file_ is left uninitialised. *)
ConstructFile(f) ==
    /\ object[f] = "dead"
    /\ object' = [object EXCEPT ![f] = "live"]
    /\ \E g \in Garbage :
        /\ file_' = [file_ EXCEPT ![f] = g]
        /\ strays' = IF g # 0 THEN strays \cup {f} ELSE strays
    /\ UNCHANGED <<opened, closeVars, ownerOf, disk, job>>

(* The two forms of open(): on an object, or one that yields a new object. *)
Open(f) ==
    /\ object[f] \in {"live", "dead"}
    /\ object' = [object EXCEPT ![f] = IF @ = "live" THEN "opening" ELSE "creating"]
    /\ UNCHANGED <<file_, opened, closeVars, ownerOf, strays, disk, job>>

(* What an open() without a result makes of the object. *)
OpenFailed(f) == object' = [object EXCEPT ![f] = IF @ = "opening" THEN "live" ELSE "dead"]

(* The result, which counts if it is > 0: file_ is overwritten, and what the
   object had open is nobody's.  Number 0, or an error, leaves file_ alone. *)
OpenDone(f) ==
    /\ object[f] \in {"opening", "creating"}
    /\ \/ /\ opened # Fds
          /\ LET d == Min(Fds \ opened)
             IN  /\ opened' = opened \cup {d}
                 /\ IF d > 0
                    THEN /\ file_' = [file_ EXCEPT ![f] = d]
                         /\ object' = [object EXCEPT ![f] = "live"]
                         /\ ownerOf' = [HandOver(f, "lost") EXCEPT ![d] = f]
                         /\ strays' = strays \ {f}
                    ELSE /\ ownerOf' = [ownerOf EXCEPT ![d] = "lost"]
                         /\ OpenFailed(f) /\ UNCHANGED <<file_, strays>>
       \/ OpenFailed(f) /\ UNCHANGED <<file_, opened, ownerOf, strays>>
    /\ UNCHANGED <<closeVars, disk, job>>

(* Mutant: the moved-from object keeps its descriptor. *)
MovedFromKept(f) == file_[f]

(* _move.file_ = 0 *)
MovedFrom(f) == 0

(* The object can be used, though its open() may be under way. *)
Usable(f) == object[f] \in {"live", "opening"}

(* The move constructor. *)
MoveFile(f, g) ==
    /\ Usable(f) /\ object[g] = "dead"
    /\ object' = [object EXCEPT ![g] = "live"]
    /\ file_' = [file_ EXCEPT ![g] = file_[f], ![f] = MovedFrom(f)]
    /\ ownerOf' = HandOver(f, g)
    /\ strays' = IF f \in strays THEN (strays \ {f}) \cup {g} ELSE strays
    /\ UNCHANGED <<opened, closeVars, disk, job>>

(* A request to close what file_ of f holds, which is then no more f's. *)
StartClose(c, f, how) ==
    /\ closeState[c] = "idle"
    /\ closeState' = [closeState EXCEPT ![c] = how]
    /\ closeFd' = [closeFd EXCEPT ![c] = file_[f]]

(* Move assignment to g: if (file_) { close_in_background(engine_, file_); } *)
AssignFile(f, g) ==
    /\ Usable(f) /\ Usable(g)
    /\ file_' = [file_ EXCEPT ![g] = file_[f], ![f] = MovedFrom(f)]
    /\ LET moved == IF f \in strays /\ f # g THEN {g} ELSE {}
       IN  \/ /\ file_[g] = 0
              /\ ownerOf' = HandOver(f, g)
              /\ strays' = (strays \ {f}) \cup moved
              /\ UNCHANGED closeVars
           \/ \E c \in Closers :
              /\ file_[g] # 0
              /\ StartClose(c, g, "background")
              /\ ownerOf' = [d \in Fds |-> IF ownerOf[d] = g THEN c
                                           ELSE IF ownerOf[d] = f THEN g ELSE ownerOf[d]]
              /\ strays' = (strays \ {f, g}) \cup moved \cup (IF g \in strays THEN {c} ELSE {})
    /\ UNCHANGED <<object, opened, disk, job>>

DestructFile(f) ==
    /\ object[f] = "live"
    /\ object' = [object EXCEPT ![f] = "dead"]
    /\ file_' = [file_ EXCEPT ![f] = 0]
    /\ \/ file_[f] = 0 /\ UNCHANGED <<closeVars, ownerOf, strays>>
       \/ \E c \in Closers :
          /\ file_[f] # 0
          /\ StartClose(c, f, "background")
          /\ ownerOf' = HandOver(f, c)
          /\ strays' = IF f \in strays THEN (strays \ {f}) \cup {c} ELSE strays
    /\ UNCHANGED <<opened, disk, job>>

(* close(), awaited by the caller; file_ is zero from the call on.  Without
   anything to close the number is 0, which is not the object's. *)
CloseFile(f) ==
    /\ Usable(f)
    /\ \E c \in Closers :
        /\ StartClose(c, f, "await")
        /\ ownerOf' = HandOver(f, c)
        /\ strays' = IF f \in strays \/ file_[f] = 0 THEN (strays \ {f}) \cup {c} ELSE strays
    /\ file_' = [file_ EXCEPT ![f] = 0]
    /\ UNCHANGED <<object, opened, disk, job>>

(* Whose the number d is, if it is not c's: they hold it from now on without
   owning it. *)
Robbed(c, d) == IF d \in Fds /\ ownerOf[d] # c THEN {ownerOf[d]} \cap Holders ELSE {}

(* The ring's answer to a request to close: the number may be released, if
   anything is open under it, and the request succeeds only then; an error on
   the last flush is reported after the release.  A background close that
   reports an error goes on, an awaited one only returns it. *)
CloseDone(c) ==
    /\ closeState[c] \in {"background", "await"}
    /\ \E released, ok \in BOOLEAN :
        LET d == closeFd[c]
            goesOn == closeState[c] = "background" /\ ~ok
        IN  /\ released => d \in opened
            /\ ok => released
            /\ opened' = IF released THEN opened \ {d} ELSE opened
            /\ closeState' = [closeState EXCEPT ![c] = IF goesOn THEN "failed" ELSE "idle"]
            /\ closeFd' = IF goesOn THEN closeFd ELSE [closeFd EXCEPT ![c] = 0]
            /\ ownerOf' = IF released THEN [ownerOf EXCEPT ![d] = "free"]
                        ELSE IF goesOn THEN ownerOf ELSE HandOver(c, "lost")
            /\ strays' = (IF goesOn THEN strays \cup (IF released THEN {c} ELSE {})
                          ELSE strays \ {c})
                         \cup (IF released THEN Robbed(c, d) ELSE {})
    /\ UNCHANGED <<object, file_, disk, job>>

(* close_in_background() is resumed with the error: ::close(_fd) *)
ResumeClose(c) ==
    /\ closeState[c] = "failed"
    /\ closeState' = [closeState EXCEPT ![c] = "idle"]
    /\ closeFd' = [closeFd EXCEPT ![c] = 0]
    /\ LET d == closeFd[c]
       IN  /\ opened' = opened \ {d}
           /\ ownerOf' = IF d \in opened THEN [ownerOf EXCEPT ![d] = "free"] ELSE ownerOf
           /\ strays' = (strays \ {c}) \cup (IF d \in opened THEN Robbed(c, d) ELSE {})
    /\ UNCHANGED <<object, file_, disk, job>>

-----------------------------------------------------------------------------
(* Whole-file transfers *)

NextTurn(t) == IF t = 4 THEN 3 ELSE t + 1

(* read_file(): the size by lseek(), and a vector of that size. *)
ReadFile ==
    /\ job = Idle
    /\ job' = [Idle EXCEPT !.kind = IF disk = <<>> THEN "read done" ELSE "read",
                           !.buffer = [i \in DOMAIN disk |-> 0]]
    /\ UNCHANGED <<fileVars, disk>>

(* current, as the std::int32_t _off_set *)
OffSet(current) == ((current + Half) % (2 * Half)) - Half

(* The length of a request: _off_set + min(size - _off_set, max() - 1) *)
Request(size, current) ==
    current + (IF size - current < Half - 2 THEN size - current ELSE Half - 2)

(* What the kernel may answer to a request for n bytes: the result is an int. *)
Moved(n) == 1 .. (IF n < Half - 1 THEN n ELSE Half - 1)

(* read_some(data, current): the file is read from current on, into the
   buffer from its beginning on. *)
ReadSome ==
    /\ job.kind = "read" /\ OffSet(job.current) >= 0
    /\ \E n \in Moved(Request(Len(job.buffer), job.current)) :
        LET now == job.current + n
        IN  /\ now <= Len(disk)
            /\ job' = [job EXCEPT
                !.buffer = [i \in DOMAIN @ |-> IF i <= n THEN disk[job.current + i] ELSE @[i]],
                !.current = now, !.turn = NextTurn(@),
                !.kind = IF now = Len(job.buffer) THEN "read done" ELSE "read"]
    /\ UNCHANGED <<fileVars, disk>>

(* data.resize(current) *)
Resize(b, n) == SubSeq(b, 1, n)

(* The request fails, as it does at a negative offset. *)
ReadFails ==
    /\ job.kind = "read"
    /\ job' = [job EXCEPT !.buffer = Resize(@, job.current), !.turn = NextTurn(@),
                          !.kind = "read done", !.failed = TRUE]
    /\ UNCHANGED <<fileVars, disk>>

(* write_to_file(): a file just truncated. *)
WriteToFile ==
    /\ job = Idle
    /\ disk' = <<>>
    /\ job' = [Idle EXCEPT !.kind = IF Source = <<>> THEN "write done" ELSE "write"]
    /\ UNCHANGED fileVars

(* Mutant: a write of nothing is tried again. *)
WriteGoesOnAny(rc) == rc >= 0

(* if (rc && *rc > 0) *)
WriteGoesOn(rc) == rc > 0

(* write_some(_data, current): the buffer from its beginning on is written
   at current.  A failure is any negative result, as at a negative offset.
   With current past the total the next request reaches past the buffer. *)
WriteSome ==
    /\ job.kind = "write"
    /\ \E rc \in {-1, 0} \cup Moved(Request(Len(Source), job.current)) :
        LET now == IF rc > 0 THEN job.current + rc ELSE job.current
        IN  /\ rc >= 0 => OffSet(job.current) >= 0
            /\ disk' = [i \in 1 .. Max({Len(disk), now}) |->
                          IF i > job.current /\ i <= now THEN Source[i - job.current] ELSE disk[i]]
            /\ job' = [job EXCEPT
                  !.current = now, !.turn = NextTurn(@),
                  !.failed = ~WriteGoesOn(rc),
                  !.kind = IF now = Len(Source) \/ ~WriteGoesOn(rc) THEN "write done"
                           ELSE IF now > Len(Source) THEN "overrun" ELSE "write"]
    /\ UNCHANGED fileVars

(* The result is used. *)
JobOver ==
    /\ job.kind \in {"read done", "write done"}
    /\ job' = Idle
    /\ UNCHANGED <<fileVars, disk>>

TransferStep == ReadSome \/ ReadFails \/ WriteSome

OwnerNext ==
    \/ \E f \in Files : \/ ConstructFile(f) \/ Open(f) \/ OpenDone(f)
                        \/ DestructFile(f) \/ CloseFile(f)
                        \/ \E g \in Files : MoveFile(f, g) \/ AssignFile(f, g)
    \/ \E c \in Closers : CloseDone(c) \/ ResumeClose(c)

TransferNext == ReadFile \/ WriteToFile \/ JobOver \/ TransferStep

FileNext == OwnerNext \/ TransferNext

FileSpec == FileInit /\ [][FileNext]_asyncFileVars

(* The ring completes what was submitted. *)
FileFairness == WF_asyncFileVars(TransferStep)

-----------------------------------------------------------------------------

(* The number somebody would close. *)
Held(h) == IF h \in Files THEN file_[h] ELSE closeFd[h]

(* What an object or a close holds is open and its own, so nobody else's and
   about to be closed by nobody else, unless the holder is a stray: an object
   never opened, whose file_ is what the memory held; a close() of an object
   with nothing to close; a background close whose request failed after it
   had released the number; or one of whose number one of these closed. *)
HeldIsOwned ==
    \A h \in Holders \ strays : Held(h) # 0 =>
        Held(h) \in opened /\ ownerOf[Held(h)] = h

(* No descriptor is lost on the way from object to object to close: what is
   owned is held by its owner.  An open descriptor is nobody's only when the
   caller was told that close() failed, opened an object once more, or was
   given number 0. *)
NoneForgotten ==
    \A d \in Fds : /\ ownerOf[d] \in Holders => Held(ownerOf[d]) = d /\ ownerOf[d] \notin strays
                   /\ d \in opened <=> ownerOf[d] # "free"

(* Every descriptor has one owner, and what is owned is open. *)
DescriptorsOwned == HeldIsOwned /\ NoneForgotten

(* At most one request has moved anything. *)
OnePiece == job.turn <= IF job.failed THEN 2 ELSE 1

(* However the kernel cuts a transfer, read_file() returns as many bytes as it
   has read, all of the file unless a read failed, and write_to_file() as many
   as it has written, which is how long the file is; the bytes are the right
   ones when they were moved in one piece. *)
TransferCounted ==
    /\ job.kind = "read done" =>
        /\ Len(job.buffer) = job.current
        /\ job.failed \/ job.current = Len(disk)
        /\ OnePiece => job.buffer = SubSeq(disk, 1, job.current)
    /\ job.kind = "write done" =>
        /\ Len(disk) = job.current /\ job.current <= Len(Source)
        /\ job.failed \/ job.current = Len(Source)
        /\ OnePiece => disk = SubSeq(Source, 1, job.current)

(* The inductive invariant behind DescriptorsOwned. *)
DescriptorInv ==
    /\ object \in [Files -> {"dead", "live", "opening", "creating"}]
    /\ file_ \in [Files -> Int]
    /\ opened \subseteq Fds
    /\ closeState \in [Closers -> {"idle", "background", "await", "failed"}]
    /\ closeFd \in [Closers -> Int]
    /\ ownerOf \in [Fds -> Holders \cup {"free", "process", "lost"}]
    /\ strays \subseteq Holders
    /\ \A f \in Files : object[f] \in {"dead", "creating"} => file_[f] = 0 /\ f \notin strays
    /\ \A c \in Closers : closeState[c] = "idle" => closeFd[c] = 0 /\ c \notin strays
    /\ \A h \in strays \cap Files : file_[h] # 0
    /\ ownerOf[0] \notin Holders
    /\ DescriptorsOwned

(* And behind TransferCounted.  An offset of -1, which would stand for the
   position of the file, is out of reach. *)
TransferInv ==
    /\ disk \in Seq(Nat)
    /\ job.turn \in 0 .. 4 /\ job.current \in 0 .. 2 * Half - 2
    /\ job.kind = "read" =>
          /\ ~job.failed /\ job.current < Len(disk)
          /\ job.buffer \in Seq(Nat) /\ Len(job.buffer) = Len(disk)
          /\ job.turn = 0 => job.current = 0
          /\ job.turn = 1 => \A i \in 1 .. job.current : job.buffer[i] = disk[i]
    /\ job.kind = "write" =>
          /\ job.current < Len(Source) /\ Len(disk) = job.current
          /\ job.turn = 0 => job.current = 0
          /\ job.turn = 1 => \A i \in 1 .. job.current : disk[i] = Source[i]
    /\ TransferCounted

(* A transfer ends, also one whose writes move nothing. *)
TransferEnds == (job.kind \in {"read", "write"}) ~> (job.kind \notin {"read", "write"})

(* Together: a transfer ends, and with what it reports. *)
TransferCorrect == []TransferCounted /\ TransferEnds

(* "Reads the entire files contents into a vector." *)
ReadsWhole == job.kind = "read done" /\ ~job.failed => job.buffer = disk

(* "Write the content of _data to the file.  Only writes less then _data.size
   bytes if the write operation fails." *)
WritesWhole == job.kind = "write done" /\ ~job.failed => disk = Source
=============================================================================
