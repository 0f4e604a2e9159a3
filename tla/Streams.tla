------------------------------ MODULE Streams --------------------------------
(***************************************************************************)
(* zab::tcp_stream (includes/zab/tcp_stream.hpp) on a network_operation    *)
(* (includes/zab/network_operation.hpp, src/network_operation.cpp), from   *)
(* tcp_connect() or tcp_acceptor::accept() (includes/zab/tcp_networking.hpp) *)
(* to its destruction.  A stream keeps, per direction, the address of the  *)
(* operation under way, to be cancelled by; here the operation's number.   *)
(*                                                                         *)
(* last_error_ is left out: it decides nothing after a stream exists.     *)
(*                                                                         *)
(* One coroutine reads, one writes, and their owner cancels, shuts down,   *)
(* closes and destroys, all in one thread; the kernel completes what was   *)
(* submitted at any time and the event loop resumes later.  read() and     *)
(* write() are stateful_awaitables: they submit again until all is moved.  *)
(***************************************************************************)
EXTENDS Naturals

CONSTANTS MaxIo,      \* bound: operations of the two coroutines
          Size,       \* size of a buffer
          MaxReads,   \* 5: reads of shutdown()
          OwnerWaits  \* is a stream destroyed only when nothing is under way?

ASSUME StreamAssumption ==
    MaxIo \in Nat /\ Size \in Nat \ {0} /\ MaxReads \in Nat /\ OwnerWaits \in BOOLEAN

Actors == {"read", "write", "drain"}     \* drain: the reads of shutdown()
Sides == {"read", "write"}
Side(a) == IF a = "write" THEN "write" ELSE "read"

VARIABLES life,     \* "none", "connecting", "alive", "destroyed"
          sd,       \* sd_: "none" or "open"
          token,    \* cancel_token_ and write_cancel_: an operation, or 0
          io,       \* the operation an actor awaits
          cancel,   \* the cancellation of a side
          shut,     \* where shutdown() stands
          closer,   \* who has asked the ring to close the descriptor
          begun,    \* operations begun
          closes    \* history: how often the descriptor was closed

streamVars == <<life, sd, token, io, cancel, shut, closer, begun, closes>>

NoIo == [id |-> 0, pc |-> "none", res |-> 0, whole |-> FALSE, offset |-> 0,
         so_far |-> 0, moved |-> 0, clean |-> FALSE, reads |-> 0]
NoCancel == [pc |-> "none", target |-> 0, res |-> "none", background |-> FALSE]

StreamInit ==
    /\ life = "none" /\ sd = "none"
    /\ token = [s \in Sides |-> 0]
    /\ io = [a \in Actors |-> NoIo]
    /\ cancel = [s \in Sides |-> NoCancel]
    /\ shut = "none" /\ closer = "none"
    /\ begun = 0 /\ closes = 0

-----------------------------------------------------------------------------
(* tcp_networking *)

(* accept() of a listening acceptor yields a stream, or nothing. *)
Accept ==
    /\ life = "none"
    /\ life' = "alive" /\ sd' = "open"
    /\ UNCHANGED <<token, io, cancel, shut, closer, begun, closes>>

(* tcp_connect(): without a socket it does not suspend, and takes the zero
   result of an operation that was never submitted for a success. *)
Connect ==
    /\ life = "none"
    /\ \/ life' = "connecting" /\ sd' = "open"
       \/ life' = "alive" /\ sd' = "none"
    /\ UNCHANGED <<token, io, cancel, shut, closer, begun, closes>>

(* The stream takes the socket over; after a failure it has none, and the
   network_operation closes it in the background. *)
Connected ==
    /\ life = "connecting"
    /\ life' = "alive"
    /\ \/ UNCHANGED <<sd, closer>>
       \/ sd' = "none" /\ closer' = "background"
    /\ UNCHANGED <<token, io, cancel, shut, begun, closes>>

-----------------------------------------------------------------------------
(* Reading and writing *)

Outstanding(a) == io[a].pc \in {"pending", "complete"}

(* Nobody else uses the token of this side. *)
Alone(a) ==
    /\ cancel[Side(a)].pc = "none"
    /\ \A b \in Actors : b # a /\ Side(b) = Side(a) => ~Outstanding(b)

(* set_cancel(&ret) or write_cancel_ = &ret, and recv() or send(). *)
Submit(a, whole, offset, reads) ==
    /\ begun' = begun + 1
    /\ token' = [token EXCEPT ![Side(a)] = begun + 1]
    /\ io' = [b \in Actors |->
          IF b = a
          THEN [NoIo EXCEPT !.id = begun + 1, !.pc = "pending", !.whole = whole,
                            !.offset = offset, !.clean = Alone(a), !.reads = reads]
          ELSE [io[b] EXCEPT !.clean = @ /\ Side(b) # Side(a)]]

(* read_some(), write_some(), read() and write() by their coroutine. *)
Begin(a) ==
    /\ life = "alive"
    /\ a # "drain" /\ ~Outstanding(a)
    /\ begun < MaxIo
    /\ \/ Submit(a, FALSE, 0, 0)
       \/ \E offset \in {0, 1} : Submit(a, TRUE, offset, 0)
    /\ UNCHANGED <<life, sd, cancel, shut, closer, closes>>

(* What is left of the buffer of read() and write(); with an offset of one
   the loop ends with an operation on nothing.  How many bytes read_some()
   and write_some() move decides nothing. *)
Left(a) == IF io[a].whole THEN Size - io[a].so_far - io[a].offset ELSE 1

(* The kernel (external): bytes, or zero for the end of the stream and for
   every error, which the code tells apart only in last_error_. *)
KernelIo(a) ==
    /\ io[a].pc = "pending"
    /\ \E n \in {0} \cup (IF sd = "open" THEN 1 .. Left(a) ELSE {}) :
        io' = [io EXCEPT ![a].pc = "complete", ![a].res = n, ![a].moved = @ + n]
    /\ UNCHANGED <<life, sd, token, cancel, shut, closer, begun, closes>>

(* Mutant: whatever was moved is all. *)
NotifyReady(a) == FALSE

(* notify(): kReady after progress, and then not await_ready(). *)
Notify(a) == /\ io[a].whole /\ io[a].res > 0
             /\ io[a].so_far + io[a].res # Size

(* read() and write() submit the rest with the same event. *)
SubmitAgain(a) ==
    /\ io[a].pc = "complete"
    /\ Notify(a)
    /\ token' = [token EXCEPT ![Side(a)] = io[a].id]
    /\ io' = [io EXCEPT ![a].pc = "pending", ![a].so_far = @ + io[a].res, ![a].clean = @ /\ Alone(a)]
    /\ UNCHANGED <<life, sd, cancel, shut, closer, begun, closes>>

(* clear_cancel(), write_cancel_ = nullptr *)
ClearToken(s) == 0

(* The coroutine is resumed with a result. *)
ResumeIo(a) ==
    /\ io[a].pc = "complete"
    /\ ~Notify(a)
    /\ token' = [token EXCEPT ![Side(a)] = ClearToken(Side(a))]
    /\ io' = [io EXCEPT ![a] = IF a # "drain" THEN NoIo
             ELSE [NoIo EXCEPT !.pc = "done", !.res = io[a].res, !.reads = io[a].reads]]
    /\ UNCHANGED <<life, sd, cancel, shut, closer, begun, closes>>

-----------------------------------------------------------------------------
(* Cancelling *)

(* cancel_event() and cancel_code(): what a request to cancel ends with;
   "failed" is the -ENOMEM of a request that found no entry, "unknown" any
   other error. *)
CancelCodes == {"done", "not found", "tried", "failed", "unknown"}

(* cancel_read(), cancel_write(): nothing without a token. *)
BeginCancel(s, target, background) ==
    cancel' = [cancel EXCEPT ![s] =
        IF target = 0 THEN @
        ELSE [pc |-> "pending", target |-> target, res |-> "none", background |-> background]]

(* The owner is a coroutine: it awaits its own last call. *)
OwnerFree ==
    /\ life = "alive" /\ closer = "none" /\ shut \in {"none", "over"}
    /\ \A s \in Sides : cancel[s].pc = "none"

Cancel(s) ==
    /\ OwnerFree /\ shut = "none" /\ token[s] # 0
    /\ BeginCancel(s, token[s], FALSE)
    /\ UNCHANGED <<life, sd, token, io, shut, closer, begun, closes>>

Target(s) == {a \in Actors : io[a].pc = "pending" /\ io[a].id = cancel[s].target}

(* The kernel (external): the operation ends with an error, was not found,
   goes on all the same, or the request itself failed. *)
KernelCancel(s) ==
    /\ cancel[s].pc = "pending"
    /\ \E code \in CancelCodes :
        /\ code \notin {"failed", "unknown"} => (code = "not found") = (Target(s) = {})
        /\ cancel' = [cancel EXCEPT ![s].pc = "complete", ![s].res = code]
        /\ io' = [a \in Actors |-> IF code = "done" /\ a \in Target(s)
                                   THEN [io[a] EXCEPT !.pc = "complete", !.res = 0] ELSE io[a]]
    /\ UNCHANGED <<life, sd, token, shut, closer, begun, closes>>

(* Mutant: every result clears the token. *)
CancelClearsAny(code) == TRUE

(* result != kFailed *)
CancelClears(code) == code # "failed"

(* The canceller is resumed and clears the token, by a reference to the
   stream's member and whosever it now is. *)
ResumeCancel(s) ==
    /\ cancel[s].pc = "complete"
    /\ token' = [token EXCEPT ![s] =
          IF CancelClears(cancel[s].res) /\ ~cancel[s].background THEN 0 ELSE @]
    /\ io' = [a \in Actors |-> IF Side(a) = s /\ cancel[s].res # "failed"
                               THEN [io[a] EXCEPT !.clean = FALSE] ELSE io[a]]
    /\ cancel' = [cancel EXCEPT ![s] = NoCancel]
    /\ UNCHANGED <<life, sd, shut, closer, begun, closes>>

-----------------------------------------------------------------------------
(* shutdown(), close() and the destructor *)

(* co_await cancel_read(), then cancel_write() ... *)
Shutdown ==
    /\ OwnerFree /\ shut = "none"
    /\ shut' = "cancel read"
    /\ BeginCancel("read", token["read"], FALSE)
    /\ UNCHANGED <<life, sd, token, io, closer, begun, closes>>

ShutdownWrite ==
    /\ shut = "cancel read" /\ cancel["read"].pc = "none"
    /\ shut' = "cancel write"
    /\ BeginCancel("write", token["write"], FALSE)
    /\ UNCHANGED <<life, sd, token, io, closer, begun, closes>>

(* ... ::shutdown(), and up to five reads until one of them fails. *)
ShutdownRead ==
    /\ \/ shut = "cancel write" /\ cancel["write"].pc = "none"
       \/ shut = "drain" /\ io["drain"].pc = "done"
    /\ IF \/ sd = "none"
          \/ shut = "drain" /\ (io["drain"].res = 0 \/ io["drain"].reads = MaxReads)
       THEN /\ shut' = "over"
            /\ io' = [io EXCEPT !["drain"] = NoIo]
            /\ UNCHANGED <<token, begun>>
       ELSE /\ shut' = "drain"
            /\ Submit("drain", FALSE, 0, IF shut = "drain" THEN io["drain"].reads + 1 ELSE 1)
    /\ UNCHANGED <<life, sd, cancel, closer, closes>>

(* close(), awaited, when there is a descriptor. *)
Close ==
    /\ OwnerFree /\ sd = "open"
    /\ closer' = "await"
    /\ UNCHANGED <<life, sd, token, io, cancel, shut, begun, closes>>

(* Mutant: a failed close in the background is left at that. *)
SecondCloseNot == FALSE

(* if (result && ::close(sd_tmp)) *)
SecondClose == closer = "background"

(* The ring closes it, or fails and leaves it open: then the background
   calls ::close(), and close() reports the error and keeps sd_. *)
CloseResult ==
    /\ closer # "none"
    /\ closer' = "none"
    /\ \/ closes' = closes + 1 /\ sd' = "none"
       \/ /\ closes' = IF SecondClose THEN closes + 1 ELSE closes
          /\ UNCHANGED sd
    /\ UNCHANGED <<life, token, io, cancel, shut, begun>>

(* The destructors: a write is cancelled in the background through the
   member, a read through a copy of its token, the socket is closed. *)
Destroy_ ==
    /\ OwnerFree
    /\ OwnerWaits => \A a \in Actors : ~Outstanding(a)
    /\ life' = "destroyed"
    /\ cancel' = [s \in Sides |->
          IF token[s] = 0 THEN NoCancel
          ELSE [pc |-> "pending", target |-> token[s], res |-> "none", background |-> s = "read"]]
    /\ token' = [token EXCEPT !["read"] = 0]
    /\ closer' = IF sd = "open" THEN "background" ELSE "none"
    /\ sd' = "none"
    /\ UNCHANGED <<io, shut, begun, closes>>

StreamNext ==
    \/ Accept \/ Connect \/ Connected
    \/ Shutdown \/ ShutdownWrite \/ ShutdownRead
    \/ Close \/ CloseResult \/ Destroy_
    \/ \E a \in Actors : Begin(a) \/ KernelIo(a) \/ SubmitAgain(a) \/ ResumeIo(a)
    \/ \E s \in Sides : Cancel(s) \/ KernelCancel(s) \/ ResumeCancel(s)

StreamSpec == StreamInit /\ [][StreamNext]_streamVars

(* The loop resumes what is complete, and the ring answers a request to
   cancel or to close; a peer may never send. *)
StreamFairness ==
    /\ WF_streamVars(CloseResult) /\ WF_streamVars(ShutdownWrite \/ ShutdownRead)
    /\ \A a \in Actors : WF_streamVars(SubmitAgain(a) \/ ResumeIo(a))
    /\ \A s \in Sides : WF_streamVars(KernelCancel(s) \/ ResumeCancel(s))

-----------------------------------------------------------------------------

(* A token names an operation that is still under way: cancelling never
   aims at a frame that has gone on. *)
TokenIsLive ==
    \A s \in Sides : token[s] # 0 => \E a \in Actors : Outstanding(a) /\ io[a].id = token[s]

(* An operation that began alone on its side, and that no cancel() claims
   to have reached, can be cancelled until it completes: through every
   submission of a read() or write(), and after a cancel() that failed. *)
PendingCancellable ==
    \A a \in Actors :
        Outstanding(a) /\ io[a].clean /\ life = "alive" => token[Side(a)] = io[a].id

(* A token and the operation it is to cancel exist together. *)
TokenNamesPending == TokenIsLive /\ PendingCancellable

(* read() and write(), when they are resumed, return what was moved, and
   less than all of it only after the end of the stream or an error. *)
WholeOrReason ==
    \A a \in Actors : io[a].pc = "complete" /\ ~Notify(a) =>
        /\ io[a].so_far + io[a].res = io[a].moved
        /\ io[a].whole /\ io[a].res > 0 => io[a].moved = Size - io[a].offset

(* The descriptor is closed once, whatever close() said, and not while
   anybody still takes it for open. *)
ClosedOnce == closes <= 1 /\ (sd = "open" => closes = 0)

(* The descriptor of a socket is closed, by close(), by a connect that failed
   or in the background of the destructor and also when the ring fails to,
   unless the stream is never destroyed. *)
DestroyedIsClosed ==
    (sd = "open") ~> (closes = 1 \/ [](life # "destroyed"))

(* Together: exactly once. *)
ClosedExactlyOnce == []ClosedOnce /\ DestroyedIsClosed

(* "We first try to cancel any pending writes in the background ... The
   deconstruction of net_op_ will cancel any pending reads": nothing that is
   still to be resumed refers to the destroyed stream. *)
NoUseAfterDestroy ==
    life = "destroyed" =>
        /\ \A a \in Actors : ~Outstanding(a)
        /\ \A s \in Sides : cancel[s].pc # "none" => cancel[s].background

-----------------------------------------------------------------------------
(***************************************************************************)
(* The inductive invariants behind the theorems of IoProofs.               *)
(***************************************************************************)

StreamTypeOK ==
    /\ life \in {"none", "connecting", "alive", "destroyed"}
    /\ begun \in Nat
    /\ token \in [Sides -> Nat]
    /\ io \in [Actors -> [id : Nat, pc : {"none", "pending", "complete", "done"}, res : Nat,
                          whole : BOOLEAN, offset : Nat, so_far : Nat, moved : Nat,
                          clean : BOOLEAN, reads : Nat]]

(* A token names an operation of its own side; of two operations under way
   on one side neither counts on its token; there are operations only once
   there is a stream, and reads of shutdown() only during shutdown(). *)
TokenInv ==
    /\ \A s \in Sides : token[s] # 0 =>
          \E a \in Actors : Side(a) = s /\ Outstanding(a) /\ io[a].id = token[s]
    /\ \A a, b \in Actors : a # b /\ Side(a) = Side(b) /\ Outstanding(a) /\ Outstanding(b) =>
          ~io[a].clean
    /\ PendingCancellable
    /\ Outstanding("drain") => shut = "drain"
    /\ life \in {"none", "connecting"} =>
          shut = "none" /\ \A a \in Actors : ~Outstanding(a)

(* What was moved is what the loop has counted, plus the result that it has
   not seen yet, and never more than fits behind the offset. *)
MovedInv ==
    \A a \in Actors :
        /\ io[a].pc = "pending" =>
              /\ io[a].so_far = io[a].moved
              /\ io[a].whole => io[a].so_far + io[a].offset <= Size
        /\ io[a].pc = "complete" =>
              /\ io[a].so_far + io[a].res = io[a].moved
              /\ io[a].whole => io[a].so_far + io[a].res + io[a].offset <= Size

(* A descriptor that anybody can still ask to close has not been closed. *)
CloseInv ==
    /\ closes \in {0, 1}
    /\ life = "none" => sd = "none" /\ closer = "none" /\ closes = 0
    /\ life = "connecting" => sd = "open" /\ closer = "none"
    /\ sd = "open" => closes = 0
    /\ closer # "none" => closes = 0
    /\ closer = "background" => sd = "none"
=============================================================================
