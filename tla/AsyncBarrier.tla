---------------------------- MODULE AsyncBarrier ----------------------------
(***************************************************************************)
(* zab::async_barrier (includes/zab/async_barrier.hpp).  A frame arrives   *)
(* by subtracting one from count_ and then linking itself at the head of   *)
(* working_set_; the arrival that subtracts the last one runs              *)
(* complete_phase(): it waits until enough frames are linked, cuts the     *)
(* oldest expected_ of them out of the list, calls the completion          *)
(* function, refills count_ and resumes the frames of the phase.  When so  *)
(* many frames came in the meantime that the next phase is complete too,   *)
(* nobody will subtract the last one, and complete_phase() executes itself *)
(* again.  A frame may arrive for the last time and leave.                 *)
(*                                                                         *)
(* arrive() and its token cannot be instantiated (token-> on a class with  *)
(* no operator->) and are left out.                                        *)
(***************************************************************************)
EXTENDS Integers, Sequences, SequencesExt, FiniteSets

CONSTANTS Frames,       \* the coroutines that use the barrier
          Scenarios     \* [expected, droppers, arrivals]: how it is constructed, who may
                        \* leave, and, as a bound, how often a frame arrives

ASSUME BarrierAssumption ==
    /\ IsFiniteSet(Frames)
    /\ \A s \in Scenarios : /\ s.expected \in Nat \ {0}
                            /\ s.droppers \subseteq Frames
                            /\ s.arrivals \in Nat

VARIABLES scenario,     \* the scenario of this barrier
          expected,     \* expected_
          remaining,    \* count_
          workingSet,   \* working_set_, the newest first
          at,           \* where a frame stands
          last,         \* did the frame in await_suspend() see amount == 1?
          completions,  \* the executions of complete_phase(), in the order of their begin
          arrived,      \* history: how often a frame has arrived
          passed        \* history: how often a frame has been resumed

frameVars == <<at, last, arrived, passed>>
barrierVars == <<scenario, expected, remaining, workingSet, frameVars, completions>>

NoWindow == <<>>
Begun == [pc |-> "acquire", window |-> NoWindow, drops |-> 0, old |-> 0]

BarrierInit ==
    /\ scenario \in Scenarios
    /\ expected = scenario.expected
    /\ remaining = scenario.expected
    /\ workingSet = <<>>
    /\ at = [f \in Frames |-> "running"]
    /\ last = [f \in Frames |-> FALSE]
    /\ completions = <<>>
    /\ arrived = [f \in Frames |-> 0]
    /\ passed = [f \in Frames |-> 0]

-----------------------------------------------------------------------------
(* Arriving *)

(* if (amount == 1) *)
IsLast(amount) == amount = 1

(* await_suspend() or arrive_and_drop(): the subtraction. *)
Subtract(f, onward) ==
    /\ at[f] = "running"
    /\ arrived[f] < scenario.arrivals
    /\ remaining' = remaining - 1
    /\ at' = [at EXCEPT ![f] = onward]
    /\ last' = [last EXCEPT ![f] = IsLast(remaining)]
    /\ arrived' = [arrived EXCEPT ![f] = @ + 1]
    /\ UNCHANGED <<scenario, expected, workingSet, passed, completions>>

ArriveAndWait(f) == Subtract(f, "linking")

ArriveAndDrop(f) == f \in scenario.droppers /\ Subtract(f, "dropping")

(* The loop that links the waiter, or the drop_token, at the head, and the
   call of complete_phase() by the last one. *)
Link(f) ==
    /\ at[f] \in {"linking", "dropping"}
    /\ workingSet' = <<f>> \o workingSet
    /\ at' = [at EXCEPT ![f] = IF @ = "linking" THEN "waiting" ELSE "gone"]
    /\ completions' = IF last[f] THEN Append(completions, Begun) ELSE completions
    /\ last' = [last EXCEPT ![f] = FALSE]
    /\ UNCHANGED <<scenario, expected, remaining, arrived, passed>>

-----------------------------------------------------------------------------
(* complete_phase() *)

(* What step of complete_phase() number k does to its local state. *)
Complete(k, from, new) ==
    /\ completions[k].pc = from
    /\ completions' = [completions EXCEPT ![k] = new]

(* Mutant: the whole list is taken. *)
WindowAll(list, n) == list

(* The head that aquire_window() leaves behind: the walk trails expected_
   nodes (at least one) behind the end of the list. *)
Window(list, n) == SubSeq(list, Len(list) - n + 1, Len(list))

WindowSize == IF expected < 1 THEN 1 ELSE expected

(* aquire_window() spins until the list is long enough. *)
AcquireWindow(k) ==
    /\ Len(workingSet) >= WindowSize
    /\ Complete(k, "acquire",
                [completions[k] EXCEPT !.pc = "trim", !.window = Window(workingSet, WindowSize)])
    /\ UNCHANGED <<scenario, expected, remaining, workingSet, frameVars>>

(* Where a frame is in the list. *)
Place(list, f) == CHOOSE i \in DOMAIN list : list[i] = f

(* The window is cut off behind the node that links to its first one.  Nodes
   linked since stay in front; a window that is no longer in the list is
   not found. *)
Trim(k) ==
    LET start == completions[k].window[1]
    IN  /\ Complete(k, "trim", [completions[k] EXCEPT !.pc = "function"])
        /\ workingSet' = IF Contains(workingSet, start)
                         THEN SubSeq(workingSet, 1, Place(workingSet, start) - 1)
                         ELSE workingSet
        /\ UNCHANGED <<scenario, expected, remaining, frameVars>>

(* The frames of a window that arrived with arrive_and_drop(). *)
Leaving(window) == {f \in ToSet(window) : at[f] = "gone"}

(* The drop tokens of the window are counted, the completion function runs,
   maybe after a yield to the control thread or as a coroutine. *)
RunFunction(k) ==
    /\ Complete(k, "function",
                [completions[k] EXCEPT
                    !.pc = "reduce",
                    !.drops = Cardinality(Leaving(completions[k].window))])
    /\ UNCHANGED <<scenario, expected, remaining, workingSet, frameVars>>

(* expected_ -= amount_to_drop *)
Reduce(k) ==
    /\ Complete(k, "reduce", [completions[k] EXCEPT !.pc = "refill"])
    /\ expected' = expected - completions[k].drops
    /\ UNCHANGED <<scenario, remaining, workingSet, frameVars>>

(* count_.fetch_add(expected_) *)
Refill(k) ==
    /\ Complete(k, "refill", [completions[k] EXCEPT !.pc = "resume", !.old = remaining])
    /\ remaining' = remaining + expected
    /\ UNCHANGED <<scenario, expected, workingSet, frameVars>>

(* One node of the window: a waiter is handed to its thread, a drop token
   deleted.  The link is read first. *)
ResumeFrame(k) ==
    LET w == completions[k].window
    IN  /\ w # <<>>
        /\ Complete(k, "resume", [completions[k] EXCEPT !.window = Tail(w)])
        /\ at' = [at EXCEPT ![w[1]] = IF @ = "gone" THEN "gone" ELSE "posted"]
        /\ UNCHANGED <<scenario, expected, remaining, workingSet, last, arrived, passed>>

(* Mutants: the next phase is never looked at, or taken for full without
   its frames. *)
PhaseFullNever(old) == FALSE
PhaseFullZero(old) == old <= 0

(* if (count <= -expected_) *)
PhaseFull(old) == old <= -expected

(* complete_phase() ends, or is executed once more. *)
ExecuteAgain(k) ==
    /\ completions[k].pc = "resume"
    /\ completions[k].window = <<>>
    /\ completions' = LET ended == [completions EXCEPT ![k].pc = "done"]
                      IN  IF PhaseFull(completions[k].old) THEN Append(ended, Begun) ELSE ended
    /\ UNCHANGED <<scenario, expected, remaining, workingSet, frameVars>>

CompleteStep(k) ==
    \/ AcquireWindow(k) \/ Trim(k) \/ RunFunction(k) \/ Reduce(k)
    \/ Refill(k) \/ ResumeFrame(k) \/ ExecuteAgain(k)

(* The event loop of the frame's thread resumes it. *)
BarrierResume(f) ==
    /\ at[f] = "posted"
    /\ at' = [at EXCEPT ![f] = "running"]
    /\ passed' = [passed EXCEPT ![f] = @ + 1]
    /\ UNCHANGED <<scenario, expected, remaining, workingSet, last, arrived, completions>>

(* No more phases than arrivals, and one execution for an empty one. *)
MaxCompletions ==
    LET arrivals == CHOOSE n \in {s.arrivals : s \in Scenarios} :
                        \A s \in Scenarios : s.arrivals <= n
    IN  Cardinality(Frames) * arrivals + 1

BarrierNext ==
    \/ \E f \in Frames : \/ ArriveAndWait(f) \/ ArriveAndDrop(f)
                         \/ Link(f) \/ BarrierResume(f)
    \/ \E k \in 1..Len(completions) : CompleteStep(k)

(* A thread that has begun goes on, and event loops run what is queued.
   Nothing makes a frame arrive. *)
BarrierFairness ==
    /\ \A f \in Frames : WF_barrierVars(Link(f)) /\ WF_barrierVars(BarrierResume(f))
    /\ \A k \in 1..MaxCompletions :
           WF_barrierVars(k \in DOMAIN completions /\ CompleteStep(k))

BarrierSpec == BarrierInit /\ [][BarrierNext]_barrierVars /\ BarrierFairness

-----------------------------------------------------------------------------

(* Does execution k own the phase that is being completed? *)
InCharge(k) ==
    \/ completions[k].pc \in {"acquire", "trim", "function", "reduce", "refill"}
    \/ completions[k].pc = "resume" /\ PhaseFull(completions[k].old)

(* Nobody passes the barrier before everybody who still takes part has
   arrived as often, whichever of the frames is linked late, runs the
   completion or has left. *)
NobodyAhead ==
    scenario.expected = Cardinality(Frames) =>
        \A f, g \in Frames : at[g] # "gone" => passed[f] <= arrived[g]

(* A count that is used up is in the charge of exactly one actor, the
   arrival that used it up or one execution of complete_phase(), and a
   positive one of nobody: no phase is completed twice, and none is
   forgotten because its arrivals came before the refill. *)
OneInCharge ==
    LET arrivals == {f \in Frames : last[f]}
        executions == {k \in 1..Len(completions) : InCharge(k)}
    IN  /\ \A f, g \in arrivals : f = g
        /\ \A i, j \in executions : i = j
        /\ arrivals = {} \/ executions = {}
        /\ remaining <= 0 <=> (arrivals # {} \/ executions # {})

(* The frames that have subtracted themselves and are not linked yet. *)
Linking == {f \in Frames : at[f] \in {"linking", "dropping"}}

(* The count agrees with the list: what is missing from expected_ has been
   subtracted by frames that are linked or about to be, so aquire_window()
   never waits for a frame that does not come and no frame is in two
   windows. *)
CountMatchesList ==
    LET cut == \E k \in 1..Len(completions) :
                   completions[k].pc \in {"function", "reduce", "refill"}
    IN  remaining + Len(workingSet) + Cardinality(Linking) = IF cut THEN 0 ELSE expected

(* Every phase is completed once, by somebody who finds its frames. *)
PhaseAccounted == OneInCharge /\ CountMatchesList

(* "There are more then working_set_ things waiting" (line 592): whenever
   complete_phase() begins, by the last arrival or by itself, the frames that
   it is going to take are linked or about to be: those of a whole phase, and
   at least one. *)
BegunWhenWaiting ==
    \A k \in 1..Len(completions) : completions[k].pc = "acquire" =>
        Len(workingSet) + Cardinality(Linking) >= WindowSize

(* Whoever waits is resumed, or waits for somebody who still takes part and
   has not arrived as often; with fewer expected than there are frames, for
   want of enough of them. *)
WaitersResumed ==
    []<>(\A f \in Frames : at[f] = "waiting" =>
            IF scenario.expected = Cardinality(Frames)
            THEN \E g \in Frames : at[g] # "gone" /\ arrived[g] < arrived[f]
            ELSE Cardinality({g \in Frames : at[g] = "waiting"}) < expected)
-----------------------------------------------------------------------------
(***************************************************************************)
(* The inductive invariant behind the theorems of CoroutinesProofs.        *)
(***************************************************************************)

(* Either nobody leaves, or the barrier expects all the frames, of which one
   stays. *)
ProperUse ==
    \A s \in Scenarios : \/ s.droppers = {}
                         \/ s.expected = Cardinality(Frames) /\ s.droppers # Frames

Everybody == scenario.expected = Cardinality(Frames)

Execution == [pc : {"acquire", "trim", "function", "reduce", "refill", "resume", "done"},
              window : Seq(Frames), drops : Nat, old : Int]

BarrierTypeOK ==
    /\ scenario \in Scenarios
    /\ expected \in Nat \ {0}
    /\ remaining \in Int
    /\ workingSet \in Seq(Frames)
    /\ at \in [Frames -> {"running", "linking", "dropping", "waiting", "gone", "posted"}]
    /\ last \in [Frames -> BOOLEAN]
    /\ completions \in Seq(Execution)
    /\ arrived \in [Frames -> Nat]
    /\ passed \in [Frames -> Nat]

(* The execution k has cut its window out of the list ... *)
Owns(k) == completions[k].pc \in {"function", "reduce", "refill", "resume"}

(* ... and has not yet given up those who leave with it. *)
Keeps(k) == completions[k].pc \in {"function", "reduce"}

Cuts(k) == completions[k].pc \in {"function", "reduce", "refill"}

Suspended(f) == at[f] \in {"waiting", "gone"}

(* Who is the last to arrive is about to link itself, only droppers leave,
   and what is in the list is suspended there, once. *)
FramesInList ==
    /\ \A f \in Frames : /\ last[f] => at[f] \in {"linking", "dropping"}
                         /\ at[f] \in {"dropping", "gone"} => f \in scenario.droppers
    /\ IsInjective(workingSet)
    /\ \A f \in ToSet(workingSet) : Suspended(f)

(* The window of execution k: about to be cut off, it is the end of the list;
   after that, its frames are suspended in it, once, and not in the list. *)
WindowInv(k) ==
    /\ completions[k].pc = "trim" =>
           /\ Len(workingSet) >= expected
           /\ completions[k].window = Window(workingSet, expected)
    /\ Owns(k) => /\ IsInjective(completions[k].window)
                  /\ \A f \in ToSet(completions[k].window) :
                        Suspended(f) /\ f \notin ToSet(workingSet)
    /\ completions[k].pc = "reduce" =>
           completions[k].drops = Cardinality(Leaving(completions[k].window))

(* No frame is in two windows. *)
WindowsApart ==
    \A k, l \in 1..Len(completions) :
        k # l /\ Owns(k) /\ Owns(l) =>
            ToSet(completions[k].window) \cap ToSet(completions[l].window) = {}

ListsInv == FramesInList /\ (\A k \in 1..Len(completions) : WindowInv(k)) /\ WindowsApart

(* Those who have left and are no longer expected. *)
Out == {f \in Frames : /\ at[f] = "gone"
                       /\ f \notin ToSet(workingSet)
                       /\ \A k \in 1..Len(completions) :
                              Keeps(k) => f \notin ToSet(completions[k].window)}

(* When everybody is expected, a phase takes them all: none is left to arrive
   while it is completed. *)
EverybodyInv ==
    Everybody =>
        /\ expected = Cardinality(Frames \ Out)
        /\ \A k \in 1..Len(completions) :
              /\ completions[k].pc = "resume" => completions[k].old = 0
              /\ Cuts(k) => /\ workingSet = <<>>
                            /\ \A f \in Frames : at[f] = "gone" \/ f \in ToSet(completions[k].window)

(* A frame that stands where it stands in phase n. *)
InPhase(f, n) ==
    /\ at[f] = "running" => arrived[f] = n /\ passed[f] = n
    /\ at[f] \in {"linking", "dropping"} => arrived[f] = n + 1 /\ passed[f] = n
    /\ at[f] = "posted" => arrived[f] = n /\ passed[f] = n - 1
    /\ at[f] = "waiting" => \/ arrived[f] = n + 1 /\ passed[f] = n
                            \/ arrived[f] = n /\ passed[f] = n - 1
    /\ at[f] = "waiting" /\ f \in ToSet(workingSet) => arrived[f] = n + 1
    /\ \A k \in 1..Len(completions) :
          at[f] = "waiting" /\ Owns(k) /\ f \in ToSet(completions[k].window) => arrived[f] = n
    /\ passed[f] <= n

(* The executions that have cut their window out. *)
Phases == {k \in 1..Len(completions) : Owns(k) \/ completions[k].pc = "done"}

PhaseInv == Everybody => \A f \in Frames : InPhase(f, Cardinality(Phases))

BarrierInv == BarrierTypeOK /\ ListsInv /\ PhaseAccounted /\ EverybodyInv /\ PhaseInv
=============================================================================
