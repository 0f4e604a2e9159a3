-------------------------------- MODULE Gate --------------------------------
(***************************************************************************)
(* What a pause_token promises its users, with no list, no pointer and no  *)
(* intermediate step: a gate is paused or not; a coroutine that arrives at *)
(* a paused gate waits; unpause() opens the gate and condemns every        *)
(* coroutine waiting at that instant to be resumed, exactly once; a        *)
(* pause() that follows shuts the gate for later arrivals only.            *)
(***************************************************************************)
CONSTANT Pausers

VARIABLES paused,   \* is the gate shut?
          waiting,  \* coroutines held by the gate
          waking    \* coroutines let go by an unpause() and not yet running

vars == <<paused, waiting, waking>>

Init == /\ paused = TRUE
        /\ waiting = {}
        /\ waking = {}

Wait(p) == /\ paused
           /\ p \notin waiting \cup waking
           /\ waiting' = waiting \cup {p}
           /\ UNCHANGED <<paused, waking>>

Unpause == /\ paused' = FALSE
           /\ waking' = waking \cup waiting
           /\ waiting' = {}

Pause == /\ ~paused
         /\ paused' = TRUE
         /\ UNCHANGED <<waiting, waking>>

Wake(p) == /\ p \in waking
           /\ waking' = waking \ {p}
           /\ UNCHANGED <<paused, waiting>>

Next == \/ Unpause
        \/ Pause
        \/ \E p \in Pausers : Wait(p) \/ Wake(p)

Spec == Init /\ [][Next]_vars
=============================================================================
