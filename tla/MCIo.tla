-------------------------------- MODULE MCIo ---------------------------------
(* The engine, the objects on descriptors and the pause token, one of them at
   a time: the parts that are not chosen stay in their initial state.

   Three coroutines and two callers of a pause token, so that two unpause()
   calls can walk at once while a third coroutine re-uses its address; a
   stream with two operations of its coroutines and a shutdown() of one read;
   two file objects, one close under way and three descriptors; whole-file
   transfers of more bytes than an offset can reach; an engine of two workers,
   two calls of stop() and a signal with two functors. *)
EXTENDS PauseToken, Streams, AsyncFile, Engine

CONSTANTS Parts,   \* which of them
          p1, p2, p3, c1, c2

VARIABLE part

MCPausers == {p1, p2, p3}
MCCallers == {c1, c2}
MCContent == <<1, 2, 3, 4, 5, 6>>
MCSource == <<7, 8, 9>>

IoInit == /\ part \in Parts
          /\ Init /\ StreamInit /\ FileInit /\ EngineInit

IoNext ==
    /\ \/ /\ part = "pause_token" /\ Next
          /\ UNCHANGED <<streamVars, asyncFileVars, engineVars>>
       \/ /\ part = "stream" /\ StreamNext
          /\ UNCHANGED <<vars, asyncFileVars, engineVars>>
       \/ /\ \/ part = "descriptors" /\ OwnerNext
             \/ part = "transfer" /\ TransferNext
          /\ UNCHANGED <<vars, streamVars, engineVars>>
       \/ /\ part = "engine" /\ EngineNext
          /\ UNCHANGED <<vars, streamVars, asyncFileVars>>
    /\ UNCHANGED part

IoSpec == IoInit /\ [][IoNext]_<<part, vars, streamVars, asyncFileVars, engineVars>>

(* The fairness of each part; that of the others asks for nothing, since no
   fair action changes an initial state. *)
IoFairSpec == IoSpec /\ Fairness /\ StreamFairness /\ FileFairness /\ EngineFairness
=============================================================================
