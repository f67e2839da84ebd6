------------------------------ MODULE XThread ------------------------------
(***************************************************************************)
(* The thread base class of the player (XThread.h, XThread.cpp).           *)
(*                                                                         *)
(* Every pipeline object (demuxer, decoders, audio output, the player      *)
(* itself) inherits four plain boolean members from XThread.  They are the *)
(* whole protocol between the control thread, which starts, stops and      *)
(* pauses an object, and the detached operating-system threads that run    *)
(* the object's Main().  This module holds the flags, the program counter  *)
(* of every thread, and the steps the class itself takes; the loops that   *)
(* use them are in the modules that extend this one.                       *)
(*                                                                         *)
(* Start() detaches a new thread each time, so one object can have several *)
(* threads: a thread is a pair <<object, slot>>, and Slot bounds how many  *)
(* threads of one object are alive together.                               *)
(*                                                                         *)
(* The members are not atomic.  Each access is one byte wide and separated *)
(* from the next by a mutex operation or a sleep the compiler cannot see   *)
(* through, so a load or a store is one indivisible step here.             *)
(***************************************************************************)
EXTENDS Naturals

CONSTANTS
  Object,   \* the objects that inherit XThread
  Slot      \* thread slots of one object (bounds the live threads)

VARIABLES
  isExit,      \* isExit[o]: Stop() was called and Start() not since
  isRunning,   \* isRunning[o]: what ThreadMain() last stored
  isPause,     \* isPause[o]: the pause state asked for
  isPausing,   \* isPausing[o]: the pause state last acknowledged
  pc           \* pc[t]: where thread t is

flags == <<isExit, isRunning, isPause, isPausing>>

Thread == Object \X Slot

Obj(t) == t[1]

XThreadInit ==
  /\ isExit = [o \in Object |-> FALSE]
  /\ isRunning = [o \in Object |-> FALSE]
  /\ isPause = [o \in Object |-> FALSE]
  /\ isPausing = [o \in Object |-> FALSE]
  /\ pc = [t \in Thread |-> "none"]

Live(o) == {k \in Slot : pc[<<o, k>>] # "none"}

GoTo(t, label) == pc' = [pc EXCEPT ![t] = label]

-----------------------------------------------------------------------------
(* Calls of the control thread.                                            *)

(* The new thread takes a free slot; which one makes no difference.        *)
Spawn(o) ==
  /\ Live(o) # Slot
  /\ GoTo(<<o, CHOOSE k \in Slot : k \notin Live(o)>>, "spawned")

(* Mutant: Start() leaves a pause of the previous thread in force.         *)
StartStillPaused(o) ==
  /\ isExit' = [isExit EXCEPT ![o] = FALSE]
  /\ Spawn(o)
  /\ UNCHANGED <<isRunning, isPause, isPausing>>

(* Start(): two stores, then a detached thread on ThreadMain.  isPausing   *)
(* and isRunning keep what an earlier thread left in them.                 *)
Start(o) ==
  /\ isExit' = [isExit EXCEPT ![o] = FALSE]
  /\ isPause' = [isPause EXCEPT ![o] = FALSE]
  /\ Spawn(o)
  /\ UNCHANGED <<isRunning, isPausing>>

(* The store that begins Stop().                                           *)
RaiseExit(o) ==
  /\ isExit' = [isExit EXCEPT ![o] = TRUE]
  /\ UNCHANGED <<isRunning, isPause, isPausing>>

(* The store that begins SetPause(isP).                                    *)
RequestPause(o, isP) ==
  /\ isPause' = [isPause EXCEPT ![o] = isP]
  /\ UNCHANGED <<isExit, isRunning, isPausing>>

(* IsPause() acknowledges the request whoever calls it.                    *)
Acknowledge(o) ==
  /\ isPausing' = [isPausing EXCEPT ![o] = isPause[o]]
  /\ UNCHANGED <<isExit, isRunning, isPause>>

-----------------------------------------------------------------------------
(* Steps of a worker thread.                                               *)

(* Mutant: ThreadMain() does not say that it runs.                         *)
EnterSilently(t) ==
  /\ pc[t] = "spawned"
  /\ GoTo(t, "head")
  /\ UNCHANGED flags

(* ThreadMain() before Main().                                             *)
Enter(t) ==
  /\ pc[t] = "spawned"
  /\ isRunning' = [isRunning EXCEPT ![Obj(t)] = TRUE]
  /\ GoTo(t, "head")
  /\ UNCHANGED <<isExit, isPause, isPausing>>

(* Mutant: a paused loop sleeps without testing isExit.                    *)
LoopHeadPauseFirst(t) ==
  /\ pc[t] = "head"
  /\ \/ /\ isPause[Obj(t)]
        /\ Acknowledge(Obj(t))
        /\ UNCHANGED pc
     \/ /\ ~isPause[Obj(t)]
        /\ GoTo(t, IF isExit[Obj(t)] THEN "leave" ELSE "decide")
        /\ UNCHANGED flags

(* The head of a worker loop: the test of isExit and the first half of     *)
(* IsPause(), which stores the acknowledgement.                            *)
LoopHead(t) ==
  /\ pc[t] = "head"
  /\ \/ /\ isExit[Obj(t)]
        /\ GoTo(t, "leave")
        /\ UNCHANGED flags
     \/ /\ ~isExit[Obj(t)]
        /\ Acknowledge(Obj(t))
        /\ GoTo(t, "decide")

(* The second half of IsPause() loads isPause again for its result: TRUE   *)
(* sends the loop to sleep and back, FALSE on to its body.                 *)
Decide(t, body) ==
  /\ pc[t] = "decide"
  /\ GoTo(t, IF isPause[Obj(t)] THEN "head" ELSE body)
  /\ UNCHANGED flags

(* The modules in which several objects run together take the end of one   *)
(* round of a loop and the head of the next as one step, to "head" when    *)
(* the loop is paused and straight to its body when it is not.  Nothing is *)
(* lost by the first (the test of isExit commutes with what a round does   *)
(* last) and little by reading isPause once: a SetPause() between the two  *)
(* loads of IsPause() is the subject of ThreadLifecycle.                   *)
Again(t, body) ==
  LET o == Obj(t) IN
  /\ GoTo(t, IF isExit[o] THEN "leave" ELSE IF isPause[o] THEN "head" ELSE body)
  /\ isPausing' = IF isExit[o] THEN isPausing ELSE [isPausing EXCEPT ![o] = isPause[o]]
  /\ UNCHANGED <<isExit, isPause>>

EnterLoop(t, body) ==
  /\ pc[t] = "spawned"
  /\ isRunning' = [isRunning EXCEPT ![Obj(t)] = TRUE]
  /\ Again(t, body)

PausedLoop(t, body) ==
  /\ pc[t] = "head"
  /\ Again(t, body)
  /\ UNCHANGED isRunning

(* Mutant: ThreadMain() does not say that it has ended.                    *)
LeaveSilently(t) ==
  /\ pc[t] = "leave"
  /\ GoTo(t, "none")
  /\ UNCHANGED flags

(* ThreadMain() after Main().                                              *)
Leave(t) ==
  /\ pc[t] = "leave"
  /\ isRunning' = [isRunning EXCEPT ![Obj(t)] = FALSE]
  /\ GoTo(t, "none")
  /\ UNCHANGED <<isExit, isPause, isPausing>>

=============================================================================
