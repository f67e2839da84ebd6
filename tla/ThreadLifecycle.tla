-------------------------- MODULE ThreadLifecycle ---------------------------
(***************************************************************************)
(* Start, Stop and SetPause of XThread against the worker loops that use   *)
(* them, one control thread per object.  The loop body is opaque here: it  *)
(* is the call to Read(), to the codec, or to the audio output that every  *)
(* Main() makes between two looks at the flags, and it may take any time.  *)
(***************************************************************************)
EXTENDS XThread

CONSTANTS
  MAX_WAIT_STOP_TIME,     \* polls of isRunning before Stop() gives up
  PAUSE_WAIT_STOP_TIME    \* polls of isPausing before SetPause() gives up

(* 200 and 10 in XThread.cpp.                                              *)
ASSUME PollAssumption ==
  /\ MAX_WAIT_STOP_TIME \in Nat
  /\ PAUSE_WAIT_STOP_TIME \in 0 .. MAX_WAIT_STOP_TIME

VARIABLES
  call,      \* call[o]: the call of the control thread in progress on o
  poll,      \* poll[o]: how often the wait loop of that call has slept
  stopped,   \* stopped[o]: how the last Stop() returned, "no" after Start()
  paused,    \* paused[o]: how the last SetPause(true) returned, "no" after a resume
  begun,     \* history: bodies thread t began under the current isExit
  resumed,   \* resumed[o]: how the last SetPause(false) since Start() returned
  overlap    \* history: the objects whose Start() ever found a live thread

vars == <<isExit, isRunning, isPause, isPausing, pc,
          call, poll, stopped, paused, begun, resumed, overlap>>

Init ==
  /\ XThreadInit
  /\ call = [o \in Object |-> "idle"]
  /\ poll = [o \in Object |-> 0]
  /\ stopped = [o \in Object |-> "no"]
  /\ paused = [o \in Object |-> "no"]
  /\ begun = [t \in Thread |-> 0]
  /\ resumed = [o \in Object |-> "acked"]
  /\ overlap = {}

-----------------------------------------------------------------------------
(* The control thread.                                                     *)

Return(o) == call' = [call EXCEPT ![o] = "idle"] /\ poll' = [poll EXCEPT ![o] = 0]

PollAgain(o) == poll' = [poll EXCEPT ![o] = @ + 1] /\ UNCHANGED call

(* IPlayer::Open() begins with Close(), hence with Stop(), and the native  *)
(* Open calls Start() right after: a Start() always follows a Stop().      *)
CallStart(o) ==
  /\ call[o] = "idle"
  /\ isExit[o]
  /\ Start(o)
  /\ stopped' = [stopped EXCEPT ![o] = "no"]
  /\ paused' = [paused EXCEPT ![o] = "no"]
  /\ resumed' = [resumed EXCEPT ![o] = "acked"]
  /\ overlap' = IF Live(o) = {} THEN overlap ELSE overlap \cup {o}
  /\ UNCHANGED <<call, poll, begun>>

CallStop(o) ==
  /\ call[o] = "idle"
  /\ RaiseExit(o)
  /\ call' = [call EXCEPT ![o] = "stop"] /\ poll' = [poll EXCEPT ![o] = 0]
  /\ begun' = [t \in Thread |-> IF Obj(t) = o THEN 0 ELSE begun[t]]
  /\ UNCHANGED <<pc, stopped, paused, resumed, overlap>>

StopReturns(o, outcome) ==
  /\ Return(o)
  /\ stopped' = [stopped EXCEPT ![o] = outcome]

(* Mutant: one poll too many before Stop() gives up.                       *)
PollStopOffByOne(o) ==
  /\ call[o] = "stop"
  /\ IF ~isRunning[o] \/ poll[o] > MAX_WAIT_STOP_TIME
     THEN StopReturns(o, IF isRunning[o] THEN "timeout" ELSE "success")
     ELSE PollAgain(o) /\ UNCHANGED stopped
  /\ UNCHANGED <<flags, pc, paused, begun, resumed, overlap>>

(* One iteration of the wait loop of Stop(), or its end.                   *)
PollStop(o) ==
  /\ call[o] = "stop"
  /\ \/ /\ poll[o] = MAX_WAIT_STOP_TIME
        /\ StopReturns(o, "timeout")
     \/ /\ poll[o] < MAX_WAIT_STOP_TIME
        /\ ~isRunning[o]
        /\ StopReturns(o, "success")
     \/ /\ poll[o] < MAX_WAIT_STOP_TIME
        /\ isRunning[o]
        /\ PollAgain(o)
        /\ UNCHANGED stopped
  /\ UNCHANGED <<flags, pc, paused, begun, resumed, overlap>>

CallPause(o) ==
  /\ call[o] = "idle"
  /\ RequestPause(o, TRUE)
  /\ call' = [call EXCEPT ![o] = "pause"] /\ poll' = [poll EXCEPT ![o] = 0]
  /\ UNCHANGED <<pc, stopped, paused, begun, resumed, overlap>>

CallResume(o) ==
  /\ call[o] = "idle"
  /\ RequestPause(o, FALSE)
  /\ call' = [call EXCEPT ![o] = "resume"] /\ poll' = [poll EXCEPT ![o] = 0]
  /\ paused' = [paused EXCEPT ![o] = "no"]
  /\ UNCHANGED <<pc, stopped, begun, resumed, overlap>>

(* SetPause() returns the same way whether the wait succeeded or ran out;  *)
(* paused and resumed keep which.                                          *)
PauseReturns(o, outcome) ==
  /\ Return(o)
  /\ IF call[o] = "pause"
     THEN /\ paused' = [paused EXCEPT ![o] = outcome]
          /\ UNCHANGED resumed
     ELSE /\ resumed' = [resumed EXCEPT ![o] = outcome]
          /\ UNCHANGED paused

(* Mutant: SetPause() waits for the flag it wrote, not for the answer.     *)
PollPauseOwnFlag(o) ==
  /\ call[o] \in {"pause", "resume"}
  /\ isPause[o] = (call[o] = "pause")
  /\ PauseReturns(o, "acked")
  /\ UNCHANGED <<flags, pc, stopped, begun, overlap>>

(* One iteration of the wait loop of SetPause(), or its end.               *)
PollPause(o) ==
  /\ call[o] \in {"pause", "resume"}
  /\ LET acked == isPausing[o] = (call[o] = "pause")
     IN  \/ /\ poll[o] = PAUSE_WAIT_STOP_TIME
            /\ PauseReturns(o, "timeout")
         \/ /\ poll[o] < PAUSE_WAIT_STOP_TIME
            /\ acked
            /\ PauseReturns(o, "acked")
         \/ /\ poll[o] < PAUSE_WAIT_STOP_TIME
            /\ ~acked
            /\ PollAgain(o)
            /\ UNCHANGED <<paused, resumed>>
  /\ UNCHANGED <<flags, pc, stopped, begun, overlap>>

Control(o) ==
  \/ CallStart(o)
  \/ CallStop(o)
  \/ PollStop(o)
  \/ CallPause(o)
  \/ CallResume(o)
  \/ PollPause(o)

-----------------------------------------------------------------------------
(* A worker thread.                                                        *)

ctlVars == <<call, poll, stopped, paused, resumed, overlap>>

BeginBody(t) ==
  /\ Decide(t, "body")
  /\ begun' = [begun EXCEPT ![t] =
                 IF isExit[Obj(t)] /\ ~isPause[Obj(t)] THEN @ + 1 ELSE @]
  /\ UNCHANGED ctlVars

(* Mutant: a loop body that repeats without looking at isExit.             *)
EndBodyNoTest(t) ==
  /\ pc[t] = "body"
  /\ GoTo(t, "decide")
  /\ UNCHANGED <<flags, begun, ctlVars>>

EndBody(t) ==
  /\ pc[t] = "body"
  /\ GoTo(t, "head")
  /\ UNCHANGED <<flags, begun, ctlVars>>

Worker(t) ==
  \/ Enter(t) /\ UNCHANGED <<begun, ctlVars>>
  \/ LoopHead(t) /\ UNCHANGED <<begun, ctlVars>>
  \/ BeginBody(t)
  \/ EndBody(t)
  \/ Leave(t) /\ UNCHANGED <<begun, ctlVars>>

Next ==
  \/ \E o \in Object : Control(o)
  \/ \E t \in Thread : Worker(t)

(* A runnable thread is eventually scheduled, a body eventually returns,   *)
(* and a call in progress goes on; nobody has to make a new call.          *)
Fairness ==
  /\ \A t \in Thread : WF_vars(Worker(t))
  /\ \A o \in Object : WF_vars(PollStop(o)) /\ WF_vars(PollPause(o))

Spec == Init /\ [][Next]_vars /\ Fairness

-----------------------------------------------------------------------------
(* Properties.                                                             *)

Label == {"none", "spawned", "head", "decide", "body", "leave"}

(* The four flags are booleans, every thread is at a known place, and the  *)
(* wait loops stay within their poll counts.                               *)
TypeOK ==
  /\ isExit \in [Object -> BOOLEAN]
  /\ isRunning \in [Object -> BOOLEAN]
  /\ isPause \in [Object -> BOOLEAN]
  /\ isPausing \in [Object -> BOOLEAN]
  /\ pc \in [Thread -> Label]
  /\ call \in [Object -> {"idle", "stop", "pause", "resume"}]
  /\ poll \in [Object -> 0 .. MAX_WAIT_STOP_TIME]
  /\ stopped \in [Object -> {"no", "success", "timeout"}]
  /\ paused \in [Object -> {"no", "acked", "timeout"}]
  /\ begun \in [Thread -> Nat]
  /\ resumed \in [Object -> {"acked", "timeout"}]
  /\ overlap \subseteq Object

InBody(o) == \E k \in Slot : pc[<<o, k>>] = "body"

InMain(t) == pc[t] \in {"head", "decide", "body", "leave"}

(* As long as Start() never found a thread of the object still alive,      *)
(* isRunning says exactly whether a thread is between the two stores of    *)
(* ThreadMain(): the flag Stop() waits for is neither late nor early.      *)
RunningAccurate ==
  \A o \in Object :
    o \notin overlap => (isRunning[o] <=> \E k \in Slot : InMain(<<o, k>>))

(* As long as no two threads of the object overlapped, a Stop() that       *)
(* returned because isRunning was false left no thread that runs a body or *)
(* will run one, not even a thread that had not reached ThreadMain() yet:  *)
(* what IPlayer::Close() relies on when it clears the queues next.         *)
StopSound ==
  \A o \in Object :
    (o \notin overlap /\ stopped[o] = "success") =>
      \A k \in Slot : pc[<<o, k>>] \notin {"decide", "body"}

(* After Stop() raised isExit a thread begins at most one more body: it    *)
(* may have passed the loop condition already.  This bounds the packets a  *)
(* stopped demuxer can still read.                                         *)
BodiesAfterStop == \A t \in Thread : isExit[Obj(t)] => begun[t] <= 1

(* A SetPause(true) that returned before its wait ran out left no body     *)
(* running, provided the SetPause(false) before it was acknowledged too:   *)
(* otherwise isPausing may still hold the answer to an earlier request.    *)
PauseSound ==
  \A o \in Object :
    (o \notin overlap /\ resumed[o] = "acked" /\ paused[o] = "acked") => ~InBody(o)

(* An object that stays stopped loses all its threads, paused ones too.    *)
WorkersQuiesce ==
  \A o \in Object : <>[](isExit[o]) => <>[](Live(o) = {})

AskedToRun(o) ==
  ~isExit[o] /\ Live(o) # {} /\ paused[o] = "no" /\ call[o] # "pause"

(* A pause never sticks: an object that was started, or whose last         *)
(* SetPause() asked it to resume, goes on beginning bodies.                *)
ResumeTakesEffect ==
  \A o \in Object : <>[]AskedToRun(o) => []<>InBody(o)

=============================================================================
