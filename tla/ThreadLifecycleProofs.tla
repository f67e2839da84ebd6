----------------------- MODULE ThreadLifecycleProofs ------------------------
(***************************************************************************)
(* Proofs about ThreadLifecycle, for any objects, any number of thread     *)
(* slots and any poll counts.  IInv strengthens the four invariants of the *)
(* runs with what each flag says about the threads that are alive.         *)
(***************************************************************************)
EXTENDS ThreadLifecycle, TLAPS

(* Without overlap an object has at most one live thread.                  *)
SingleThread ==
  \A o \in Object :
    o \notin overlap => \A j, k \in Slot : (j \in Live(o) /\ k \in Live(o)) => j = k

(* What the calls in progress, and the outcomes kept, say of the flags.    *)
CallFlags ==
  \A o \in Object :
    /\ (call[o] = "stop" \/ stopped[o] # "no") => isExit[o]
    /\ call[o] = "pause" => isPause[o]
    /\ call[o] = "resume" => ~isPause[o]
    /\ paused[o] = "acked" => isPausing[o] /\ isPause[o] /\ call[o] # "resume"

(* A thread past its test of isExit counts as a body begun.                *)
BodyBudget ==
  \A t \in Thread : isExit[Obj(t)] =>
    /\ begun[t] <= 1
    /\ pc[t] = "decide" => begun[t] = 0

(* Outside a SetPause(false) in progress, a true isPausing means that no   *)
(* body runs and that a thread about to decide will decide to sleep.       *)
PauseAnswered ==
  \A o \in Object :
    (o \notin overlap /\ resumed[o] = "acked" /\ isPausing[o] /\ call[o] # "resume") =>
      \A k \in Slot : /\ pc[<<o, k>>] # "body"
                      /\ pc[<<o, k>>] = "decide" => isPause[o]

IInv ==
  /\ TypeOK
  /\ SingleThread
  /\ RunningAccurate
  /\ CallFlags
  /\ StopSound
  /\ BodyBudget
  /\ PauseAnswered

-----------------------------------------------------------------------------
(* Every reachable state is well typed: the first conjunct of IInv.        *)
LEMMA TypeInit == Init => TypeOK
  BY PollAssumption DEF Init, XThreadInit, TypeOK, Label

LEMMA TypeStep == TypeOK /\ [Next]_vars => TypeOK'
<1> SUFFICES ASSUME TypeOK, [Next]_vars PROVE TypeOK'
  OBVIOUS
<1> USE PollAssumption DEF TypeOK, Label, flags, ctlVars
<1>1. ASSUME NEW o \in Object, CallStart(o) PROVE TypeOK'
  <2>1. PICK k \in Slot : pc' = [pc EXCEPT ![<<o, k>>] = "spawned"]
    BY <1>1 DEF CallStart, Start, Spawn, GoTo, Live
  <2> QED BY <1>1, <2>1 DEF CallStart, Start
<1>2. ASSUME NEW o \in Object, CallStop(o) PROVE TypeOK'
  BY <1>2 DEF CallStop, RaiseExit
<1>3. ASSUME NEW o \in Object, PollStop(o) PROVE TypeOK'
  <2>1. CASE StopReturns(o, "timeout") \/ StopReturns(o, "success")
    BY <1>3, <2>1 DEF PollStop, StopReturns, Return
  <2>2. CASE poll[o] < MAX_WAIT_STOP_TIME /\ PollAgain(o) /\ UNCHANGED stopped
    BY <1>3, <2>2 DEF PollStop, PollAgain
  <2> QED BY <1>3, <2>1, <2>2 DEF PollStop
<1>4. ASSUME NEW o \in Object, CallPause(o) PROVE TypeOK'
  BY <1>4 DEF CallPause, RequestPause
<1>5. ASSUME NEW o \in Object, CallResume(o) PROVE TypeOK'
  BY <1>5 DEF CallResume, RequestPause
<1>6. ASSUME NEW o \in Object, PollPause(o) PROVE TypeOK'
  <2>0. UNCHANGED <<flags, pc, stopped, begun, overlap>>
    BY <1>6 DEF PollPause
  <2>1. CASE PauseReturns(o, "acked") \/ PauseReturns(o, "timeout")
    <3>1. /\ call' \in [Object -> {"idle", "stop", "pause", "resume"}]
          /\ poll' \in [Object -> 0 .. MAX_WAIT_STOP_TIME]
      BY <2>1 DEF PauseReturns, Return
    <3>2. paused' \in [Object -> {"no", "acked", "timeout"}]
      BY <2>1 DEF PauseReturns
    <3>3. resumed' \in [Object -> {"acked", "timeout"}]
      BY <2>1 DEF PauseReturns
    <3> QED BY <2>0, <3>1, <3>2, <3>3
  <2>2. CASE /\ poll[o] < PAUSE_WAIT_STOP_TIME
             /\ PollAgain(o)
             /\ UNCHANGED <<paused, resumed>>
    BY <1>6, <2>2 DEF PollPause, PollAgain
  <2> QED BY <1>6, <2>1, <2>2 DEF PollPause
<1>7. ASSUME NEW t \in Thread, Worker(t) PROVE TypeOK'
  <2>1. CASE (Enter(t) \/ Leave(t)) /\ UNCHANGED <<begun, ctlVars>>
    BY <1>7, <2>1 DEF Enter, Leave, GoTo
  <2>2. CASE LoopHead(t) /\ UNCHANGED <<begun, ctlVars>>
    <3>1. Obj(t) \in Object
      BY DEF Thread, Obj
    <3>2. isPausing' \in [Object -> BOOLEAN]
      BY <2>2, <3>1 DEF LoopHead, Acknowledge
    <3>3. UNCHANGED <<isExit, isRunning, isPause>> /\ pc' \in [Thread -> Label]
      BY <2>2 DEF LoopHead, GoTo, Acknowledge
    <3> QED BY <2>2, <3>2, <3>3
  <2>3. CASE BeginBody(t)
    <3>1. UNCHANGED <<flags, ctlVars>>
      BY <2>3 DEF BeginBody, Decide
    <3>2. pc' = [pc EXCEPT ![t] = "head"] \/ pc' = [pc EXCEPT ![t] = "body"]
      BY <2>3 DEF BeginBody, Decide, GoTo
    <3>3. begun' = [begun EXCEPT ![t] = @ + 1] \/ begun' = begun
      BY <2>3 DEF BeginBody
    <3> QED BY <3>1, <3>2, <3>3
  <2>4. CASE EndBody(t)
    BY <2>4 DEF EndBody, GoTo
  <2> QED BY <1>7, <2>1, <2>2, <2>3, <2>4 DEF Worker
<1>8. CASE UNCHANGED vars
  BY <1>8 DEF vars
<1> QED BY <1>1, <1>2, <1>3, <1>4, <1>5, <1>6, <1>7, <1>8 DEF Next, Control

-----------------------------------------------------------------------------
LEMMA InvInit == Init => IInv
<1> SUFFICES ASSUME Init PROVE IInv
  OBVIOUS
<1>1. TypeOK
  BY TypeInit
<1>2. \A o \in Object, k \in Slot : pc[<<o, k>>] = "none"
  BY DEF Init, XThreadInit, Thread
<1> QED
  BY <1>1, <1>2 DEF Init, XThreadInit, IInv, SingleThread, RunningAccurate,
     Live, InMain, CallFlags, StopSound, BodyBudget, PauseAnswered, Thread, Obj

(* The calls of the control thread.                                        *)
LEMMA StepStart ==
  ASSUME IInv, TypeOK', NEW o \in Object, CallStart(o)
  PROVE  IInv'
<1>1. PICK k \in Slot \ Live(o) : pc' = [pc EXCEPT ![<<o, k>>] = "spawned"]
  BY DEF CallStart, Start, Spawn, GoTo, Live
<1>2. /\ isExit' = [isExit EXCEPT ![o] = FALSE]
      /\ isPause' = [isPause EXCEPT ![o] = FALSE]
      /\ stopped' = [stopped EXCEPT ![o] = "no"]
      /\ paused' = [paused EXCEPT ![o] = "no"]
      /\ resumed' = [resumed EXCEPT ![o] = "acked"]
      /\ overlap' = IF Live(o) = {} THEN overlap ELSE overlap \cup {o}
      /\ UNCHANGED <<isRunning, isPausing, call, poll, begun>>
      /\ call[o] = "idle"
  BY DEF CallStart, Start
<1>3. \A p \in Object, j \in Slot :
        pc'[<<p, j>>] = IF p = o /\ j = k THEN "spawned" ELSE pc[<<p, j>>]
  BY <1>1 DEF IInv, TypeOK, Thread
<1>4. /\ o \notin overlap' => o \notin overlap /\ \A j \in Slot : pc[<<o, j>>] = "none"
      /\ \A p \in Object \ {o} : p \in overlap' <=> p \in overlap
  BY <1>2 DEF Live
<1>5. SingleThread'
  BY <1>2, <1>3, <1>4 DEF IInv, TypeOK, SingleThread, Live
<1>6. RunningAccurate'
  <2> SUFFICES ASSUME NEW p \in Object, p \notin overlap'
               PROVE  isRunning'[p] <=> \E j \in Slot : InMain(<<p, j>>)'
    BY DEF RunningAccurate
  <2>1. \A j \in Slot : InMain(<<p, j>>)' <=> InMain(<<p, j>>)
    BY <1>3, <1>4 DEF InMain
  <2>2. p \notin overlap /\ isRunning'[p] = isRunning[p]
    BY <1>2, <1>4
  <2> QED BY <2>1, <2>2 DEF IInv, RunningAccurate
<1>7. CallFlags'
  BY <1>2 DEF IInv, TypeOK, CallFlags
<1>8. StopSound'
  BY <1>2, <1>3 DEF IInv, TypeOK, StopSound
<1>9. BodyBudget'
  BY <1>1, <1>2 DEF IInv, TypeOK, BodyBudget, Thread, Obj
<1>10. PauseAnswered'
  BY <1>2, <1>3, <1>4 DEF IInv, TypeOK, PauseAnswered
<1> QED BY <1>5, <1>6, <1>7, <1>8, <1>9, <1>10 DEF IInv

LEMMA StepStop ==
  ASSUME IInv, TypeOK', NEW o \in Object, CallStop(o)
  PROVE  IInv'
<1>1. /\ isExit' = [isExit EXCEPT ![o] = TRUE]
      /\ call' = [call EXCEPT ![o] = "stop"] /\ poll' = [poll EXCEPT ![o] = 0]
      /\ call[o] = "idle"
      /\ begun' = [t \in Thread |-> IF Obj(t) = o THEN 0 ELSE begun[t]]
      /\ UNCHANGED <<isRunning, isPause, isPausing, pc, stopped, paused, resumed, overlap>>
  BY DEF CallStop, RaiseExit
<1>2. SingleThread' /\ RunningAccurate' /\ StopSound'
  BY <1>1 DEF IInv, SingleThread, RunningAccurate, StopSound, Live, InMain
<1>3. CallFlags'
  BY <1>1 DEF IInv, TypeOK, CallFlags
<1>4. BodyBudget'
  <2> SUFFICES ASSUME NEW t \in Thread, isExit'[Obj(t)]
               PROVE  /\ begun'[t] <= 1
                      /\ pc'[t] = "decide" => begun'[t] = 0
    BY DEF BodyBudget
  <2>1. CASE Obj(t) = o
    BY <1>1, <2>1
  <2>2. CASE Obj(t) # o
    BY <1>1, <2>2 DEF IInv, TypeOK, BodyBudget
  <2> QED BY <2>1, <2>2
<1>5. PauseAnswered'
  BY <1>1 DEF IInv, TypeOK, PauseAnswered
<1> QED BY <1>2, <1>3, <1>4, <1>5 DEF IInv

LEMMA StepPollStop ==
  ASSUME IInv, TypeOK', NEW o \in Object, PollStop(o)
  PROVE  IInv'
<1>1. /\ call[o] = "stop"
      /\ UNCHANGED <<isExit, isRunning, isPause, isPausing, pc, paused, begun, resumed, overlap>>
  BY DEF PollStop, flags
<1>2. /\ call'[o] \in {"stop", "idle"}
      /\ \A p \in Object \ {o} : call'[p] = call[p] /\ stopped'[p] = stopped[p]
  BY <1>1 DEF PollStop, StopReturns, Return, PollAgain, IInv, TypeOK
<1>3. stopped'[o] = "success" => ~isRunning[o] \/ stopped[o] = "success"
  BY DEF PollStop, StopReturns, IInv, TypeOK
<1>4. SingleThread' /\ RunningAccurate' /\ BodyBudget'
  BY <1>1 DEF IInv, SingleThread, RunningAccurate, BodyBudget, Live, InMain
<1>5. CallFlags'
  BY <1>1, <1>2 DEF IInv, CallFlags
<1>6. StopSound'
  BY <1>1, <1>2, <1>3 DEF IInv, StopSound, RunningAccurate, InMain
<1>7. PauseAnswered'
  BY <1>1, <1>2 DEF IInv, PauseAnswered
<1> QED BY <1>4, <1>5, <1>6, <1>7 DEF IInv

LEMMA StepCallPause ==
  ASSUME IInv, TypeOK', NEW o \in Object, CallPause(o)
  PROVE  IInv'
<1>1. /\ isPause' = [isPause EXCEPT ![o] = TRUE]
      /\ call' = [call EXCEPT ![o] = "pause"] /\ poll' = [poll EXCEPT ![o] = 0]
      /\ call[o] = "idle"
      /\ UNCHANGED <<isExit, isRunning, isPausing, pc, stopped, paused, begun, resumed, overlap>>
  BY DEF CallPause, RequestPause
<1>2. SingleThread' /\ RunningAccurate' /\ StopSound' /\ BodyBudget'
  BY <1>1 DEF IInv, SingleThread, RunningAccurate, StopSound, BodyBudget, Live, InMain
<1>3. CallFlags' /\ PauseAnswered'
  BY <1>1 DEF IInv, TypeOK, CallFlags, PauseAnswered
<1> QED BY <1>2, <1>3 DEF IInv

LEMMA StepCallResume ==
  ASSUME IInv, TypeOK', NEW o \in Object, CallResume(o)
  PROVE  IInv'
<1>1. /\ isPause' = [isPause EXCEPT ![o] = FALSE]
      /\ call' = [call EXCEPT ![o] = "resume"] /\ poll' = [poll EXCEPT ![o] = 0]
      /\ paused' = [paused EXCEPT ![o] = "no"]
      /\ call[o] = "idle"
      /\ UNCHANGED <<isExit, isRunning, isPausing, pc, stopped, begun, resumed, overlap>>
  BY DEF CallResume, RequestPause
<1>2. SingleThread' /\ RunningAccurate' /\ StopSound' /\ BodyBudget'
  BY <1>1 DEF IInv, SingleThread, RunningAccurate, StopSound, BodyBudget, Live, InMain
<1>3. CallFlags' /\ PauseAnswered'
  BY <1>1 DEF IInv, TypeOK, CallFlags, PauseAnswered
<1> QED BY <1>2, <1>3 DEF IInv

LEMMA StepPollPause ==
  ASSUME IInv, TypeOK', NEW o \in Object, PollPause(o)
  PROVE  IInv'
<1>1. /\ call[o] \in {"pause", "resume"}
      /\ UNCHANGED <<isExit, isRunning, isPause, isPausing, pc, stopped, begun, overlap>>
  BY DEF PollPause, flags
<1>2. /\ call'[o] = "idle" \/ (call'[o] = call[o] /\ UNCHANGED <<paused, resumed>>)
      /\ \A p \in Object \ {o} :
           call'[p] = call[p] /\ paused'[p] = paused[p] /\ resumed'[p] = resumed[p]
  BY <1>1 DEF PollPause, PauseReturns, Return, PollAgain, IInv, TypeOK
<1>3. CASE call[o] = "pause"
  <2>1. resumed' = resumed
    BY <1>3 DEF PollPause, PauseReturns
  <2>2. paused'[o] = "acked" => isPausing[o] \/ paused[o] = "acked"
    BY <1>3 DEF PollPause, PauseReturns, IInv, TypeOK
  <2>3. CallFlags'
    BY <1>1, <1>2, <1>3, <2>2 DEF IInv, CallFlags
  <2>4. PauseAnswered'
    BY <1>1, <1>2, <1>3, <2>1 DEF IInv, PauseAnswered
  <2> QED BY <1>1, <2>3, <2>4
          DEF IInv, SingleThread, RunningAccurate, StopSound, BodyBudget, Live, InMain
<1>4. CASE call[o] = "resume"
  <2>1. paused' = paused
    BY <1>4 DEF PollPause, PauseReturns
  <2>2. call'[o] = "resume" \/ resumed'[o] = "timeout" \/ ~isPausing[o]
    BY <1>4 DEF PollPause, PauseReturns, PollAgain, IInv, TypeOK
  <2>3. CallFlags'
    BY <1>1, <1>2, <1>4, <2>1 DEF IInv, CallFlags
  <2>4. PauseAnswered'
    BY <1>1, <1>2, <1>4, <2>2 DEF IInv, PauseAnswered
  <2> QED BY <1>1, <2>3, <2>4
          DEF IInv, SingleThread, RunningAccurate, StopSound, BodyBudget, Live, InMain
<1> QED BY <1>1, <1>3, <1>4

(* A thread that moves inside Main() leaves the count of live threads and  *)
(* the meaning of isRunning alone.                                         *)
LEMMA MoveInMain ==
  ASSUME IInv, NEW o \in Object, NEW k \in Slot,
         InMain(<<o, k>>), InMain(<<o, k>>)',
         \A p \in Object, j \in Slot :
           ~(p = o /\ j = k) => pc'[<<p, j>>] = pc[<<p, j>>],
         UNCHANGED <<isRunning, overlap>>
  PROVE  SingleThread' /\ RunningAccurate'
<1>1. \A p \in Object, j \in Slot : InMain(<<p, j>>)' <=> InMain(<<p, j>>)
  BY DEF InMain
<1>2. \A p \in Object, j \in Slot : pc'[<<p, j>>] # "none" <=> pc[<<p, j>>] # "none"
  BY DEF InMain
<1>3. SingleThread'
  BY <1>2 DEF IInv, SingleThread, Live
<1>4. RunningAccurate'
  BY <1>1 DEF IInv, RunningAccurate
<1> QED BY <1>3, <1>4

(* The steps of a worker thread.                                           *)
LEMMA StepEnter ==
  ASSUME IInv, TypeOK', NEW t \in Thread, Enter(t), UNCHANGED <<begun, ctlVars>>
  PROVE  IInv'
<1>1. PICK o \in Object, k \in Slot : t = <<o, k>>
  BY DEF Thread
<1>2. /\ pc[t] = "spawned"
      /\ pc' = [pc EXCEPT ![t] = "head"]
      /\ isRunning' = [isRunning EXCEPT ![o] = TRUE]
      /\ UNCHANGED <<isExit, isPause, isPausing, begun, call, stopped, paused, resumed, overlap>>
  BY <1>1 DEF Enter, GoTo, Obj, ctlVars
<1>3. \A p \in Object, j \in Slot :
        pc'[<<p, j>>] = IF p = o /\ j = k THEN "head" ELSE pc[<<p, j>>]
  BY <1>1, <1>2 DEF IInv, TypeOK, Thread
<1>4. SingleThread'
  BY <1>1, <1>2, <1>3 DEF IInv, SingleThread, Live
<1>5. RunningAccurate'
  <2> SUFFICES ASSUME NEW p \in Object, p \notin overlap
               PROVE  isRunning'[p] <=> \E j \in Slot : InMain(<<p, j>>)'
    BY <1>2 DEF RunningAccurate
  <2>1. CASE p = o
    <3>1. isRunning'[o]
      BY <1>2 DEF IInv, TypeOK
    <3>2. InMain(<<o, k>>)'
      BY <1>3 DEF InMain
    <3> QED BY <2>1, <3>1, <3>2
  <2>2. CASE p # o
    <3>1. isRunning'[p] = isRunning[p]
      BY <1>2, <2>2 DEF IInv, TypeOK
    <3>2. \A j \in Slot : InMain(<<p, j>>)' <=> InMain(<<p, j>>)
      BY <1>3, <2>2 DEF InMain
    <3> QED BY <3>1, <3>2 DEF IInv, RunningAccurate
  <2> QED BY <2>1, <2>2
<1>6. CallFlags' /\ StopSound' /\ PauseAnswered'
  BY <1>2, <1>3 DEF IInv, CallFlags, StopSound, PauseAnswered
<1>7. BodyBudget'
  BY <1>2 DEF IInv, TypeOK, BodyBudget
<1> QED BY <1>4, <1>5, <1>6, <1>7 DEF IInv

LEMMA StepLoopHead ==
  ASSUME IInv, TypeOK', NEW t \in Thread, LoopHead(t), UNCHANGED <<begun, ctlVars>>
  PROVE  IInv'
<1>1. PICK o \in Object, k \in Slot : t = <<o, k>>
  BY DEF Thread
<1>2. /\ pc[t] = "head"
      /\ UNCHANGED <<isExit, isRunning, isPause, begun, call, stopped, paused, resumed, overlap>>
  BY DEF LoopHead, Acknowledge, flags, ctlVars
<1>3. CASE isExit[o] /\ pc' = [pc EXCEPT ![t] = "leave"] /\ UNCHANGED isPausing
  <2>1. \A p \in Object, j \in Slot :
          pc'[<<p, j>>] = IF p = o /\ j = k THEN "leave" ELSE pc[<<p, j>>]
    BY <1>1, <1>3 DEF IInv, TypeOK, Thread
  <2>2. SingleThread' /\ RunningAccurate'
    BY <1>1, <1>2, <2>1, MoveInMain DEF InMain
  <2>3. CallFlags' /\ StopSound' /\ PauseAnswered'
    BY <1>2, <1>3, <2>1 DEF IInv, CallFlags, StopSound, PauseAnswered
  <2>4. BodyBudget'
    BY <1>2, <1>3 DEF IInv, TypeOK, BodyBudget
  <2> QED BY <2>2, <2>3, <2>4 DEF IInv
<1>4. CASE /\ ~isExit[o]
           /\ pc' = [pc EXCEPT ![t] = "decide"]
           /\ isPausing' = [isPausing EXCEPT ![o] = isPause[o]]
  <2>1. \A p \in Object, j \in Slot :
          pc'[<<p, j>>] = IF p = o /\ j = k THEN "decide" ELSE pc[<<p, j>>]
    BY <1>1, <1>4 DEF IInv, TypeOK, Thread
  <2>2. SingleThread' /\ RunningAccurate'
    BY <1>1, <1>2, <2>1, MoveInMain DEF InMain
  <2>3. StopSound'
    BY <1>1, <1>2, <1>4, <2>1 DEF IInv, StopSound, CallFlags
  <2>4. isPausing'[o] = isPause[o] /\ \A p \in Object \ {o} : isPausing'[p] = isPausing[p]
    BY <1>4 DEF IInv, TypeOK
  <2>5. CallFlags'
    BY <1>2, <2>4 DEF IInv, CallFlags
  <2>6. BodyBudget'
    BY <1>1, <1>2, <1>4 DEF IInv, TypeOK, BodyBudget, Obj
  <2>7. PauseAnswered'
    BY <1>1, <1>2, <2>1, <2>4 DEF IInv, PauseAnswered, SingleThread, Live
  <2> QED BY <2>2, <2>3, <2>5, <2>6, <2>7 DEF IInv
<1> QED BY <1>1, <1>3, <1>4 DEF LoopHead, GoTo, Acknowledge, Obj, flags

LEMMA StepBeginBody ==
  ASSUME IInv, TypeOK', NEW t \in Thread, BeginBody(t)
  PROVE  IInv'
<1>1. PICK o \in Object, k \in Slot : t = <<o, k>>
  BY DEF Thread
<1>2. /\ pc[t] = "decide"
      /\ UNCHANGED <<isExit, isRunning, isPause, isPausing,
                     call, stopped, paused, resumed, overlap>>
  BY DEF BeginBody, Decide, flags, ctlVars
<1>3. \A p \in Object, j \in Slot :
        pc'[<<p, j>>] = IF p = o /\ j = k
                        THEN IF isPause[o] THEN "head" ELSE "body"
                        ELSE pc[<<p, j>>]
  BY <1>1 DEF BeginBody, Decide, GoTo, Obj, IInv, TypeOK, Thread
<1>4. SingleThread' /\ RunningAccurate'
  BY <1>1, <1>2, <1>3, MoveInMain DEF InMain
<1>5. CallFlags' /\ StopSound'
  BY <1>1, <1>2, <1>3 DEF IInv, CallFlags, StopSound
<1>6. BodyBudget'
  <2> SUFFICES ASSUME NEW u \in Thread, isExit'[Obj(u)]
               PROVE  /\ begun'[u] <= 1
                      /\ pc'[u] = "decide" => begun'[u] = 0
    BY DEF BodyBudget
  <2>1. CASE u = t
    <3>1. begun'[t] \in {begun[t], begun[t] + 1} /\ pc'[t] # "decide"
      BY DEF BeginBody, Decide, GoTo, IInv, TypeOK
    <3>2. begun[t] = 0
      BY <1>2, <2>1 DEF IInv, BodyBudget
    <3> QED BY <2>1, <3>1, <3>2
  <2>2. CASE u # t
    <3>1. begun'[u] = begun[u] /\ pc'[u] = pc[u]
      BY <2>2 DEF BeginBody, Decide, GoTo, IInv, TypeOK
    <3> QED BY <1>2, <3>1 DEF IInv, BodyBudget
  <2> QED BY <2>1, <2>2
<1>7. PauseAnswered'
  BY <1>1, <1>2, <1>3 DEF IInv, PauseAnswered
<1> QED BY <1>4, <1>5, <1>6, <1>7 DEF IInv

LEMMA StepEndBody ==
  ASSUME IInv, TypeOK', NEW t \in Thread, EndBody(t)
  PROVE  IInv'
<1>1. PICK o \in Object, k \in Slot : t = <<o, k>>
  BY DEF Thread
<1>2. /\ pc[t] = "body"
      /\ UNCHANGED <<isExit, isRunning, isPause, isPausing, begun,
                     call, stopped, paused, resumed, overlap>>
  BY DEF EndBody, flags, ctlVars
<1>3. \A p \in Object, j \in Slot :
        pc'[<<p, j>>] = IF p = o /\ j = k THEN "head" ELSE pc[<<p, j>>]
  BY <1>1 DEF EndBody, GoTo, IInv, TypeOK, Thread
<1>4. SingleThread' /\ RunningAccurate'
  BY <1>1, <1>2, <1>3, MoveInMain DEF InMain
<1>5. CallFlags' /\ StopSound' /\ PauseAnswered'
  BY <1>2, <1>3 DEF IInv, CallFlags, StopSound, PauseAnswered
<1>6. BodyBudget'
  BY <1>2 DEF IInv, TypeOK, BodyBudget, EndBody, GoTo
<1> QED BY <1>4, <1>5, <1>6 DEF IInv

LEMMA StepLeave ==
  ASSUME IInv, TypeOK', NEW t \in Thread, Leave(t), UNCHANGED <<begun, ctlVars>>
  PROVE  IInv'
<1>1. PICK o \in Object, k \in Slot : t = <<o, k>>
  BY DEF Thread
<1>2. /\ pc[t] = "leave"
      /\ pc' = [pc EXCEPT ![t] = "none"]
      /\ isRunning' = [isRunning EXCEPT ![o] = FALSE]
      /\ UNCHANGED <<isExit, isPause, isPausing, begun, call, stopped, paused, resumed, overlap>>
  BY <1>1 DEF Leave, GoTo, Obj, ctlVars
<1>3. \A p \in Object, j \in Slot :
        pc'[<<p, j>>] = IF p = o /\ j = k THEN "none" ELSE pc[<<p, j>>]
  BY <1>1, <1>2 DEF IInv, TypeOK, Thread
<1>4. SingleThread'
  BY <1>1, <1>2, <1>3 DEF IInv, SingleThread, Live
<1>5. RunningAccurate'
  <2> SUFFICES ASSUME NEW p \in Object, p \notin overlap
               PROVE  isRunning'[p] <=> \E j \in Slot : InMain(<<p, j>>)'
    BY <1>2 DEF RunningAccurate
  <2>1. CASE p = o
    <3>1. \A j \in Slot : j # k => pc[<<o, j>>] = "none"
      BY <1>1, <1>2, <2>1 DEF IInv, SingleThread, Live
    <3>2. \A j \in Slot : ~InMain(<<o, j>>)'
      BY <1>3, <3>1 DEF InMain
    <3>3. ~isRunning'[o]
      BY <1>2 DEF IInv, TypeOK
    <3> QED BY <2>1, <3>2, <3>3
  <2>2. CASE p # o
    <3>1. isRunning'[p] = isRunning[p]
      BY <1>2, <2>2 DEF IInv, TypeOK
    <3>2. \A j \in Slot : InMain(<<p, j>>)' <=> InMain(<<p, j>>)
      BY <1>3, <2>2 DEF InMain
    <3> QED BY <3>1, <3>2 DEF IInv, RunningAccurate
  <2> QED BY <2>1, <2>2
<1>6. CallFlags' /\ StopSound' /\ PauseAnswered'
  BY <1>2, <1>3 DEF IInv, CallFlags, StopSound, PauseAnswered
<1>7. BodyBudget'
  BY <1>2 DEF IInv, TypeOK, BodyBudget
<1> QED BY <1>4, <1>5, <1>6, <1>7 DEF IInv

-----------------------------------------------------------------------------
LEMMA InvStep == IInv /\ [Next]_vars => IInv'
<1> SUFFICES ASSUME IInv, [Next]_vars PROVE IInv'
  OBVIOUS
<1>1. TypeOK'
  BY TypeStep DEF IInv
<1>2. ASSUME NEW o \in Object, Control(o) PROVE IInv'
  BY <1>1, <1>2, StepStart, StepStop, StepPollStop, StepCallPause, StepCallResume,
     StepPollPause DEF Control
<1>3. ASSUME NEW t \in Thread, Worker(t) PROVE IInv'
  BY <1>1, <1>3, StepEnter, StepLoopHead, StepBeginBody, StepEndBody, StepLeave DEF Worker
<1>4. CASE UNCHANGED vars
  BY <1>4 DEF vars, IInv, TypeOK, SingleThread, RunningAccurate, CallFlags, StopSound,
     BodyBudget, PauseAnswered, Live, InMain
<1> QED BY <1>2, <1>3, <1>4 DEF Next

(* IInv holds in every reachable state.                                    *)
THEOREM Invariance == Spec => []IInv
  BY InvInit, InvStep, PTL DEF Spec

(* The flags and the program counters are well typed and the wait loops of *)
(* Stop() and SetPause() stay within their poll counts.                    *)
THEOREM TypeCorrect == Spec => []TypeOK
  BY Invariance, PTL DEF IInv

(* isRunning is accurate unless two threads of the object overlapped.      *)
THEOREM RunningIsAccurate == Spec => []RunningAccurate
  BY Invariance, PTL DEF IInv

(* A successful Stop() is final unless two threads overlapped.             *)
THEOREM StopIsSound == Spec => []StopSound
  BY Invariance, PTL DEF IInv

(* A stopped object begins at most one more body per thread.               *)
THEOREM StopIsPrompt == Spec => []BodiesAfterStop
<1>1. IInv => BodiesAfterStop
  BY DEF IInv, BodyBudget, BodiesAfterStop
<1> QED BY Invariance, <1>1, PTL

(* An acknowledged pause after an acknowledged resume stops the bodies.    *)
THEOREM PauseIsSound == Spec => []PauseSound
<1>1. IInv => PauseSound
  BY DEF IInv, CallFlags, PauseAnswered, PauseSound, InBody
<1> QED BY Invariance, <1>1, PTL

=============================================================================
