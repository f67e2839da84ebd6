---------------------------- MODULE SendReceive -----------------------------
(***************************************************************************)
(* The decoding calls of an application (libavcodec/decode.c) on top of    *)
(* frame threading: avcodec_send_packet(), avcodec_receive_frame(),        *)
(* avcodec_flush_buffers(), avcodec_close().                               *)
(*                                                                         *)
(* Between the application and the threads are one packet slot (the packet *)
(* buffered in the "null" bitstream filter) and one frame slot             *)
(* (buffer_frame).  Both are fields of avci, which only the user's thread  *)
(* touches.  The application may make any call at any time.                *)
(***************************************************************************)
EXTENDS FrameThreads

CONSTANT
  MaxDrainErrors    \* nb_errors_max: 20 + thread_count in the source

ASSUME SendReceiveAssumption == MaxDrainErrors \in Nat /\ MaxDrainErrors >= ThreadCount

VARIABLES
  avci,      \* AVCodecInternal
  next,      \* the next packet of the application
  inside,    \* history: packets accepted and not yet answered
  reply      \* history: what the last call returned

apiVars == <<avci, next, inside, reply>>
vars == <<threadVars, apiVars>>

NewAvci == [draining |-> FALSE, done |-> FALSE, frame |-> None,
            bsf |-> None, eof |-> FALSE, errors |-> 0]

Init ==
  /\ ThreadsInit
  /\ avci = NewAvci
  /\ next = 1
  /\ inside = {}
  /\ reply = [call |-> "reset", ret |-> "ok", about |-> None]

Answer(call, ret, about) == reply' = [call |-> call, ret |-> ret, about |-> about]

Settle(p) == inside' = inside \ {p}

(* Everything of the threads but the user's own record.                    *)
othersOfThreads == <<codec, threads, fctx, hwaccelMutex, bufferMutex, asyncLock,
                     sleeping, progress, owner>>

Enter(pc, call) == user' = [Outside EXCEPT !.pc = pc, !.call = call]

-----------------------------------------------------------------------------
(* avcodec_send_packet()                                                   *)

SlotFree == avci.bsf = None

(* Draining is noticed here; before that the filter refuses a packet and   *)
(* takes another flush packet.                                             *)
SendTooLate ==
  /\ user.pc = "out" /\ (avci.draining \/ avci.eof)
  /\ \E ret \in IF avci.draining THEN {"eof"} ELSE {"invalid", "ok"} : Answer("send", ret, None)
  /\ UNCHANGED <<threadVars, avci, next, inside>>

SendRefused ==
  /\ user.pc = "out" /\ ~avci.draining /\ ~avci.eof /\ ~SlotFree
  /\ Answer("send", "again", None)
  /\ UNCHANGED <<threadVars, avci, next, inside>>

SendAccepted ==
  /\ user.pc = "out" /\ ~avci.draining /\ ~avci.eof /\ SlotFree
  /\ next \in Packet
  /\ avci' = [avci EXCEPT !.bsf = next]
  /\ inside' = inside \cup {next}
  /\ next' = next + 1
  /\ IF avci.frame = None
     THEN Enter("get", "send") /\ UNCHANGED reply
     ELSE Enter("sent", "send") /\ UNCHANGED reply
  /\ UNCHANGED othersOfThreads

(* The flush packet.  ff_bsf_get_packet_ref() looks at eof before it looks *)
(* at the slot, so a packet still there would be lost: the application is  *)
(* assumed to call receive until the slot is free.                         *)
SendNull ==
  /\ user.pc = "out" /\ ~avci.draining /\ ~avci.eof
  /\ SlotFree
  /\ avci' = [avci EXCEPT !.eof = TRUE]
  /\ Enter(IF avci.frame = None THEN "get" ELSE "sent", "send")
  /\ UNCHANGED <<othersOfThreads, next, inside, reply>>

SendReturns ==
  /\ user.pc = "sent"
  /\ Answer("send", "ok", None)
  /\ user' = Outside
  /\ UNCHANGED <<othersOfThreads, avci, next, inside>>

-----------------------------------------------------------------------------
(* avcodec_receive_frame()                                                 *)

ReceiveBuffered ==
  /\ user.pc = "out" /\ avci.frame # None
  /\ Answer("receive", "frame", avci.frame)
  /\ Settle(avci.frame)
  /\ avci' = [avci EXCEPT !.frame = None]
  /\ UNCHANGED <<threadVars, next>>

ReceiveDecodes ==
  /\ user.pc = "out" /\ avci.frame = None
  /\ Enter("get", "receive")
  /\ UNCHANGED <<othersOfThreads, apiVars>>

-----------------------------------------------------------------------------
(* decode_simple_receive_frame(), the loop both calls share, from          *)
(* ff_decode_get_packet() to the next turn.  What it returns other than a  *)
(* frame is an answer to receive and mostly hidden by send.                *)

Ends(ret, about) ==
  /\ Answer(user.call, IF user.call = "send" /\ ret # "error" THEN "ok" ELSE ret, about)
  /\ user' = Outside

GetPacket ==
  /\ user.pc = "get" /\ ~avci.draining /\ ~avci.eof /\ avci.bsf # None
  /\ avci' = [avci EXCEPT !.bsf = None]
  /\ user' = [user EXCEPT !.pc = "unlock", !.pkt = avci.bsf, !.got = None, !.err = FALSE]
  /\ UNCHANGED <<othersOfThreads, next, inside, reply>>

GetNothing ==
  /\ user.pc = "get" /\ ~avci.draining /\ ~avci.eof /\ avci.bsf = None
  /\ Ends("again", None)
  /\ UNCHANGED <<othersOfThreads, avci, next, inside>>

GetDrain ==
  /\ user.pc = "get" /\ (avci.draining \/ avci.eof) /\ ~avci.done
  /\ avci' = [avci EXCEPT !.draining = TRUE]
  /\ user' = [user EXCEPT !.pc = "unlock", !.pkt = Drain, !.got = None, !.err = FALSE]
  /\ UNCHANGED <<othersOfThreads, next, inside, reply>>

GetEnd ==
  /\ user.pc = "get" /\ avci.done
  /\ Ends("eof", None)
  /\ UNCHANGED <<othersOfThreads, avci, next, inside>>

InDecode == user.pc = "returned" /\ user.call \in {"send", "receive"}

GotFrame ==
  /\ InDecode /\ ~user.err /\ user.got # None
  /\ IF user.call = "send"
     THEN /\ avci' = [avci EXCEPT !.frame = user.got]
          /\ Ends("ok", None)
          /\ UNCHANGED inside
     ELSE /\ Ends("frame", user.got)
          /\ Settle(user.got)
          /\ UNCHANGED avci
  /\ UNCHANGED <<othersOfThreads, next>>

GotError ==
  /\ InDecode /\ user.err
  /\ avci' = IF avci.draining
             THEN [avci EXCEPT !.errors = @ + 1, !.done = avci.errors >= MaxDrainErrors]
             ELSE avci
  /\ Ends("error", user.got)
  /\ Settle(user.got)
  /\ UNCHANGED <<othersOfThreads, next>>

(* A call without a frame and without an error ends the draining.          *)
EmptyEndsDraining == avci.draining

GotNothing ==
  /\ InDecode /\ ~user.err /\ user.got = None
  /\ avci' = [avci EXCEPT !.done = EmptyEndsDraining]
  /\ user' = [user EXCEPT !.pc = "get"]
  /\ UNCHANGED <<othersOfThreads, next, inside, reply>>

-----------------------------------------------------------------------------
(* avcodec_flush_buffers(), avcodec_close() and the next avcodec_open2().  *)

Flush ==
  /\ user.pc = "out"
  /\ avci' = [NewAvci EXCEPT !.bsf = avci.bsf, !.eof = avci.eof]
  /\ Enter("unlock", "flush")
  /\ UNCHANGED <<othersOfThreads, next, inside, reply>>

FlushReturns ==
  /\ user.pc = "returned" /\ user.call = "flush"
  /\ FlushThreads
  /\ avci' = [avci EXCEPT !.bsf = None, !.eof = FALSE]
  /\ inside' = {}
  /\ Answer("reset", "ok", None)
  /\ user' = Outside
  /\ UNCHANGED <<codec, hwaccelMutex, bufferMutex, asyncLock, sleeping, progress, owner, next>>

Close ==
  /\ user.pc = "out"
  /\ Enter("unlock", "close")
  /\ UNCHANGED <<othersOfThreads, apiVars>>

CloseThreads ==
  /\ user.pc = "returned" /\ user.call = "close"
  /\ user' = [user EXCEPT !.pc = "kill", !.finished = 0]
  /\ UNCHANGED <<othersOfThreads, apiVars>>

(* The memory is freed; the same codec is opened again.                    *)
CloseAndOpen ==
  /\ user.pc = "joined"
  /\ threads' = [t \in Thread |-> NewThread]
  /\ fctx' = NewFctx
  /\ asyncLock' = User
  /\ progress' = {}
  /\ owner' = [f \in Packet |-> None]
  /\ user' = Outside
  /\ avci' = NewAvci
  /\ next' = 1
  /\ inside' = {}
  /\ Answer("reset", "ok", None)
  /\ UNCHANGED <<codec, hwaccelMutex, bufferMutex, sleeping>>

-----------------------------------------------------------------------------
Call ==
  \/ SendTooLate \/ SendRefused \/ SendAccepted \/ SendNull
  \/ ReceiveBuffered \/ ReceiveDecodes \/ Flush \/ Close

InsideCall ==
  \/ SendReturns \/ GetPacket \/ GetNothing \/ GetDrain \/ GetEnd
  \/ GotFrame \/ GotError \/ GotNothing \/ FlushReturns \/ CloseThreads \/ CloseAndOpen
  \/ (InThreads /\ UNCHANGED apiVars)

WorkerStep(t) == Worker(t) /\ UNCHANGED apiVars

Next == Call \/ InsideCall \/ \E t \in Thread : WorkerStep(t)

(* The system schedules every thread; nothing makes the application call.  *)
Spec ==
  /\ Init /\ [][Next]_vars
  /\ WF_vars(InsideCall)
  /\ \A t \in Thread : WF_vars(WorkerStep(t))

-----------------------------------------------------------------------------
WorkerLabel == {"idle", "begin", "setup", "format", "formatWait", "buffer", "bufferWait",
                "unlockBuffer", "predict", "finish", "publish", "decode", "cleanup", "exited"}

ContextRecord == [hwaccel : BOOLEAN, ref : Packet \cup {None},
                  held : {<<>>} \cup {<<p>> : p \in Packet}]

ThreadRecord ==
  [pc : WorkerLabel, ret : {"none", "begin", "unlockBuffer", "decode", "cleanup"},
   state : {"INPUT_READY", "SETTING_UP", "GET_BUFFER", "GET_FORMAT", "SETUP_FINISHED"},
   die : BOOLEAN, avpkt : Packet \cup {Drain, None}, frame : Packet \cup {None},
   result : {"ok", "error"}, released : 0 .. 1, needs : Packet \cup {None},
   avctx : ContextRecord]

UserRecord ==
  [pc : {"out", "sent", "get", "unlock", "submit", "waitPrev", "serve", "collect", "park",
         "relock", "returned", "kill", "joinThread", "joined"},
   call : {"none", "send", "receive", "flush", "close"},
   pkt : Packet \cup {Drain, None}, finished : Thread,
   got : Packet \cup {Drain, None}, err : BOOLEAN, holds : Thread \cup {None}]

AvciRecord == [draining : BOOLEAN, done : BOOLEAN, frame : Packet \cup {None},
               bsf : Packet \cup {None}, eof : BOOLEAN, errors : Nat]

(* Types of the state of the threads and of the calls.                     *)
TypeOK ==
  /\ codec \in Codecs
  /\ threads \in [Thread -> ThreadRecord]
  /\ fctx \in [prev : Thread \cup {None}, nextDecoding : 0 .. ThreadCount,
               nextFinished : Thread, delaying : BOOLEAN]
  /\ hwaccelMutex \in Thread \cup {None}
  /\ bufferMutex \in Thread \cup {None}
  /\ asyncLock \in Thread \cup {None, User}
  /\ sleeping \in [Thread \cup {User} -> Thread \cup {None}]
  /\ progress \subseteq Packet
  /\ owner \in [Packet -> Thread \cup {None}]
  /\ user \in UserRecord
  /\ avci \in AvciRecord
  /\ next \in 1 .. MaxPackets + 1

(* The assertions of the source: async_unlock() finds the lock set, a      *)
(* worker that begins does not serialize the hardware already, a decoder   *)
(* that asks for a buffer or a format has not finished its setup, and      *)
(* decode_receive_frame_internal() does not overwrite a frame.             *)
Assertions ==
  /\ user.pc = "unlock" => asyncLock = User
  /\ user.pc = "get" => avci.frame = None
  /\ \A t \in Thread :
       /\ threads[t].pc = "begin" => hwaccelMutex # t
       /\ threads[t].pc \in {"format", "buffer"} /\ (codec.updates \/ codec.ownBuffer) =>
            threads[t].state = "SETTING_UP"

(* What the application holds, or finds in buffer_frame at its next call,  *)
(* is decoded to the last row: no worker is still writing into it.         *)
FramesAreComplete ==
  /\ avci.frame # None => avci.frame \in progress
  /\ reply.ret = "frame" => reply.about \in progress

UsesHardware(t) == threads[t].pc = "decode" /\ threads[t].avctx.hwaccel

(* Threads that decode in hardware never do so at the same time            *)
(* (hwaccel_mutex), and hardware that is not safe to use asynchronously is *)
(* left alone while the application is outside the library (async_lock).   *)
HardwareIsSerial ==
  /\ \A t, u \in Thread : UsesHardware(t) /\ UsesHardware(u) => t = u
  /\ codec.hwaccel = "unsafe" /\ user.pc = "out" => \A t \in Thread : ~UsesHardware(t)

(* Decoding with threads is a queue: module DecoderQueue.                  *)
Queue == INSTANCE DecoderQueue WITH
  delay <- ThreadCount - 1 + codec.reorder,
  broken <- codec.broken,
  feeding <- ~avci.draining /\ ~avci.eof

DecodesAsQueue == Queue!Spec

(* Every call comes back, whatever the workers wait for.                   *)
CallsReturn == user.pc # "out" ~> user.pc = "out"

=============================================================================
