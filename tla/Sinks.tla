------------------------------- MODULE Sinks --------------------------------
(***************************************************************************)
(* The two ends of the player's pipeline under the player's calls: the     *)
(* video view, drawn by the video decoder and replaced when the surface    *)
(* is created again, and the resampler, fed by the audio decoder and       *)
(* opened again with every file.                                           *)
(*                                                                         *)
(* The calls come under the proxy's mutex, one at a time: InitView() from  *)
(* the activity (IPlayer.cpp:229), Open() and Start() (IPlayer.cpp:180 and *)
(* 203), of which the parts are here that the two ends see.  A decoder is  *)
(* its threads (module XThread): Stop() waits 200 ms for one that is       *)
(* inside a call and then goes on without it, and such a thread keeps      *)
(* decoding if Start() comes before it looks at isExit.                    *)
(***************************************************************************)
EXTENDS GLVideoView, FFResample

CONSTANTS
  MaxCalls    \* bound: calls of Open() and InitView()

(* The two decoders have their own threads.                                *)
ASSUME SinksAssumption ==
  /\ Renderer \cap Resampler = {}
  /\ MaxCalls \in Nat

VARIABLES
  call,      \* the call in progress: where it is, the window or file it is for
  calls,     \* how many calls were made
  isExit,    \* isExit[kind] of the two decoders
  alive,     \* the decoder threads that run
  file,      \* channels of the open file's audio (0: no file is open)
  met,       \* history: the threads whose call met an Open() or InitView()
  drawn,     \* history: who drew since the view was last closed
  settled    \* history: and closed, and given its window, with nobody drawing

control == <<call, calls, isExit, alive, file>>

vars == <<viewVars, resampleVars, control, met, drawn, settled>>

Ready == [pc |-> "ready", open |-> FALSE, win |-> None]

Init ==
  /\ ViewInit
  /\ ResampleInit
  /\ call = Ready
  /\ calls = 0
  /\ isExit = [video |-> FALSE, audio |-> FALSE]
  /\ alive = {}
  /\ file = 0
  /\ met = {}
  /\ drawn = {}
  /\ settled = TRUE

-----------------------------------------------------------------------------
Of(kind) == IF kind = "video" THEN Renderer ELSE Resampler

Inside(t) == IF t \in Renderer THEN ~At(t, "away") ELSE ~Stage(t, "away")

Busy == {t \in alive : Inside(t)}

Goes(label) == call' = [call EXCEPT !.pc = label]

(* The view is being closed, or waits for its window.                      *)
Closing == call.pc \in {"drop", "forget", "setRender"}

(* The resampler is being opened.                                          *)
Opening == call.pc \in {"openFile", "alloc", "initContext", "setChannels"}

(* What a step of the call adds to the histories.                          *)
Meets(threads) == met' = met \cup (Busy \cap threads)

-----------------------------------------------------------------------------
(* The decoder threads.                                                    *)

Decodes(t, kind) ==
  /\ t \in alive
  /\ ~isExit[kind]
  /\ file # 0

(* A decoded frame reaches the view.  A call begun while the view is being *)
(* closed has met the closing.                                             *)
Draw(t) ==
  /\ Decodes(t, "video")
  /\ Check(t)
  /\ met' = IF Closing THEN met \cup {t} ELSE met \ {t}
  /\ drawn' = drawn \cup {t}
  /\ UNCHANGED <<resampleVars, control, settled>>

RenderOn(t) ==
  /\ RenderStep(t)
  /\ UNCHANGED <<resampleVars, control, met, drawn, settled>>

(* A decoded frame reaches the resampler, with samples or without.         *)
Play(t) ==
  /\ Decodes(t, "audio")
  /\ \E samples \in {0, 1} : Offer(t, file, samples)
  /\ met' = IF Opening THEN met \cup {t} ELSE met \ {t}
  /\ UNCHANGED <<viewVars, control, drawn, settled>>

ResampleOn(t) ==
  /\ ResampleStep(t)
  /\ UNCHANGED <<viewVars, control, met, drawn, settled>>

(* Between two frames a thread sees isExit.                                *)
Leave(t, kind) ==
  /\ t \in alive \cap Of(kind)
  /\ ~Inside(t)
  /\ isExit[kind]
  /\ alive' = alive \ {t}
  /\ UNCHANGED <<viewVars, resampleVars, call, calls, isExit, file, met, drawn, settled>>

-----------------------------------------------------------------------------
(* The player's calls.                                                     *)

(* Mutant: the view takes the window without being closed.                 *)
InitViewKeepsTexture ==
  /\ call.pc = "ready" /\ calls < MaxCalls
  /\ calls' = calls + 1
  /\ \E w \in Window \cup {None} :
       call' = [pc |-> "setRender", open |-> FALSE, win |-> w]
  /\ UNCHANGED <<viewVars, resampleVars, isExit, alive, file, met, drawn, settled>>

(* InitView() on the window of a new surface.                              *)
InitView ==
  /\ call.pc = "ready" /\ calls < MaxCalls
  /\ calls' = calls + 1
  /\ \E w \in Window \cup {None} :
       call' = [pc |-> "drop", open |-> FALSE, win |-> w]
  /\ UNCHANGED <<viewVars, resampleVars, isExit, alive, file, met, drawn, settled>>

(* Open(): Close() first stops the decoders.                               *)
Open ==
  /\ call.pc = "ready" /\ calls < MaxCalls
  /\ calls' = calls + 1
  /\ call' = [pc |-> "stopVideo", open |-> TRUE, win |-> None]
  /\ isExit' = [video |-> TRUE, audio |-> FALSE]
  /\ UNCHANGED <<viewVars, resampleVars, alive, file, met, drawn, settled>>

(* Stop() of a decoder: its threads have left, or one is inside a call and *)
(* Stop() gives up on it.                                                  *)
Stopped(kind) == \A t \in alive \cap Of(kind) : Inside(t)

StopVideo ==
  /\ call.pc = "stopVideo"
  /\ Stopped("video")
  /\ isExit' = [isExit EXCEPT !.audio = TRUE]
  /\ Goes("stopAudio")
  /\ UNCHANGED <<viewVars, resampleVars, calls, alive, file, met, drawn, settled>>

StopAudio ==
  /\ call.pc = "stopAudio"
  /\ Stopped("audio")
  /\ Goes("drop")
  /\ UNCHANGED <<viewVars, resampleVars, calls, isExit, alive, file, met, drawn, settled>>

(* videoView->Close(), in two steps.                                       *)
CloseView ==
  /\ call.pc = "drop"
  /\ IF txt = None THEN UNCHANGED viewVars ELSE Drop
  /\ Goes("forget")
  /\ Meets(Renderer)
  /\ UNCHANGED <<resampleVars, calls, isExit, alive, file, drawn, settled>>

ViewClosed ==
  /\ call.pc = "forget"
  /\ ForgetTexture
  /\ UNCHANGED <<view, texture, egl, onThread, render, crashed>>
  /\ settled' = (Busy \cap Renderer = {})
  /\ drawn' = {}
  /\ met' = (met \ Renderer) \cup (Busy \cap Renderer)
  /\ IF call.open THEN Goes("openFile") ELSE Goes("setRender")
  /\ UNCHANGED <<resampleVars, calls, isExit, alive, file>>

(* The end of InitView().                                                  *)
ViewSet ==
  /\ call.pc = "setRender"
  /\ SetRender(call.win)
  /\ UNCHANGED <<txt, texture, egl, onThread, render, crashed>>
  /\ settled' = (settled /\ met \cap Renderer = {})
  /\ Meets(Renderer)
  /\ call' = Ready
  /\ UNCHANGED <<resampleVars, calls, isExit, alive, file, drawn>>

(* The old file is closed; the new one opens, and its decoders, or Open()  *)
(* returns.                                                                *)
OpenFile ==
  /\ call.pc = "openFile"
  /\ \/ file' \in Channels /\ Goes("alloc")
     \/ file' = 0 /\ call' = Ready
  /\ Meets(Resampler)
  /\ UNCHANGED <<viewVars, resampleVars, calls, isExit, alive, drawn, settled>>

(* resample->Open()                                                        *)
ResampleAlloc ==
  /\ call.pc = "alloc"
  /\ AllocContext
  /\ Goes("initContext")
  /\ Meets(Resampler)
  /\ UNCHANGED <<viewVars, calls, isExit, alive, file, drawn, settled>>

ResampleInitContext ==
  /\ call.pc = "initContext"
  /\ \/ InitContext(file) /\ Goes("setChannels")
     \/ UNCHANGED resampleVars /\ call' = Ready      \* swr_init() failed
  /\ Meets(Resampler)
  /\ UNCHANGED <<viewVars, calls, isExit, alive, file, drawn, settled>>

ResampleOpened ==
  /\ call.pc = "setChannels"
  /\ SetOutChannels(file)
  /\ call' = Ready
  /\ Meets(Resampler)
  /\ UNCHANGED <<viewVars, calls, isExit, alive, file, drawn, settled>>

(* Start(), which follows Open() whether or not that succeeded: a thread   *)
(* of each decoder, when there is room for another.                        *)
Spawned(kind) ==
  LET free == Of(kind) \ alive IN IF free = {} THEN {{}} ELSE {{t} : t \in free}

Start ==
  /\ call.pc = "ready"
  /\ isExit.video /\ isExit.audio
  /\ isExit' = [video |-> FALSE, audio |-> FALSE]
  /\ \E v \in Spawned("video"), a \in Spawned("audio") : alive' = alive \cup v \cup a
  /\ UNCHANGED <<viewVars, resampleVars, call, calls, file, met, drawn, settled>>

-----------------------------------------------------------------------------
CallerStep ==
  \/ StopVideo \/ StopAudio \/ CloseView \/ ViewClosed \/ ViewSet
  \/ OpenFile \/ ResampleAlloc \/ ResampleInitContext \/ ResampleOpened

ThreadStep(t) ==
  \/ t \in Renderer /\ (RenderOn(t) \/ Leave(t, "video"))
  \/ t \in Resampler /\ (ResampleOn(t) \/ Leave(t, "audio"))

Steps ==
  \/ InitView \/ Open \/ Start \/ CallerStep
  \/ \E t \in Renderer : Draw(t) \/ ThreadStep(t)
  \/ \E t \in Resampler : Play(t) \/ ThreadStep(t)

(* A crash ends the process; with no call left and no thread the activity  *)
(* is at rest.                                                             *)
AtRest ==
  /\ crashed # None \/ (call.pc = "ready" /\ calls = MaxCalls)
  /\ UNCHANGED vars

Next == (crashed = None /\ Steps) \/ AtRest

Spec == Init /\ [][Next]_vars

-----------------------------------------------------------------------------
(* A texture that is not there is nobody's; a pointer of Render() is set   *)
(* when it is used; a frame let in has samples, and room when converted.   *)
TypeOK ==
  /\ view \in Window \cup {None}
  /\ txt \in Texture \cup {None}
  /\ texture \in [Texture -> {NoTexture} \cup
       [live : {TRUE}, mux : Renderer \cup {None}, program : BOOLEAN]]
  /\ egl \in [display : BOOLEAN, surface : Window \cup {None}, context : Texture \cup {None}]
  /\ onThread \in [Renderer \cup {Caller} -> Texture \cup {None}]
  /\ render \in [Renderer ->
       [pc : {"away", "create", "init"}, tex : {None}, win : {None}]
         \cup [pc : {"draw"}, tex : Texture \cup {None}, win : Window \cup {None}]
         \cup [pc : {"initLock"}, tex : Texture, win : Window \cup {None}]
         \cup [pc : {"egl", "shader"}, tex : Texture, win : Window]
         \cup [pc : {"drawLock", "swap"}, tex : Texture, win : {None}]]
  /\ crashed \in Renderer \cup {None}      \* Close() never finds txt deleted
  /\ actx \in Channels \cup {Nobody, Uninitialised}
  /\ outChannels \in Channels \cup {2}
  /\ resampleMux \in Resampler \cup {Nobody}
  /\ resample \in [Resampler ->
       {NoFrame}
         \cup [pc : {"lock"}, channels : Channels, samples : {1}, room : {0}]
         \cup [pc : {"convert"}, channels : Channels, samples : {1}, room : Nat \ {0}]]
  /\ alive \subseteq Renderer \cup Resampler
  /\ met \subseteq Renderer \cup Resampler
  /\ file \in Channels \cup {0}

(* A texture disappears under a thread only when the view is closed while  *)
(* that thread is in Render(): a Render() that no Close() meets never uses *)
(* a texture that is deleted or missing, however many files and surfaces   *)
(* came before.                                                            *)
CrashOnlyWhenMet == crashed # None => crashed \in met

(* After the view was closed with nobody inside Render(), the one thread   *)
(* that draws is seen on the window the application set last, unless EGL   *)
(* or the shader failed: nothing of an earlier window, file or thread      *)
(* stays in force.                                                         *)
Undisturbed(t) == settled /\ drawn = {t} /\ t \notin met

SeenOnTheView ==
  [][\A t \in Renderer :
       (At(t, "swap") /\ At(t, "away")' /\ Undisturbed(t)
          /\ texture[render[t].tex].program) => SeenOn(t, view)]_vars

(* A conversion that no Open() met has room for all it writes and a plane  *)
(* for every channel it reads, also after files of other formats and       *)
(* after contexts that failed.                                             *)
ConversionFits ==
  \A t \in Resampler : Stage(t, "convert") /\ t \notin met => Fits(t)

(* Who holds the mutex of a texture or of the resampler is at a point of   *)
(* Init(), Draw() or Resample() that goes on by itself and unlocks it: no  *)
(* early return keeps a mutex, so neither Close() nor the next frame waits *)
(* for ever.  (FFResample.cpp:61 would keep it; the test at line 46 keeps  *)
(* the frames away that lead there.)                                       *)
HoldersLetGo ==
  /\ \A x \in Texture : texture[x].mux # None =>
       /\ render[texture[x].mux].tex = x
       /\ render[texture[x].mux].pc \in {"egl", "shader", "swap"}
  /\ resampleMux # Nobody => Stage(resampleMux, "convert")

=============================================================================
