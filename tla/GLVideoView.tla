---------------------------- MODULE GLVideoView -----------------------------
(***************************************************************************)
(* The video view (GLVideoView.cpp) with its texture (XTexture.cpp), the   *)
(* EGL singleton (XEGL.cpp) and the shader (XShader.cpp).                  *)
(*                                                                         *)
(* Render() runs in the thread of a decoder, Close() and SetRender() in    *)
(* the thread that calls the player.  `txt` and `view` are plain members:  *)
(* Close() holds GLVideoView::mux, whose only user it is, and Render()     *)
(* holds nothing.  Each texture has a mutex, held through Init(), Draw()   *)
(* and Drop(), and Drop() deletes the texture.  XEGL's and XShader's own   *)
(* mutexes cover sections that wait for nothing, each one step here.       *)
(*                                                                         *)
(* An EGL context is current on the thread that made it so, and is known   *)
(* by the texture whose Init() created it: a texture makes at most one.    *)
(* Using a texture that is deleted, or none, ends the process.             *)
(***************************************************************************)
EXTENDS Naturals, FiniteSets

CONSTANTS
  Renderer,   \* the threads in which a video decoder can run
  Window,     \* native windows
  Caller,     \* the thread that calls the player
  None

ASSUME GLVideoViewAssumption ==
  /\ IsFiniteSet(Renderer)
  /\ Caller \notin Renderer
  /\ None \notin Renderer \cup Window \cup Nat \cup {Caller}

VARIABLES
  view,      \* GLVideoView::view
  txt,       \* GLVideoView::txt, also while what it points to is deleted
  texture,   \* XTexture objects: live, holder of mux, program of the shader
  egl,       \* XEGL: display, surface (a window), context (a texture)
  onThread,  \* onThread[t]: the context current on thread t
  render,    \* render[t]: where Render() of thread t is, texture and window
  crashed    \* the thread that used a texture that is not there

viewVars == <<view, txt, texture, egl, onThread, render, crashed>>

(* Enough for what is reachable: txt, what each renderer works on, what is *)
(* current somewhere, and a new one.                                       *)
Texture == 1 .. 2 * Cardinality(Renderer) + 3

NoTexture == [live |-> FALSE, mux |-> None, program |-> FALSE]

NoDisplay == [display |-> FALSE, surface |-> None, context |-> None]

Away == [pc |-> "away", tex |-> None, win |-> None]

ViewInit ==
  /\ view = None
  /\ txt = None
  /\ texture = [x \in Texture |-> NoTexture]
  /\ egl = NoDisplay
  /\ onThread = [t \in Renderer \cup {Caller} |-> None]
  /\ render = [t \in Renderer |-> Away]
  /\ crashed = None

-----------------------------------------------------------------------------
At(t, label) == render[t].pc = label

RenderTo(t, label) == render' = [render EXCEPT ![t].pc = label]

RenderReturns(t) == render' = [render EXCEPT ![t] = Away]

(* What a pointer leads to is not an object.                               *)
Gone(x) == x = None \/ ~texture[x].live

Crash(t) ==
  /\ crashed' = t
  /\ UNCHANGED <<view, txt, texture, egl, onThread, render>>

(* Memory for a new texture: what nothing leads to any more.               *)
Referenced ==
  {txt, egl.context} \cup {onThread[t] : t \in Renderer \cup {Caller}}
    \cup {render[t].tex : t \in Renderer}

Fresh == CHOOSE x \in Texture : x \notin Referenced

(* XEGL::Close() on thread t: releases what is current there and destroys  *)
(* surface and context.  A context current elsewhere stays with that       *)
(* thread, without a window.                                               *)
EglClosedOn(t) ==
  /\ egl' = NoDisplay
  /\ onThread' = IF egl.display THEN [onThread EXCEPT ![t] = None] ELSE onThread

-----------------------------------------------------------------------------
(* Render()                                                                *)

(* It begins when there is a window to draw on.                            *)
Check(t) ==
  /\ At(t, "away")
  /\ view # None
  /\ RenderTo(t, IF txt = None THEN "create" ELSE "draw")
  /\ UNCHANGED <<view, txt, texture, egl, onThread, crashed>>

(* XTexture::Create()                                                      *)
Create(t) ==
  /\ At(t, "create")
  /\ txt' = Fresh
  /\ texture' = [texture EXCEPT ![Fresh] = [NoTexture EXCEPT !.live = TRUE]]
  /\ RenderTo(t, "init")
  /\ UNCHANGED <<view, egl, onThread, crashed>>

(* txt->Init(view): both members are read again.                           *)
CallInit(t) ==
  /\ At(t, "init")
  /\ IF Gone(txt) THEN Crash(t)
     ELSE /\ render' = [render EXCEPT ![t] = [pc |-> "initLock", tex |-> txt, win |-> view]]
          /\ UNCHANGED <<view, txt, texture, egl, onThread, crashed>>

(* The mutex of the texture, then XEGL::Close(), and sh.Close(), which     *)
(* finds nothing of this shader.                                           *)
InitLocks(t) ==
  LET x == render[t].tex IN
  /\ At(t, "initLock")
  /\ IF Gone(x) THEN Crash(t)
     ELSE /\ texture[x].mux = None
          /\ IF render[t].win = None
             THEN /\ RenderTo(t, "draw")
                  /\ UNCHANGED texture
             ELSE /\ RenderTo(t, "egl")
                  /\ texture' = [texture EXCEPT ![x].mux = t]
          /\ EglClosedOn(t)
          /\ UNCHANGED <<view, txt, crashed>>

(* Mutant: the return on an error of EGL keeps the mutex.                  *)
EglFailsLocked(t) ==
  /\ At(t, "egl")
  /\ egl' \in {NoDisplay, [NoDisplay EXCEPT !.display = TRUE]}
  /\ onThread' = [onThread EXCEPT ![t] = None]
  /\ RenderTo(t, "draw")
  /\ UNCHANGED <<view, txt, texture, crashed>>

(* XEGL::Init() gives up, without a display or, which is all that matters  *)
(* of what it leaves then, with one.  Render() goes on.                    *)
EglFails(t) ==
  LET x == render[t].tex IN
  /\ At(t, "egl")
  /\ egl' \in {NoDisplay, [NoDisplay EXCEPT !.display = TRUE]}
  /\ onThread' = [onThread EXCEPT ![t] = None]
  /\ texture' = [texture EXCEPT ![x].mux = None]
  /\ RenderTo(t, "draw")
  /\ UNCHANGED <<view, txt, crashed>>

EglInit(t) ==
  /\ At(t, "egl")
  /\ egl' = [display |-> TRUE, surface |-> render[t].win, context |-> render[t].tex]
  /\ onThread' = [onThread EXCEPT ![t] = render[t].tex]
  /\ RenderTo(t, "shader")
  /\ UNCHANGED <<view, txt, texture, crashed>>

(* XShader::Init(), whose result nobody looks at.                          *)
ShaderInit(t) ==
  /\ At(t, "shader")
  /\ \E linked \in BOOLEAN :
       texture' = [texture EXCEPT ![render[t].tex] =
                     [live |-> TRUE, mux |-> None, program |-> linked]]
  /\ RenderTo(t, "draw")
  /\ UNCHANGED <<view, txt, egl, onThread, crashed>>

(* txt->Draw(): the member is read again.                                  *)
CallDraw(t) ==
  /\ At(t, "draw")
  /\ IF Gone(txt) THEN Crash(t)
     ELSE /\ render' = [render EXCEPT ![t] = [pc |-> "drawLock", tex |-> txt, win |-> None]]
          /\ UNCHANGED <<view, txt, texture, egl, onThread, crashed>>

(* The mutex, the textures of the frame and sh.Draw(), all on the context  *)
(* current on this thread.                                                 *)
DrawLocks(t) ==
  LET x == render[t].tex IN
  /\ At(t, "drawLock")
  /\ IF Gone(x) THEN Crash(t)
     ELSE /\ texture[x].mux = None
          /\ texture' = [texture EXCEPT ![x].mux = t]
          /\ RenderTo(t, "swap")
          /\ UNCHANGED <<view, txt, egl, onThread, crashed>>

(* XEGL::Draw() and the end of Render().                                   *)
Swap(t) ==
  /\ At(t, "swap")
  /\ texture' = [texture EXCEPT ![render[t].tex].mux = None]
  /\ RenderReturns(t)
  /\ UNCHANGED <<view, txt, egl, onThread, crashed>>

RenderStep(t) ==
  \/ Create(t) \/ CallInit(t) \/ InitLocks(t) \/ EglFails(t) \/ EglInit(t) \/ ShaderInit(t)
  \/ CallDraw(t) \/ DrawLocks(t) \/ Swap(t)

(* The frame of t is seen on window w: drawn by a program on the context   *)
(* whose surface is swapped.                                               *)
SeenOn(t, w) ==
  LET x == render[t].tex IN
  /\ texture[x].program
  /\ egl = [display |-> TRUE, surface |-> w, context |-> x]
  /\ onThread[t] = x

-----------------------------------------------------------------------------
(* Close(), in the thread of the caller.                                   *)

(* txt->Drop() as far as the deletion: the mutex, XEGL::Close(), and       *)
(* sh.Close() on a thread where no context is current.                     *)
Drop ==
  /\ txt # None
  /\ IF Gone(txt)
     THEN Crash(Caller)
     ELSE /\ texture[txt].mux = None
          /\ texture' = [texture EXCEPT ![txt] = NoTexture]
          /\ EglClosedOn(Caller)
          /\ UNCHANGED <<view, txt, render, crashed>>

(* Mutant: the pointer to the deleted texture stays.                       *)
KeepPointer == UNCHANGED txt

(* txt = 0                                                                 *)
ForgetTexture == txt' = None

SetRender(w) == view' = w

=============================================================================
