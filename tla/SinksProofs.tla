---------------------------- MODULE SinksProofs -----------------------------
(***************************************************************************)
(* Proofs about Sinks, for any number of decoder threads and windows, any  *)
(* numbers of channels and any number of calls.                            *)
(*                                                                         *)
(* First the inductive invariant.  A thread in `met` may find anything; of *)
(* the others IInv says what each place of Render() and Resample() relies  *)
(* on.                                                                     *)
(***************************************************************************)
EXTENDS Sinks, FiniteSetTheorems, TLAPS

Labels == {"ready", "stopVideo", "stopAudio", "drop", "forget", "setRender",
           "openFile", "alloc", "initContext", "setChannels"}

ControlOK ==
  /\ call \in [pc : Labels, open : BOOLEAN, win : Window \cup {None}]
  /\ isExit \in [video : BOOLEAN, audio : BOOLEAN]
  /\ drawn \subseteq Renderer
  /\ settled \in BOOLEAN

(* Who is in Render() or Resample() has not left.                          *)
InsideAlive ==
  /\ \A t \in Renderer : ~At(t, "away") => t \in alive
  /\ \A t \in Resampler : ~Stage(t, "away") => t \in alive

(* The places between the lock and the unlock, and no others.              *)
Locked == {"egl", "shader", "swap"}

TextureLocks ==
  \A x \in Texture, t \in Renderer :
    texture[x].mux = t <=> render[t].tex = x /\ render[t].pc \in Locked

(* `txt` leads to a deleted texture only between the two steps of Close(). *)
PointerOK == txt # None /\ ~texture[txt].live => call.pc = "forget"

(* What Render() relies on where no Close() has met it.                    *)
Relies(t) ==
  /\ call.pc \in {"forget", "setRender"} => At(t, "away")
  /\ render[t].pc \in {"init", "initLock", "egl", "shader", "draw"} => txt # None
  /\ render[t].pc \in {"initLock", "drawLock"} => texture[render[t].tex].live

RenderInv == \A t \in Renderer \ met : Relies(t)

(* Until the new context is there everything inside has met the opening.   *)
Reopening == {"alloc", "initContext", "setChannels"}

(* What Resample() relies on where no Open() has met it.                   *)
ReliesOn(t) ==
  /\ call.pc \notin Reopening
  /\ file # 0
  /\ resample[t].channels = file
  /\ Stage(t, "convert") => actx # Nobody /\ resample[t].room = outChannels

ResampleInv ==
  /\ \A t \in Resampler \ met : ~Stage(t, "away") => ReliesOn(t)
  /\ call.pc \in Reopening => file # 0
  /\ call.pc = "initContext" => actx = Uninitialised
  /\ call.pc = "setChannels" => actx = file
  /\ call.pc \notin Reopening /\ file # 0 /\ actx # Uninitialised =>
       actx = file /\ outChannels = file
  /\ resampleMux # Nobody => Stage(resampleMux, "convert")

(* A frame drawn now is seen.                                              *)
Shows(t) ==
  texture[txt].program =>
    egl = [display |-> TRUE, surface |-> view, context |-> txt] /\ onThread[t] = txt

(* Render() of the only thread that draws on the view as it was set up.    *)
DrawsAlone(t) ==
  ~At(t, "create") =>
    /\ txt # None
    /\ Shows(t)
    /\ render[t].pc \in {"initLock", "egl", "shader", "drawLock", "swap"} => render[t].tex = txt
    /\ render[t].pc \in {"init", "initLock", "egl", "shader"} => ~texture[txt].program
    /\ render[t].pc \in {"initLock", "egl"} => render[t].win = view
    /\ At(t, "shader") =>
         /\ egl = [display |-> TRUE, surface |-> view, context |-> txt]
         /\ onThread[t] = txt

SettledInv ==
  /\ call.pc = "setRender" => drawn \subseteq met
  /\ settled =>
       /\ \A t \in Renderer : ~At(t, "away") => t \in drawn
       /\ drawn = {} => txt = None
       /\ ~Closing => met \cap Renderer = {}
       /\ \A t \in Renderer \ met : drawn = {t} => DrawsAlone(t)

IInv ==
  /\ TypeOK
  /\ ControlOK
  /\ InsideAlive
  /\ TextureLocks
  /\ PointerOK
  /\ RenderInv
  /\ ResampleInv
  /\ SettledInv
  /\ CrashOnlyWhenMet

(* The places of Render().                                                 *)
RenderRecord ==
  [pc : {"away", "create", "init"}, tex : {None}, win : {None}]
    \cup [pc : {"draw"}, tex : Texture \cup {None}, win : Window \cup {None}]
    \cup [pc : {"initLock"}, tex : Texture, win : Window \cup {None}]
    \cup [pc : {"egl", "shader"}, tex : Texture, win : Window]
    \cup [pc : {"drawLock", "swap"}, tex : Texture, win : {None}]

TextureRecord == {NoTexture} \cup [live : {TRUE}, mux : Renderer \cup {None}, program : BOOLEAN]

EglRecord == [display : BOOLEAN, surface : Window \cup {None}, context : Texture \cup {None}]

(* The two halves of the types.                                            *)
ViewTypes ==
  /\ view \in Window \cup {None}
  /\ txt \in Texture \cup {None}
  /\ texture \in [Texture -> TextureRecord]
  /\ egl \in EglRecord
  /\ onThread \in [Renderer \cup {Caller} -> Texture \cup {None}]
  /\ render \in [Renderer -> RenderRecord]
  /\ crashed \in Renderer \cup {None}

ResampleRecord ==
  {NoFrame}
    \cup [pc : {"lock"}, channels : Channels, samples : {1}, room : {0}]
    \cup [pc : {"convert"}, channels : Channels, samples : {1}, room : Nat \ {0}]

ResampleTypes ==
  /\ actx \in Channels \cup {Nobody, Uninitialised}
  /\ outChannels \in Channels \cup {2}
  /\ resampleMux \in Resampler \cup {Nobody}
  /\ resample \in [Resampler -> ResampleRecord]

CallTypes ==
  /\ alive \subseteq Renderer \cup Resampler
  /\ met \subseteq Renderer \cup Resampler
  /\ file \in Channels \cup {0}
  /\ ControlOK

(* The types, said of the view, of the resampler and of the player's       *)
(* calls.                                                                  *)
LEMMA Types == TypeOK /\ ControlOK <=> ViewTypes /\ ResampleTypes /\ CallTypes
  BY DEF TypeOK, ViewTypes, ResampleTypes, CallTypes, RenderRecord, TextureRecord,
     EglRecord, ResampleRecord

(* The parts of the invariant, to be cited.                                *)
LEMMA InvParts ==
  IInv <=> /\ ViewTypes /\ ResampleTypes /\ CallTypes
           /\ InsideAlive /\ TextureLocks /\ PointerOK /\ RenderInv
           /\ ResampleInv /\ SettledInv /\ CrashOnlyWhenMet
  BY Types DEF IInv

(* The same of the next state.                                             *)
LEMMA NextInvParts ==
  ASSUME ViewTypes', ResampleTypes', CallTypes',
         InsideAlive', TextureLocks', PointerOK', RenderInv',
         ResampleInv', SettledInv', CrashOnlyWhenMet'
  PROVE  IInv'
<1>1. TypeOK' /\ ControlOK'
  BY DEF TypeOK, ViewTypes, ResampleTypes, CallTypes, RenderRecord, TextureRecord,
     EglRecord, ResampleRecord
<1> QED BY <1>1 DEF IInv

(* None is not an object.                                                  *)
LEMMA NoneIsNone ==
  /\ None \notin Texture /\ None \notin Renderer /\ None \notin Window
  /\ Caller \notin Renderer
  /\ \A t \in Renderer : t \notin Resampler
  BY GLVideoViewAssumption, SinksAssumption DEF Texture

-----------------------------------------------------------------------------
(* There is room for a new texture.                                        *)
LEMMA FreshIsThere ==
  ASSUME ViewTypes, NEW t \in Renderer, At(t, "create")
  PROVE  Fresh \in Texture /\ Fresh \notin Referenced
<1> DEFINE n == Cardinality(Renderer)
           A == Renderer \cup {Caller}
           C == {onThread[u] : u \in A}
           D == {render[u].tex : u \in Renderer}
           E == {txt, egl.context}
<1>1. IsFiniteSet(Renderer) /\ n \in Nat
  BY GLVideoViewAssumption, FS_CardinalityType
<1>2. IsFiniteSet(A) /\ Cardinality(A) = n + 1
  BY <1>1, FS_AddElement, NoneIsNone
<1>3. IsFiniteSet(C) /\ Cardinality(C) <= n + 1
  <2>1. [u \in A |-> onThread[u]] \in Surjection(A, C)
    BY DEF Surjection
  <2> HIDE DEF A, C
  <2> QED BY <1>2, <2>1, FS_Surjection
<1>4. IsFiniteSet(D) /\ Cardinality(D) <= n
  <2>1. [u \in Renderer |-> render[u].tex] \in Surjection(Renderer, D)
    BY DEF Surjection
  <2> HIDE DEF D
  <2> QED BY <1>1, <2>1, FS_Surjection
<1>5. IsFiniteSet(E) /\ Cardinality(E) <= 2
  <2>1. IsFiniteSet({txt}) /\ Cardinality({txt}) = 1
    BY FS_Singleton
  <2>2. IsFiniteSet({txt} \cup {egl.context}) /\ Cardinality({txt} \cup {egl.context}) <= 2
    BY <2>1, FS_AddElement
  <2>3. E = {txt} \cup {egl.context}
    OBVIOUS
  <2> QED BY <2>2, <2>3
<1>6. IsFiniteSet(E \cup C) /\ Cardinality(E \cup C) <= n + 3
  <2> HIDE DEF C, E
  <2>1. IsFiniteSet(E \cap C) /\ Cardinality(E \cap C) \in Nat
    BY <1>5, FS_Intersection, FS_CardinalityType
  <2>2. Cardinality(E) \in Nat /\ Cardinality(C) \in Nat
    BY <1>3, <1>5, FS_CardinalityType
  <2>3. /\ IsFiniteSet(E \cup C)
        /\ Cardinality(E \cup C) = Cardinality(E) + Cardinality(C) - Cardinality(E \cap C)
    BY <1>3, <1>5, FS_Union
  <2> HIDE DEF n
  <2> QED BY <1>1, <1>3, <1>5, <2>1, <2>2, <2>3
<1>7. IsFiniteSet(Referenced) /\ Cardinality(Referenced) <= 2 * n + 3
  <2>1. Referenced = (E \cup C) \cup D
    BY DEF Referenced
  <2> HIDE DEF C, D, E
  <2>2. IsFiniteSet((E \cup C) \cap D) /\ Cardinality((E \cup C) \cap D) \in Nat
    BY <1>6, FS_Intersection, FS_CardinalityType
  <2>3. Cardinality(E \cup C) \in Nat /\ Cardinality(D) \in Nat
    BY <1>4, <1>6, FS_CardinalityType
  <2>4. /\ IsFiniteSet((E \cup C) \cup D)
        /\ Cardinality((E \cup C) \cup D) =
             Cardinality(E \cup C) + Cardinality(D) - Cardinality((E \cup C) \cap D)
    BY <1>4, <1>6, FS_Union
  <2> HIDE DEF n
  <2> QED BY <1>1, <1>4, <1>6, <2>1, <2>2, <2>3, <2>4
<1>8. None \in Referenced
  BY DEF ViewTypes, RenderRecord, At, Referenced
<1>9. Cardinality(Referenced \ {None}) < 2 * n + 3
  <2>1. Cardinality(Referenced \ {None}) = Cardinality(Referenced) - 1
    BY <1>7, <1>8, FS_RemoveElement
  <2>2. Cardinality(Referenced) \in Nat
    BY <1>7, FS_CardinalityType
  <2> QED BY <1>1, <1>7, <2>1, <2>2
<1>10. IsFiniteSet(Texture) /\ Cardinality(Texture) = 2 * n + 3
  BY SMTT(40), <1>1, FS_Interval DEF Texture
<1>11. ~(Texture \subseteq Referenced)
  <2> SUFFICES ASSUME Texture \subseteq Referenced PROVE FALSE
    OBVIOUS
  <2>1. Texture \subseteq Referenced \ {None}
    BY NoneIsNone
  <2>2. IsFiniteSet(Referenced \ {None})
    BY <1>7, FS_Subset
  <2>3. Cardinality(Texture) <= Cardinality(Referenced \ {None})
    BY <2>1, <2>2, FS_Subset
  <2>4. Cardinality(Referenced \ {None}) \in Nat
    BY <2>2, FS_CardinalityType
  <2> QED BY <1>1, <1>9, <1>10, <2>3, <2>4
<1> QED BY <1>11 DEF Fresh

(* Of a texture just made.                                                 *)
LEMMA FreshIsNew ==
  ASSUME ViewTypes, NEW t \in Renderer, At(t, "create")
  PROVE  /\ Fresh \in Texture /\ Fresh # None
         /\ Fresh # txt /\ egl.context # Fresh
         /\ \A u \in Renderer : render[u].tex # Fresh /\ onThread[u] # Fresh
  BY FreshIsThere, NoneIsNone DEF Referenced

-----------------------------------------------------------------------------
(* What a place of Render() says of its texture and window.                *)
LEMMA Places ==
  ASSUME ViewTypes, NEW t \in Renderer
  PROVE  /\ render[t].pc \in {"away", "create", "init", "draw", "initLock", "egl", "shader",
                              "drawLock", "swap"}
         /\ render[t].tex \in Texture \cup {None}
         /\ render[t].win \in Window \cup {None}
         /\ render[t].pc \in {"away", "create", "init"} => render[t].tex = None
         /\ render[t].pc \in {"initLock", "egl", "shader", "drawLock", "swap"} =>
              render[t].tex \in Texture
         /\ render[t].pc \in {"egl", "shader"} => render[t].win \in Window
  BY DEF ViewTypes, RenderRecord

(* The moves of Render() lead from place to place.                         *)
LEMMA Moves ==
  ASSUME ViewTypes, NEW t \in Renderer, NEW label,
         \/ label \in {"create", "draw"} /\ At(t, "away")
         \/ label = "init" /\ At(t, "create")
         \/ label = "egl" /\ At(t, "initLock") /\ render[t].win # None
         \/ label = "shader" /\ At(t, "egl")
         \/ label = "swap" /\ At(t, "drawLock")
         \/ label = "draw",
         RenderTo(t, label)
  PROVE  /\ render' \in [Renderer -> RenderRecord]
         /\ render'[t].pc = label
         /\ render'[t].tex = render[t].tex /\ render'[t].win = render[t].win
         /\ \A u \in Renderer : u # t => render'[u] = render[u]
<1> DEFINE r == [render[t] EXCEPT !.pc = label]
<1>1. render' = [render EXCEPT ![t] = r]
  BY DEF RenderTo
<1>2. render[t] \in RenderRecord /\ render \in [Renderer -> RenderRecord]
  BY DEF ViewTypes
<1>3. /\ r.pc = label /\ r.tex = render[t].tex /\ r.win = render[t].win
      /\ r = [pc |-> label, tex |-> render[t].tex, win |-> render[t].win]
  BY <1>2 DEF RenderRecord
<1>4. r \in RenderRecord
  <2>1. CASE label = "draw"
    <3>1. r \in [pc : {"draw"}, tex : Texture \cup {None}, win : Window \cup {None}]
      BY <1>3, <2>1, Places
    <3> QED BY <3>1 DEF RenderRecord
  <2>2. CASE label = "create" /\ At(t, "away")
    <3>1. render[t].tex \in {None} /\ render[t].win \in {None}
      BY <1>2, <2>2 DEF RenderRecord, At
    <3> QED BY <1>3, <2>2, <3>1 DEF RenderRecord
  <2>3. CASE label = "init" /\ At(t, "create")
    <3>1. render[t].tex \in {None} /\ render[t].win \in {None}
      BY <1>2, <2>3 DEF RenderRecord, At
    <3> QED BY <1>3, <2>3, <3>1 DEF RenderRecord
  <2>4. CASE label = "egl" /\ At(t, "initLock") /\ render[t].win # None
    <3>1. render[t].tex \in Texture /\ render[t].win \in Window
      BY <2>4, Places DEF At
    <3> QED BY <1>3, <2>4, <3>1 DEF RenderRecord
  <2>5. CASE label = "shader" /\ At(t, "egl")
    <3>1. render[t].tex \in Texture /\ render[t].win \in Window
      BY <2>5, Places DEF At
    <3> QED BY <1>3, <2>5, <3>1 DEF RenderRecord
  <2>6. CASE label = "swap" /\ At(t, "drawLock")
    <3>1. render[t].tex \in Texture /\ render[t].win \in {None}
      BY <1>2, <2>6 DEF RenderRecord, At
    <3> QED BY <1>3, <2>6, <3>1 DEF RenderRecord
  <2> QED BY <2>1, <2>2, <2>3, <2>4, <2>5, <2>6
<1> HIDE DEF r
<1> QED BY <1>1, <1>2, <1>3, <1>4

(* The part of the player's calls and of the resampler stays as it is      *)
(* under a step that leaves it alone.                                      *)
LEMMA ResamplerKept ==
  ASSUME ResampleTypes, ResampleInv, UNCHANGED <<resampleVars, file>>,
         UNCHANGED call \/ (call.pc \notin Reopening /\ call'.pc \notin Reopening),
         \A t \in Resampler : t \in met => t \in met'
  PROVE  ResampleTypes' /\ ResampleInv'
<1>1. ResampleTypes'
  BY DEF ResampleTypes, resampleVars
<1>2. ASSUME NEW t \in Resampler \ met', ~Stage(t, "away")' PROVE ReliesOn(t)'
  <2>1. t \in Resampler \ met /\ ~Stage(t, "away")
    BY <1>2 DEF resampleVars, Stage
  <2>2. ReliesOn(t)
    BY <2>1 DEF ResampleInv
  <2> QED BY <2>2 DEF ReliesOn, resampleVars, Stage
<1>3. /\ (call.pc \in Reopening => file # 0)'
      /\ (call.pc = "initContext" => actx = Uninitialised)'
      /\ (call.pc = "setChannels" => actx = file)'
      /\ (call.pc \notin Reopening /\ file # 0 /\ actx # Uninitialised =>
            actx = file /\ outChannels = file)'
  BY DEF ResampleInv, resampleVars, Reopening, Uninitialised
<1>4. (resampleMux # Nobody => Stage(resampleMux, "convert"))'
  BY DEF ResampleInv, resampleVars, Stage
<1> QED BY <1>1, <1>2, <1>3, <1>4 DEF ResampleInv

(* What is left to show of a step of Render(): it touches nothing of the   *)
(* others and deletes nothing.                                             *)
RenderChange(t) ==
  /\ ~At(t, "away")
  /\ UNCHANGED <<view, resampleVars, control, met, drawn, settled>>
  /\ \A u \in Renderer : u # t => render'[u] = render[u]
  /\ \A x \in Texture : texture[x].live => texture'[x].live
  /\ \/ txt' = txt
     \/ txt' \in Texture /\ texture'[txt'].live
  /\ crashed' = crashed \/ (crashed' = t /\ t \in met)

(* A step of one renderer: what it has to show for the invariant to hold   *)
(* after it.                                                               *)
LEMMA RendererKeeps ==
  ASSUME IInv, NEW t \in Renderer, RenderChange(t), ViewTypes', TextureLocks',
         t \notin met /\ Relies(t) => Relies(t)',
         settled /\ drawn = {t} /\ t \notin met /\ DrawsAlone(t) => DrawsAlone(t)'
  PROVE  IInv'
<1>0. /\ ViewTypes /\ ResampleTypes /\ CallTypes
      /\ InsideAlive /\ TextureLocks /\ PointerOK /\ RenderInv
      /\ ResampleInv /\ SettledInv /\ CrashOnlyWhenMet
  BY InvParts
<1>1. ResampleTypes' /\ ResampleInv'
  BY <1>0, ResamplerKept DEF RenderChange, control
<1>2. CallTypes'
  BY <1>0 DEF RenderChange, control, CallTypes, ControlOK
<1>3. InsideAlive'
  BY <1>0 DEF RenderChange, control, InsideAlive, resampleVars, At, Stage
<1>4. PointerOK'
  BY <1>0, NoneIsNone DEF RenderChange, control, PointerOK, ViewTypes
<1>5. RenderInv'
  <2> SUFFICES ASSUME NEW u \in Renderer \ met' PROVE Relies(u)'
    BY DEF RenderInv
  <2>1. Relies(u) /\ u \notin met
    BY <1>0 DEF RenderInv, RenderChange
  <2>2. CASE u = t
    BY <2>1, <2>2
  <2>3. CASE u # t
    <3>1. render'[u] = render[u] /\ UNCHANGED call
      BY <2>3 DEF RenderChange, control
    <3>2. txt # None => txt' # None
      BY NoneIsNone DEF RenderChange
    <3>3. render[u].pc \in {"initLock", "drawLock"} =>
            render[u].tex \in Texture /\ texture'[render[u].tex].live
      BY <1>0, <2>1, Places DEF Relies, RenderChange
    <3> QED BY <2>1, <3>1, <3>2, <3>3 DEF Relies, At
  <2> QED BY <2>2, <2>3
<1>6. SettledInv'
  <2> USE DEF RenderChange, control
  <2>1. (call.pc = "setRender" => drawn \subseteq met)'
    BY <1>0 DEF SettledInv
  <2>2. ASSUME settled' PROVE settled /\ t \in drawn
    BY <1>0, <2>2 DEF SettledInv, At
  <2>3. settled' => (~Closing => met \cap Renderer = {})'
    BY <1>0 DEF SettledInv, Closing
  <2>4. settled' => \A u \in Renderer : ~At(u, "away")' => u \in drawn'
    BY <1>0, <2>2 DEF SettledInv, At
  <2>5. ASSUME settled', NEW u \in Renderer \ met', drawn' = {u} PROVE DrawsAlone(u)'
    BY <1>0, <2>2, <2>5 DEF SettledInv
  <2> QED BY <2>1, <2>2, <2>3, <2>4, <2>5 DEF SettledInv
<1>7. CrashOnlyWhenMet'
  BY <1>0, NoneIsNone DEF CrashOnlyWhenMet, RenderChange
<1> QED BY <1>1, <1>2, <1>3, <1>4, <1>5, <1>6, <1>7, NextInvParts

-----------------------------------------------------------------------------
(* The steps of Render().                                                  *)

(* Render() leaves the calls and the resampler alone.                      *)
LEMMA RenderAlone ==
  ASSUME NEW t \in Renderer, RenderOn(t)
  PROVE  UNCHANGED <<resampleVars, control, met, drawn, settled>>
  BY DEF RenderOn

(* The thread that uses what is not there has met a Close().               *)
LEMMA StepCrash ==
  ASSUME IInv, NEW t \in Renderer, UNCHANGED <<resampleVars, control, met, drawn, settled>>,
         Crash(t),
         \/ render[t].pc \in {"init", "draw"} /\ Gone(txt)
         \/ render[t].pc \in {"initLock", "drawLock"} /\ Gone(render[t].tex)
  PROVE  IInv'
<1>0. /\ ViewTypes /\ TextureLocks /\ PointerOK /\ RenderInv
  BY InvParts
<1>1. UNCHANGED <<view, txt, texture, egl, onThread, render>> /\ crashed' = t
  BY DEF Crash
<1>2. t \in met
  <2> SUFFICES ASSUME t \notin met PROVE FALSE
    OBVIOUS
  <2>1. Relies(t)
    BY <1>0 DEF RenderInv
  <2> QED BY <1>0, <2>1, NoneIsNone, Places DEF Relies, Gone, PointerOK, At
<1>3. RenderChange(t)
  BY <1>1, <1>2 DEF RenderChange, At
<1>4. ViewTypes'
  BY <1>0, <1>1 DEF ViewTypes
<1>5. TextureLocks'
  BY <1>0, <1>1 DEF TextureLocks
<1>6. DrawsAlone(t) => DrawsAlone(t)'
  BY <1>1 DEF DrawsAlone, Shows, At
<1> QED BY <1>2, <1>3, <1>4, <1>5, <1>6, RendererKeeps

(* Render(): XTexture::Create().                                           *)
LEMMA StepCreate ==
  ASSUME IInv, NEW t \in Renderer, RenderOn(t), Create(t)
  PROVE  IInv'
<1>0. ViewTypes /\ TextureLocks /\ RenderInv
  BY InvParts
<1>1. /\ At(t, "create") /\ RenderTo(t, "init")
      /\ UNCHANGED <<view, egl, onThread, crashed>>
  BY DEF Create
<1>2. PICK x \in Texture :
        /\ x # None /\ x # txt /\ egl.context # x
        /\ \A u \in Renderer : render[u].tex # x /\ onThread[u] # x
        /\ txt' = x
        /\ texture' = [texture EXCEPT ![x] = [NoTexture EXCEPT !.live = TRUE]]
  BY <1>0, <1>1, FreshIsNew DEF Create
<1>3. /\ render' \in [Renderer -> RenderRecord]
      /\ render'[t].pc = "init" /\ render'[t].tex = render[t].tex
      /\ \A u \in Renderer : u # t => render'[u] = render[u]
  BY <1>0, <1>1, Moves
<1>4. /\ texture'[x] = [live |-> TRUE, mux |-> None, program |-> FALSE]
      /\ \A y \in Texture : y # x => texture'[y] = texture[y]
  BY <1>0, <1>2 DEF ViewTypes, NoTexture
<1>5. ViewTypes'
  BY <1>0, <1>1, <1>2, <1>3 DEF ViewTypes, TextureRecord, NoTexture
<1>6. TextureLocks'
  BY <1>0, <1>1, <1>2, <1>3, <1>4, NoneIsNone DEF TextureLocks, Locked, At
<1>7. RenderChange(t)
  BY <1>1, <1>2, <1>3, <1>4, RenderAlone DEF RenderChange, At
<1>8. Relies(t) => Relies(t)'
  BY <1>1, <1>2, <1>3, RenderAlone DEF Relies, At, control
<1>9. DrawsAlone(t)'
  BY <1>2, <1>3, <1>4 DEF DrawsAlone, Shows, At
<1> QED BY <1>5, <1>6, <1>7, <1>8, <1>9, RendererKeeps

(* Render(): the call of txt->Init().                                      *)
LEMMA StepCallInit ==
  ASSUME IInv, NEW t \in Renderer, RenderOn(t), CallInit(t)
  PROVE  IInv'
<1>0. ViewTypes /\ TextureLocks /\ RenderInv
  BY InvParts
<1>1. At(t, "init")
  BY DEF CallInit
<1>2. CASE Gone(txt)
  BY <1>1, <1>2, RenderAlone, StepCrash DEF CallInit, At
<1>3. CASE ~Gone(txt)
  <2>1. /\ render' = [render EXCEPT ![t] = [pc |-> "initLock", tex |-> txt, win |-> view]]
        /\ UNCHANGED <<view, txt, texture, egl, onThread, crashed>>
    BY <1>3 DEF CallInit
  <2>2. txt \in Texture /\ texture[txt].live /\ view \in Window \cup {None}
    BY <1>0, <1>3 DEF Gone, ViewTypes
  <2>3. /\ render'[t] = [pc |-> "initLock", tex |-> txt, win |-> view]
        /\ \A u \in Renderer : u # t => render'[u] = render[u]
    BY <1>0, <2>1 DEF ViewTypes
  <2>4. ViewTypes'
    <3>1. [pc |-> "initLock", tex |-> txt, win |-> view] \in RenderRecord
      BY <2>2 DEF RenderRecord
    <3> QED BY <1>0, <2>1, <3>1 DEF ViewTypes
  <2>5. TextureLocks'
    BY <1>0, <1>1, <2>1, <2>3 DEF TextureLocks, Locked, At
  <2>6. RenderChange(t)
    BY <1>1, <2>1, <2>3, RenderAlone DEF RenderChange, At
  <2>7. Relies(t) => Relies(t)'
    BY <1>1, <2>1, <2>2, <2>3, RenderAlone DEF Relies, At, control
  <2>8. DrawsAlone(t) => DrawsAlone(t)'
    BY <1>1, <2>1, <2>3 DEF DrawsAlone, Shows, At
  <2> QED BY <2>4, <2>5, <2>6, <2>7, <2>8, RendererKeeps
<1> QED BY <1>2, <1>3

(* What a texture that is there looks like.                                *)
LEMMA LiveRecord ==
  ASSUME NEW r \in TextureRecord
  PROVE  /\ r.live \/ r.mux # None =>
              r \in [live : {TRUE}, mux : Renderer \cup {None}, program : BOOLEAN]
         /\ r \in [live : {TRUE}, mux : Renderer \cup {None}, program : BOOLEAN] => r.live
<1>1. ~NoTexture.live /\ NoTexture.mux = None
  BY DEF NoTexture
<1>2. r = NoTexture \/ r \in [live : {TRUE}, mux : Renderer \cup {None}, program : BOOLEAN]
  BY DEF TextureRecord
<1>3. r \in [live : {TRUE}, mux : Renderer \cup {None}, program : BOOLEAN] => r.live
  OBVIOUS
<1> QED BY <1>1, <1>2, <1>3

(* A texture that was not deleted.                                         *)
LEMMA ALiveRecord ==
  ASSUME NEW m \in Renderer \cup {None}, NEW b \in BOOLEAN
  PROVE  [live |-> TRUE, mux |-> m, program |-> b] \in TextureRecord
<1>1. [live |-> TRUE, mux |-> m, program |-> b] \in
        [live : {TRUE}, mux : Renderer \cup {None}, program : BOOLEAN]
  OBVIOUS
<1> QED BY <1>1 DEF TextureRecord

(* A texture that is there and whose mutex passes from hand to hand.       *)
LEMMA Relocked ==
  ASSUME ViewTypes, NEW x \in Texture, texture[x].live, NEW m \in Renderer \cup {None},
         texture' = [texture EXCEPT ![x].mux = m]
  PROVE  /\ texture' \in [Texture -> TextureRecord]
         /\ texture'[x].live /\ texture'[x].mux = m
         /\ texture'[x].program = texture[x].program
         /\ \A y \in Texture : y # x => texture'[y] = texture[y]
<1>1. texture[x] \in TextureRecord /\ texture \in [Texture -> TextureRecord]
  BY DEF ViewTypes
<1>2. texture[x] \in [live : {TRUE}, mux : Renderer \cup {None}, program : BOOLEAN]
  BY <1>1, LiveRecord
<1>3. texture'[x] = [texture[x] EXCEPT !.mux = m]
  BY <1>1
<1>4. texture'[x] = [live |-> TRUE, mux |-> m, program |-> texture[x].program]
  BY ZenonT(40), <1>2, <1>3
<1>5. PICK b \in BOOLEAN : texture[x].program = b
  BY <1>2
<1>6. texture'[x] \in TextureRecord
  BY <1>4, <1>5, ALiveRecord
<1> QED BY <1>1, <1>4, <1>6

(* What is locked is there.                                                *)
LEMMA LockedIsLive ==
  ASSUME ViewTypes, TextureLocks, NEW t \in Renderer, render[t].pc \in Locked
  PROVE  /\ render[t].tex \in Texture
         /\ texture[render[t].tex].live /\ texture[render[t].tex].mux = t
<1>1. render[t].tex \in Texture
  BY Places DEF Locked
<1>2. texture[render[t].tex].mux = t
  BY <1>1 DEF TextureLocks
<1>3. texture[render[t].tex] \in TextureRecord
  BY <1>1 DEF ViewTypes
<1> QED BY <1>1, <1>2, <1>3, NoneIsNone, LiveRecord

(* A step of one thread that locks or unlocks the texture it works on.     *)
LEMMA OneLocks ==
  ASSUME ViewTypes, TextureLocks, NEW t \in Renderer, NEW x \in Texture,
         render[t].tex = x, texture[x].mux \in {None, t},
         \/ render'[t].pc \in Locked /\ render'[t].tex = x /\ texture'[x].mux = t
         \/ render'[t].pc \notin Locked /\ texture'[x].mux = None,
         \A u \in Renderer : u # t => render'[u] = render[u],
         \A y \in Texture : y # x => texture'[y] = texture[y]
  PROVE  TextureLocks'
<1> SUFFICES ASSUME NEW y \in Texture, NEW u \in Renderer
             PROVE  texture'[y].mux = u <=> render'[u].tex = y /\ render'[u].pc \in Locked
  BY DEF TextureLocks
<1>1. CASE u = t
  BY <1>1, NoneIsNone DEF TextureLocks, Locked
<1>2. CASE u # t
  BY <1>2, NoneIsNone DEF TextureLocks
<1> QED BY <1>1, <1>2

(* XTexture::Init() takes its mutex and closes the surface that was there. *)
LEMMA StepInitLocks ==
  ASSUME IInv, NEW t \in Renderer, RenderOn(t), InitLocks(t)
  PROVE  IInv'
<1>0. ViewTypes /\ TextureLocks /\ RenderInv
  BY InvParts
<1>1. At(t, "initLock")
  BY DEF InitLocks
<1>2. CASE Gone(render[t].tex)
  BY <1>1, <1>2, RenderAlone, StepCrash DEF InitLocks, At
<1>3. CASE ~Gone(render[t].tex)
  <2>1. PICK x \in Texture : x = render[t].tex /\ texture[x].live
    BY <1>0, <1>3 , Places DEF Gone
  <2>2. /\ texture[x].mux = None
        /\ \/ /\ render[t].win = None /\ RenderTo(t, "draw") /\ UNCHANGED texture
           \/ /\ render[t].win # None /\ RenderTo(t, "egl")
              /\ texture' = [texture EXCEPT ![x].mux = t]
        /\ EglClosedOn(t)
        /\ UNCHANGED <<view, txt, crashed>>
    BY <1>3, <2>1 DEF InitLocks
  <2>3. /\ render' \in [Renderer -> RenderRecord]
        /\ render'[t].pc \in {"draw", "egl"}
        /\ render'[t].tex = render[t].tex /\ render'[t].win = render[t].win
        /\ \A u \in Renderer : u # t => render'[u] = render[u]
    BY <1>0, <1>1, <2>2, Moves
  <2>4. \/ /\ render'[t].pc = "draw" /\ UNCHANGED texture
        \/ /\ render'[t].pc = "egl"
           /\ texture' = [texture EXCEPT ![x].mux = t]
    BY <1>0, <1>1, <2>2, Moves
  <2>5. /\ texture' \in [Texture -> TextureRecord]
        /\ texture'[x].live /\ texture'[x].program = texture[x].program
        /\ render'[t].pc = "egl" => texture'[x].mux = t
        /\ render'[t].pc = "draw" => texture'[x].mux = None
        /\ \A y \in Texture : y # x => texture'[y] = texture[y]
    <3>1. CASE render'[t].pc = "draw"
      BY <1>0, <2>1, <2>2, <2>4, <3>1 DEF ViewTypes
    <3>2. CASE render'[t].pc = "egl"
      BY <1>0, <2>1, <2>4, <3>2, Relocked
    <3> QED BY <2>3, <3>1, <3>2
  <2>6. /\ egl' = NoDisplay
        /\ onThread' \in [Renderer \cup {Caller} -> Texture \cup {None}]
    BY <1>0, <2>2 DEF ViewTypes, EglClosedOn
  <2>7. ViewTypes'
    BY <1>0, <2>2, <2>3, <2>5, <2>6 DEF ViewTypes, NoDisplay, EglRecord
  <2>8. TextureLocks'
    BY <1>0, <1>1, <2>1, <2>2, <2>3, <2>5, OneLocks DEF Locked, At
  <2>9. RenderChange(t)
    BY <1>1, <2>1, <2>2, <2>3, <2>5, RenderAlone DEF RenderChange, At
  <2>10. DrawsAlone(t) => DrawsAlone(t)'
    BY <1>1, <2>1, <2>2, <2>3, <2>5 DEF DrawsAlone, Shows, At
  <2>11. Relies(t) => Relies(t)'
    BY <1>1, <2>2, <2>3, RenderAlone DEF Relies, At, control
  <2> QED BY <2>7, <2>8, <2>9, <2>10, <2>11, RendererKeeps
<1> QED BY <1>2, <1>3

(* XEGL::Init() fails.                                                     *)
LEMMA StepEglFails ==
  ASSUME IInv, NEW t \in Renderer, RenderOn(t), EglFails(t)
  PROVE  IInv'
<1>0. ViewTypes /\ TextureLocks /\ RenderInv
  BY InvParts
<1>1. At(t, "egl") /\ RenderTo(t, "draw") /\ UNCHANGED <<view, txt, crashed>>
  BY DEF EglFails
<1>2. PICK x \in Texture : x = render[t].tex /\ texture[x].live /\ texture[x].mux = t
  BY <1>0, <1>1, LockedIsLive DEF Locked, At
<1>3. texture' = [texture EXCEPT ![x].mux = None]
  BY <1>2 DEF EglFails
<1>4. /\ texture' \in [Texture -> TextureRecord]
      /\ texture'[x].live /\ texture'[x].mux = None
      /\ texture'[x].program = texture[x].program
      /\ \A y \in Texture : y # x => texture'[y] = texture[y]
  BY <1>0, <1>2, <1>3, Relocked
<1>5. /\ render' \in [Renderer -> RenderRecord]
      /\ render'[t].pc = "draw" /\ render'[t].tex = render[t].tex
      /\ \A u \in Renderer : u # t => render'[u] = render[u]
  BY <1>0, <1>1, Moves
<1>6. ViewTypes'
  <2>1. egl' \in EglRecord
    <3>1. NoDisplay \in EglRecord
      BY DEF NoDisplay, EglRecord
    <3> QED BY <3>1 DEF EglFails, EglRecord
  <2>2. onThread' \in [Renderer \cup {Caller} -> Texture \cup {None}]
    BY <1>0 DEF EglFails, ViewTypes
  <2> QED BY <1>0, <1>1, <1>4, <1>5, <2>1, <2>2 DEF ViewTypes
<1>7. TextureLocks'
  BY <1>0, <1>1, <1>2, <1>4, <1>5, OneLocks DEF Locked, At
<1>8. RenderChange(t)
  BY <1>1, <1>2, <1>4, <1>5, RenderAlone DEF RenderChange, At
<1>9. DrawsAlone(t) => DrawsAlone(t)'
  BY <1>1, <1>2, <1>4, <1>5 DEF DrawsAlone, Shows, At
<1>10. Relies(t) => Relies(t)'
  BY <1>1, <1>5, RenderAlone DEF Relies, At, control
<1> QED BY <1>6, <1>7, <1>8, <1>9, <1>10, RendererKeeps

(* XEGL::Init() makes the surface current on this thread.                  *)
LEMMA StepEglInit ==
  ASSUME IInv, NEW t \in Renderer, RenderOn(t), EglInit(t)
  PROVE  IInv'
<1>0. ViewTypes /\ TextureLocks /\ RenderInv
  BY InvParts
<1>1. /\ At(t, "egl") /\ RenderTo(t, "shader")
      /\ UNCHANGED <<view, txt, texture, crashed>>
  BY DEF EglInit
<1>2. PICK x \in Texture, w \in Window : x = render[t].tex /\ w = render[t].win
  BY <1>0, <1>1, Places DEF At
<1>3. /\ egl' = [display |-> TRUE, surface |-> w, context |-> x]
      /\ onThread' = [onThread EXCEPT ![t] = x]
  BY <1>2 DEF EglInit
<1>4. onThread'[t] = x
  BY <1>0, <1>3 DEF ViewTypes
<1>5. /\ render' \in [Renderer -> RenderRecord]
      /\ render'[t].pc = "shader"
      /\ render'[t].tex = render[t].tex /\ render'[t].win = render[t].win
      /\ \A u \in Renderer : u # t => render'[u] = render[u]
  BY <1>0, <1>1, Moves
<1>6. ViewTypes'
  <2>1. egl' \in EglRecord
    BY <1>3 DEF EglRecord
  <2>2. onThread' \in [Renderer \cup {Caller} -> Texture \cup {None}]
    BY <1>0, <1>3 DEF ViewTypes
  <2> QED BY <1>0, <1>1, <1>5, <2>1, <2>2 DEF ViewTypes
<1>7. TextureLocks'
  BY <1>0, <1>1, <1>5 DEF TextureLocks, Locked, At
<1>8. RenderChange(t)
  BY <1>1, <1>5, RenderAlone DEF RenderChange, At
<1>9. DrawsAlone(t) => DrawsAlone(t)'
  BY <1>1, <1>2, <1>3, <1>4, <1>5 DEF DrawsAlone, Shows, At
<1>10. Relies(t) => Relies(t)'
  BY <1>1, <1>5, RenderAlone DEF Relies, At, control
<1> QED BY <1>6, <1>7, <1>8, <1>9, <1>10, RendererKeeps

(* XShader::Init() compiles the program, and the mutex is released.        *)
LEMMA StepShaderInit ==
  ASSUME IInv, NEW t \in Renderer, RenderOn(t), ShaderInit(t)
  PROVE  IInv'
<1>0. ViewTypes /\ TextureLocks /\ RenderInv
  BY InvParts
<1>1. /\ At(t, "shader") /\ RenderTo(t, "draw")
      /\ UNCHANGED <<view, txt, egl, onThread, crashed>>
  BY DEF ShaderInit
<1>2. PICK x \in Texture : x = render[t].tex /\ texture[x].live /\ texture[x].mux = t
  BY <1>0, <1>1, LockedIsLive DEF Locked, At
<1>3. PICK linked \in BOOLEAN :
        texture' = [texture EXCEPT ![x] = [live |-> TRUE, mux |-> None, program |-> linked]]
  BY <1>2 DEF ShaderInit
<1>4. /\ texture' \in [Texture -> TextureRecord]
      /\ texture'[x].live /\ texture'[x].mux = None
      /\ \A y \in Texture : y # x => texture'[y] = texture[y]
  <2>1. [live |-> TRUE, mux |-> None, program |-> linked] \in TextureRecord
    BY ALiveRecord
  <2> QED BY <1>0, <1>3, <2>1 DEF ViewTypes
<1>5. /\ render' \in [Renderer -> RenderRecord]
      /\ render'[t].pc = "draw" /\ render'[t].tex = render[t].tex
      /\ \A u \in Renderer : u # t => render'[u] = render[u]
  BY <1>0, <1>1, Moves
<1>6. ViewTypes'
  BY <1>0, <1>1, <1>4, <1>5 DEF ViewTypes
<1>7. TextureLocks'
  BY <1>0, <1>1, <1>2, <1>4, <1>5, OneLocks DEF Locked, At
<1>8. RenderChange(t)
  BY <1>1, <1>2, <1>4, <1>5, RenderAlone DEF RenderChange, At
<1>9. DrawsAlone(t) => DrawsAlone(t)'
  BY <1>1, <1>2, <1>4, <1>5 DEF DrawsAlone, Shows, At
<1>10. Relies(t) => Relies(t)'
  BY <1>1, <1>5, RenderAlone DEF Relies, At, control
<1> QED BY <1>6, <1>7, <1>8, <1>9, <1>10, RendererKeeps

(* Render(): txt->Draw(), the member read again.                           *)
LEMMA StepCallDraw ==
  ASSUME IInv, NEW t \in Renderer, RenderOn(t), CallDraw(t)
  PROVE  IInv'
<1>0. ViewTypes /\ TextureLocks /\ RenderInv
  BY InvParts
<1>1. At(t, "draw")
  BY DEF CallDraw
<1>2. CASE Gone(txt)
  BY <1>1, <1>2, RenderAlone, StepCrash DEF CallDraw, At
<1>3. CASE ~Gone(txt)
  <2>1. /\ render' = [render EXCEPT ![t] = [pc |-> "drawLock", tex |-> txt, win |-> None]]
        /\ UNCHANGED <<view, txt, texture, egl, onThread, crashed>>
    BY <1>3 DEF CallDraw
  <2>2. txt \in Texture /\ texture[txt].live
    BY <1>0, <1>3 DEF Gone, ViewTypes
  <2>3. /\ render'[t] = [pc |-> "drawLock", tex |-> txt, win |-> None]
        /\ \A u \in Renderer : u # t => render'[u] = render[u]
    BY <1>0, <2>1 DEF ViewTypes
  <2>4. ViewTypes'
    <3>1. [pc |-> "drawLock", tex |-> txt, win |-> None] \in RenderRecord
      BY <2>2 DEF RenderRecord
    <3> QED BY <1>0, <2>1, <3>1 DEF ViewTypes
  <2>5. TextureLocks'
    BY <1>0, <1>1, <2>1, <2>3 DEF TextureLocks, Locked, At
  <2>6. RenderChange(t)
    BY <1>1, <2>1, <2>3, RenderAlone DEF RenderChange, At
  <2>7. Relies(t) => Relies(t)'
    BY <1>1, <2>1, <2>2, <2>3, RenderAlone DEF Relies, At, control
  <2>8. DrawsAlone(t) => DrawsAlone(t)'
    BY <1>1, <2>1, <2>3 DEF DrawsAlone, Shows, At
  <2> QED BY <2>4, <2>5, <2>6, <2>7, <2>8, RendererKeeps
<1> QED BY <1>2, <1>3

(* XTexture::Draw(): the mutex, the textures of the frame and sh.Draw().   *)
LEMMA StepDrawLocks ==
  ASSUME IInv, NEW t \in Renderer, RenderOn(t), DrawLocks(t)
  PROVE  IInv'
<1>0. ViewTypes /\ TextureLocks /\ RenderInv
  BY InvParts
<1>1. At(t, "drawLock")
  BY DEF DrawLocks
<1>2. CASE Gone(render[t].tex)
  BY <1>1, <1>2, RenderAlone, StepCrash DEF DrawLocks, At
<1>3. CASE ~Gone(render[t].tex)
  <2>1. PICK x \in Texture : x = render[t].tex /\ texture[x].live
    BY <1>0, <1>3, Places DEF Gone
  <2>2. /\ texture[x].mux = None
        /\ texture' = [texture EXCEPT ![x].mux = t]
        /\ RenderTo(t, "swap")
        /\ UNCHANGED <<view, txt, egl, onThread, crashed>>
    BY <1>3, <2>1 DEF DrawLocks
  <2>3. /\ texture' \in [Texture -> TextureRecord]
        /\ texture'[x].live /\ texture'[x].mux = t
        /\ texture'[x].program = texture[x].program
        /\ \A y \in Texture : y # x => texture'[y] = texture[y]
    BY <1>0, <2>1, <2>2, Relocked
  <2>4. /\ render' \in [Renderer -> RenderRecord]
        /\ render'[t].pc = "swap" /\ render'[t].tex = render[t].tex
        /\ \A u \in Renderer : u # t => render'[u] = render[u]
    BY <1>0, <1>1, <2>2, Moves
  <2>5. ViewTypes'
    BY <1>0, <2>2, <2>3, <2>4 DEF ViewTypes
  <2>6. TextureLocks'
    BY <1>0, <1>1, <2>1, <2>2, <2>3, <2>4, OneLocks DEF Locked, At
  <2>7. RenderChange(t)
    BY <1>1, <2>1, <2>2, <2>3, <2>4, RenderAlone DEF RenderChange, At
  <2>8. DrawsAlone(t) => DrawsAlone(t)'
    BY <1>1, <2>1, <2>2, <2>3, <2>4 DEF DrawsAlone, Shows, At
  <2>9. Relies(t) => Relies(t)'
    BY <1>1, <2>2, <2>4, RenderAlone DEF Relies, At, control
  <2> QED BY <2>5, <2>6, <2>7, <2>8, <2>9, RendererKeeps
<1> QED BY <1>2, <1>3

(* XEGL::Draw() and the end of Render().                                   *)
LEMMA StepSwap ==
  ASSUME IInv, NEW t \in Renderer, RenderOn(t), Swap(t)
  PROVE  IInv'
<1>0. ViewTypes /\ TextureLocks /\ RenderInv
  BY InvParts
<1>1. At(t, "swap") /\ UNCHANGED <<view, txt, egl, onThread, crashed>>
  BY DEF Swap
<1>2. PICK x \in Texture : x = render[t].tex /\ texture[x].live /\ texture[x].mux = t
  BY <1>0, <1>1, LockedIsLive DEF Locked, At
<1>3. texture' = [texture EXCEPT ![x].mux = None]
  BY <1>2 DEF Swap
<1>4. /\ texture' \in [Texture -> TextureRecord]
      /\ texture'[x].live /\ texture'[x].mux = None
      /\ texture'[x].program = texture[x].program
      /\ \A y \in Texture : y # x => texture'[y] = texture[y]
  BY <1>0, <1>2, <1>3, Relocked
<1>5. /\ render' \in [Renderer -> RenderRecord]
      /\ render'[t].pc = "away" /\ render'[t].tex = None
      /\ \A u \in Renderer : u # t => render'[u] = render[u]
  <2>1. Away \in RenderRecord
    BY DEF Away, RenderRecord
  <2> QED BY <1>0, <2>1 DEF Swap, RenderReturns, Away, ViewTypes
<1>6. ViewTypes'
  BY <1>0, <1>1, <1>4, <1>5 DEF ViewTypes
<1>7. TextureLocks'
  BY <1>0, <1>1, <1>2, <1>4, <1>5, OneLocks DEF Locked, At
<1>8. RenderChange(t)
  BY <1>1, <1>2, <1>4, <1>5, RenderAlone DEF RenderChange, At
<1>9. DrawsAlone(t) => DrawsAlone(t)'
  BY <1>1, <1>2, <1>4, <1>5 DEF DrawsAlone, Shows, At
<1>10. Relies(t) => Relies(t)'
  BY <1>1, <1>5, RenderAlone DEF Relies, At, control
<1> QED BY <1>6, <1>7, <1>8, <1>9, <1>10, RendererKeeps

(* Every step of Render().                                                 *)
LEMMA StepRenderOn ==
  ASSUME IInv, NEW t \in Renderer, RenderOn(t)
  PROVE  IInv'
<1>1. CASE Create(t)
  BY <1>1, StepCreate
<1>2. CASE CallInit(t)
  BY <1>2, StepCallInit
<1>3. CASE InitLocks(t)
  BY <1>3, StepInitLocks
<1>4. CASE EglFails(t)
  BY <1>4, StepEglFails
<1>5. CASE EglInit(t)
  BY <1>5, StepEglInit
<1>6. CASE ShaderInit(t)
  BY <1>6, StepShaderInit
<1>7. CASE CallDraw(t)
  BY <1>7, StepCallDraw
<1>8. CASE DrawLocks(t)
  BY <1>8, StepDrawLocks
<1>9. CASE Swap(t)
  BY <1>9, StepSwap
<1> QED BY <1>1, <1>2, <1>3, <1>4, <1>5, <1>6, <1>7, <1>8, <1>9 DEF RenderOn, RenderStep

-----------------------------------------------------------------------------
(* The half of the invariant that speaks of the view.                      *)
ViewHalf ==
  ViewTypes /\ TextureLocks /\ PointerOK /\ RenderInv /\ SettledInv /\ CrashOnlyWhenMet

(* It stays as it is under a step that leaves the view alone and does not  *)
(* close it.                                                               *)
LEMMA ViewKept ==
  ASSUME IInv, UNCHANGED <<viewVars, drawn, settled>>,
         \A t \in Renderer : t \in met' <=> t \in met,
         \/ UNCHANGED call
         \/ ~Closing /\ call'.pc \notin {"forget", "setRender"}
  PROVE  ViewHalf'
<1>0. /\ ViewTypes /\ CallTypes /\ TextureLocks /\ PointerOK /\ RenderInv
      /\ SettledInv /\ CrashOnlyWhenMet
  BY InvParts
<1> USE DEF viewVars
<1>1. ViewTypes'
  BY <1>0 DEF ViewTypes
<1>2. TextureLocks'
  BY <1>0 DEF TextureLocks
<1>3. PointerOK'
  BY <1>0 DEF PointerOK, Closing
<1>4. RenderInv'
  <2> SUFFICES ASSUME NEW t \in Renderer \ met' PROVE Relies(t)'
    BY DEF RenderInv
  <2>1. Relies(t)
    BY <1>0 DEF RenderInv
  <2> QED BY <2>1 DEF Relies, At
<1>5. SettledInv'
  <2>1. (call.pc = "setRender" => drawn \subseteq met)'
    BY <1>0 DEF SettledInv, CallTypes, ControlOK
  <2>2. settled' => /\ \A t \in Renderer : ~At(t, "away")' => t \in drawn'
                    /\ drawn' = {} => txt' = None
                    /\ ~Closing' => met' \cap Renderer = {}
    BY <1>0 DEF SettledInv, At, Closing
  <2>3. ASSUME settled', NEW t \in Renderer \ met', drawn' = {t} PROVE DrawsAlone(t)'
    <3>1. DrawsAlone(t)
      BY <1>0, <2>3 DEF SettledInv
    <3> QED BY <3>1 DEF DrawsAlone, Shows, At
  <2> QED BY <2>1, <2>2, <2>3 DEF SettledInv
<1>6. CrashOnlyWhenMet'
  BY <1>0, NoneIsNone DEF CrashOnlyWhenMet, ViewTypes
<1> QED BY <1>1, <1>2, <1>3, <1>4, <1>5, <1>6 DEF ViewHalf

(* The invariant after a step from its parts.                              *)
LEMMA NextHalves ==
  ASSUME ViewHalf', ResampleTypes', ResampleInv', CallTypes', InsideAlive'
  PROVE  IInv'
<1>1. /\ ViewTypes' /\ TextureLocks' /\ PointerOK' /\ RenderInv' /\ SettledInv'
      /\ CrashOnlyWhenMet'
  BY DEF ViewHalf
<1> QED BY <1>1, NextInvParts

(* Nobody moves and nobody who is inside leaves.                           *)
LEMMA InsideKept ==
  ASSUME InsideAlive, UNCHANGED <<render, resample>>,
         \A t \in alive : Inside(t) => t \in alive'
  PROVE  InsideAlive'
<1>1. ASSUME NEW t \in Renderer, ~At(t, "away")' PROVE t \in alive'
  BY <1>1 DEF InsideAlive, Inside, At
<1>2. ASSUME NEW t \in Resampler, ~Stage(t, "away")' PROVE t \in alive'
  BY <1>2, NoneIsNone DEF InsideAlive, Inside, Stage
<1> QED BY <1>1, <1>2 DEF InsideAlive

(* After a call that met everybody inside, the others are not inside.      *)
LEMMA AllMet ==
  ASSUME InsideAlive
  PROVE  /\ \A t \in Renderer : t \notin Busy => At(t, "away")
         /\ \A t \in Resampler : t \notin Busy => Stage(t, "away")
  BY NoneIsNone DEF InsideAlive, Busy, Inside

-----------------------------------------------------------------------------
(* The steps of the decoder threads.                                       *)

(* A decoded frame reaches the view.                                       *)
LEMMA StepDraw ==
  ASSUME IInv, crashed = None, NEW t \in Renderer, Draw(t)
  PROVE  IInv'
<1>0. /\ ViewTypes /\ ResampleTypes /\ CallTypes
      /\ InsideAlive /\ TextureLocks /\ PointerOK /\ RenderInv
      /\ ResampleInv /\ SettledInv
  BY InvParts
<1>1. /\ t \in alive /\ At(t, "away")
      /\ RenderTo(t, IF txt = None THEN "create" ELSE "draw")
      /\ UNCHANGED <<view, txt, texture, egl, onThread, crashed>>
      /\ met' = IF Closing THEN met \cup {t} ELSE met \ {t}
      /\ drawn' = drawn \cup {t}
      /\ UNCHANGED <<resampleVars, control, settled>>
  BY DEF Draw, Decodes, Check
<1>2. /\ render' \in [Renderer -> RenderRecord]
      /\ render'[t].pc = IF txt = None THEN "create" ELSE "draw"
      /\ render'[t].tex = render[t].tex
      /\ \A u \in Renderer : u # t => render'[u] = render[u]
  BY <1>0, <1>1, Moves
<1>3. ViewTypes'
  BY <1>0, <1>1, <1>2 DEF ViewTypes
<1>4. CallTypes'
  BY <1>0, <1>1 DEF CallTypes, ControlOK, control
<1>5. ResampleTypes' /\ ResampleInv'
  BY <1>0, <1>1, NoneIsNone, ResamplerKept DEF control
<1>6. InsideAlive'
  BY <1>0, <1>1, <1>2 DEF InsideAlive, At, Stage, control, resampleVars
<1>7. TextureLocks'
  BY <1>0, <1>1, <1>2 DEF TextureLocks, Locked, At
<1>8. PointerOK'
  BY <1>0, <1>1 DEF PointerOK, control
<1>9. RenderInv'
  <2> SUFFICES ASSUME NEW u \in Renderer \ met' PROVE Relies(u)'
    BY DEF RenderInv
  <2>1. CASE u = t
    BY <1>1, <1>2, <2>1 DEF Relies, Closing, At, control
  <2>2. CASE u # t
    <3>1. Relies(u) /\ render'[u] = render[u]
      BY <1>0, <1>1, <1>2, <2>2 DEF RenderInv
    <3> QED BY <1>1, <3>1 DEF Relies, At, control
  <2> QED BY <2>1, <2>2
<1>10. SettledInv'
  <2>1. (call.pc = "setRender" => drawn \subseteq met)'
    BY <1>0, <1>1 DEF SettledInv, Closing, control
  <2>2. ASSUME settled'
        PROVE  /\ \A u \in Renderer : ~At(u, "away")' => u \in drawn'
               /\ drawn' # {}
               /\ ~Closing' => met' \cap Renderer = {}
    BY <1>0, <1>1, <1>2, <2>2 DEF SettledInv, Closing, At, control
  <2>3. ASSUME settled', NEW u \in Renderer \ met', drawn' = {u} PROVE DrawsAlone(u)'
    <3>1. u = t /\ ~Closing /\ drawn \subseteq {t} /\ settled
      BY <1>1, <2>3
    <3>2. t \notin met
      BY <1>0, <3>1 DEF SettledInv
    <3>3. CASE drawn = {}
      <4>1. txt = None
        BY <1>0, <3>1, <3>3 DEF SettledInv
      <4> QED BY <1>2, <3>1, <4>1 DEF DrawsAlone, At
    <3>4. CASE drawn = {t}
      <4>1. DrawsAlone(t)
        BY <1>0, <3>1, <3>2, <3>4 DEF SettledInv
      <4> QED BY <1>1, <1>2, <3>1, <4>1 DEF DrawsAlone, Shows, At
    <3> QED BY <3>1, <3>3, <3>4
  <2> QED BY <2>1, <2>2, <2>3 DEF SettledInv
<1>11. CrashOnlyWhenMet'
  BY <1>1 DEF CrashOnlyWhenMet
<1> QED BY <1>3, <1>4, <1>5, <1>6, <1>7, <1>8, <1>9, <1>10, <1>11, NextInvParts

(* What is left to show of a step of Resample().                           *)
ResampleChange(t) ==
  /\ t \in alive
  /\ UNCHANGED <<viewVars, control, drawn, settled, actx, outChannels>>
  /\ \A u \in Renderer \cup Resampler : u # t => (u \in met' <=> u \in met)
  /\ met' \subseteq met \cup {t}
  /\ \A u \in Resampler : u # t => resample'[u] = resample[u]

(* A step of one resampler: what it has to show for the invariant to hold  *)
(* after it.                                                               *)
LEMMA ResamplerKeeps ==
  ASSUME IInv, NEW t \in Resampler, ResampleChange(t), ResampleTypes',
         (resampleMux # Nobody => Stage(resampleMux, "convert"))',
         t \notin met' /\ ~Stage(t, "away")' => ReliesOn(t)'
  PROVE  IInv'
<1>0. CallTypes /\ InsideAlive /\ ResampleInv
  BY InvParts
<1>1. t \notin Renderer
  BY NoneIsNone
<1>2. ViewHalf'
  BY <1>1, ViewKept DEF ResampleChange, control
<1>3. CallTypes'
  BY <1>0 DEF ResampleChange, control, CallTypes, ControlOK
<1>4. InsideAlive'
  BY <1>0 DEF ResampleChange, control, viewVars, InsideAlive, At, Stage
<1>5. ResampleInv'
  <2>1. ASSUME NEW u \in Resampler \ met', ~Stage(u, "away")' PROVE ReliesOn(u)'
    <3>1. CASE u = t
      BY <2>1, <3>1
    <3>2. CASE u # t
      <4>1. resample'[u] = resample[u] /\ u \notin met
        BY <2>1, <3>2 DEF ResampleChange
      <4>2. ReliesOn(u)
        BY <1>0, <2>1, <4>1 DEF ResampleInv, Stage
      <4> QED BY <4>1, <4>2 DEF ReliesOn, ResampleChange, control, Stage
    <3> QED BY <3>1, <3>2
  <2>2. /\ (call.pc \in Reopening => file # 0)'
        /\ (call.pc = "initContext" => actx = Uninitialised)'
        /\ (call.pc = "setChannels" => actx = file)'
        /\ (call.pc \notin Reopening /\ file # 0 /\ actx # Uninitialised =>
              actx = file /\ outChannels = file)'
    BY <1>0 DEF ResampleInv, ResampleChange, control, Uninitialised
  <2> QED BY <2>1, <2>2 DEF ResampleInv
<1> QED BY <1>2, <1>3, <1>4, <1>5, NextHalves

(* A decoded frame reaches the resampler.                                  *)
LEMMA StepPlay ==
  ASSUME IInv, NEW t \in Resampler, Play(t)
  PROVE  IInv'
<1>0. ResampleTypes /\ CallTypes /\ ResampleInv
  BY InvParts
<1>1. PICK samples \in {0, 1} : Offer(t, file, samples)
  BY DEF Play
<1>2. /\ t \in alive /\ file # 0 /\ file \in Channels
      /\ met' = IF Opening THEN met \cup {t} ELSE met \ {t}
      /\ UNCHANGED <<viewVars, control, drawn, settled>>
  BY <1>0 DEF Play, Decodes, CallTypes
<1>3. samples = 1
  BY <1>1 DEF Offer, HasData
<1>4. /\ Stage(t, "away")
      /\ resample' = [resample EXCEPT ![t] =
           [pc |-> "lock", channels |-> file, samples |-> 1, room |-> 0]]
      /\ UNCHANGED <<actx, outChannels, resampleMux>>
  BY <1>1, <1>3 DEF Offer
<1>5. /\ resample'[t] = [pc |-> "lock", channels |-> file, samples |-> 1, room |-> 0]
      /\ \A u \in Resampler : u # t => resample'[u] = resample[u]
  BY <1>0, <1>4 DEF ResampleTypes
<1>6. ResampleTypes'
  <2>1. [pc |-> "lock", channels |-> file, samples |-> 1, room |-> 0] \in ResampleRecord
    BY <1>2 DEF ResampleRecord
  <2> QED BY <1>0, <1>4, <2>1 DEF ResampleTypes
<1>7. (resampleMux # Nobody => Stage(resampleMux, "convert"))'
  BY <1>0, <1>4, <1>5 DEF ResampleInv, ResampleTypes, Stage
<1>8. t \notin met' => ReliesOn(t)'
  BY <1>2, <1>5 DEF ReliesOn, Opening, Reopening, Stage, control
<1>9. ResampleChange(t)
  BY <1>2, <1>4, <1>5 DEF ResampleChange
<1> QED BY <1>6, <1>7, <1>8, <1>9, ResamplerKeeps

(* The record of a resampler whose output has its room.                    *)
LEMMA RoomMade ==
  ASSUME NEW c, NEW n \in Nat, NEW r,
         r = [pc |-> "lock", channels |-> c, samples |-> 1, room |-> 0]
  PROVE  [r EXCEPT !.pc = "convert", !.room = n] =
           [pc |-> "convert", channels |-> c, samples |-> 1, room |-> n]
<1>1. [r EXCEPT !.pc = "convert", !.room = n] \in
        [pc : {"convert"}, channels : {c}, samples : {1}, room : {n}]
  OBVIOUS
<1>2. \A q \in [pc : {"convert"}, channels : {c}, samples : {1}, room : {n}] :
        q = [pc |-> "convert", channels |-> c, samples |-> 1, room |-> n]
  OBVIOUS
<1> QED BY <1>1, <1>2

(* The steps of FFResample::Resample().                                    *)
LEMMA StepResampleOn ==
  ASSUME IInv, NEW t \in Resampler, ResampleOn(t)
  PROVE  IInv'
<1>0. ResampleTypes /\ CallTypes /\ InsideAlive /\ ResampleInv
  BY InvParts
<1>1. UNCHANGED <<viewVars, control, met, drawn, settled, actx, outChannels>>
  BY DEF ResampleOn, ResampleStep, Allocate, Convert
<1>2. t \in alive
  BY <1>0 DEF ResampleOn, ResampleStep, Allocate, Convert, InsideAlive, Stage
<1>3. CASE Allocate(t) /\ actx = Nobody
  <2>1. Stage(t, "lock") /\ resample' = [resample EXCEPT ![t] = NoFrame] /\ resampleMux' = Nobody
    BY <1>3 DEF Allocate
  <2>2. ResampleTypes'
    BY <1>0, <1>1, <2>1 DEF ResampleTypes, ResampleRecord
  <2>3. /\ resample'[t].pc = "away"
        /\ \A u \in Resampler : u # t => resample'[u] = resample[u]
    BY <1>0, <2>1 DEF ResampleTypes, NoFrame
  <2>4. ResampleChange(t)
    BY <1>1, <1>2, <2>3 DEF ResampleChange
  <2> QED BY <2>1, <2>2, <2>3, <2>4, ResamplerKeeps DEF Stage
<1>4. CASE Allocate(t) /\ actx # Nobody
  <2>1. PICK c \in Channels :
          resample[t] = [pc |-> "lock", channels |-> c, samples |-> 1, room |-> 0]
    <3>1. resample[t] \in ResampleRecord /\ resample[t].pc = "lock"
      BY <1>0, <1>4 DEF ResampleTypes, Allocate, Stage
    <3>2. resample[t] \in [pc : {"lock"}, channels : Channels, samples : {1}, room : {0}]
      BY <3>1 DEF ResampleRecord, NoFrame
    <3> QED BY <3>2
  <2>2. outChannels \in Nat \ {0} /\ outChannels * resample[t].samples = outChannels
    BY <1>0, <2>1, FFResampleAssumption DEF ResampleTypes
  <2>3. /\ resample' = [resample EXCEPT ![t] =
             [pc |-> "convert", channels |-> c, samples |-> 1, room |-> outChannels]]
        /\ resampleMux' = t
    <3>1. ~(outChannels * resample[t].samples <= 0)
      BY <2>2
    <3>2. /\ resample' = [resample EXCEPT ![t] =
                [resample[t] EXCEPT !.pc = "convert", !.room = outChannels * resample[t].samples]]
          /\ resampleMux' = t
      BY <1>0, <1>4, <3>1 DEF Allocate, ResampleTypes
    <3>3. [resample[t] EXCEPT !.pc = "convert", !.room = outChannels * resample[t].samples] =
             [pc |-> "convert", channels |-> c, samples |-> 1, room |-> outChannels]
      BY <2>1, <2>2, RoomMade
    <3> QED BY <3>2, <3>3
  <2>4. ResampleTypes'
    <3>1. [pc |-> "convert", channels |-> c, samples |-> 1, room |-> outChannels] \in ResampleRecord
      BY <2>2 DEF ResampleRecord
    <3> QED BY <1>0, <1>1, <2>3, <3>1 DEF ResampleTypes
  <2>5. /\ resample'[t] = [pc |-> "convert", channels |-> c, samples |-> 1, room |-> outChannels]
        /\ \A u \in Resampler : u # t => resample'[u] = resample[u]
    BY <1>0, <2>3 DEF ResampleTypes
  <2>6. ResampleChange(t)
    BY <1>1, <1>2, <2>5 DEF ResampleChange
  <2>7. t \notin met' => ReliesOn(t)'
    <3>1. t \notin met => ReliesOn(t)
      BY <1>0, <2>1 DEF ResampleInv, Stage
    <3> QED BY <1>1, <1>4, <2>1, <2>5, <3>1 DEF ReliesOn, Stage, control
  <2> QED BY <2>3, <2>4, <2>5, <2>6, <2>7, ResamplerKeeps DEF Stage
<1>5. CASE Convert(t)
  <2>1. resample' = [resample EXCEPT ![t] = NoFrame] /\ resampleMux' = Nobody
    BY <1>5 DEF Convert
  <2>2. ResampleTypes'
    BY <1>0, <1>1, <2>1 DEF ResampleTypes, ResampleRecord
  <2>3. /\ resample'[t].pc = "away"
        /\ \A u \in Resampler : u # t => resample'[u] = resample[u]
    BY <1>0, <2>1 DEF ResampleTypes, NoFrame
  <2>4. ResampleChange(t)
    BY <1>1, <1>2, <2>3 DEF ResampleChange
  <2> QED BY <2>1, <2>2, <2>3, <2>4, ResamplerKeeps DEF Stage
<1> QED BY <1>3, <1>4, <1>5 DEF ResampleOn, ResampleStep

(* A thread sees isExit between two frames and leaves its loop.            *)
LEMMA StepLeave ==
  ASSUME IInv, NEW kind, NEW t \in Renderer \cup Resampler, Leave(t, kind)
  PROVE  IInv'
<1>0. ResampleTypes /\ CallTypes /\ InsideAlive /\ ResampleInv
  BY InvParts
<1>1. /\ ~Inside(t) /\ alive' = alive \ {t}
      /\ UNCHANGED <<viewVars, resampleVars, call, isExit, file, met, drawn, settled>>
  BY DEF Leave
<1>2. ViewHalf'
  BY <1>1, ViewKept
<1>3. ResampleTypes' /\ ResampleInv'
  BY <1>0, <1>1, ResamplerKept
<1>4. CallTypes'
  BY <1>0, <1>1 DEF CallTypes, ControlOK
<1>5. InsideAlive'
  BY <1>0, <1>1, InsideKept DEF viewVars, resampleVars
<1> QED BY <1>2, <1>3, <1>4, <1>5, NextHalves

-----------------------------------------------------------------------------
(* The player's calls.                                                     *)

(* The record of a call that goes to a label.                              *)
LEMMA ACall ==
  ASSUME CallTypes, NEW label \in Labels, Goes(label)
  PROVE  /\ call' \in [pc : Labels, open : BOOLEAN, win : Window \cup {None}]
         /\ call'.pc = label
  BY DEF CallTypes, ControlOK, Goes

(* The calls that touch neither end.                                       *)
LEMMA StepCall ==
  ASSUME IInv, InitView \/ Open \/ StopVideo \/ StopAudio \/ Start
  PROVE  IInv'
<1>0. ResampleTypes /\ CallTypes /\ InsideAlive /\ ResampleInv
  BY InvParts
<1>1. UNCHANGED <<viewVars, resampleVars, file, met, drawn, settled>>
  BY DEF InitView, Open, StopVideo, StopAudio, Start
<1>2. /\ call' \in [pc : Labels, open : BOOLEAN, win : Window \cup {None}]
      /\ \/ UNCHANGED call
         \/ /\ call.pc \in {"ready", "stopVideo", "stopAudio"}
            /\ call'.pc \in {"drop", "stopVideo", "stopAudio"}
  <2>1. CASE InitView
    BY <1>0, <2>1 DEF InitView, Labels
  <2>2. CASE Open
    BY <1>0, <2>2 DEF Open, Labels
  <2>3. CASE StopVideo
    BY <1>0, <2>3, ACall DEF StopVideo, Labels
  <2>4. CASE StopAudio
    BY <1>0, <2>4, ACall DEF StopAudio, Labels
  <2>5. CASE Start
    BY <1>0, <2>5 DEF Start, CallTypes, ControlOK
  <2> QED BY <2>1, <2>2, <2>3, <2>4, <2>5
<1>3. isExit' \in [video : BOOLEAN, audio : BOOLEAN]
  <2>1. CASE UNCHANGED isExit
    BY <1>0, <2>1 DEF CallTypes, ControlOK
  <2>2. CASE isExit' = [video |-> TRUE, audio |-> FALSE]
    BY <2>2
  <2>3. CASE isExit' = [video |-> FALSE, audio |-> FALSE]
    BY <2>3
  <2>4. CASE isExit' = [isExit EXCEPT !.audio = TRUE]
    BY <1>0, <2>4 DEF CallTypes, ControlOK
  <2> QED BY <2>1, <2>2, <2>3, <2>4 DEF InitView, Open, StopVideo, StopAudio, Start
<1>4. alive \subseteq alive' /\ alive' \subseteq Renderer \cup Resampler
  <2>1. CASE Start
    <3>1. PICK v \in Spawned("video"), a \in Spawned("audio") : alive' = alive \cup v \cup a
      BY <2>1 DEF Start
    <3>2. v \subseteq Renderer /\ a \subseteq Resampler
      BY <3>1 DEF Spawned, Of
    <3> QED BY <1>0, <3>1, <3>2 DEF CallTypes
  <2>2. CASE InitView \/ Open \/ StopVideo \/ StopAudio
    BY <1>0, <2>2 DEF InitView, Open, StopVideo, StopAudio, CallTypes
  <2> QED BY <2>1, <2>2
<1>5. ViewHalf'
  BY <1>1, <1>2, ViewKept DEF Closing
<1>6. ResampleTypes' /\ ResampleInv'
  BY <1>0, <1>1, <1>2, ResamplerKept DEF Reopening
<1>7. CallTypes'
  BY <1>0, <1>1, <1>2, <1>3, <1>4 DEF CallTypes, ControlOK
<1>8. InsideAlive'
  BY <1>0, <1>1, <1>4, InsideKept DEF viewVars, resampleVars
<1> QED BY <1>5, <1>6, <1>7, <1>8, NextHalves

(* videoView->Close(), as far as the deletion: it finds the texture that   *)
(* `txt` leads to, and nobody else relies on it.                           *)
LEMMA StepCloseView ==
  ASSUME IInv, CloseView
  PROVE  IInv'
<1>0. /\ ViewTypes /\ ResampleTypes /\ CallTypes
      /\ InsideAlive /\ TextureLocks /\ PointerOK /\ RenderInv
      /\ ResampleInv /\ SettledInv /\ CrashOnlyWhenMet
  BY InvParts
<1>1. /\ call.pc = "drop" /\ Goes("forget")
      /\ met' = met \cup (Busy \cap Renderer)
      /\ UNCHANGED <<resampleVars, calls, isExit, alive, file, drawn, settled>>
  BY DEF CloseView, Meets
<1>2. /\ call' \in [pc : Labels, open : BOOLEAN, win : Window \cup {None}]
      /\ call'.pc = "forget"
  BY <1>0, <1>1, ACall DEF Labels
<1>3. /\ UNCHANGED <<view, txt, render, crashed>>
      /\ \/ txt = None /\ UNCHANGED <<texture, egl, onThread>>
         \/ /\ txt \in Texture /\ texture[txt].mux = None
            /\ texture' = [texture EXCEPT ![txt] = NoTexture]
            /\ EglClosedOn(Caller)
  <2>1. CASE txt = None
    BY <2>1 DEF CloseView, viewVars
  <2>2. CASE txt # None
    <3>1. txt \in Texture /\ ~Gone(txt)
      BY <1>0, <1>1, <2>2 DEF ViewTypes, PointerOK, Gone
    <3> QED BY <2>2, <3>1 DEF CloseView, Drop
  <2> QED BY <2>1, <2>2
<1>4. texture' \in [Texture -> TextureRecord]
  BY <1>0, <1>3 DEF ViewTypes, TextureRecord
<1>5. ViewTypes'
  <2>1. /\ egl' \in EglRecord
        /\ onThread' \in [Renderer \cup {Caller} -> Texture \cup {None}]
    <3>1. NoDisplay \in EglRecord
      BY DEF NoDisplay, EglRecord
    <3>2. CASE UNCHANGED <<egl, onThread>>
      BY <1>0, <3>2 DEF ViewTypes
    <3>3. CASE EglClosedOn(Caller)
      BY <1>0, <3>1, <3>3 DEF ViewTypes, EglClosedOn
    <3> QED BY <1>3, <3>2, <3>3
  <2> QED BY <1>0, <1>3, <1>4, <2>1 DEF ViewTypes
<1>6. CallTypes'
  BY <1>0, <1>1, <1>2 DEF CallTypes, ControlOK
<1>7. ResampleTypes' /\ ResampleInv'
  BY <1>0, <1>1, <1>2, ResamplerKept DEF Reopening
<1>8. InsideAlive'
  BY <1>0, <1>1, <1>3, InsideKept DEF resampleVars
<1>9. TextureLocks'
  BY <1>0, <1>3, NoneIsNone DEF TextureLocks, ViewTypes, NoTexture
<1>10. PointerOK'
  BY <1>2 DEF PointerOK
<1>11. \A t \in Renderer \ met' : At(t, "away") /\ At(t, "away")' /\ t \notin met
  BY <1>0, <1>1, <1>3, AllMet DEF At
<1>12. RenderInv'
  BY <1>11 DEF RenderInv, Relies, At
<1>13. SettledInv'
  <2>1. (call.pc = "setRender" => drawn \subseteq met)'
    BY <1>2
  <2>2. settled' => /\ \A t \in Renderer : ~At(t, "away")' => t \in drawn'
                    /\ drawn' = {} => txt' = None
                    /\ ~Closing' => met' \cap Renderer = {}
    BY <1>0, <1>1, <1>2, <1>3 DEF SettledInv, At, Closing
  <2>3. ASSUME settled', NEW t \in Renderer \ met', drawn' = {t} PROVE DrawsAlone(t)'
    <3>1. DrawsAlone(t) /\ At(t, "away") /\ At(t, "away")'
      BY <1>0, <1>1, <1>11, <2>3 DEF SettledInv
    <3>2. txt \in Texture
      BY <1>0, <3>1 DEF DrawsAlone, At, ViewTypes
    <3>3. ~texture'[txt].program /\ txt' # None /\ txt' = txt
      BY <1>0, <1>3, <3>2, NoneIsNone DEF ViewTypes, NoTexture
    <3> QED BY <3>1, <3>3 DEF DrawsAlone, Shows, At
  <2> QED BY <2>1, <2>2, <2>3 DEF SettledInv
<1>14. CrashOnlyWhenMet'
  BY <1>0, <1>1, <1>3 DEF CrashOnlyWhenMet
<1> QED BY <1>5, <1>6, <1>7, <1>8, <1>9, <1>10, <1>12, <1>13, <1>14, NextInvParts

(* The view is closed: Close() forgets its texture.                        *)
LEMMA StepViewClosed ==
  ASSUME IInv, crashed = None, ViewClosed
  PROVE  IInv'
<1>0. /\ ViewTypes /\ ResampleTypes /\ CallTypes
      /\ InsideAlive /\ TextureLocks /\ ResampleInv
  BY InvParts
<1>1. /\ call.pc = "forget" /\ txt' = None
      /\ UNCHANGED <<view, texture, egl, onThread, render, crashed>>
      /\ UNCHANGED <<resampleVars, calls, isExit, alive, file>>
      /\ drawn' = {} /\ settled' = (Busy \cap Renderer = {})
      /\ met' = (met \ Renderer) \cup (Busy \cap Renderer)
  BY DEF ViewClosed, ForgetTexture
<1>2. /\ call' \in [pc : Labels, open : BOOLEAN, win : Window \cup {None}]
      /\ call'.pc \in {"openFile", "setRender"}
  BY <1>0, ACall DEF ViewClosed, Labels
<1>3. ViewTypes'
  BY <1>0, <1>1 DEF ViewTypes
<1>4. CallTypes'
  BY <1>0, <1>1, <1>2 DEF CallTypes, ControlOK
<1>5. ResampleTypes' /\ ResampleInv'
  BY <1>0, <1>1, <1>2, NoneIsNone, ResamplerKept DEF Reopening
<1>6. InsideAlive'
  BY <1>0, <1>1, InsideKept DEF resampleVars
<1>7. TextureLocks'
  BY <1>0, <1>1 DEF TextureLocks
<1>8. PointerOK'
  BY <1>1 DEF PointerOK
<1>9. \A t \in Renderer \ met' : At(t, "away")'
  BY <1>0, <1>1, AllMet DEF At
<1>10. RenderInv'
  BY <1>9 DEF RenderInv, Relies, At
<1>11. SettledInv'
  <2>1. settled' => \A t \in Renderer : At(t, "away")'
    BY <1>0, <1>1, AllMet DEF At
  <2>2. settled' => met' \cap Renderer = {}
    BY <1>1
  <2> QED BY <1>1, <2>1, <2>2 DEF SettledInv
<1>12. CrashOnlyWhenMet'
  BY <1>1 DEF CrashOnlyWhenMet
<1> QED BY <1>3, <1>4, <1>5, <1>6, <1>7, <1>8, <1>10, <1>11, <1>12, NextInvParts

(* The window is given to the view: settled it is only if nobody has drawn *)
(* since the view was closed.                                              *)
LEMMA StepViewSet ==
  ASSUME IInv, ViewSet
  PROVE  IInv'
<1>0. /\ ViewTypes /\ ResampleTypes /\ CallTypes
      /\ InsideAlive /\ TextureLocks /\ PointerOK /\ ResampleInv /\ SettledInv
      /\ CrashOnlyWhenMet
  BY InvParts
<1>1. /\ call.pc = "setRender" /\ view' = call.win /\ call' = Ready
      /\ UNCHANGED <<txt, texture, egl, onThread, render, crashed>>
      /\ UNCHANGED <<resampleVars, calls, isExit, alive, file, drawn>>
      /\ settled' = (settled /\ met \cap Renderer = {})
      /\ met' = met \cup (Busy \cap Renderer)
  BY DEF ViewSet, SetRender, Meets
<1>2. /\ call' \in [pc : Labels, open : BOOLEAN, win : Window \cup {None}]
      /\ call'.pc = "ready"
  BY <1>1 DEF Ready, Labels
<1>3. ViewTypes'
  BY <1>0, <1>1 DEF ViewTypes, CallTypes, ControlOK
<1>4. CallTypes'
  BY <1>0, <1>1, <1>2 DEF CallTypes, ControlOK
<1>5. ResampleTypes' /\ ResampleInv'
  BY <1>0, <1>1, <1>2, ResamplerKept DEF Reopening
<1>6. InsideAlive'
  BY <1>0, <1>1, InsideKept DEF resampleVars
<1>7. TextureLocks'
  BY <1>0, <1>1 DEF TextureLocks
<1>8. PointerOK'
  BY <1>0, <1>1 DEF PointerOK
<1>9. RenderInv'
  <2>1. \A t \in Renderer \ met' : At(t, "away")'
    BY <1>0, <1>1, AllMet DEF At
  <2> QED BY <2>1 DEF RenderInv, Relies, At
<1>10. SettledInv'
  <2>1. settled' => drawn = {} /\ settled
    BY <1>0, <1>1 DEF SettledInv, CallTypes, ControlOK
  <2>2. settled' => txt' = None /\ \A t \in Renderer : At(t, "away") /\ At(t, "away")'
    BY <1>0, <1>1, <2>1 DEF SettledInv, At
  <2>3. settled' => met' \cap Renderer = {}
    BY <1>1, <2>2 DEF Busy, Inside
  <2> QED BY <1>1, <1>2, <2>1, <2>2, <2>3 DEF SettledInv
<1>11. CrashOnlyWhenMet'
  BY <1>0, <1>1 DEF CrashOnlyWhenMet
<1> QED BY <1>3, <1>4, <1>5, <1>6, <1>7, <1>8, <1>9, <1>10, <1>11, NextInvParts

(* The resampler is opened: whoever is inside has met it.                  *)
LEMMA StepOpening ==
  ASSUME IInv, OpenFile \/ ResampleAlloc \/ ResampleInitContext \/ ResampleOpened
  PROVE  IInv'
<1>0. ResampleTypes /\ CallTypes /\ InsideAlive /\ ResampleInv
  BY InvParts
<1>1. /\ UNCHANGED <<viewVars, resampleMux, resample, isExit, alive, drawn, settled>>
      /\ met' = met \cup (Busy \cap Resampler)
      /\ call.pc \in {"openFile", "alloc", "initContext", "setChannels"}
  BY DEF OpenFile, ResampleAlloc, ResampleInitContext, ResampleOpened, AllocContext,
         InitContext, SetOutChannels, Meets, resampleVars
<1>2. /\ call' \in [pc : Labels, open : BOOLEAN, win : Window \cup {None}]
      /\ call'.pc \in {"ready", "alloc", "initContext", "setChannels"}
  <2>1. CASE call' = Ready
    BY <2>1 DEF Ready, Labels
  <2>2. CASE Goes("alloc") \/ Goes("initContext") \/ Goes("setChannels")
    BY <1>0, <2>2, ACall DEF Labels
  <2> QED BY <2>1, <2>2 DEF OpenFile, ResampleAlloc, ResampleInitContext, ResampleOpened
<1>3. file' \in Channels \cup {0}
  BY <1>0 DEF OpenFile, ResampleAlloc, ResampleInitContext, ResampleOpened, CallTypes
<1>4. ViewHalf'
  BY <1>1, <1>2, NoneIsNone, ViewKept DEF Closing
<1>5. CallTypes'
  BY <1>0, <1>1, <1>2, <1>3 DEF CallTypes, ControlOK
<1>6. InsideAlive'
  BY <1>0, <1>1, InsideKept DEF viewVars
<1>7. \A t \in Resampler \ met' : Stage(t, "away")'
  BY <1>0, <1>1, AllMet DEF Stage
<1>8. 0 \notin Channels
  BY FFResampleAssumption
<1>9. CASE OpenFile
  <2>1. /\ UNCHANGED <<actx, outChannels>>
        /\ \/ file' \in Channels /\ call'.pc = "alloc"
           \/ file' = 0 /\ call'.pc = "ready"
    BY <1>0, <1>9, ACall DEF OpenFile, resampleVars, Ready, Labels
  <2>2. ResampleTypes'
    BY <1>0, <1>1, <2>1 DEF ResampleTypes
  <2>3. ResampleInv'
    BY <1>0, <1>1, <1>7, <1>8, <2>1 DEF ResampleInv, Reopening, Stage
  <2> QED BY <1>4, <1>5, <1>6, <2>2, <2>3, NextHalves
<1>10. CASE ResampleAlloc
  <2>1. /\ call.pc = "alloc" /\ call'.pc = "initContext" /\ actx' = Uninitialised
        /\ UNCHANGED <<outChannels, file>>
    BY <1>0, <1>10, ACall DEF ResampleAlloc, AllocContext, Labels
  <2>2. ResampleTypes'
    BY <1>0, <1>1, <2>1 DEF ResampleTypes
  <2>3. ResampleInv'
    BY <1>0, <1>1, <1>7, <2>1 DEF ResampleInv, Reopening, Stage, Uninitialised
  <2> QED BY <1>4, <1>5, <1>6, <2>2, <2>3, NextHalves
<1>11. CASE ResampleInitContext
  <2>1. /\ call.pc = "initContext" /\ UNCHANGED <<outChannels, file>>
        /\ \/ actx' = file /\ call'.pc = "setChannels"
           \/ UNCHANGED actx /\ call'.pc = "ready"
    BY <1>0, <1>11, ACall DEF ResampleInitContext, InitContext, resampleVars, Ready, Labels
  <2>2. file \in Channels /\ actx = Uninitialised
    BY <1>0, <2>1 DEF ResampleInv, CallTypes, Reopening
  <2>3. ResampleTypes'
    BY <1>0, <1>1, <2>1, <2>2 DEF ResampleTypes
  <2>4. ResampleInv'
    BY <1>0, <1>1, <1>7, <2>1, <2>2, <1>8 DEF ResampleInv, Reopening, Stage, Uninitialised
  <2> QED BY <1>4, <1>5, <1>6, <2>3, <2>4, NextHalves
<1>12. CASE ResampleOpened
  <2>1. /\ call.pc = "setChannels" /\ call'.pc = "ready" /\ outChannels' = file
        /\ UNCHANGED <<actx, file>>
    BY <1>0, <1>12 DEF ResampleOpened, SetOutChannels, Ready
  <2>2. file \in Channels /\ actx = file
    BY <1>0, <2>1 DEF ResampleInv, CallTypes, Reopening
  <2>3. ResampleTypes'
    BY <1>0, <1>1, <2>1, <2>2 DEF ResampleTypes
  <2>4. ResampleInv'
    BY <1>0, <1>1, <1>7, <2>1, <2>2, <1>8 DEF ResampleInv, Reopening, Stage, Uninitialised
  <2> QED BY <1>4, <1>5, <1>6, <2>3, <2>4, NextHalves
<1> QED BY <1>9, <1>10, <1>11, <1>12

-----------------------------------------------------------------------------
(* The invariant.                                                          *)

(* Init establishes the invariant.                                         *)
LEMMA InvInit == Init => IInv
<1> SUFFICES ASSUME Init PROVE IInv
  OBVIOUS
<1> USE DEF Init, ViewInit, ResampleInit
<1>1. ViewTypes
  <2>1. Away \in RenderRecord /\ NoTexture \in TextureRecord
    BY DEF Away, RenderRecord, TextureRecord
  <2>2. NoDisplay \in EglRecord
    BY DEF NoDisplay, EglRecord
  <2> QED BY <2>1, <2>2 DEF ViewTypes
<1>2. ResampleTypes
  BY DEF ResampleTypes, ResampleRecord
<1>3. CallTypes
  BY DEF CallTypes, ControlOK, Ready, Labels
<1>4. \A t \in Renderer : At(t, "away") /\ render[t].tex = None
  BY DEF At, Away
<1>5. \A t \in Resampler : Stage(t, "away")
  BY DEF Stage, NoFrame
<1>6. InsideAlive
  BY <1>4, <1>5 DEF InsideAlive
<1>7. TextureLocks
  BY <1>4, NoneIsNone DEF TextureLocks, Locked, At, NoTexture
<1>8. PointerOK
  BY DEF PointerOK
<1>9. RenderInv
  BY <1>4 DEF RenderInv, Relies, At, Ready
<1>10. ResampleInv
  BY <1>5 DEF ResampleInv, Reopening, Ready
<1>11. SettledInv
  BY <1>4 DEF SettledInv, Ready
<1>12. CrashOnlyWhenMet
  BY DEF CrashOnlyWhenMet
<1> QED BY <1>1, <1>2, <1>3, <1>6, <1>7, <1>8, <1>9, <1>10, <1>11, <1>12, InvParts

(* Every step of Next keeps the invariant.                                 *)
LEMMA InvStep == IInv /\ [Next]_vars => IInv'
<1> SUFFICES ASSUME IInv, [Next]_vars PROVE IInv'
  OBVIOUS
<1>1. CASE UNCHANGED vars
  <2>0. /\ ResampleTypes /\ CallTypes /\ InsideAlive /\ ResampleInv
    BY InvParts
  <2>1. ViewHalf'
    BY <1>1, ViewKept DEF vars, control
  <2>2. ResampleTypes' /\ ResampleInv'
    BY <1>1, <2>0, ResamplerKept DEF vars, control
  <2>3. CallTypes' /\ InsideAlive'
    BY <1>1, <2>0, InsideKept DEF vars, control, viewVars, resampleVars, CallTypes, ControlOK
  <2> QED BY <2>1, <2>2, <2>3, NextHalves
<1>2. CASE crashed = None /\ Steps
  <2>1. CASE InitView \/ Open \/ Start
    BY <2>1, StepCall
  <2>2. CASE CallerStep
    BY <1>2, <2>2, StepCall, StepCloseView, StepViewClosed, StepViewSet, StepOpening
       DEF CallerStep
  <2>3. ASSUME NEW t \in Renderer, Draw(t) \/ ThreadStep(t) PROVE IInv'
    BY <1>2, <2>3, NoneIsNone, StepDraw, StepRenderOn, StepLeave DEF ThreadStep
  <2>4. ASSUME NEW t \in Resampler, Play(t) \/ ThreadStep(t) PROVE IInv'
    BY <2>4, NoneIsNone, StepPlay, StepResampleOn, StepLeave DEF ThreadStep
  <2> QED BY <1>2, <2>1, <2>2, <2>3, <2>4 DEF Steps
<1> QED BY <1>1, <1>2 DEF Next, AtRest

(* IInv holds in every reachable state: the drawing thread, the mutex of   *)
(* the texture and the sizes of the resampler agree wherever the threads   *)
(* stand.                                                                  *)
THEOREM Invariance == Spec => []IInv
<1>1. Init => IInv
  BY InvInit
<1>2. IInv /\ [Next]_vars => IInv'
  BY InvStep
<1> QED BY <1>1, <1>2, PTL DEF Spec

-----------------------------------------------------------------------------
(* The variables of the view, the resampler and the calls keep their       *)
(* types; Close() never finds the texture deleted, and 2n + 3 textures are *)
(* enough for n threads.                                                   *)
THEOREM TypeCorrect == Spec => []TypeOK
<1>1. IInv => TypeOK
  BY DEF IInv
<1> QED BY <1>1, Invariance, PTL

(* The thread that uses a deleted or missing texture in Render()           *)
(* (GLVideoView.cpp:22) has been inside Render() while the view was closed or given its  *)
(* window: without such a meeting no number of files, surfaces and decoder *)
(* threads leads there.                                                    *)
THEOREM OnlyTheMetCrash == Spec => []CrashOnlyWhenMet
<1>1. IInv => CrashOnlyWhenMet
  BY DEF IInv
<1> QED BY <1>1, Invariance, PTL

(* A conversion that no Open() met has the room for what it writes and the *)
(* planes it reads, for whatever numbers of channels the files have.       *)
THEOREM ConversionsFit == Spec => []ConversionFits
<1>1. IInv => ConversionFits
  <2> SUFFICES ASSUME IInv, NEW t \in Resampler \ met, Stage(t, "convert"), actx # Uninitialised
               PROVE  /\ actx * resample[t].samples <= resample[t].room
                      /\ actx <= resample[t].channels
    BY DEF ConversionFits, Fits
  <2>1. ResampleTypes /\ CallTypes /\ ResampleInv
    BY InvParts
  <2>2. ReliesOn(t)
    BY <2>1 DEF ResampleInv, Stage
  <2>3. /\ actx = file /\ outChannels = file
        /\ resample[t].channels = file /\ resample[t].room = file
    BY <2>1, <2>2 DEF ResampleInv, ReliesOn
  <2>4. file \in Nat
    <3>1. file \in Channels \cup {0}
      BY <2>1 DEF CallTypes
    <3>2. Channels \subseteq Nat
      BY FFResampleAssumption
    <3> QED BY <3>1, <3>2
  <2>5. resample[t].samples = 1
    BY <2>1 DEF ResampleTypes, ResampleRecord, NoFrame, Stage
  <2> QED BY <2>3, <2>4, <2>5
<1> QED BY <1>1, Invariance, PTL

(* Whoever holds the mutex of a texture or of the resampler is at a point  *)
(* that goes on by itself to the unlock.                                   *)
THEOREM MutexesAreReleased == Spec => []HoldersLetGo
<1>1. IInv => HoldersLetGo
  <2> SUFFICES ASSUME IInv PROVE HoldersLetGo
    OBVIOUS
  <2>1. ViewTypes /\ TextureLocks /\ ResampleInv
    BY InvParts
  <2>2. ASSUME NEW x \in Texture, texture[x].mux # None
        PROVE  /\ render[texture[x].mux].tex = x
               /\ render[texture[x].mux].pc \in {"egl", "shader", "swap"}
    <3>1. texture[x] \in TextureRecord
      BY <2>1 DEF ViewTypes
    <3>2. texture[x].mux \in Renderer
      BY <2>2, <3>1, LiveRecord
    <3> QED BY <2>1, <3>2 DEF TextureLocks, Locked
  <2> QED BY <2>1, <2>2 DEF HoldersLetGo, ResampleInv
<1> QED BY <1>1, Invariance, PTL

(* Where one thread draws on a view that was closed, and given its window, *)
(* with nobody inside Render(), every frame it swaps is seen on that       *)
(* window, unless EGL or the shader failed.                                *)
THEOREM FramesAreSeen == Spec => SeenOnTheView
<1>1. IInv /\ [Next]_vars =>
        [\A t \in Renderer :
           (At(t, "swap") /\ At(t, "away")' /\ Undisturbed(t)
              /\ texture[render[t].tex].program) => SeenOn(t, view)]_vars
  <2> SUFFICES ASSUME IInv, NEW t \in Renderer, At(t, "swap"), Undisturbed(t),
                      texture[render[t].tex].program
               PROVE  SeenOn(t, view)
    OBVIOUS
  <2>1. DrawsAlone(t)
    BY InvParts DEF SettledInv, Undisturbed
  <2>2. render[t].tex = txt
    BY <2>1 DEF DrawsAlone, At
  <2> QED BY <2>1, <2>2 DEF DrawsAlone, Shows, SeenOn, At
<1> QED BY <1>1, Invariance, PTL DEF Spec, SeenOnTheView
=============================================================================
