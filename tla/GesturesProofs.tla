---------------------------- MODULE GesturesProofs ----------------------------
(***************************************************************************)
(* Theorems of Gestures, for any number of photos, fingers and layouts.    *)
(* What a step may do to the view is a fact about the operators that       *)
(* transform it (the lemmas); that gestures die with their photo is the    *)
(* same for each of them (Sound); and a touch that was a pinch holds       *)
(* neither a drag nor a swipe until the last finger is up, unless the      *)
(* mouse begins a drag in between (PinchInv).                              *)
(***************************************************************************)
EXTENDS Gestures, TLAPS

\* A view whose generation no bound holds down.
AnyView ==
  [index: 0..Photos, gen: Nat, visible: BOOLEAN, zoom: [scale: Nat, x: Int],
   pan: [gen: Nat, dir: -1..1, far: BOOLEAN],
   pinch: Nat, swipe: Nat, tap: Nat, snap: Nat]

Sound(v) ==
  /\ v.pan.gen \in {0, v.gen} /\ v.pinch \in {0, v.gen} /\ v.swipe \in {0, v.gen}
  /\ v.tap \in {0, v.gen} /\ v.snap \in {0, v.gen}
  /\ v.index = 0 => /\ ~v.visible /\ v.pan = NoPan /\ v.zoom = Fit
                    /\ v.pinch = 0 /\ v.swipe = 0 /\ v.snap = 0

\* w is v with nothing but its zoom changed, if that, and to one in bounds.
Rezoomed(v, w) ==
  /\ w \in AnyView /\ Sound(w)
  /\ w.index = v.index /\ w.gen = v.gen /\ w.visible = v.visible
  /\ w.pan = v.pan /\ w.pinch = v.pinch /\ w.swipe = v.swipe
  /\ w.tap = v.tap /\ w.snap = v.snap
  /\ w.zoom # v.zoom => Within(w.zoom)

\* w is a view that may follow v: in bounds if its zoom is another.
Follows(v, w) ==
  /\ w \in AnyView /\ Sound(w)
  /\ w.zoom # v.zoom => Within(w.zoom)

PinchInv == pinched /\ fingers > 0 => view.pan = NoPan /\ view.swipe = 0

GesturesInv ==
  /\ view \in AnyView /\ view.gen \in Gens /\ layout \in Layouts
  /\ fingers \in 0..MaxFingers /\ pinched \in BOOLEAN
  /\ Sound(view)
  /\ PinchInv

-----------------------------------------------------------------------------
(* What the operators on the view do.                                      *)

LEMMA LimitNat ==
  ASSUME layout \in Layouts, NEW s \in Nat
  PROVE  Limit(s) \in Nat
  BY GesturesAssumption, SMT DEF Limit

LEMMA FitWithin ==
  ASSUME layout \in Layouts
  PROVE  Fit \in [scale: Nat, x: Int] /\ Within(Fit)
  BY GesturesAssumption, SMT DEF Fit, Within, Limit

LEMMA ClampedWithin ==
  ASSUME layout \in Layouts, NEW z \in [scale: Nat, x: Int]
  PROVE  /\ Clamped(z) \in [scale: Nat, x: Int] /\ Within(Clamped(z))
         /\ z = Fit => Clamped(z) = Fit
<1>1. Limit(z.scale) \in Nat
  BY LimitNat
<1>2. Clamped(z) = [scale |-> z.scale, x |->
         IF z.x > Limit(z.scale) THEN Limit(z.scale)
         ELSE IF z.x < -Limit(z.scale) THEN -Limit(z.scale) ELSE z.x]
  BY <1>1, SMT DEF Clamped
<1>3. z = Fit => Limit(z.scale) = 0
  BY GesturesAssumption, SMT DEF Fit, Limit
<1>q. QED
  BY <1>1, <1>2, <1>3, SMT DEF Within, Fit

LEMMA PannedWithin ==
  ASSUME layout \in Layouts, NEW z \in [scale: Nat, x: Int], NEW p \in Panned(z)
  PROVE  p \in [scale: Nat, x: Int] /\ Within(p)
<1>1. Limit(z.scale) \in Nat
  BY LimitNat
<1>2. PICK x \in -Limit(z.scale)..Limit(z.scale) : p = [z EXCEPT !.x = x]
  BY DEF Panned
<1>3. p = [scale |-> z.scale, x |-> x] /\ x \in Int
  BY <1>1, <1>2, SMT
<1>q. QED
  BY <1>1, <1>2, <1>3, SMT DEF Within

LEMMA NewZoom ==
  ASSUME NEW v \in AnyView, Sound(v), v.index # 0,
         NEW z \in [scale: Nat, x: Int], z # v.zoom => Within(z)
  PROVE  Rezoomed(v, [v EXCEPT !.zoom = z])
  BY SMT DEF AnyView, Sound, Rezoomed

LEMMA ZoomedRezooms ==
  ASSUME layout \in Layouts, NEW v \in AnyView, Sound(v), NEW s \in Nat,
         NEW w \in Zoomed(v, s)
  PROVE  Rezoomed(v, w)
<1>1. CASE ~v.visible
  BY <1>1, SMT DEF Zoomed, Rezoomed
<1>2. CASE v.visible
  <2>1. v.index # 0
    BY <1>2 DEF Sound
  <2> DEFINE t == IF s > layout.max THEN layout.max ELSE s
  <2>2. t \in Nat /\ [scale |-> t, x |-> 0] \in [scale: Nat, x: Int]
    BY GesturesAssumption, SMT
  <2>3. PICK z \in [scale: Nat, x: Int] : w = [v EXCEPT !.zoom = z] /\ Within(z)
    <3>1. CASE t = 1
      BY <1>2, <3>1, FitWithin DEF Zoomed
    <3>2. CASE t # 1
      <4>1. PICK z \in Panned([scale |-> t, x |-> 0]) : w = [v EXCEPT !.zoom = z]
        BY <1>2, <3>2 DEF Zoomed
      <4>q. QED
        BY <4>1, <2>2, PannedWithin
    <3>q. QED
      BY <3>1, <3>2
  <2>q. QED
    BY <2>1, <2>3, NewZoom
<1>q. QED
  BY <1>1, <1>2 DEF AnyView

LEMMA SnappedRezooms ==
  ASSUME layout \in Layouts, NEW v \in AnyView, Sound(v), NEW w \in Snapped(v)
  PROVE  Rezoomed(v, w)
<1>1. CASE w = v
  BY <1>1, SMT DEF Rezoomed
<1>2. CASE w # v
  <2>1. layout.max \in Nat /\ v.zoom.scale \in Nat
    BY GesturesAssumption, SMT DEF AnyView
  <2>2. PICK s \in {1, layout.max, v.zoom.scale} : w \in Zoomed(v, s)
    BY <1>2, Zenon DEF Snapped
  <2>3. s \in Nat
    BY <2>1, <2>2, SMT
  <2>q. QED
    BY <2>2, <2>3, ZoomedRezooms
<1>q. QED
  BY <1>1, <1>2

LEMMA StillSound ==
  ASSUME layout \in Layouts,
         NEW i \in 0..Photos, NEW g \in Nat, NEW b \in BOOLEAN, i = 0 => ~b
  PROVE  LET w == Still(i, g, b)
         IN  /\ w \in AnyView /\ Sound(w) /\ w.zoom = Fit /\ Within(w.zoom)
             /\ w.index = i /\ w.gen = g /\ w.pan = NoPan /\ w.swipe = 0
<1> DEFINE w == Still(i, g, b)
<1>1. w \in AnyView
  BY FitWithin, SMT DEF Still, AnyView, NoPan, NewPan
<1>2. Sound(w)
  BY SMT DEF Still, Sound, NoPan, NewPan
<1>q. QED
  BY <1>1, <1>2, FitWithin DEF Still

LEMMA ResetZoomFollows ==
  ASSUME layout \in Layouts, NEW v \in AnyView, Sound(v)
  PROVE  /\ Follows(v, ResetZoom(v))
         /\ ResetZoom(v).gen = v.gen /\ ResetZoom(v).index = v.index
         /\ ResetZoom(v).pan = NoPan /\ ResetZoom(v).swipe = 0
<1>1. v.index \in 0..Photos /\ v.gen \in Nat /\ v.visible \in BOOLEAN
      /\ (v.index = 0 => ~v.visible)
  BY SMT DEF AnyView, Sound
<1>q. QED
  BY <1>1, StillSound DEF ResetZoom, Follows

LEMMA ToggledFollows ==
  ASSUME layout \in Layouts, NEW v \in AnyView, Sound(v), NEW w \in Toggled(v)
  PROVE  /\ Follows(v, w) /\ w.gen = v.gen /\ w.index = v.index
         /\ w.pan \in {v.pan, NoPan} /\ w.swipe \in {v.swipe, 0}
<1>1. CASE w = ResetZoom(v)
  BY <1>1, ResetZoomFollows
<1>2. CASE w = v
  BY <1>2 DEF Follows
<1>3. CASE w \in Zoomed(v, layout.max)
  <2>1. layout.max \in Nat
    BY GesturesAssumption, SMT
  <2>2. Rezoomed(v, w)
    BY <1>3, <2>1, ZoomedRezooms
  <2>q. QED
    BY <2>2 DEF Rezoomed, Follows
<1>q. QED
  BY <1>1, <1>2, <1>3 DEF Toggled

LEMMA DisplayedFollows ==
  ASSUME layout \in Layouts, NEW v \in AnyView, NEW i \in 0..Photos
  PROVE  /\ Follows(v, Displayed(v, i))
         /\ Displayed(v, i).gen = v.gen + 1 /\ Displayed(v, i).swipe = 0
         /\ Displayed(v, i).pan = NoPan
<1>1. Displayed(v, i) = Still(i, v.gen + 1, FALSE) /\ v.gen + 1 \in Nat
  BY SMT DEF Displayed, ResetZoom, AnyView
<1> DEFINE w == Still(i, v.gen + 1, FALSE)
<1>2. /\ w \in AnyView /\ Sound(w) /\ w.zoom = Fit /\ Within(w.zoom)
      /\ w.gen = v.gen + 1 /\ w.pan = NoPan /\ w.swipe = 0
  BY <1>1, StillSound
<1>q. QED
  BY <1>1, <1>2 DEF Follows

LEMMA TurnFollows ==
  ASSUME layout \in Layouts, NEW v \in AnyView, Sound(v), NEW dir \in -1..1
  PROVE  /\ Follows(v, Turn(v, dir))
         /\ \/ Turn(v, dir) = v
            \/ /\ Turn(v, dir).gen = v.gen + 1
               /\ Turn(v, dir).swipe = 0 /\ Turn(v, dir).pan = NoPan
<1>1. CASE Turn(v, dir) = v
  BY <1>1 DEF Follows
<1>2. CASE Turn(v, dir) # v
  <2>1. v.index - dir \in 0..Photos /\ Turn(v, dir) = Displayed(v, v.index - dir)
    BY <1>2, GesturesAssumption, SMT DEF Turn
  <2>q. QED
    BY <2>1, DisplayedFollows
<1>q. QED
  BY <1>1, <1>2

LEMMA SetPan ==
  ASSUME NEW v \in AnyView, NEW e \in [gen: Nat, dir: -1..1, far: BOOLEAN]
  PROVE  [v EXCEPT !.pan = e] \in AnyView
  BY SMT DEF AnyView

LEMMA SetPinch ==
  ASSUME NEW v \in AnyView, NEW e \in Nat
  PROVE  [v EXCEPT !.pinch = e] \in AnyView
  BY SMT DEF AnyView

LEMMA SetSwipe ==
  ASSUME NEW v \in AnyView, NEW e \in Nat
  PROVE  [v EXCEPT !.swipe = e] \in AnyView
  BY SMT DEF AnyView

LEMMA SetTap ==
  ASSUME NEW v \in AnyView, NEW e \in Nat
  PROVE  [v EXCEPT !.tap = e] \in AnyView
  BY SMT DEF AnyView

LEMMA SetVisible ==
  ASSUME NEW v \in AnyView, NEW e \in BOOLEAN
  PROVE  [v EXCEPT !.visible = e] \in AnyView
  BY SMT DEF AnyView

\* w is v but for its zoom and how its drag goes on.
Dragged(v, w) ==
  /\ w.index = v.index /\ w.gen = v.gen /\ w.pan.gen = v.pan.gen /\ w.pinch = v.pinch
  /\ w.swipe = v.swipe /\ w.tap = v.tap /\ w.snap = v.snap

LEMMA SetPanParts ==
  ASSUME NEW v \in AnyView, NEW d \in -1..1, NEW far \in BOOLEAN
  PROVE  /\ [v EXCEPT !.pan.dir = d] \in AnyView /\ [v EXCEPT !.pan.far = far] \in AnyView
         /\ Dragged(v, [v EXCEPT !.pan.dir = d]) /\ Dragged(v, [v EXCEPT !.pan.far = far])
<1>1. [v EXCEPT !.pan.dir = d] \in AnyView /\ [v EXCEPT !.pan.far = far] \in AnyView
  BY SMT DEF AnyView
<1>2. Dragged(v, [v EXCEPT !.pan.dir = d])
  BY SMT DEF AnyView, Dragged
<1>3. Dragged(v, [v EXCEPT !.pan.far = far])
  BY SMT DEF AnyView, Dragged
<1>q. QED
  BY <1>1, <1>2, <1>3

LEMMA NewPanType ==
  ASSUME NEW g \in Nat
  PROVE  /\ NewPan(g) \in [gen: Nat, dir: -1..1, far: BOOLEAN] /\ NewPan(g).gen = g
         /\ NoPan \in [gen: Nat, dir: -1..1, far: BOOLEAN] /\ NoPan.gen = 0
  BY SMT DEF NewPan, NoPan

LEMMA FingerDownFollows ==
  ASSUME layout \in Layouts, NEW v \in AnyView, Sound(v), v.visible,
         NEW w \in FingerDown(v)
  PROVE  Follows(v, w) /\ w.gen = v.gen
<1>1. v.index # 0
  BY DEF Sound
<1> DEFINE first == [v EXCEPT !.tap = v.gen]
<1>2. CASE w = [first EXCEPT !.pan = NewPan(v.gen)]
  <2>1. v.gen \in Nat /\ NewPan(v.gen).gen = v.gen
    BY NewPanType DEF AnyView
  <2>2. w \in AnyView
    BY <1>2, <2>1, NewPanType, SetTap, SetPan
  <2>3. /\ w.index = v.index /\ w.gen = v.gen /\ w.zoom = v.zoom
        /\ w.pan = NewPan(v.gen) /\ w.pinch = v.pinch /\ w.swipe = v.swipe
        /\ w.tap = v.gen /\ w.snap = v.snap
    BY <1>2, SMT DEF AnyView
  <2>q. QED
    BY <1>1, <2>1, <2>2, <2>3 DEF Sound, Follows
<1>3. CASE w = [first EXCEPT !.swipe = v.gen]
  <2>1. w \in AnyView
    <3>1. v.gen \in Nat
      BY DEF AnyView
    <3>q. QED
      BY <1>3, <3>1, SetTap, SetSwipe
  <2>2. /\ w.index = v.index /\ w.gen = v.gen /\ w.zoom = v.zoom
        /\ w.pan = v.pan /\ w.pinch = v.pinch /\ w.swipe = v.gen
        /\ w.tap = v.gen /\ w.snap = v.snap
    BY <1>3, SMT DEF AnyView
  <2>q. QED
    BY <1>1, <2>1, <2>2 DEF Sound, Follows
<1>4. ASSUME NEW u \in Toggled(v), w = [u EXCEPT !.tap = 0]
      PROVE  Follows(v, w) /\ w.gen = v.gen
  <2>1. Follows(v, u) /\ u.gen = v.gen
    BY <1>4, ToggledFollows
  <2>q. QED
    BY <1>4, <2>1, SMT DEF AnyView, Sound, Follows
<1>q. QED
  BY <1>2, <1>3, <1>4, Zenon DEF FingerDown

LEMMA PinchStartFollows ==
  ASSUME layout \in Layouts, NEW v \in AnyView, Sound(v), v.visible
  PROVE  LET w == PinchStart(v)
         IN  Follows(v, w) /\ w.gen = v.gen /\ w.pan = NoPan /\ w.swipe = 0
<1>1. v.index # 0
  BY DEF Sound
<1> DEFINE w == PinchStart(v)
<1>2. w \in AnyView
  <2>1. v.gen \in Nat /\ w = [[[v EXCEPT !.pinch = v.gen] EXCEPT !.pan = NoPan] EXCEPT !.swipe = 0]
    BY DEF PinchStart, AnyView
  <2>2. [v EXCEPT !.pinch = v.gen] \in AnyView
    BY <2>1, SetPinch
  <2>3. [[v EXCEPT !.pinch = v.gen] EXCEPT !.pan = NoPan] \in AnyView
    BY <2>2, NewPanType, SetPan
  <2>q. QED
    BY <2>1, <2>3, SetSwipe
<1>3. /\ w.index = v.index /\ w.gen = v.gen /\ w.zoom = v.zoom
      /\ w.pan = NoPan /\ w.pinch = v.gen /\ w.swipe = 0
      /\ w.tap = v.tap /\ w.snap = v.snap
  BY SMT DEF PinchStart, AnyView
<1>4. NoPan.gen = 0
  BY SMT DEF NoPan, NewPan
<1>q. QED
  BY <1>1, <1>2, <1>3, <1>4 DEF Sound, Follows

\* The end of a drag turns a page or none, and afterwards there is no drag; the
\* end of a swipe likewise, which a page turned by the drag has put an end to.
LEMMA ReleasePanFollows ==
  ASSUME layout \in Layouts, NEW v \in AnyView, Sound(v)
  PROVE  LET w == ReleasePan(v)
         IN  /\ Follows(v, w)
             /\ w.gen = v.gen \/ (w.gen = v.gen + 1 /\ w.swipe = 0)
             /\ v.pan = NoPan => w = v
<1>1. CASE v.pan = NoPan
  BY <1>1 DEF ReleasePan, Follows
<1>2. CASE v.pan # NoPan
  <2> DEFINE up == [v EXCEPT !.pan = NoPan]
  <2>1. v.index # 0
    BY <1>2 DEF Sound
  <2>2. up \in AnyView /\ Sound(up) /\ up.gen = v.gen /\ up.zoom = v.zoom /\ up.index = v.index
    <3>1. up \in AnyView
      BY NewPanType, SetPan
    <3>2. /\ up.index = v.index /\ up.gen = v.gen /\ up.zoom = v.zoom
          /\ up.pan = NoPan /\ up.pinch = v.pinch /\ up.swipe = v.swipe
          /\ up.tap = v.tap /\ up.snap = v.snap
      BY SMT DEF AnyView
    <3>3. NoPan.gen = 0
      BY SMT DEF NoPan, NewPan
    <3>q. QED
      BY <2>1, <3>1, <3>2, <3>3 DEF Sound
  <2>3. CASE v.pan.far
    <3>1. v.pan.dir \in -1..1 /\ ReleasePan(v) = Turn(up, v.pan.dir)
      BY <1>2, <2>3, SMT DEF ReleasePan, AnyView
    <3>2. Follows(up, Turn(up, v.pan.dir))
          /\ \/ Turn(up, v.pan.dir) = up
             \/ Turn(up, v.pan.dir).gen = up.gen + 1 /\ Turn(up, v.pan.dir).swipe = 0
      BY <2>2, <3>1, TurnFollows
    <3>q. QED
      BY <1>2, <2>2, <3>1, <3>2 DEF Follows
  <2>4. CASE ~v.pan.far
    <3>1. v.zoom \in [scale: Nat, x: Int]
      BY SMT DEF AnyView
    <3>2. Clamped(v.zoom) \in [scale: Nat, x: Int] /\ Within(Clamped(v.zoom))
      BY <3>1, ClampedWithin
    <3>3. Rezoomed(up, [up EXCEPT !.zoom = Clamped(v.zoom)])
      BY <2>1, <2>2, <3>2, NewZoom
    <3>4. ReleasePan(v) = [up EXCEPT !.zoom = Clamped(v.zoom)]
      BY <1>2, <2>2, <2>4, SMT DEF ReleasePan, AnyView
    <3>q. QED
      BY <1>2, <2>2, <3>3, <3>4 DEF Rezoomed, Follows
  <2>q. QED
    BY <2>3, <2>4
<1>q. QED
  BY <1>1, <1>2

LEMMA ReleaseSwipeFollows ==
  ASSUME layout \in Layouts, NEW v \in AnyView, Sound(v), NEW w \in ReleaseSwipe(v)
  PROVE  /\ Follows(v, w)
         /\ w.gen = v.gen \/ w.gen = v.gen + 1
         /\ v.swipe = 0 => w = v
<1>1. CASE v.swipe = 0
  BY <1>1 DEF ReleaseSwipe, Follows
<1>2. CASE v.swipe # 0
  <2> DEFINE up == [v EXCEPT !.swipe = 0]
  <2>1. up \in AnyView /\ Sound(up) /\ up.gen = v.gen /\ up.zoom = v.zoom
    BY SMT DEF AnyView, Sound
  <2>2. CASE w = up
    BY <1>2, <2>1, <2>2 DEF Follows
  <2>3. ASSUME NEW dir \in {-1, 1}, w = Turn(up, dir)
        PROVE  Follows(v, w) /\ (w.gen = v.gen \/ w.gen = v.gen + 1)
    <3>1. dir \in -1..1
      BY SMT
    <3>2. Follows(up, w) /\ (w = up \/ w.gen = up.gen + 1)
      BY <2>1, <2>3, <3>1, TurnFollows
    <3>q. QED
      BY <2>1, <3>2 DEF Follows
  <2>q. QED
    BY <1>2, <2>2, <2>3, Zenon DEF ReleaseSwipe
<1>q. QED
  BY <1>1, <1>2

LEMMA ReleasePinchFollows ==
  ASSUME layout \in Layouts, NEW v \in AnyView, Sound(v), NEW w \in ReleasePinch(v)
  PROVE  Follows(v, w) /\ w.gen = v.gen /\ w.pan = v.pan /\ w.swipe = v.swipe
<1>1. CASE v.pinch = 0
  BY <1>1 DEF ReleasePinch, Follows
<1>2. CASE v.pinch # 0
  <2> DEFINE up == [v EXCEPT !.pinch = 0]
  <2>1. /\ up \in AnyView /\ Sound(up) /\ up.gen = v.gen /\ up.zoom = v.zoom
        /\ up.pan = v.pan /\ up.swipe = v.swipe
    BY SMT DEF AnyView, Sound
  <2>2. w \in Snapped(up)
    BY <1>2 DEF ReleasePinch
  <2>3. Rezoomed(up, w)
    BY <2>1, <2>2, SnappedRezooms
  <2>q. QED
    BY <2>1, <2>3 DEF Rezoomed, Follows
<1>q. QED
  BY <1>1, <1>2

-----------------------------------------------------------------------------
(* The invariant.                                                          *)

LEMMA BoundedView ==
  ASSUME NEW v \in AnyView, v.gen \in Gens, v.pan.gen \in Gens, v.pinch \in Gens,
         v.swipe \in Gens, v.tap \in Gens, v.snap \in Gens
  PROVE  v \in View
  BY SMT DEF AnyView, View

LEMMA InitHolds ==
  Init => GesturesInv
<1> SUFFICES ASSUME Init PROVE GesturesInv
  OBVIOUS
<1>1. layout \in Layouts /\ 0 \in 0..Photos /\ 0 \in Gens /\ fingers \in 0..MaxFingers
  BY GesturesAssumption, SMT DEF Init, Gens
<1>2. view \in AnyView /\ Sound(view) /\ view.gen = 0
  BY <1>1, StillSound DEF Init
<1>q. QED
  BY <1>1, <1>2 DEF Init, GesturesInv, PinchInv

\* What every step but a touch must show: that view' is sound, and that after a
\* pinch nothing is dragged or swiped that was not.
LEMMA UntouchedStep ==
  ASSUME GesturesInv, layout' \in Layouts, UNCHANGED fingers, pinched' \in {pinched, FALSE},
         view' \in AnyView, Sound(view'), view'.gen \in Gens,
         pinched' /\ fingers > 0 =>
           view'.pan \in {view.pan, NoPan} /\ view'.swipe \in {view.swipe, 0}
  PROVE  GesturesInv'
<1>1. Sound(view)'
  BY SMT DEF Sound, NoPan, NewPan, Fit
<1>2. (view \in AnyView /\ view.gen \in Gens)'
  BY DEF AnyView, Gens
<1>3. PinchInv'
  BY DEF GesturesInv, PinchInv
<1>q. QED
  BY <1>1, <1>2, <1>3 DEF GesturesInv

\* Zooms and drags within bounds, of any kind: a fresh tap aside they leave the
\* gestures alone.
LEMMA MovedStep ==
  ASSUME GesturesInv, UNCHANGED <<layout, fingers, pinched>>,
         NEW v \in AnyView, Sound(v), v.gen = view.gen, v.zoom = view.zoom,
         v.pan \in {view.pan, NoPan}, v.swipe \in {view.swipe, 0},
         Follows(v, view'), view'.gen = v.gen,
         view'.pan \in {v.pan, NoPan}, view'.swipe \in {v.swipe, 0}
  PROVE  GesturesInv' /\ (view'.zoom # view.zoom => Within(view.zoom)')
<1>1. view' \in AnyView /\ Sound(view') /\ view'.gen \in Gens /\ layout' \in Layouts
  BY DEF Follows, GesturesInv
<1>2. GesturesInv'
  BY <1>1, UntouchedStep
<1>3. view'.zoom # view.zoom => Within(view'.zoom)
  BY DEF Follows
<1>q. QED
  BY <1>2, <1>3 DEF Within, Limit

LEMMA PagesKeep ==
  ASSUME GesturesInv, Open \/ Close \/ Shown \/ Resize
  PROVE  GesturesInv' /\ (view'.zoom # view.zoom => Within(view.zoom)')
<1>1. ASSUME NEW i \in 0..Photos, view.gen < MaxGen, view' = Displayed(view, i),
             UNCHANGED <<layout, fingers, pinched>>
      PROVE  GesturesInv' /\ (view'.zoom # view.zoom => Within(view.zoom)')
  <2>1. /\ Follows(view, view') /\ view'.gen = view.gen + 1
        /\ view'.pan = NoPan /\ view'.swipe = 0
    BY <1>1, DisplayedFollows DEF GesturesInv
  <2>2. view' \in AnyView /\ Sound(view') /\ layout' \in Layouts
    BY <1>1, <2>1 DEF Follows, GesturesInv
  <2>3. view'.gen \in Gens
    BY <1>1, <2>1, GesturesAssumption, SMT DEF GesturesInv, Gens
  <2>4. GesturesInv'
    BY <1>1, <2>1, <2>2, <2>3, UntouchedStep
  <2>q. QED
    BY <1>1, <2>1, <2>4 DEF Follows, Within, Limit
<1>2. CASE Open
  <2>1. PICK i \in 1..Photos : view' = Displayed(view, i)
    BY <1>2 DEF Open
  <2>2. i \in 0..Photos
    BY <2>1, SMT
  <2>q. QED
    BY <1>1, <1>2, <2>1, <2>2 DEF Open
<1>3. CASE Close
  <2>1. 0 \in 0..Photos
    BY GesturesAssumption, SMT
  <2>q. QED
    BY <1>1, <1>3, <2>1 DEF Close
<1>4. CASE Shown
  <2>1. view' \in AnyView
    <3>1. view \in AnyView /\ view' = [view EXCEPT !.visible = TRUE]
      BY <1>4 DEF Shown, GesturesInv
    <3>q. QED
      BY <3>1, SetVisible
  <2>2. /\ view'.index = view.index /\ view'.gen = view.gen /\ view'.zoom = view.zoom
        /\ view'.pan = view.pan /\ view'.pinch = view.pinch /\ view'.swipe = view.swipe
        /\ view'.tap = view.tap /\ view'.snap = view.snap
    BY <1>4, SMT DEF Shown, GesturesInv, AnyView
  <2>3. view.index # 0
    BY <1>4, SMT DEF Shown, GesturesInv, AnyView
  <2>4. Sound(view')
    BY <2>2, <2>3 DEF Sound, GesturesInv
  <2>q. QED
    BY <1>4, <2>1, <2>2, <2>4, UntouchedStep DEF Shown, GesturesInv
<1>5. CASE Resize
  BY <1>5, UntouchedStep DEF Resize, GesturesInv
<1>q. QED
  BY <1>2, <1>3, <1>4, <1>5

LEMMA ZoomsKeep ==
  ASSUME GesturesInv, PinchMove \/ WheelZoom \/ KeyZoom \/ SnapFires \/ Toggle \/ KeyReset
  PROVE  GesturesInv' /\ (view'.zoom # view.zoom => Within(view.zoom)')
<1>0. view \in AnyView /\ Sound(view) /\ layout \in Layouts
      /\ \A s : s \in 1..layout.max => s \in Nat
  BY SMT DEF GesturesInv
<1>1. CASE PinchMove \/ KeyZoom
  <2>1. PICK s \in 1..layout.max : view' \in Zoomed(view, s)
    BY <1>1 DEF PinchMove, KeyZoom
  <2>2. Rezoomed(view, view')
    BY <1>0, <2>1, ZoomedRezooms
  <2>q. QED
    BY <1>0, <1>1, <2>2, MovedStep DEF PinchMove, KeyZoom, Rezoomed, Follows
<1>2. CASE WheelZoom
  <2>1. PICK s \in 1..layout.max : \E v \in Zoomed(view, s) : view' = [v EXCEPT !.snap = v.gen]
    BY <1>2 DEF WheelZoom
  <2>1a. PICK v \in Zoomed(view, s) : view' = [v EXCEPT !.snap = v.gen]
    BY <2>1
  <2>2. Rezoomed(view, v)
    BY <1>0, <2>1a, ZoomedRezooms
  <2>3. v.index # 0
    BY <1>0, <1>2, <2>2 DEF WheelZoom, Sound, Rezoomed
  <2>4. view' \in AnyView
    BY <2>1a, <2>2, SMT DEF AnyView, Rezoomed
  <2>5. /\ view'.index = v.index /\ view'.gen = v.gen /\ view'.zoom = v.zoom
        /\ view'.pan = v.pan /\ view'.pinch = v.pinch /\ view'.swipe = v.swipe
        /\ view'.tap = v.tap /\ view'.snap = v.gen
    BY <2>1a, <2>2, SMT DEF AnyView, Rezoomed
  <2>6. Sound(view')
    BY <2>2, <2>3, <2>5 DEF Sound, Rezoomed
  <2>q. QED
    BY <1>0, <1>2, <2>2, <2>4, <2>5, <2>6, MovedStep DEF WheelZoom, Rezoomed, Follows
<1>3. CASE SnapFires
  <2> DEFINE up == [view EXCEPT !.snap = 0]
  <2>1. up \in AnyView
    BY <1>0, SMT DEF AnyView
  <2>2. /\ up.index = view.index /\ up.gen = view.gen /\ up.zoom = view.zoom
        /\ up.visible = view.visible
        /\ up.pan = view.pan /\ up.pinch = view.pinch /\ up.swipe = view.swipe
        /\ up.tap = view.tap /\ up.snap = 0
    BY <1>0, SMT DEF AnyView
  <2>3. Sound(up)
    BY <1>0, <2>2 DEF Sound
  <2>4. Rezoomed(up, view')
    BY <1>0, <1>3, <2>1, <2>3, SnappedRezooms DEF SnapFires
  <2>q. QED
    BY <1>3, <2>1, <2>2, <2>3, <2>4, MovedStep DEF SnapFires, Rezoomed, Follows
<1>4. CASE Toggle
  <2>1. /\ Follows(view, view') /\ view'.gen = view.gen
        /\ view'.pan \in {view.pan, NoPan} /\ view'.swipe \in {view.swipe, 0}
    BY <1>0, <1>4, ToggledFollows DEF Toggle
  <2>q. QED
    BY <1>0, <1>4, <2>1, MovedStep DEF Toggle
<1>5. CASE KeyReset
  BY <1>0, <1>5, ResetZoomFollows, MovedStep DEF KeyReset
<1>q. QED
  BY <1>1, <1>2, <1>3, <1>4, <1>5

LEMMA DragsKeep ==
  ASSUME GesturesInv, Drag
  PROVE  GesturesInv'
<1>1. /\ view \in AnyView /\ Sound(view) /\ layout \in Layouts
      /\ view.index # 0 /\ ~pinched /\ UNCHANGED <<layout, fingers, pinched>>
  <2>1. view \in AnyView /\ Sound(view) /\ layout \in Layouts /\ PinchInv
        /\ fingers = 1 /\ view.pan # NoPan /\ UNCHANGED <<layout, fingers, pinched>>
    BY DEF Drag, GesturesInv
  <2>2. view.index # 0
    BY <2>1 DEF Sound
  <2>3. ~pinched
    BY <2>1, SMT DEF PinchInv
  <2>q. QED
    BY <2>1, <2>2, <2>3
<1>2. PICK z \in [scale: Nat, x: Int], d \in -1..1, far \in BOOLEAN :
        view' = [[[view EXCEPT !.zoom = z] EXCEPT !.pan.dir = d] EXCEPT !.pan.far = far]
  <2>1. CASE \E z \in Panned(view.zoom) :
               view' = [view EXCEPT !.zoom = z, !.pan.dir = 0, !.pan.far = FALSE]
    <3>1. PICK z \in Panned(view.zoom) :
            view' = [view EXCEPT !.zoom = z, !.pan.dir = 0, !.pan.far = FALSE]
      BY <2>1
    <3>2. z \in [scale: Nat, x: Int] /\ 0 \in -1..1
      BY <1>1, PannedWithin, SMT DEF AnyView
    <3>q. QED
      BY <3>1, <3>2
  <2>2. CASE \E dir \in {-1, 1}, far \in BOOLEAN :
               view' = [view EXCEPT !.zoom = Overdragged(@, dir), !.pan.dir = dir, !.pan.far = far]
    <3>1. PICK dir \in {-1, 1}, far \in BOOLEAN :
            view' = [view EXCEPT !.zoom = Overdragged(@, dir), !.pan.dir = dir, !.pan.far = far]
      BY <2>2
    <3>2. Limit(view.zoom.scale) \in Nat /\ view.zoom \in [scale: Nat, x: Int] /\ dir \in -1..1
      BY <1>1, LimitNat, SMT DEF AnyView
    <3>3. Overdragged(view.zoom, dir) \in [scale: Nat, x: Int]
      <4>1. dir * (Limit(view.zoom.scale) + 1) \in Int
        BY <3>2, SMT
      <4>q. QED
        BY <3>2, <4>1, SMT DEF Overdragged
    <3>q. QED
      BY <3>1, <3>2, <3>3
  <2>q. QED
    BY <2>1, <2>2 DEF Drag
<1> DEFINE y1 == [view EXCEPT !.zoom = z]
           y2 == [y1 EXCEPT !.pan.dir = d]
<1>3. y1 \in AnyView /\ Dragged(view, y1)
  <2>1. y1 \in AnyView
    BY <1>1, SMT DEF AnyView
  <2>q. QED
    BY <1>1, <2>1, SMT DEF AnyView, Dragged
<1>4. view' \in AnyView /\ Dragged(view, view')
  <2>1. y2 \in AnyView /\ Dragged(y1, y2)
    BY <1>3, SetPanParts
  <2>2. view' \in AnyView /\ Dragged(y2, view')
    BY <1>2, <2>1, SetPanParts
  <2>q. QED
    BY <1>3, <2>1, <2>2 DEF Dragged
<1>5. Sound(view') /\ view'.gen \in Gens /\ layout' \in Layouts
  BY <1>1, <1>4 DEF Sound, GesturesInv, Dragged
<1>q. QED
  BY <1>1, <1>4, <1>5, UntouchedStep

LEMMA MouseKeeps ==
  ASSUME GesturesInv, MouseDown \/ MouseMove \/ MouseUp \/ WheelPan
  PROVE  GesturesInv' /\ (view'.zoom # view.zoom => Within(view.zoom)')
<1>0. view \in AnyView /\ Sound(view) /\ layout \in Layouts /\ view.zoom \in [scale: Nat, x: Int]
      /\ view.gen \in Nat /\ view.gen \in Gens
  BY SMT DEF GesturesInv, AnyView
<1>1. CASE MouseDown
  <2>1. view.index # 0 /\ view' = [view EXCEPT !.pan = NewPan(view.gen)]
        /\ pinched' = FALSE /\ UNCHANGED <<layout, fingers>>
    BY <1>0, <1>1, SMT DEF MouseDown, Sound
  <2>2. view' \in AnyView
    BY <1>0, <2>1, NewPanType, SetPan
  <2>3. /\ view'.index = view.index /\ view'.gen = view.gen /\ view'.zoom = view.zoom
        /\ view'.pan = NewPan(view.gen) /\ view'.pinch = view.pinch
        /\ view'.swipe = view.swipe /\ view'.tap = view.tap /\ view'.snap = view.snap
    BY <1>0, <2>1, SMT DEF AnyView
  <2>4. Sound(view')
    BY <1>0, <2>1, <2>3, NewPanType DEF Sound
  <2>q. QED
    BY <1>0, <2>1, <2>2, <2>3, <2>4, UntouchedStep
<1>2. CASE MouseMove \/ WheelPan
  <2>1. PICK z \in Panned(view.zoom) : view' = [view EXCEPT !.zoom = z]
    BY <1>2 DEF MouseMove, WheelPan
  <2>2. z \in [scale: Nat, x: Int] /\ Within(z) /\ view.index # 0
    BY <1>0, <1>2, <2>1, PannedWithin DEF MouseMove, WheelPan, Sound
  <2>3. Rezoomed(view, view')
    BY <1>0, <2>1, <2>2, NewZoom
  <2>q. QED
    BY <1>0, <1>2, <2>3, MovedStep DEF MouseMove, WheelPan, Rezoomed, Follows
<1>3. CASE MouseUp
  <2> DEFINE up == [view EXCEPT !.pan = NoPan]
  <2>1. view.index # 0 /\ view' = up /\ UNCHANGED <<layout, fingers, pinched>>
    BY <1>0, <1>3 DEF MouseUp, Sound
  <2>2. view' \in AnyView
    BY <1>0, <2>1, NewPanType, SetPan
  <2>3. /\ view'.index = view.index /\ view'.gen = view.gen /\ view'.zoom = view.zoom
        /\ view'.pan = NoPan /\ view'.pinch = view.pinch
        /\ view'.swipe = view.swipe /\ view'.tap = view.tap /\ view'.snap = view.snap
    BY <1>0, <2>1, SMT DEF AnyView
  <2>4. Sound(view')
    BY <1>0, <2>1, <2>3, NewPanType DEF Sound
  <2>q. QED
    BY <1>0, <2>1, <2>2, <2>3, <2>4, UntouchedStep
<1>q. QED
  BY <1>1, <1>2, <1>3

LEMMA TouchesKeep ==
  ASSUME GesturesInv, NEW n \in 0..MaxFingers, TouchStart(n) \/ TouchEnd(n) \/ TouchLost(n)
  PROVE  /\ GesturesInv'
         /\ view'.zoom # view.zoom => Within(view.zoom)'
         /\ fingers' < fingers => view'.gen \in view.gen..(IF pinched THEN view.gen ELSE view.gen + 1)
<1>0. /\ view \in AnyView /\ Sound(view) /\ layout \in Layouts /\ pinched \in BOOLEAN
      /\ fingers \in Nat /\ n \in Nat /\ view.gen \in Nat /\ view.gen \in Gens
  BY GesturesAssumption, SMT DEF GesturesInv, AnyView
<1>1. CASE TouchStart(n)
  <2>1. /\ view.visible /\ n > fingers /\ fingers' = n /\ UNCHANGED layout
        /\ pinched' = (n = 2 \/ (pinched /\ fingers > 0))
    BY <1>1 DEF TouchStart
  <2>2. Follows(view, view') /\ view'.gen = view.gen
        /\ (pinched' => view'.pan = NoPan /\ view'.swipe = 0)
    <3>1. CASE n = 2
      BY <1>0, <1>1, <2>1, <3>1, PinchStartFollows DEF TouchStart
    <3>2. CASE n = 1
      <4>1. view' \in FingerDown(view)
        BY <1>1, <3>2 DEF TouchStart
      <4>2. ~pinched'
        <5>1. n # 2 /\ ~(fingers > 0)
          BY <1>0, <2>1, <3>2, SMT
        <5>q. QED
          BY <2>1, <5>1
      <4>q. QED
        BY <1>0, <2>1, <4>1, <4>2, FingerDownFollows
    <3>3. CASE n \notin {1, 2}
      <4>1. view' = view
        BY <1>1, <3>3 DEF TouchStart
      <4>2. pinched' => pinched /\ fingers > 0
        BY <2>1, <3>3
      <4>q. QED
        BY <1>0, <4>1, <4>2 DEF Follows, GesturesInv, PinchInv
    <3>q. QED
      BY <3>1, <3>2, <3>3
  <2>3. GesturesInv'
    <3>1. Sound(view)' /\ (view \in AnyView /\ view.gen \in Gens)'
      BY <1>0, <2>2 DEF Follows, Sound, AnyView, Gens, NoPan, NewPan, Fit
    <3>2. PinchInv'
      BY <2>2 DEF PinchInv, NoPan, NewPan
    <3>3. fingers' \in 0..MaxFingers /\ pinched' \in BOOLEAN /\ layout' \in Layouts
      BY <1>0, <2>1
    <3>q. QED
      BY <3>1, <3>2, <3>3 DEF GesturesInv
  <2>4. ~(fingers' < fingers)
    BY <1>0, <2>1, SMT
  <2>q. QED
    BY <2>1, <2>2, <2>3, <2>4 DEF Follows, Within, Limit
<1>2. CASE TouchEnd(n)
  <2>1. n < fingers /\ fingers' = n /\ UNCHANGED <<layout, pinched>> /\ view'.gen <= MaxGen
    BY <1>2 DEF TouchEnd
  <2>2. PICK v \in IF n < 2 THEN ReleasePinch(view) ELSE {view} :
          view' \in IF n = 0 THEN ReleaseSwipe(ReleasePan(v)) ELSE {v}
    BY <1>2 DEF TouchEnd
  <2>3. Follows(view, v) /\ v.gen = view.gen /\ v.pan = view.pan /\ v.swipe = view.swipe
    <3>1. CASE n < 2
      BY <1>0, <2>2, <3>1, ReleasePinchFollows
    <3>2. CASE ~(n < 2)
      BY <1>0, <2>2, <3>2 DEF Follows
    <3>q. QED
      BY <3>1, <3>2
  <2>4. /\ Follows(view, view') /\ view'.gen \in {view.gen, view.gen + 1}
        /\ v.pan = NoPan /\ v.swipe = 0 => view' = v
    <3>1. CASE n # 0
      BY <2>2, <2>3, <3>1
    <3>2. CASE n = 0
      <4> DEFINE u == ReleasePan(v)
      <4>1. v \in AnyView /\ Sound(v)
        BY <2>3 DEF Follows
      <4>2. /\ Follows(v, u)
            /\ u.gen = v.gen \/ (u.gen = v.gen + 1 /\ u.swipe = 0)
            /\ v.pan = NoPan => u = v
        BY <1>0, <4>1, ReleasePanFollows
      <4>3. u \in AnyView /\ Sound(u) /\ view' \in ReleaseSwipe(u)
        BY <2>2, <3>2, <4>2 DEF Follows
      <4>4. /\ Follows(u, view')
            /\ view'.gen = u.gen \/ view'.gen = u.gen + 1
            /\ u.swipe = 0 => view' = u
        BY <1>0, <4>3, ReleaseSwipeFollows
      <4>5. Follows(view, view')
        BY <2>3, <4>2, <4>4 DEF Follows
      <4>q. QED
        BY <2>3, <4>2, <4>4, <4>5
    <3>q. QED
      BY <3>1, <3>2
  <2>5. pinched => view'.gen = view.gen /\ view'.pan = NoPan /\ view'.swipe = 0
    <3>1. pinched => view.pan = NoPan /\ view.swipe = 0
      BY <1>0, <2>1, SMT DEF GesturesInv, PinchInv
    <3>q. QED
      BY <2>3, <2>4, <3>1
  <2>6. GesturesInv'
    <3>1. view'.gen \in Gens
      BY <1>0, <2>1, <2>4, GesturesAssumption, SMT DEF Gens, Follows, AnyView
    <3>2. Sound(view)' /\ (view \in AnyView /\ view.gen \in Gens)'
      BY <2>4, <3>1 DEF Follows, Sound, AnyView, Gens, NoPan, NewPan, Fit
    <3>3. PinchInv'
      BY <2>1, <2>5 DEF PinchInv, NoPan, NewPan
    <3>4. fingers' \in 0..MaxFingers /\ pinched' \in BOOLEAN /\ layout' \in Layouts
      BY <1>0, <2>1
    <3>q. QED
      BY <3>2, <3>3, <3>4 DEF GesturesInv
  <2>7. view'.gen \in view.gen..(IF pinched THEN view.gen ELSE view.gen + 1)
    <3>1. CASE pinched
      BY <1>0, <2>5, <3>1, SMT
    <3>2. CASE ~pinched
      BY <1>0, <2>4, <3>2, SMT
    <3>q. QED
      BY <3>1, <3>2
  <2>q. QED
    BY <2>1, <2>4, <2>6, <2>7 DEF Follows, Within, Limit
<1>3. CASE TouchLost(n)
  <2>1. n < fingers /\ fingers' = n /\ UNCHANGED <<view, layout, pinched>>
    BY <1>3 DEF TouchLost
  <2>2. fingers' > 0 => fingers > 0
    BY <1>0, <2>1, SMT
  <2>3. GesturesInv'
    BY <1>0, <2>1, <2>2 DEF GesturesInv, PinchInv, Sound, AnyView, Gens, NoPan, NewPan, Fit
  <2>4. view'.gen \in view.gen..(IF pinched THEN view.gen ELSE view.gen + 1)
    BY <1>0, <2>1, SMT
  <2>q. QED
    BY <2>1, <2>3, <2>4
<1>q. QED
  BY <1>1, <1>2, <1>3

-----------------------------------------------------------------------------
(* The theorems.                                                           *)

LEMMA StepKeeps ==
  GesturesInv /\ [Next]_vars =>
    /\ GesturesInv'
    /\ [view'.zoom # view.zoom => Within(view.zoom)' \/ Drag]_vars
    /\ [fingers' < fingers =>
         view'.gen \in view.gen..(IF pinched THEN view.gen ELSE view.gen + 1)]_vars
<1> SUFFICES ASSUME GesturesInv, [Next]_vars
    PROVE  /\ GesturesInv'
           /\ view'.zoom # view.zoom => Within(view.zoom)' \/ Drag
           /\ fingers' < fingers =>
                view'.gen \in view.gen..(IF pinched THEN view.gen ELSE view.gen + 1)
  OBVIOUS
<1>0. fingers \in Nat
  BY GesturesAssumption, SMT DEF GesturesInv
<1>1. CASE Open \/ Close \/ Shown \/ Resize
  <2>1. fingers' = fingers
    BY <1>1 DEF Open, Close, Shown, Resize
  <2>q. QED
    BY <1>0, <1>1, <2>1, PagesKeep, SMT
<1>2. ASSUME NEW n \in 0..MaxFingers, TouchStart(n) \/ TouchEnd(n) \/ TouchLost(n)
      PROVE  /\ GesturesInv'
             /\ view'.zoom # view.zoom => Within(view.zoom)' \/ Drag
             /\ fingers' < fingers =>
                  view'.gen \in view.gen..(IF pinched THEN view.gen ELSE view.gen + 1)
  BY <1>2, TouchesKeep
<1>3. CASE PinchMove \/ WheelZoom \/ KeyZoom \/ SnapFires \/ Toggle \/ KeyReset
  <2>1. fingers' = fingers
    BY <1>3 DEF PinchMove, WheelZoom, KeyZoom, SnapFires, Toggle, KeyReset
  <2>q. QED
    BY <1>0, <1>3, <2>1, ZoomsKeep, SMT
<1>4. CASE Drag
  <2>1. fingers' = fingers
    BY <1>4 DEF Drag
  <2>q. QED
    BY <1>0, <1>4, <2>1, DragsKeep, SMT
<1>5. CASE MouseDown \/ MouseMove \/ MouseUp \/ WheelPan
  <2>1. fingers' = fingers
    BY <1>5 DEF MouseDown, MouseMove, MouseUp, WheelPan
  <2>q. QED
    BY <1>0, <1>5, <2>1, MouseKeeps, SMT
<1>6. CASE UNCHANGED vars
  <2>1. GesturesInv'
    BY <1>6 DEF vars, GesturesInv, PinchInv, Sound, AnyView, Gens, NoPan, NewPan, Fit
  <2>2. UNCHANGED <<view, fingers>>
    BY <1>6 DEF vars
  <2>q. QED
    BY <1>0, <2>1, <2>2, SMT
<1>q. QED
  BY <1>1, <1>2, <1>3, <1>4, <1>5, <1>6 DEF Next

\* The inductive invariant of the gestures: what is under way began on the display
\* on screen, and a touch that was a pinch holds neither a drag nor a swipe until
\* the mouse begins a drag.
THEOREM GestureInvariant ==
  Spec => []GesturesInv
<1>1. GesturesInv /\ [Next]_vars => GesturesInv'
  BY StepKeeps
<1>q. QED
  BY InitHolds, <1>1, PTL DEF Spec

\* Type correctness; every gesture is one of a display so far.
THEOREM TypeCorrect ==
  Spec => []TypeOK
<1>1. GesturesInv => TypeOK
  <2> SUFFICES ASSUME GesturesInv PROVE TypeOK
    OBVIOUS
  <2>1. view \in AnyView /\ 0 \in Gens /\ view.gen \in Gens
    BY GesturesAssumption, SMT DEF GesturesInv, Gens
  <2>2. /\ view.pan.gen \in Gens /\ view.pinch \in Gens /\ view.swipe \in Gens
        /\ view.tap \in Gens /\ view.snap \in Gens
    BY <2>1 DEF GesturesInv, Sound
  <2>q. QED
    BY <2>1, <2>2, BoundedView DEF GesturesInv, TypeOK
<1>q. QED
  BY <1>1, GestureInvariant, PTL

\* No drag, pinch, swipe, tap or timer outlives the photo it began on.
THEOREM GesturesAreOfPhoto ==
  Spec => []GesturesOfPhoto
<1>1. GesturesInv => GesturesOfPhoto
  BY DEF GesturesInv, GesturesOfPhoto, Sound
<1>q. QED
  BY <1>1, GestureInvariant, PTL

\* Only a live touch drag moves the image past its edges.
THEOREM OnlyDragsMayOverreach ==
  Spec => OnlyDragsOverreach
<1>1. GesturesInv /\ [Next]_vars => [view'.zoom # view.zoom => Within(view.zoom)' \/ Drag]_vars
  BY StepKeeps
<1>q. QED
  BY <1>1, GestureInvariant, PTL DEF Spec, OnlyDragsOverreach

\* Lifting fingers opens one photo at most, and none after a pinch during which
\* the mouse has begun no drag.
THEOREM LiftOpensOnePhoto ==
  Spec => LiftTurnsOnePage
<1>1. GesturesInv /\ [Next]_vars =>
        [fingers' < fingers =>
           view'.gen \in view.gen..(IF pinched THEN view.gen ELSE view.gen + 1)]_vars
  BY StepKeeps
<1>q. QED
  BY <1>1, GestureInvariant, PTL DEF Spec, LiftTurnsOnePage
=============================================================================
