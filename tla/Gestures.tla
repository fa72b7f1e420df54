------------------------------- MODULE Gestures -------------------------------
(***************************************************************************)
(* Zoom, pan and the touch gestures of the viewer (frontend/js/lightbox.js *)
(* 38-49, 87-123, 415-739): what a finger, the mouse, the wheel, a key or  *)
(* a timer does to the photo on screen, and when it turns the page.        *)
(*                                                                         *)
(* The image has one dimension, its width, and small integer scales: scale *)
(* 1 is Fit, and at scale s it can be dragged Limit(s) to either side.     *)
(***************************************************************************)
EXTENDS Integers

CONSTANTS
  Photos,      \* how many photos previous() and next() move among, all loaded
  MaxGen,      \* bound of mediaGeneration
  MaxFingers,  \* bound of the fingers on the image
  Layouts      \* how a photo may lie in the window: its native zoom, and how
               \* much zoom its margins swallow before it overflows

ASSUME GesturesAssumption ==
  /\ Photos \in Nat /\ MaxGen \in Nat /\ MaxFingers \in Nat
  /\ Layouts \subseteq [max: Nat \ {0}, margin: Nat]

(* A definition named X_Y is X with the bug Y, for the mutation runs only. *)

VARIABLES
  view,     \* the viewer and its gestures: see View
  layout,   \* the Layout of now: a turned device changes it
  fingers,  \* e.touches.length, of the fingers that came down on the image
  pinched   \* history: a pinch has begun since the image was last untouched,
            \* and the mouse has begun no drag since the pinch

vars == <<view, layout, fingers, pinched>>

\* A drag of a display that has not reached an edge, and none.
NewPan(gen) == [gen |-> gen, dir |-> 0, far |-> FALSE]
NoPan == NewPan(0)

Fit == [scale |-> 1, x |-> 0]

Gens == 0..MaxGen

\* A gesture is known by the display it began on, 0 if it is not going on.
View ==
  [index: 0..Photos,                \* currentIndex + 1
   gen: Gens,                       \* mediaGeneration
   visible: BOOLEAN,                \* the image is not hidden
   zoom: [scale: Nat, x: Int],
   pan: [gen: Gens, dir: -1..1, far: BOOLEAN],  \* _isPanning and _panPointer:
                                    \* overdragDir, and overdragAmount > EDGE_HANDOFF_PX
   pinch: Gens, swipe: Gens, tap: Gens,  \* _pinch, _swipePointer, _lastTap
   snap: Gens]                      \* _wheelZoomSnapTimer

\* No gesture under way.
Still(index, gen, visible) ==
  [index |-> index, gen |-> gen, visible |-> visible, zoom |-> Fit, pan |-> NoPan,
   pinch |-> 0, swipe |-> 0, tap |-> 0, snap |-> 0]

Init ==
  /\ view = Still(0, 0, FALSE)
  /\ layout \in Layouts /\ fingers = 0 /\ pinched = FALSE

-----------------------------------------------------------------------------
(* Zoom and pan.                                                           *)

\* _panLimits
Limit(scale) ==
  IF scale > 1 + layout.margin THEN scale - 1 - layout.margin ELSE 0

Within(zoom) == zoom.x \in -Limit(zoom.scale)..Limit(zoom.scale)

\* _clampPan, without and with the rubber band: past the edge is one step past it.
Clamped(zoom) ==
  LET max == Limit(zoom.scale)
  IN  [zoom EXCEPT !.x = IF @ > max THEN max ELSE IF @ < -max THEN -max ELSE @]

Panned(zoom) == {[zoom EXCEPT !.x = x] : x \in -Limit(zoom.scale)..Limit(zoom.scale)}

Overdragged(zoom, dir) == [zoom EXCEPT !.x = dir * (Limit(zoom.scale) + 1)]

\* _zoomAt: any point may be the one that stays where it is.
Zoomed_Unclamped(v, scale) ==
  LET s == IF scale > layout.max THEN layout.max ELSE scale
  IN  IF ~v.visible THEN {v}
      ELSE {[v EXCEPT !.zoom = [scale |-> s, x |-> x]] : x \in {-s, 0, s}}

Zoomed(v, scale) ==
  LET s == IF scale > layout.max THEN layout.max ELSE scale
  IN  IF ~v.visible THEN {v}
      ELSE IF s = 1 THEN {[v EXCEPT !.zoom = Fit]}
      ELSE {[v EXCEPT !.zoom = z] : z \in Panned([scale |-> s, x |-> 0])}

\* _snapZoomToStop: to Fit or to 100 %, whichever is near, if one is. With
\* nothing between them only what lies on a stop is near it.
Snapped(v) ==
  LET stops == {1, layout.max}
      onStop == v.zoom.scale \in stops
  IN  (IF onStop THEN {} ELSE {v})
        \cup UNION {Zoomed(v, s) : s \in IF onStop THEN {v.zoom.scale}
                                        ELSE IF layout.max > 1 THEN stops ELSE {}}

\* resetZoom
ResetZoom_KeepsTimer(v) == [Still(v.index, v.gen, v.visible) EXCEPT !.snap = v.snap]

ResetZoom(v) == Still(v.index, v.gen, v.visible)

\* toggleZoomAt
Toggled(v) ==
  IF v.zoom.scale > 1 THEN {ResetZoom(v)}
  ELSE IF layout.max > 1 THEN Zoomed(v, layout.max)
  ELSE {v}

-----------------------------------------------------------------------------
(* Opening, closing, and turning the page.                                 *)

\* open and displayMedia: the image is hidden until its original is decoded.
Displayed(v, i) ==
  ResetZoom([v EXCEPT !.index = i, !.gen = v.gen + 1, !.visible = FALSE])

\* previous() for a drag to the right (1), next() for one to the left (-1).
Turn(v, dir) ==
  IF v.index > 0 /\ v.index - dir \in 1..Photos THEN Displayed(v, v.index - dir) ELSE v

Open ==
  /\ view.gen < MaxGen
  /\ \E i \in 1..Photos : view' = Displayed(view, i)
  /\ UNCHANGED <<layout, fingers, pinched>>

Close ==
  /\ view.index > 0 /\ view.gen < MaxGen
  /\ view' = Displayed(view, 0)
  /\ UNCHANGED <<layout, fingers, pinched>>

\* The original is decoded: how far it can be zoomed depends on its size.
Shown ==
  /\ view.index > 0 /\ ~view.visible
  /\ view' = [view EXCEPT !.visible = TRUE]
  /\ layout' \in Layouts
  /\ UNCHANGED <<fingers, pinched>>

\* The window changes; the code does not listen.
Resize ==
  /\ layout' \in Layouts
  /\ UNCHANGED <<view, fingers, pinched>>

-----------------------------------------------------------------------------
(* Touch.                                                                  *)

\* The second finger begins a pinch and ends whatever the first was doing.
PinchStart_KeepsSwipe(v) == [v EXCEPT !.pinch = v.gen, !.pan = NoPan]

PinchStart(v) == [v EXCEPT !.pinch = v.gen, !.pan = NoPan, !.swipe = 0]

\* The first finger: a second tap, or the start of a drag or of a swipe.
FingerDown(v) ==
  LET first == [v EXCEPT !.tap = v.gen]
  IN  {IF v.zoom.scale > 1 THEN [first EXCEPT !.pan = NewPan(v.gen)]
       ELSE [first EXCEPT !.swipe = v.gen]}
        \cup (IF v.tap = 0 THEN {} ELSE {[w EXCEPT !.tap = 0] : w \in Toggled(v)})

\* touchstart: several fingers may come down at once; a third is ignored.
TouchStart(n) ==
  /\ view.visible /\ n > fingers /\ fingers' = n
  /\ view' \in IF n = 2 THEN {PinchStart(view)}
               ELSE IF n = 1 THEN FingerDown(view) ELSE {view}
  /\ pinched' = (n = 2 \/ (pinched /\ fingers > 0))
  /\ UNCHANGED layout

\* touchmove of a pinch
PinchMove ==
  /\ fingers = 2 /\ view.pinch # 0
  /\ \E s \in 1..layout.max : view' \in Zoomed(view, s)
  /\ UNCHANGED <<layout, fingers, pinched>>

\* touchmove of a drag, which records how far past the edge it is.
Drag ==
  /\ fingers = 1 /\ view.pan # NoPan
  /\ \/ \E z \in Panned(view.zoom) :
          view' = [view EXCEPT !.zoom = z, !.pan.dir = 0, !.pan.far = FALSE]
     \/ \E dir \in {-1, 1}, far \in BOOLEAN :
          view' = [view EXCEPT !.zoom = Overdragged(@, dir), !.pan.dir = dir, !.pan.far = far]
  /\ UNCHANGED <<layout, fingers, pinched>>

\* touchend with no finger left: a drag far past the edge turns the page, any
\* other springs back; then a swipe turns it or not.
ReleasePan(v) ==
  LET up == [v EXCEPT !.pan = NoPan]
  IN  IF v.pan = NoPan THEN v
      ELSE IF v.pan.far THEN Turn(up, v.pan.dir)
      ELSE [up EXCEPT !.zoom = Clamped(@)]

ReleaseSwipe(v) ==
  LET up == [v EXCEPT !.swipe = 0]
  IN  IF v.swipe = 0 THEN {v} ELSE {up} \cup {Turn(up, dir) : dir \in {-1, 1}}

ReleasePinch(v) == IF v.pinch = 0 THEN {v} ELSE Snapped([v EXCEPT !.pinch = 0])

TouchEnd(n) ==
  /\ n < fingers /\ fingers' = n
  /\ \E v \in IF n < 2 THEN ReleasePinch(view) ELSE {view} :
       view' \in IF n = 0 THEN ReleaseSwipe(ReleasePan(v)) ELSE {v}
  /\ view'.gen <= MaxGen
  /\ UNCHANGED <<layout, pinched>>

\* touchcancel, and a finger that ends elsewhere: no listener of the image runs.
TouchLost(n) ==
  /\ n < fingers /\ fingers' = n
  /\ UNCHANGED <<view, layout, pinched>>

-----------------------------------------------------------------------------
(* Mouse, wheel, keys and the zoom chip.                                   *)

\* mousedown looks at the scale only: a finger may be down, the last one of a
\* pinch too, and then moves the drag that begins here.
MouseDown ==
  /\ view.visible /\ view.zoom.scale > 1
  /\ view' = [view EXCEPT !.pan = NewPan(view.gen)]
  /\ pinched' = FALSE
  /\ UNCHANGED <<layout, fingers>>

MouseMove ==
  /\ view.pan # NoPan
  /\ \E z \in Panned(view.zoom) : view' = [view EXCEPT !.zoom = z]
  /\ UNCHANGED <<layout, fingers, pinched>>

MouseUp ==
  /\ view.pan # NoPan
  /\ view' = [view EXCEPT !.pan = NoPan]
  /\ UNCHANGED <<layout, fingers, pinched>>

\* A pinch on a trackpad; a pause of 150 ms is its end.
WheelZoom ==
  /\ view.visible
  /\ \E s \in 1..layout.max : \E v \in Zoomed(view, s) : view' = [v EXCEPT !.snap = v.gen]
  /\ UNCHANGED <<layout, fingers, pinched>>

WheelPan ==
  /\ view.visible /\ view.zoom.scale > 1
  /\ \E z \in Panned(view.zoom) : view' = [view EXCEPT !.zoom = z]
  /\ UNCHANGED <<layout, fingers, pinched>>

SnapFires ==
  /\ view.snap # 0
  /\ view' \in Snapped([view EXCEPT !.snap = 0])
  /\ UNCHANGED <<layout, fingers, pinched>>

\* dblclick, the chip in the toolbar, + and -, and 0
Toggle ==
  /\ view.index > 0
  /\ view' \in Toggled(view)
  /\ UNCHANGED <<layout, fingers, pinched>>

KeyZoom ==
  /\ view.index > 0
  /\ \E s \in 1..layout.max : view' \in Zoomed(view, s)
  /\ UNCHANGED <<layout, fingers, pinched>>

KeyReset ==
  /\ view.index > 0
  /\ view' = ResetZoom(view)
  /\ UNCHANGED <<layout, fingers, pinched>>

Next ==
  \/ Open \/ Close \/ Shown \/ Resize
  \/ \E n \in 0..MaxFingers : TouchStart(n) \/ TouchEnd(n) \/ TouchLost(n)
  \/ PinchMove \/ Drag \/ MouseDown \/ MouseMove \/ MouseUp
  \/ WheelZoom \/ WheelPan \/ SnapFires \/ Toggle \/ KeyZoom \/ KeyReset

Spec == Init /\ [][Next]_vars

-----------------------------------------------------------------------------
TypeOK ==
  /\ view \in View /\ layout \in Layouts
  /\ fingers \in 0..MaxFingers /\ pinched \in BOOLEAN

\* No gesture outlives its photo: whatever is going on, a timer included, began
\* on the display that is on screen, so that it cannot zoom, drag or leave another.
GesturesOfPhoto ==
  /\ {view.pan.gen, view.pinch, view.swipe, view.tap, view.snap} \subseteq {0, view.gen}
  /\ view.index = 0 => view.pan = NoPan /\ view.snap = 0 /\ view.zoom = Fit

\* "used while a touch drag is live so the edge feels soft instead of a wall":
\* whatever else moves or zooms the image leaves no empty space beside it.
OnlyDragsOverreach == [][view'.zoom # view.zoom => Within(view.zoom)' \/ Drag]_vars

\* Lifting fingers opens one photo at most, whatever branches of touchend run
\* (lightbox.js:706-738), and none when the touch was a pinch, unless the mouse
\* has begun a drag under the fingers of that pinch (lightbox.js:589-595).
LiftTurnsOnePage ==
  [][fingers' < fingers => view'.gen \in view.gen..(IF pinched THEN view.gen ELSE view.gen + 1)]_vars
=============================================================================
