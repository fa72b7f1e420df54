--------------------------------- MODULE Page ---------------------------------
(***************************************************************************)
(* The page around the viewer: the images of the grid and the drawers,     *)
(* composed with a viewer that opens and closes over them (lightbox.js,    *)
(* gallery.js 75-99). The viewer only tells the grid, through State, that  *)
(* it opened or closed; what it shows is Lightbox's.                       *)
(***************************************************************************)
EXTENDS GridImages, Drawers

VARIABLE open  \* the viewer is not hidden: lightboxAssetId is not null

vars == <<tiles, size, paused, observing, drawers, feed, open>>

Init == GridInit /\ DrawersInit /\ open = FALSE

-----------------------------------------------------------------------------
\* A tile, previous() or next(), or an item of the feed is clicked.
OpenPhoto ==
  /\ open \/ DOMAIN tiles # {} \/ (drawers.activity /\ feed = "list")
  /\ open' = TRUE /\ Pause
  /\ UNCHANGED drawerVars

ClosePhoto ==
  /\ open /\ open' = FALSE /\ Resume
  /\ UNCHANGED drawerVars

\* A person of the photo: the viewer closes and, if the person is new to the
\* filters, their panel opens.
PersonClick ==
  /\ open /\ open' = FALSE /\ Resume
  /\ drawers' \in {drawers, ShowPanel(drawers)}
  /\ UNCHANGED feed

\* Escape: the viewer's listener was registered first, so that the drawers' one
\* finds the viewer closed and goes on to close a drawer as well.
Escape(inSearch) ==
  /\ open' = FALSE
  /\ IF open THEN Resume ELSE UNCHANGED gridVars
  /\ drawers' = Escaped(drawers, inSearch)
  /\ UNCHANGED feed

Next ==
  \/ OpenPhoto \/ ClosePhoto \/ PersonClick
  \/ \E inSearch \in BOOLEAN : Escape(inSearch)
  \/ GridNext /\ UNCHANGED <<drawers, feed, open>>
  \/ DrawersNext /\ UNCHANGED <<tiles, size, paused, observing, open>>

\* The browser ends what an image began: it loads, or fails.
Spec ==
  /\ Init /\ [][Next]_vars
  /\ \A t \in Tiles : WF_vars(Settles(t) /\ UNCHANGED <<drawers, feed, open>>)

-----------------------------------------------------------------------------
TypeOK == GridTypeOK /\ DrawersTypeOK /\ open \in BOOLEAN

\* "Suspend new grid image requests while the lightbox is open, cancel unfinished"
\* ones: no image of the grid is fetching under an open photo, whatever is
\* scrolled, rendered, appended or resized there.
SuspendedWhileOpen ==
  open => \A t \in DOMAIN tiles : ~Fetching(tiles[t])

\* And once it is closed nothing has been forgotten: an image near the window
\* has been asked for at the size the density wants, or shows the error.
NearAsked ==
  ~open => \A t \in DOMAIN tiles : tiles[t].near => tiles[t].src \in {tiles[t].want, "error"}

\* The backdrop is there exactly while a drawer is, and there is one at a time.
BackdropTruthful ==
  /\ drawers.backdrop = (drawers.panel \/ drawers.activity)
  /\ ~(drawers.panel /\ drawers.activity)

\* What comes near the window is shown in the end, or is an error, unless it
\* leaves or a photo is opened first.
TilesSettle ==
  \A t \in Tiles :
    (t \in DOMAIN tiles /\ tiles[t].near)
      ~> (open \/ t \notin DOMAIN tiles \/ ~tiles[t].near
            \/ tiles[t].loaded \/ tiles[t].src = "error")
=============================================================================
