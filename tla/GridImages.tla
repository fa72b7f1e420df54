------------------------------ MODULE GridImages ------------------------------
(***************************************************************************)
(* The images of the photo grid (frontend/js/gallery.js): which tiles are  *)
(* watched, near the window and fetching, at which size, and how they make *)
(* way for an open photo. The order of the tiles and their days are left   *)
(* out.                                                                    *)
(***************************************************************************)
CONSTANT Tiles  \* the photos a grid may hold

(* A definition named X_Y is X with the bug Y, for the mutation runs only. *)

VARIABLES
  tiles,     \* the <img> of each photo in the grid: see Tile
  size,      \* thumbnailSize(), which the density sets
  paused,    \* _gridLoadingPaused
  observing  \* imageObserver is not null

gridVars == <<tiles, size, paused, observing>>

Sizes == {"thumbnail", "preview"}

Tile == [watched: BOOLEAN,                     \* observed by imageObserver
         near: BOOLEAN,                        \* in _visibleImages
         want: Sizes,                          \* dataset.src
         src: Sizes \cup {"none", "error"},    \* "error" is the inline picture
         loaded: BOOLEAN]                      \* dataset.loaded

Grids == UNION {[S -> Tile] : S \in SUBSET Tiles}

GridInit ==
  /\ tiles \in [{} -> Tile] /\ size \in Sizes
  /\ paused = FALSE /\ observing = FALSE

Fetching(tile) == tile.src \in Sizes /\ ~tile.loaded

-----------------------------------------------------------------------------
(* What the code does to one image, or to all of them.                     *)

\* loadGalleryImage
LoadImage_Unpaused(tile, stop) ==
  IF tile.src = tile.want THEN tile
  ELSE [tile EXCEPT !.src = tile.want, !.loaded = FALSE]

LoadImage(tile, stop) ==
  IF stop \/ tile.src = tile.want THEN tile
  ELSE [tile EXCEPT !.src = tile.want, !.loaded = FALSE]

LoadIfNear(tile, stop) == IF tile.near THEN LoadImage(tile, stop) ELSE tile

\* refreshImageSources
Refreshed(tile, s) ==
  IF tile.want = s THEN tile ELSE LoadIfNear([tile EXCEPT !.want = s], paused)

Dropped(tile) == IF tile.loaded THEN tile ELSE [tile EXCEPT !.src = "none"]

NewTile(watched) ==
  [watched |-> watched, near |-> FALSE, want |-> size, src |-> "none", loaded |-> FALSE]

\* pauseImageLoading, when a photo is opened
Pause ==
  /\ paused' = TRUE
  /\ tiles' = [t \in DOMAIN tiles |-> Dropped(tiles[t])]
  /\ UNCHANGED <<size, observing>>

\* resumeImageLoading, when it is closed
Resume_Later ==
  /\ paused' = FALSE
  /\ UNCHANGED <<tiles, size, observing>>

Resume ==
  /\ paused' = FALSE
  /\ tiles' = [t \in DOMAIN tiles |-> LoadIfNear(tiles[t], FALSE)]
  /\ UNCHANGED <<size, observing>>

-----------------------------------------------------------------------------
\* render, after clearGallery: an empty result leaves no observer behind.
Render(S) ==
  /\ observing' = (S # {})
  /\ tiles' = [t \in S |-> NewTile(TRUE)]
  /\ UNCHANGED <<size, paused>>

\* appendItems: without an observer the new tiles are not watched.
Append(S) ==
  /\ S # {} /\ S \cap DOMAIN tiles = {}
  /\ tiles' = [t \in DOMAIN tiles \cup S |->
                 IF t \in DOMAIN tiles THEN tiles[t] ELSE NewTile(observing)]
  /\ UNCHANGED <<size, paused, observing>>

\* The observer reports a tile that has come near the window, or has left it.
Enters(t) ==
  /\ tiles[t].watched /\ ~tiles[t].near
  /\ tiles' = [tiles EXCEPT ![t] = LoadImage([@ EXCEPT !.near = TRUE], paused)]
  /\ UNCHANGED <<size, paused, observing>>

Leaves(t) ==
  /\ tiles[t].near
  /\ tiles' = [tiles EXCEPT ![t].near = FALSE]
  /\ UNCHANGED <<size, paused, observing>>

\* onload, and onerror, which shows the inline picture
Arrives(t) ==
  /\ tiles[t].src # "none" /\ ~tiles[t].loaded
  /\ tiles' = [tiles EXCEPT ![t].loaded = TRUE]
  /\ UNCHANGED <<size, paused, observing>>

Fails(t) ==
  /\ Fetching(tiles[t])
  /\ tiles' = [tiles EXCEPT ![t].src = "error"]
  /\ UNCHANGED <<size, paused, observing>>

\* A click on a density: App.apply, then refreshImageSources.
ChangeDensity(s) ==
  /\ size' = s
  /\ tiles' = [t \in DOMAIN tiles |-> Refreshed(tiles[t], s)]
  /\ UNCHANGED <<paused, observing>>

Settles(t) == t \in DOMAIN tiles /\ (Arrives(t) \/ Fails(t))

GridNext ==
  \/ \E S \in SUBSET Tiles : Render(S) \/ Append(S)
  \/ \E t \in DOMAIN tiles : Enters(t) \/ Leaves(t) \/ Settles(t)
  \/ \E s \in Sizes : ChangeDensity(s)

GridTypeOK ==
  /\ tiles \in Grids /\ size \in Sizes
  /\ paused \in BOOLEAN /\ observing \in BOOLEAN
=============================================================================
