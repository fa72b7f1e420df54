------------------------------ MODULE PageProofs ------------------------------
(***************************************************************************)
(* Theorems of Page, for any set of photos. The grid's half of the         *)
(* invariant is about one image at a time (Tidy): under an open photo it   *)
(* does not fetch, otherwise it has been asked for if it is near. What the *)
(* grid does to all its images it does to each of them (SameTiles).        *)
(***************************************************************************)
EXTENDS Page, TLAPS

Tidy(tile, p) ==
  /\ tile \in Tile
  /\ p => ~Fetching(tile)
  /\ ~p /\ tile.near => tile.src \in {tile.want, "error"}

GridInv ==
  /\ DOMAIN tiles \subseteq Tiles /\ tiles = [t \in DOMAIN tiles |-> tiles[t]]
  /\ \A t \in DOMAIN tiles : Tidy(tiles[t], paused)
  /\ size \in Sizes /\ paused \in BOOLEAN /\ observing \in BOOLEAN

DrawersInv == DrawersTypeOK /\ BackdropTruthful

PageInv == GridInv /\ DrawersInv /\ open \in BOOLEAN /\ paused = open

-----------------------------------------------------------------------------
(* One image.                                                              *)

LEMMA SetSrc ==
  ASSUME NEW tile \in Tile, NEW e \in Sizes \cup {"none", "error"}
  PROVE  LET w == [tile EXCEPT !.src = e]
         IN  /\ w \in Tile /\ w.src = e
             /\ w.near = tile.near /\ w.want = tile.want /\ w.loaded = tile.loaded
  BY SMT DEF Tile

LEMMA SetNear ==
  ASSUME NEW tile \in Tile, NEW e \in BOOLEAN
  PROVE  LET w == [tile EXCEPT !.near = e]
         IN  /\ w \in Tile /\ w.near = e
             /\ w.want = tile.want /\ w.src = tile.src /\ w.loaded = tile.loaded
  BY SMT DEF Tile

LEMMA SetLoaded ==
  ASSUME NEW tile \in Tile, NEW e \in BOOLEAN
  PROVE  LET w == [tile EXCEPT !.loaded = e]
         IN  /\ w \in Tile /\ w.loaded = e
             /\ w.near = tile.near /\ w.want = tile.want /\ w.src = tile.src
  BY SMT DEF Tile

LEMMA LoadKeepsTidy ==
  ASSUME NEW tile \in Tile, NEW p \in BOOLEAN, p => ~Fetching(tile)
  PROVE  Tidy(LoadImage(tile, p), p)
<1>1. CASE p \/ tile.src = tile.want
  BY <1>1 DEF LoadImage, Tidy
<1>2. CASE ~(p \/ tile.src = tile.want)
  <2> DEFINE asked == [[tile EXCEPT !.src = tile.want] EXCEPT !.loaded = FALSE]
  <2>1. asked \in Tile
    <3>1. tile.want \in Sizes
      BY DEF Tile
    <3>q. QED
      BY <3>1, SetSrc, SetLoaded
  <2>2. asked.src = asked.want
    BY SMT DEF Tile
  <2>q. QED
    BY <1>2, <2>1, <2>2 DEF LoadImage, Tidy
<1>q. QED
  BY <1>1, <1>2

LEMMA LoadIfNearTidy ==
  ASSUME NEW tile \in Tile, NEW p \in BOOLEAN, p => ~Fetching(tile)
  PROVE  Tidy(LoadIfNear(tile, p), p)
<1>1. CASE tile.near
  BY <1>1, LoadKeepsTidy DEF LoadIfNear
<1>2. CASE ~tile.near
  BY <1>2 DEF LoadIfNear, Tidy
<1>q. QED
  BY <1>1, <1>2

LEMMA RefreshedTidy ==
  ASSUME NEW tile, paused \in BOOLEAN, Tidy(tile, paused), NEW s \in Sizes
  PROVE  Tidy(Refreshed(tile, s), paused)
<1>1. CASE tile.want = s
  BY <1>1 DEF Refreshed
<1>2. CASE tile.want # s
  <2> DEFINE other == [tile EXCEPT !.want = s]
  <2>1. other \in Tile /\ (paused => ~Fetching(other))
    BY SMT DEF Tidy, Tile, Fetching, Sizes
  <2>q. QED
    BY <1>2, <2>1, LoadIfNearTidy DEF Refreshed
<1>q. QED
  BY <1>1, <1>2

LEMMA DroppedTidy ==
  ASSUME NEW tile \in Tile
  PROVE  Tidy(Dropped(tile), TRUE)
  BY SMT DEF Tidy, Tile, Sizes, Fetching, Dropped

LEMMA NewTileTidy ==
  ASSUME size \in Sizes, NEW w \in BOOLEAN, NEW p \in BOOLEAN
  PROVE  Tidy(NewTile(w), p)
  BY SMT DEF Tidy, Tile, Sizes, Fetching, NewTile

-----------------------------------------------------------------------------
(* All of them.                                                            *)

\* Every image is tidied on its own.
LEMMA EachTidied ==
  ASSUME GridInv, size' \in Sizes, paused' \in BOOLEAN, observing' \in BOOLEAN,
         NEW S \in SUBSET Tiles, tiles' = [t \in S |-> tiles'[t]],
         \A t \in S : Tidy(tiles'[t], paused')
  PROVE  GridInv'
<1>1. DOMAIN tiles' = S
  OBVIOUS
<1>q. QED
  BY <1>1 DEF GridInv, Tidy, Tile, Fetching, Sizes

LEMMA PauseKeeps ==
  ASSUME GridInv, Pause
  PROVE  GridInv' /\ paused' = TRUE
<1>1. /\ size' \in Sizes /\ observing' \in BOOLEAN /\ paused' = TRUE
      /\ tiles' = [t \in DOMAIN tiles |-> Dropped(tiles[t])]
  BY DEF GridInv, Pause
<1>2. tiles' = [t \in DOMAIN tiles |-> tiles'[t]] /\ DOMAIN tiles \in SUBSET Tiles
  BY <1>1 DEF GridInv
<1>3. \A t \in DOMAIN tiles : Tidy(tiles'[t], paused')
  BY <1>1, DroppedTidy DEF GridInv, Tidy
<1>q. QED
  BY <1>1, <1>2, <1>3, EachTidied

LEMMA ResumeKeeps ==
  ASSUME GridInv, Resume
  PROVE  GridInv' /\ paused' = FALSE
<1>1. /\ size' \in Sizes /\ observing' \in BOOLEAN /\ paused' = FALSE
      /\ tiles' = [t \in DOMAIN tiles |-> LoadIfNear(tiles[t], FALSE)]
  BY DEF GridInv, Resume
<1>2. tiles' = [t \in DOMAIN tiles |-> tiles'[t]] /\ DOMAIN tiles \in SUBSET Tiles
  BY <1>1 DEF GridInv
<1>3. \A t \in DOMAIN tiles : Tidy(tiles'[t], paused')
  <2> SUFFICES ASSUME NEW t \in DOMAIN tiles PROVE Tidy(tiles'[t], paused')
    OBVIOUS
  <2>1. tiles[t] \in Tile
    BY DEF GridInv, Tidy
  <2>2. Tidy(LoadIfNear(tiles[t], FALSE), FALSE)
    BY <2>1, LoadIfNearTidy
  <2>q. QED
    BY <1>1, <2>2
<1>q. QED
  BY <1>1, <1>2, <1>3, EachTidied

\* A step of one image.
LEMMA OneTidied ==
  ASSUME GridInv, NEW t \in DOMAIN tiles, NEW tile, tiles' = [tiles EXCEPT ![t] = tile],
         Tidy(tile, paused), UNCHANGED <<size, paused, observing>>
  PROVE  GridInv'
<1>1. tiles' = [u \in DOMAIN tiles |-> tiles'[u]] /\ DOMAIN tiles \in SUBSET Tiles
  BY DEF GridInv
<1>2. \A u \in DOMAIN tiles : tiles'[u] = IF u = t THEN tile ELSE tiles[u]
  BY DEF GridInv
<1>3. \A u \in DOMAIN tiles : Tidy(tiles'[u], paused')
  BY <1>2 DEF GridInv
<1>q. QED
  BY <1>1, <1>3, EachTidied DEF GridInv

LEMMA GridKeeps ==
  ASSUME GridInv, GridNext
  PROVE  GridInv' /\ UNCHANGED paused
<1>1. ASSUME NEW S \in SUBSET Tiles, Render(S)
      PROVE  GridInv' /\ UNCHANGED paused
  <2>1. /\ size' \in Sizes /\ observing' \in BOOLEAN /\ paused' = paused /\ paused \in BOOLEAN
        /\ tiles' = [t \in S |-> NewTile(TRUE)]
    BY <1>1 DEF GridInv, Render
  <2>2. tiles' = [t \in S |-> tiles'[t]]
    BY <2>1
  <2>3. \A t \in S : Tidy(tiles'[t], paused')
    BY <2>1, NewTileTidy DEF GridInv
  <2>q. QED
    BY <2>1, <2>2, <2>3, EachTidied
<1>2. ASSUME NEW S \in SUBSET Tiles, Append(S)
      PROVE  GridInv' /\ UNCHANGED paused
  <2> DEFINE D == DOMAIN tiles \cup S
  <2>1. /\ size' \in Sizes /\ observing' \in BOOLEAN /\ paused' = paused /\ paused \in BOOLEAN
        /\ tiles' = [t \in D |-> IF t \in DOMAIN tiles THEN tiles[t] ELSE NewTile(observing)]
    BY <1>2 DEF GridInv, Append
  <2>2. tiles' = [t \in D |-> tiles'[t]] /\ D \in SUBSET Tiles
    BY <2>1 DEF GridInv
  <2>3. \A t \in D : Tidy(tiles'[t], paused')
    BY <2>1, NewTileTidy DEF GridInv
  <2>q. QED
    BY <2>1, <2>2, <2>3, EachTidied
<1>3. ASSUME NEW t \in DOMAIN tiles, Enters(t) \/ Leaves(t) \/ Settles(t)
      PROVE  GridInv' /\ UNCHANGED paused
  <2>1. /\ Tidy(tiles[t], paused) /\ tiles[t] \in Tile /\ paused \in BOOLEAN
        /\ UNCHANGED <<size, paused, observing>>
    BY <1>3 DEF GridInv, Tidy, Enters, Leaves, Settles, Arrives, Fails
  <2>2. CASE Enters(t)
    <3> DEFINE seen == [tiles[t] EXCEPT !.near = TRUE]
    <3>1. seen \in Tile /\ (paused => ~Fetching(seen))
      <4>1. seen \in Tile /\ seen.src = tiles[t].src /\ seen.loaded = tiles[t].loaded
        BY <2>1, SetNear
      <4>q. QED
        BY <2>1, <4>1 DEF Tidy, Fetching
    <3>2. Tidy(LoadImage(seen, paused), paused)
      BY <2>1, <3>1, LoadKeepsTidy
    <3>3. tiles' = [tiles EXCEPT ![t] = LoadImage(seen, paused)]
      BY <2>2 DEF Enters
    <3>q. QED
      BY <2>1, <3>2, <3>3, OneTidied
  <2>3. CASE Leaves(t)
    <3> DEFINE gone == [tiles[t] EXCEPT !.near = FALSE]
    <3>1. Tidy(gone, paused)
      BY <2>1, SetNear DEF Tidy, Fetching
    <3>2. tiles' = [tiles EXCEPT ![t] = gone]
      BY <2>3 DEF Leaves
    <3>q. QED
      BY <2>1, <3>1, <3>2, OneTidied
  <2>4. CASE Arrives(t)
    <3> DEFINE shown == [tiles[t] EXCEPT !.loaded = TRUE]
    <3>1. Tidy(shown, paused)
      BY <2>1, SetLoaded DEF Tidy, Fetching
    <3>2. tiles' = [tiles EXCEPT ![t] = shown]
      BY <2>4 DEF Arrives
    <3>q. QED
      BY <2>1, <3>1, <3>2, OneTidied
  <2>5. CASE Fails(t)
    <3> DEFINE broken == [tiles[t] EXCEPT !.src = "error"]
    <3>1. Tidy(broken, paused)
      BY <2>1, SMT DEF Tidy, Tile, Fetching, Sizes
    <3>2. tiles' = [tiles EXCEPT ![t] = broken]
      BY <2>5 DEF Fails
    <3>q. QED
      BY <2>1, <3>1, <3>2, OneTidied
  <2>q. QED
    BY <1>3, <2>2, <2>3, <2>4, <2>5 DEF Settles
<1>4. ASSUME NEW s \in Sizes, ChangeDensity(s)
      PROVE  GridInv' /\ UNCHANGED paused
  <2>1. /\ size' \in Sizes /\ observing' \in BOOLEAN /\ paused' = paused /\ paused \in BOOLEAN
        /\ tiles' = [t \in DOMAIN tiles |-> Refreshed(tiles[t], s)]
    BY <1>4 DEF GridInv, ChangeDensity
  <2>2. tiles' = [t \in DOMAIN tiles |-> tiles'[t]] /\ DOMAIN tiles \in SUBSET Tiles
    BY <2>1 DEF GridInv
  <2>3. \A t \in DOMAIN tiles : Tidy(tiles'[t], paused')
    BY <2>1, RefreshedTidy DEF GridInv
  <2>q. QED
    BY <2>1, <2>2, <2>3, EachTidied
<1>q. QED
  BY <1>1, <1>2, <1>3, <1>4, Zenon DEF GridNext

-----------------------------------------------------------------------------
(* The drawers, and the page.                                              *)

DrawersType == [panel: BOOLEAN, activity: BOOLEAN, backdrop: BOOLEAN, suggest: BOOLEAN]

\* The drawers as BackdropTruthful wants them.
One(d) ==
  /\ d \in DrawersType
  /\ d.backdrop = (d.panel \/ d.activity) /\ ~(d.panel /\ d.activity)

LEMMA SetDrawers ==
  ASSUME NEW d \in DrawersType, NEW e \in BOOLEAN
  PROVE  /\ LET w == [d EXCEPT !.panel = e]
            IN  w \in DrawersType /\ w.panel = e /\ w.activity = d.activity /\ w.backdrop = d.backdrop
         /\ LET w == [d EXCEPT !.activity = e]
            IN  w \in DrawersType /\ w.panel = d.panel /\ w.activity = e /\ w.backdrop = d.backdrop
         /\ LET w == [d EXCEPT !.backdrop = e]
            IN  w \in DrawersType /\ w.panel = d.panel /\ w.activity = d.activity /\ w.backdrop = e
         /\ LET w == [d EXCEPT !.suggest = e]
            IN  w \in DrawersType /\ w.panel = d.panel /\ w.activity = d.activity /\ w.backdrop = d.backdrop
  BY SMT DEF DrawersType

LEMMA ShutOne ==
  ASSUME NEW d \in DrawersType, d.backdrop = FALSE, ~d.panel, ~d.activity
  PROVE  One(d)
  BY DEF One

LEMMA OpenOne ==
  ASSUME NEW d \in DrawersType, d.backdrop = TRUE,
         d.panel \/ d.activity, ~(d.panel /\ d.activity)
  PROVE  One(d)
  BY DEF One

LEMMA SuggestKeepsOne ==
  ASSUME NEW d, One(d), NEW e \in BOOLEAN
  PROVE  One([d EXCEPT !.suggest = e])
<1> DEFINE w == [d EXCEPT !.suggest = e]
<1>1. d \in DrawersType /\ d.backdrop = (d.panel \/ d.activity) /\ ~(d.panel /\ d.activity)
  BY DEF One
<1>2. w \in DrawersType /\ w.panel = d.panel /\ w.activity = d.activity /\ w.backdrop = d.backdrop
  BY <1>1, SMT DEF DrawersType
<1> HIDE DEF w
<1>3. CASE d.panel \/ d.activity
  <2>1. w.backdrop = TRUE
    BY <1>1, <1>2, <1>3
  <2>2. (w.panel \/ w.activity) /\ ~(w.panel /\ w.activity)
    BY <1>1, <1>2, <1>3
  <2>q. QED
    BY <1>2, <2>1, <2>2, OpenOne DEF w
<1>4. CASE ~(d.panel \/ d.activity)
  <2>1. w.backdrop = FALSE
    BY <1>1, <1>2, <1>4
  <2>q. QED
    BY <1>2, <1>4, <2>1, ShutOne DEF w
<1>q. QED
  BY <1>3, <1>4

LEMMA HideKeepsOne ==
  ASSUME NEW d, One(d)
  PROVE  /\ One(HidePanel(d)) /\ ~HidePanel(d).panel
         /\ One(HideActivity(d)) /\ ~HideActivity(d).activity
         /\ One(HideSuggestions(d))
<1>0. d \in DrawersType
  BY DEF One
<1>1. One(HidePanel(d)) /\ ~HidePanel(d).panel
  <2>1. CASE d.panel
    <3> DEFINE v == [d EXCEPT !.panel = FALSE]
               w == [v EXCEPT !.backdrop = FALSE]
    <3>1. v \in DrawersType /\ ~v.panel /\ v.activity = d.activity
      BY <1>0, SetDrawers
    <3>2. w \in DrawersType /\ w.backdrop = FALSE /\ ~w.panel /\ w.activity = d.activity
      BY <3>1, SetDrawers
    <3>3. (d.backdrop /\ d.activity) = FALSE /\ ~d.activity
      BY <2>1 DEF One
    <3>4. HidePanel(d) = w
      BY <2>1, <3>3 DEF HidePanel
    <3>q. QED
      BY <3>2, <3>3, <3>4, ShutOne
  <2>2. CASE ~d.panel
    BY <2>2 DEF HidePanel
  <2>q. QED
    BY <2>1, <2>2
<1>2. One(HideActivity(d)) /\ ~HideActivity(d).activity
  <2>1. CASE d.activity
    <3> DEFINE v == [d EXCEPT !.activity = FALSE]
               w == [v EXCEPT !.backdrop = FALSE]
    <3>1. v \in DrawersType /\ ~v.activity /\ v.panel = d.panel
      BY <1>0, SetDrawers
    <3>2. w \in DrawersType /\ w.backdrop = FALSE /\ ~w.activity /\ w.panel = d.panel
      BY <3>1, SetDrawers
    <3>3. (d.backdrop /\ d.panel) = FALSE /\ ~d.panel
      BY <2>1 DEF One
    <3>4. HideActivity(d) = w
      BY <2>1, <3>3 DEF HideActivity
    <3>q. QED
      BY <3>2, <3>3, <3>4, ShutOne
  <2>2. CASE ~d.activity
    BY <2>2 DEF HideActivity
  <2>q. QED
    BY <2>1, <2>2
<1>3. One(HideSuggestions(d))
  BY SuggestKeepsOne DEF HideSuggestions
<1>q. QED
  BY <1>1, <1>2, <1>3

LEMMA ShowKeepsOne ==
  ASSUME NEW d, One(d)
  PROVE  One(ShowPanel(d)) /\ One(ShowActivity(d))
<1>1. One(ShowPanel(d))
  <2> DEFINE u == HideActivity(d)
             v == [u EXCEPT !.panel = TRUE]
             w == [v EXCEPT !.backdrop = TRUE]
  <2>1. u \in DrawersType /\ ~u.activity
    BY HideKeepsOne DEF One
  <2>2. v \in DrawersType /\ v.panel = TRUE /\ ~v.activity
    BY <2>1, SetDrawers
  <2>3. w \in DrawersType /\ w.backdrop = TRUE /\ w.panel = TRUE /\ ~w.activity
    BY <2>2, SetDrawers
  <2>4. ShowPanel(d) = w
    BY DEF ShowPanel
  <2>q. QED
    BY <2>3, <2>4 DEF One
<1>2. One(ShowActivity(d))
  <2> DEFINE u == HidePanel(d)
             v == [u EXCEPT !.activity = TRUE]
             w == [v EXCEPT !.backdrop = TRUE]
  <2>1. u \in DrawersType /\ ~u.panel
    BY HideKeepsOne DEF One
  <2>2. v \in DrawersType /\ v.activity = TRUE /\ ~v.panel
    BY <2>1, SetDrawers
  <2>3. w \in DrawersType /\ w.backdrop = TRUE /\ w.activity = TRUE /\ ~w.panel
    BY <2>2, SetDrawers
  <2>4. ShowActivity(d) = w
    BY DEF ShowActivity
  <2>q. QED
    BY <2>3, <2>4 DEF One
<1>q. QED
  BY <1>1, <1>2

LEMMA EscapedOne ==
  ASSUME NEW d, One(d), NEW b \in BOOLEAN
  PROVE  One(Escaped(d, b))
<1>1. One(HideSuggestions(d))
  BY HideKeepsOne
<1>2. One(HidePanel(HideSuggestions(d))) /\ One(HideActivity(HideSuggestions(d)))
  BY <1>1, HideKeepsOne
<1>q. QED
  BY <1>1, <1>2 DEF Escaped

LEMMA DrawersKeep ==
  ASSUME DrawersInv, NEW b \in BOOLEAN,
         DrawersNext \/ (UNCHANGED feed
           /\ drawers' \in {drawers, ShowPanel(drawers), Escaped(drawers, b)})
  PROVE  DrawersInv'
<1>1. One(drawers)
  BY DEF DrawersInv, DrawersTypeOK, DrawersType, BackdropTruthful, One
<1>2. One(drawers') /\ (feed' = feed \/ feed' \in {"loading", "list", "empty", "error"})
  <2>1. CASE DrawersNext
    <3>1. CASE FeedAnswers \/ RetryFeed
      BY <1>1, <3>1 DEF FeedAnswers, RetryFeed
    <3>2. CASE Suggest \/ SuggestEnds
      <4>1. One([drawers EXCEPT !.suggest = TRUE])
        BY <1>1, SuggestKeepsOne
      <4>q. QED
        BY <1>1, <3>2, <4>1, HideKeepsOne DEF Suggest, SuggestEnds
    <3>3. CASE BackdropClick
      <4>1. One(HidePanel(HideSuggestions(drawers)))
        BY <1>1, HideKeepsOne
      <4>q. QED
        BY <3>3, <4>1, HideKeepsOne DEF BackdropClick
    <3>4. CASE TogglePanel \/ ClosePanel \/ ToggleActivity \/ CloseActivity
      BY <1>1, <3>4, HideKeepsOne, ShowKeepsOne
         DEF TogglePanel, ClosePanel, ToggleActivity, CloseActivity
    <3>q. QED
      BY <2>1, <3>1, <3>2, <3>3, <3>4 DEF DrawersNext
  <2>2. CASE UNCHANGED feed /\ drawers' \in {drawers, ShowPanel(drawers), Escaped(drawers, b)}
    BY <1>1, <2>2, ShowKeepsOne, EscapedOne
  <2>q. QED
    BY <2>1, <2>2
<1>q. QED
  BY <1>2 DEF DrawersInv, DrawersTypeOK, DrawersType, BackdropTruthful, One

LEMMA PageInit ==
  Init => PageInv
<1> SUFFICES ASSUME Init PROVE PageInv
  OBVIOUS
<1>1. GridInv
  BY DEF Init, GridInit, GridInv
<1>2. DrawersInv
  <2>1. drawers = [panel |-> FALSE, activity |-> FALSE, backdrop |-> FALSE, suggest |-> FALSE]
    BY DEF Init, DrawersInit
  <2>2. drawers \in [panel: BOOLEAN, activity: BOOLEAN, backdrop: BOOLEAN, suggest: BOOLEAN]
    BY <2>1
  <2>3. ~drawers.panel /\ ~drawers.activity /\ drawers.backdrop = FALSE
    BY <2>1
  <2>q. QED
    BY <2>2, <2>3 DEF Init, DrawersInit, DrawersInv, DrawersTypeOK, BackdropTruthful
<1>q. QED
  BY <1>1, <1>2 DEF Init, GridInit, PageInv

LEMMA PageKeeps ==
  PageInv /\ [Next]_vars => PageInv'
<1> SUFFICES ASSUME PageInv, [Next]_vars PROVE PageInv'
  OBVIOUS
<1>0. GridInv /\ DrawersInv /\ open \in BOOLEAN /\ paused = open
  BY DEF PageInv
<1>1. CASE OpenPhoto
  <2>1. GridInv' /\ paused' = TRUE /\ open' = TRUE
    BY <1>0, <1>1, PauseKeeps DEF OpenPhoto
  <2>2. DrawersInv'
    BY <1>0, <1>1 DEF OpenPhoto, drawerVars, DrawersInv, DrawersTypeOK, BackdropTruthful
  <2>q. QED
    BY <2>1, <2>2 DEF PageInv
<1>2. CASE ClosePhoto \/ PersonClick
  <2>1. GridInv' /\ paused' = FALSE /\ open' = FALSE
    BY <1>0, <1>2, ResumeKeeps DEF ClosePhoto, PersonClick
  <2>2. UNCHANGED feed /\ drawers' \in {drawers, ShowPanel(drawers)}
    BY <1>2 DEF ClosePhoto, PersonClick, drawerVars
  <2>3. DrawersInv'
    BY <1>0, <2>2, DrawersKeep
  <2>q. QED
    BY <2>1, <2>3 DEF PageInv
<1>3. ASSUME NEW b \in BOOLEAN, Escape(b)
      PROVE  PageInv'
  <2>1. GridInv' /\ paused' = FALSE /\ open' = FALSE
    <3>1. CASE open
      BY <1>0, <1>3, <3>1, ResumeKeeps DEF Escape
    <3>2. CASE ~open
      BY <1>0, <1>3, <3>2 DEF Escape, gridVars, GridInv
    <3>q. QED
      BY <1>0, <3>1, <3>2
  <2>2. DrawersInv'
    BY <1>0, <1>3, DrawersKeep DEF Escape
  <2>q. QED
    BY <2>1, <2>2 DEF PageInv
<1>4. CASE GridNext /\ UNCHANGED <<drawers, feed, open>>
  <2>1. GridInv' /\ paused' = paused
    BY <1>0, <1>4, GridKeeps
  <2>2. DrawersInv'
    BY <1>0, <1>4 DEF DrawersInv, DrawersTypeOK, BackdropTruthful
  <2>q. QED
    BY <1>0, <1>4, <2>1, <2>2 DEF PageInv
<1>5. CASE DrawersNext /\ UNCHANGED <<tiles, size, paused, observing, open>>
  <2>1. GridInv'
    BY <1>0, <1>5 DEF GridInv
  <2>2. DrawersInv'
    BY <1>0, <1>5, DrawersKeep
  <2>q. QED
    BY <1>0, <1>5, <2>1, <2>2 DEF PageInv
<1>6. CASE UNCHANGED vars
  BY <1>0, <1>6 DEF vars, PageInv, GridInv, DrawersInv, DrawersTypeOK, BackdropTruthful
<1>q. QED
  BY <1>1, <1>2, <1>3, <1>4, <1>5, <1>6 DEF Next

\* The inductive invariant of the page.
THEOREM PageInvariant ==
  Spec => []PageInv
  BY PageInit, PageKeeps, PTL DEF Spec

\* Type correctness.
THEOREM TypeCorrect ==
  Spec => []TypeOK
<1>1. PageInv => TypeOK
  <2> SUFFICES ASSUME PageInv PROVE TypeOK
    OBVIOUS
  <2>1. tiles \in [DOMAIN tiles -> Tile] /\ DOMAIN tiles \in SUBSET Tiles
    BY DEF PageInv, GridInv, Tidy
  <2>2. tiles \in Grids
    BY <2>1 DEF Grids
  <2>q. QED
    BY <2>2 DEF PageInv, GridInv, DrawersInv, TypeOK, GridTypeOK
<1>q. QED
  BY <1>1, PageInvariant, PTL

\* No image of the grid fetches while a photo is open.
THEOREM GridIsSuspended ==
  Spec => []SuspendedWhileOpen
<1>1. PageInv => SuspendedWhileOpen
  BY DEF PageInv, GridInv, Tidy, SuspendedWhileOpen
<1>q. QED
  BY <1>1, PageInvariant, PTL

\* And none near the window is forgotten when it closes.
THEOREM NearTilesAreAsked ==
  Spec => []NearAsked
<1>1. PageInv => NearAsked
  BY DEF PageInv, GridInv, Tidy, NearAsked
<1>q. QED
  BY <1>1, PageInvariant, PTL

\* The backdrop belongs to exactly one open drawer.
THEOREM BackdropIsTruthful ==
  Spec => []BackdropTruthful
<1>1. PageInv => BackdropTruthful
  BY DEF PageInv, DrawersInv
<1>q. QED
  BY <1>1, PageInvariant, PTL
=============================================================================
