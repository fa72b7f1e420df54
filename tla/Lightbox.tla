------------------------------- MODULE Lightbox -------------------------------
(***************************************************************************)
(* The full-screen viewer (frontend/js/lightbox.js) with the original      *)
(* image it fetches and decodes (original-image.js), and what reaches it   *)
(* from the gallery's list and the activity drawer.                        *)
(*                                                                         *)
(* One JavaScript thread: code between two awaits is one action.  Each     *)
(* display of an asset has its mediaGeneration; the promise chain of its   *)
(* original, of its details and of its video is named by it.               *)
(***************************************************************************)
EXTENDS Naturals, Sequences

CONSTANTS
  Assets, Videos,  \* the assets, and those with type VIDEO
  Lists,           \* lists of assets the gallery may show after a search
  Pages,           \* pages that loadMore may append
  MaxLength,       \* bound of the gallery's list
  MaxGen,          \* bound of mediaGeneration
  Uses,            \* which of "video", "more", "activity", "lists" happen
  None             \* null

ASSUME LightboxAssumption ==
  /\ Videos \subseteq Assets /\ None \notin Assets
  /\ MaxGen \in Nat /\ MaxLength \in Nat
  /\ Lists \subseteq Seq(Assets) /\ \A l \in Lists : Len(l) <= MaxLength
  /\ Pages \subseteq Seq(Assets)

(* A definition named X_Y is X with the bug Y, for the mutation runs only. *)

Gens == 1..MaxGen

VARIABLES
  mediaGeneration,
  view,        \* what the elements show: see View
  image,       \* the <img>: src is the generation whose URL it shows (0: none)
  original,    \* the OriginalImage: see Original
  load,        \* [Gens -> where the promise chain of _displayImage is]
  shown,       \* [Gens -> the asset the generation displays]
  details,     \* generations whose API.getAsset is under way
  video,       \* generations whose video.play() is under way
  loaded,      \* video.dataset.loaded
  assets, hasMore, isLoadingMore,   \* of State
  nextWaits,   \* a next() awaits the loadMore under way
  tiles,       \* the grid's tiles: <<asset, index>>, as of when they were made
  asked        \* assets that Activity.openAsset has asked for

chain == <<load, shown, details>>
list == <<assets, hasMore, isLoadingMore, nextWaits, tiles>>
display == <<mediaGeneration, view, image, original, load, shown, details, video, loaded>>
vars == <<mediaGeneration, view, image, original, load, shown, details, video, loaded,
          assets, hasMore, isLoadingMore, nextWaits, tiles, asked>>

\* The tiles of a page that begins after the first n assets of the list.
Tiles(page, n) == {<<page[i], n + i>> : i \in DOMAIN page}

View ==
  [asset: Assets \cup {None},   \* currentAsset
   index: 0..MaxLength,         \* currentIndex + 1: 0 is detached or closed
   open: BOOLEAN,               \* the lightbox is not hidden
   meta: Assets \cup {None},    \* the asset of the metadata and the download link
   loading: BOOLEAN,            \* the spinner is shown
   error: BOOLEAN]              \* the error message is shown

Original ==
  [current: 0..MaxGen,          \* the load whose _generation is the current one
   controller: 0..MaxGen,       \* the load whose AbortController is kept
   url: 0..MaxGen,              \* the load whose object URL is kept
   aborted: SUBSET Gens,        \* the loads whose signal is aborted
   urls: SUBSET Gens]           \* the object URLs created and not revoked

Init ==
  /\ mediaGeneration = 0
  /\ view = [asset |-> None, index |-> 0, open |-> FALSE, meta |-> None,
             loading |-> FALSE, error |-> FALSE]
  /\ image = [src |-> 0, hidden |-> TRUE]
  /\ original = [current |-> 0, controller |-> 0, url |-> 0, aborted |-> {}, urls |-> {}]
  /\ load = [g \in Gens |-> "none"]
  /\ shown = [g \in Gens |-> None]
  /\ details = {} /\ video = {} /\ loaded = FALSE
  /\ assets \in Lists /\ hasMore \in BOOLEAN
  /\ isLoadingMore = FALSE /\ nextWaits = FALSE
  /\ tiles = Tiles(assets, 0) /\ asked = {}

-----------------------------------------------------------------------------
(* OriginalImage.                                                          *)

Clear_WithoutAbort(o) ==
  [current |-> 0, controller |-> 0, url |-> 0,
   aborted |-> o.aborted, urls |-> o.urls \ {o.url}]

Clear(o) ==
  [current |-> 0, controller |-> 0, url |-> 0,
   aborted |-> o.aborted \cup ({o.controller} \ {0}), urls |-> o.urls \ {o.url}]

\* The first steps of load, up to its fetch.
Started(o, g) == [Clear(o) EXCEPT !.current = g, !.controller = g]

Stale(g) == original.current # g \/ g \in original.aborted

Released_WithoutRevoke(o, g) == [o EXCEPT
  !.url = IF @ = g THEN 0 ELSE @, !.controller = IF @ = g THEN 0 ELSE @]

\* The catch of load.
Released(o, g) == [o EXCEPT
  !.url = IF @ = g THEN 0 ELSE @,
  !.urls = IF o.url = g THEN @ \ {g} ELSE @,
  !.controller = IF @ = g THEN 0 ELSE @]

-----------------------------------------------------------------------------
(* The user's handlers.                                                    *)

\* Lightbox.open with displayMedia: the fetch starts unless it is a video, the
\* details are asked for unless the asset came with them.
Open(a, i) ==
  LET g == mediaGeneration + 1 IN
  /\ g \in Gens
  /\ mediaGeneration' = g
  /\ view' = [asset |-> a, index |-> i, open |-> TRUE, meta |-> a,
              loading |-> a \notin Videos, error |-> FALSE]
  /\ image' = [src |-> 0, hidden |-> TRUE]
  /\ original' = IF a \in Videos THEN Clear(original) ELSE Started(original, g)
  /\ load' = IF a \in Videos THEN load ELSE [load EXCEPT ![g] = "fetch"]
  /\ shown' = [shown EXCEPT ![g] = a]
  /\ details' \in {details, details \cup {g}}
  /\ loaded' = FALSE
  /\ UNCHANGED video

\* A tile is clicked, or Enter is pressed on it: it keeps the focus while the
\* viewer is open.
Click(t) ==
  /\ t \in tiles
  /\ Open(t[1], t[2])
  /\ UNCHANGED <<list, asked>>

Previous ==
  /\ view.index > 1 /\ view.index - 1 \in DOMAIN assets
  /\ Open(assets[view.index - 1], view.index - 1)
  /\ UNCHANGED <<list, asked>>

NextPhoto ==
  /\ view.index > 0 /\ view.index + 1 \in DOMAIN assets
  /\ Open(assets[view.index + 1], view.index + 1)
  /\ UNCHANGED <<list, asked>>

\* next() on the last photo asks for more and waits.  When a page is under way
\* already loadMore returns at once, and next() finds nothing.
NextAsksForMore ==
  /\ "more" \in Uses
  /\ view.index > 0 /\ view.index >= Len(assets)
  /\ hasMore /\ ~isLoadingMore
  /\ isLoadingMore' = TRUE /\ nextWaits' = TRUE
  /\ UNCHANGED <<display, assets, hasMore, tiles, asked>>

\* Lightbox.close.
Close ==
  /\ view.open /\ mediaGeneration + 1 \in Gens
  /\ mediaGeneration' = mediaGeneration + 1
  /\ view' = [view EXCEPT !.asset = None, !.index = 0, !.open = FALSE, !.error = FALSE]
  /\ image' = [src |-> 0, hidden |-> TRUE]
  /\ original' = Clear(original)
  /\ loaded' = FALSE
  /\ UNCHANGED <<chain, video>>

CloseClick == Close /\ UNCHANGED <<list, asked>>

\* A person in the metadata is clicked: the viewer closes and a search starts.
PersonClick ==
  /\ "lists" \in Uses
  /\ Close
  /\ assets' = <<>>
  /\ UNCHANGED <<hasMore, isLoadingMore, nextWaits, tiles, asked>>

-----------------------------------------------------------------------------
(* The original of generation g: fetch, blob, decode, paint.               *)

\* The guard of every continuation in _displayImage and open.
Outdated(g) == g # mediaGeneration \/ view.asset # shown[g]

Fetched(g) ==
  /\ load[g] = "fetch"
  /\ load' = [load EXCEPT ![g] = "blob"]
  /\ UNCHANGED <<mediaGeneration, view, image, original, shown, details, video, loaded>>

GotBlob(g) ==
  /\ load[g] = "blob" /\ ~Stale(g)
  /\ original' = [original EXCEPT !.url = g, !.urls = @ \cup {g}]
  /\ load' = [load EXCEPT ![g] = "decode"]
  /\ UNCHANGED <<mediaGeneration, view, image, shown, details, video, loaded>>

\* load returns and its then-callback starts to paint, or drops the result.
Decoded(g) ==
  /\ load[g] = "decode" /\ ~Stale(g)
  /\ original' = [original EXCEPT !.controller = 0]
  /\ load' = [load EXCEPT ![g] = IF Outdated(g) THEN "done" ELSE "paint"]
  /\ image' = IF Outdated(g) THEN image ELSE [image EXCEPT !.src = g]
  /\ UNCHANGED <<mediaGeneration, view, shown, details, video, loaded>>

LoadFails_SpinsOn(g) ==
  /\ load[g] \in {"fetch", "blob", "decode"}
  /\ load' = [load EXCEPT ![g] = "done"]
  /\ original' = Released(original, g)
  /\ view' = IF Stale(g) \/ Outdated(g) THEN view ELSE [view EXCEPT !.error = TRUE]
  /\ UNCHANGED <<mediaGeneration, image, shown, details, video, loaded>>

\* A request, a body or a decode fails, or load finds itself stale.
LoadFails(g) ==
  /\ load[g] \in {"fetch", "blob", "decode"}
  /\ load' = [load EXCEPT ![g] = "done"]
  /\ original' = Released(original, g)
  /\ view' = IF Stale(g) \/ Outdated(g) THEN view
             ELSE [view EXCEPT !.error = TRUE, !.loading = FALSE]
  /\ UNCHANGED <<mediaGeneration, image, shown, details, video, loaded>>

Painted_Unchecked(g) ==
  /\ load[g] = "paint"
  /\ load' = [load EXCEPT ![g] = "done"]
  /\ image' = [image EXCEPT !.hidden = FALSE]
  /\ view' = [view EXCEPT !.loading = FALSE]
  /\ UNCHANGED <<mediaGeneration, original, shown, details, video, loaded>>

Painted(g) ==
  /\ load[g] = "paint"
  /\ load' = [load EXCEPT ![g] = "done"]
  /\ image' = IF Outdated(g) THEN image ELSE [image EXCEPT !.hidden = FALSE]
  /\ view' = IF Outdated(g) THEN view ELSE [view EXCEPT !.loading = FALSE]
  /\ UNCHANGED <<mediaGeneration, original, shown, details, video, loaded>>

PaintFails(g) ==
  /\ load[g] = "paint"
  /\ load' = [load EXCEPT ![g] = "done"]
  /\ IF Outdated(g)
       THEN UNCHANGED <<image, original, view>>
       ELSE /\ image' = [src |-> 0, hidden |-> TRUE]
            /\ original' = Clear(original)
            /\ view' = [view EXCEPT !.loading = FALSE, !.error = TRUE]
  /\ UNCHANGED <<mediaGeneration, shown, details, video, loaded>>

ImageStep(g) ==
  /\ Fetched(g) \/ GotBlob(g) \/ Decoded(g) \/ LoadFails(g) \/ Painted(g) \/ PaintFails(g)
  /\ UNCHANGED <<list, asked>>

-----------------------------------------------------------------------------
(* Details, video, the gallery's list, the activity drawer.                *)

DetailsArrive_Unchecked(g) ==
  /\ g \in details /\ details' = details \ {g}
  /\ view' = [view EXCEPT !.asset = shown[g], !.meta = shown[g]]
  /\ UNCHANGED <<mediaGeneration, image, original, load, shown, video, loaded>>

DetailsArrive(g) ==
  /\ g \in details /\ details' = details \ {g}
  /\ view' = IF Outdated(g) THEN view
             ELSE [view EXCEPT !.asset = shown[g], !.meta = shown[g]]
  /\ UNCHANGED <<mediaGeneration, image, original, load, shown, video, loaded>>

DetailsFail(g) ==
  /\ g \in details /\ details' = details \ {g}
  /\ UNCHANGED <<mediaGeneration, view, image, original, load, shown, video, loaded>>

\* loadSourceOnce, up to video.play(): on the first click or play event.
PlayClick ==
  /\ "video" \in Uses
  /\ view.open /\ view.asset \in Videos /\ ~loaded
  /\ loaded' = TRUE
  /\ video' = video \cup {mediaGeneration}
  /\ view' = [view EXCEPT !.loading = TRUE]
  /\ UNCHANGED <<mediaGeneration, image, original, load, shown, details>>

VideoSettles_Unchecked(g) ==
  /\ g \in video /\ video' = video \ {g}
  /\ view' = [view EXCEPT !.loading = FALSE]
  /\ UNCHANGED <<mediaGeneration, image, original, load, shown, details, loaded>>

\* play() settles: the finally of loadSourceOnce.
VideoSettles(g) ==
  /\ g \in video /\ video' = video \ {g}
  /\ view' = IF g # mediaGeneration THEN view ELSE [view EXCEPT !.loading = FALSE]
  /\ UNCHANGED <<mediaGeneration, image, original, load, shown, details, loaded>>

\* waiting and playing events of the current video; its stale listeners are gone.
VideoStalls(stalled) ==
  /\ "video" \in Uses
  /\ view.open /\ view.asset \in Videos /\ loaded
  /\ view' = [view EXCEPT !.loading = stalled]
  /\ UNCHANGED <<mediaGeneration, image, original, load, shown, details, video, loaded>>

OtherStep(g) ==
  /\ DetailsArrive(g) \/ DetailsFail(g) \/ VideoSettles(g)
  /\ UNCHANGED <<list, asked>>

VideoEvent ==
  /\ PlayClick \/ \E stalled \in BOOLEAN : VideoStalls(stalled)
  /\ UNCHANGED <<list, asked>>

ScrollsForMore_AtTheEnd ==
  /\ "more" \in Uses
  /\ ~isLoadingMore
  /\ isLoadingMore' = TRUE
  /\ UNCHANGED <<display, assets, hasMore, nextWaits, tiles, asked>>

\* The gallery asks for a page by itself, near the end of its list.
ScrollsForMore ==
  /\ "more" \in Uses
  /\ hasMore /\ ~isLoadingMore
  /\ isLoadingMore' = TRUE
  /\ UNCHANGED <<display, assets, hasMore, nextWaits, tiles, asked>>

\* What next() does with the list it finds after loadMore.
NextResumes ==
  IF nextWaits /\ view.index + 1 \in DOMAIN assets'
    THEN Open(assets'[view.index + 1], view.index + 1)
    ELSE UNCHANGED display

MoreArrives(page, more) ==
  /\ isLoadingMore /\ Len(assets \o page) <= MaxLength
  /\ assets' = assets \o page
  /\ tiles' = tiles \cup Tiles(page, Len(assets))
  /\ hasMore' = (more /\ page # <<>>)
  /\ isLoadingMore' = FALSE /\ nextWaits' = FALSE
  /\ NextResumes
  /\ UNCHANGED asked

MoreFails ==
  /\ isLoadingMore
  /\ isLoadingMore' = FALSE /\ nextWaits' = FALSE
  /\ UNCHANGED <<assets, hasMore, tiles, asked>>
  /\ NextResumes

\* A filter changes, by its timer or its control, and a search starts: the tiles
\* stay until it answers.
FilterSet(more) ==
  /\ "lists" \in Uses
  /\ assets' = <<>> /\ hasMore' = more
  /\ UNCHANGED <<display, isLoadingMore, nextWaits, tiles, asked>>

\* A search answers: Gallery.load takes its list and renders it.
ListReplaced(new, more) ==
  /\ "lists" \in Uses
  /\ assets' = new /\ hasMore' = more
  /\ tiles' = Tiles(new, 0)
  /\ UNCHANGED <<display, isLoadingMore, nextWaits, asked>>

\* Activity.openAsset opens an asset of the list at once and asks for another.
ActivityOpens(i) ==
  /\ "activity" \in Uses
  /\ i \in DOMAIN assets /\ \A j \in 1..(i - 1) : assets[j] # assets[i]
  /\ Open(assets[i], i)
  /\ UNCHANGED <<list, asked>>

ActivityAsks(a) ==
  /\ "activity" \in Uses
  /\ a \notin {assets[i] : i \in DOMAIN assets}
  /\ asked' = asked \cup {a}
  /\ UNCHANGED <<display, list>>

ActivityArrives(a) ==
  /\ a \in asked /\ asked' = asked \ {a}
  /\ Open(a, 0)
  /\ UNCHANGED list

ActivityFails(a) ==
  /\ a \in asked /\ asked' = asked \ {a}
  /\ UNCHANGED <<display, list>>

Next ==
  \/ \E t \in tiles : Click(t)
  \/ Previous \/ NextPhoto \/ NextAsksForMore \/ CloseClick \/ PersonClick
  \/ VideoEvent \/ ScrollsForMore \/ MoreFails
  \/ \E g \in Gens : ImageStep(g) \/ OtherStep(g)
  \/ \E page \in Pages, more \in BOOLEAN : MoreArrives(page, more)
  \/ \E more \in {hasMore, TRUE} : FilterSet(more)
  \/ \E new \in Lists, more \in BOOLEAN : ListReplaced(new, more)
  \/ \E i \in 1..MaxLength : ActivityOpens(i)
  \/ \E a \in Assets : ActivityAsks(a) \/ ActivityArrives(a) \/ ActivityFails(a)

Spec == Init /\ [][Next]_vars

\* A fetch, a body and a decode end: the browser settles them.
Fairness == \A g \in Gens : WF_vars(ImageStep(g))

FairSpec == Spec /\ Fairness

-----------------------------------------------------------------------------
Pending == {"fetch", "blob", "decode", "paint"}
Photo == view.open /\ view.asset \notin Videos

DisplayType ==
  /\ mediaGeneration \in 0..MaxGen
  /\ view \in View
  /\ image \in [src: 0..MaxGen, hidden: BOOLEAN]
  /\ original \in Original
  /\ load \in [Gens -> Pending \cup {"none", "done"}]
  /\ shown \in [Gens -> Assets \cup {None}]
  /\ details \subseteq Gens /\ video \subseteq Gens /\ loaded \in BOOLEAN

ListType ==
  /\ assets \in Seq(Assets) /\ Len(assets) <= MaxLength
  /\ hasMore \in BOOLEAN /\ isLoadingMore \in BOOLEAN /\ nextWaits \in BOOLEAN
  /\ tiles \subseteq Assets \X (1..MaxLength) /\ asked \subseteq Assets

Closed == view.asset = None /\ view.index = 0 /\ image.hidden /\ image.src = 0

\* The type invariant: a closed viewer holds no asset, no pixels and no index.
TypeOK == DisplayType /\ ListType /\ (~view.open => Closed)

\* "A stale load ... must never display another photo": visible pixels are those
\* of the photo the viewer is on, from a URL that has not been revoked.
ShownPixels ==
  ~image.hidden => /\ view.open /\ image.src = mediaGeneration
                   /\ shown[image.src] = view.asset
                   /\ image.src \in original.urls

\* "Aborts must release browser resources": at most one object URL is alive,
\* the one OriginalImage knows of, and it belongs to the photo that is open.
UrlsOwned ==
  /\ original.urls = {original.url} \ {0}
  /\ original.url # 0 => view.open /\ original.url = mediaGeneration

\* No original that the user has left still uses the connection.
ObsoleteAborted ==
  \A g \in Gens : load[g] \in {"fetch", "blob"} =>
    g \in original.aborted \/ (view.open /\ g = mediaGeneration)

\* The spinner of a photo tells the truth: it turns exactly while the photo's
\* own load is under way, and its end leaves the photo or an error.
SpinnerTruthful ==
  Photo => /\ view.loading <=> load[mediaGeneration] \in Pending
           /\ ~view.loading => (view.error <=> image.hidden)

\* "... metadata response ... [must never] update the current photo's metadata":
\* the asset, its metadata, its download link and its pixels are of one photo.
DetailsCurrent ==
  view.open => /\ mediaGeneration \in Gens
               /\ view.asset = shown[mediaGeneration] /\ view.meta = view.asset

\* The elements say one thing: a spinner, pixels or an error, and of what.
Phase ==
  IF view.asset \in Videos THEN "video"
  ELSE CASE view.loading /\ image.hidden /\ ~view.error -> "waiting"
         [] ~view.loading /\ ~image.hidden /\ ~view.error -> "shown"
         [] ~view.loading /\ image.hidden /\ view.error -> "failed"
         [] OTHER -> "torn"

\* Whose pixels are visible: their own asset's, which need not be currentAsset.
Pictured == IF Phase = "shown" THEN shown[image.src] ELSE view.asset

OnScreen ==
  IF view.open THEN [phase |-> Phase, asset |-> Pictured, details |-> view.meta]
  ELSE [phase |-> IF image.hidden THEN "closed" ELSE "torn",
        asset |-> view.asset, details |-> None]

S == INSTANCE Screen WITH screen <- OnScreen

\* The viewer with all its promises implements Screen: a step of any of them is
\* opening, closing, the end of the wait for the photo on screen, or invisible.
RefinesScreen == S!Spec

\* The list that changes under the viewer is the gallery's: nothing that Lightbox
\* lets happen to it, next() included, is more than AssetList allows.
L == INSTANCE AssetList
RefinesList == L!Spec

\* Every photo that is opened and not left is displayed or reported as broken.
PhotoResolves ==
  \A g \in Gens :
    (Photo /\ mediaGeneration = g) ~> (mediaGeneration # g \/ ~view.loading)

\* "A stale load ... or close must never display another photo": the viewer opens
\* because a photo was asked for, never because a page arrived.
ClosedStaysClosed ==
  [][~view.open /\ view'.open => \/ \E t \in tiles : Click(t)
                                 \/ \E i \in DOMAIN assets : ActivityOpens(i)
                                 \/ \E a \in asked : ActivityArrives(a)]_vars

-----------------------------------------------------------------------------
(* The inductive invariant of LightboxProofs: OriginalImage works for the  *)
(* photo that is open, or for none, and has aborted every other load.      *)

Working == {"fetch", "blob", "decode"}

OriginalInv ==
  /\ original.urls = {original.url} \ {0}
  /\ original.current # 0 => view.open /\ original.current = mediaGeneration
  /\ original.controller \in {0, original.current}
  /\ original.controller # 0 => load[original.controller] \in Working
  /\ original.url \in {0, original.current}
  /\ original.url # 0 => load[original.url] \in {"decode", "paint", "done"}
  /\ \A g \in original.aborted : g < mediaGeneration
  /\ \A g \in Gens : load[g] \in Working => g \in original.aborted \/ g = original.controller
  /\ \A g \in Gens : load[g] = "decode" => g \in original.aborted \/ g = original.url

ImageInv ==
  /\ ~view.open => Closed
  /\ ~image.hidden => view.open /\ image.src = mediaGeneration /\ image.src = original.url
  /\ view.open => /\ mediaGeneration \in Gens /\ view.asset \in Assets
                  /\ view.asset = shown[mediaGeneration] /\ view.meta = view.asset
  /\ view.open /\ load[mediaGeneration] = "paint" =>
       image.src = mediaGeneration /\ original.url = mediaGeneration

\* What has begun belongs to an earlier display or to the one that is open.
BegunInv ==
  /\ \A g \in Gens : load[g] # "none" \/ g \in details =>
       g < mediaGeneration \/ (g = mediaGeneration /\ view.open)
  /\ \A g \in video : g <= mediaGeneration /\ shown[g] \in Videos

SpinnerInv ==
  /\ view.open /\ view.asset \in Videos => load[mediaGeneration] = "none" /\ image.hidden
  /\ Photo => /\ view.loading <=> load[mediaGeneration] \in Pending
              /\ view.loading => image.hidden /\ ~view.error
              /\ ~view.loading => (view.error <=> image.hidden)
              /\ load[mediaGeneration] # "none"

DisplayInv == DisplayType /\ OriginalInv /\ ImageInv /\ BegunInv /\ SpinnerInv

ViewerInv == ListType /\ DisplayInv
=============================================================================
