# photos-viewer in TLA+

Models, model-checking runs and machine-checked proofs about photos-viewer: a
FastAPI backend that lets guests with a share token browse an Immich library,
and a vanilla-JavaScript frontend. Everything here is translated from the code
under `src/`; the lines each definition stands for are in `PROJECT.json` ("map").

    tlc -workers 2 -config MediaCache_faults.cfg MCMediaCache.tla    # one run
    tlapm MediaCacheProofs.tla                                       # one proof module

## The system

| Part | State | Operations | Hard parts |
|---|---|---|---|
| Media cache (`backend/app/media_cache.py`) | SQLite index, files, temporary files, `_fills` events, `_inflight` locks | `lookup`, `get_or_fill`, `stream_or_cached`, commit and evict | leader/follower hand-over at awaits, aborts, eviction under readers, crashes between file and row |
| Redeem rate limit (`ratelimit.py`) | attempt times per IP and global | `redeem_allowed`, `_prune_stale_ips` | sliding windows, the bound on tracked IPs |
| Token store (`tokens.py`) | SQLite token rows | issue, `lookup_raw` (with hash upgrade), touch, revoke, scope | revoked or expired between check and use |
| Auth gate and session (`auth.py`, `routers/access.py`) | session cookie | middleware, `require_token`, redeem, logout | cookie outliving the token, redeem against limits |
| Scope (`scope.py`) and memory cache (`memory_cache.py`) | TTL entries | `ensure_asset_in_scope`, `person_ids_in_scope` | stale membership, caches over caches |
| Social store (`social_store.py`, `routers/social.py`, `deps.py`) | reactions, comments, guest cookie | toggle, comment, delete | two first requests of one browser mint two guests |
| Activity, assets, people, search routers; `proxy.py` | none of their own | read-through to Immich | use the parts above |
| Gallery (`frontend/js/gallery.js`, `state.js`) | filters, page, items | `load`, `loadMore`, infinite scroll | answers of older requests |
| Tile images (`gallery.js`) | the `<img>` of each tile, which are near the window, whether loading is paused | render, append, scroll, density, pause, resume | what happens to the grid while a photo is open |
| Lightbox (`lightbox.js`, `original-image.js`) | current asset, one object URL | open, next, previous, close | answers that arrive after navigation |
| Gestures (`lightbox.js`) | zoom, the drag, pinch, swipe or tap under way, a timer | touch, mouse, wheel, keys | fingers in any order, gestures across a page turn |
| Drawers: filters (`filters.js`), activity (`activity.js`) | which is open, the backdrop they share, suggestions, the feed | toggle, Escape, backdrop, retry | each closes the other; Escape under an open photo |
| Social panel (`social.js`), search box (`filters.js`) | what is shown | handlers and timers | answers that arrive for another asset, a debounce that outlives a clear |
| CLI (`cli.py`), configuration, headers, CSS/HTML, deployment | configuration | administration, start-up | not concurrent |

How they interact: every request passes the auth gate; the media routes check the
scope (memory cache, Immich) and then enter the media cache; the redeem route asks
the rate limit and the token store. The frontend calls the API, and its parts call
each other directly (the gallery opens the lightbox, the lightbox loads the social
panel and asks the gallery for more); the lightbox tells the grid through `State` that
a photo is open. The backend is one asyncio loop in one
process, the frontend one JavaScript thread: state changes between two awaits are
atomic, and everything hard happens across an await.

What makes each part correct:

- **Media cache**: no partial file is served; index and disk agree; the cap holds and
  eviction is LRU; a thumbnail is fetched once; every waiter is released.
- **Rate limit**: the sliding limits hold although attempts are forgotten; refusals do
  not count; the table of IPs is bounded.
- **Scope**: what a token sees was in its albums a bounded time ago; tokens do not see
  each other's cached answers; a revoked token sees nothing after the calls under way.
- **Lightbox**: pixels, metadata, spinner and object URLs are those of the photo on
  screen, whatever answers late; a closed viewer stays closed.
- **Gestures**: none outlives its photo; only a live drag leaves the image out of bounds;
  lifting fingers turns one page at most.
- **Tile images**: none fetches under an open photo, and none near the window is
  forgotten afterwards.
- **Drawers**: one at a time, with a backdrop exactly while one is open.
- **Gallery**: tiles agree with the list, the URL with the filters, and the list with
  the URL; infinite scroll never wedges.
- **Social panel and guest**: a reaction or comment is shown on its own asset; a
  browser is one guest.

## Plan

Modules in order of importance; those marked *done* are on disk.

| Module | Models | Proofs | State |
|---|---|---|---|
| `MediaCache`, `SingleFlight` | `media_cache.py` | `MediaCacheProofs` | done |
| `Lightbox`, `Screen` | `lightbox.js`, `original-image.js`, the callers in `gallery.js`, `activity.js` | `LightboxProofs` | done |
| `Gallery`, `AssetList` | `gallery.js`, `state.js`, `filters.js` | `GalleryProofs`, `LightboxProofs` | done |
| `Access` | `auth.py`, `tokens.py`, `scope.py`, `memory_cache.py`, `people.py` | `AccessProofs` | done |
| `RateLimit`, `Limiter` | `ratelimit.py` | `RateLimitProofs` | done |
| `Social` | `social_store.py`, `routers/social.py`, `ensure_guest_id`, `social.js` | `SocialProofs` | done |
| `Gestures` | zoom, pan, touch, mouse and wheel in `lightbox.js` | `GesturesProofs` | done |
| `GridImages`, `Drawers`, composed in `Page` | the images of the tiles in `gallery.js`; the drawers in `filters.js`, `activity.js`; the viewer over both | `PageProofs` | done |
| redeeming | `routers/access.py`, the age of the session cookie, hash upgrade | in `Access` | planned |
| `Viewer` | Gallery and Lightbox over one list, instead of each with the other as its environment | - | planned |

Abstract specifications, each shown to be implemented by a run (as a PROPERTY) and by a
theorem:

| Abstract | Says | Implemented by |
|---|---|---|
| `Screen` | one photo on screen or none, waited for and then shown or failed | `Lightbox` |
| `SingleFlight` | one leader per key; all who joined are let go when it lands | `MediaCache`, through its events and its table of fills |
| `Limiter` | a limiter that remembers every grant and counts those in the window | `RateLimit` |
| `AssetList` | a list that grows by one requested page at a time, and that a search may forget or replace | `Gallery`, and `Lightbox` with its surroundings |

`AssetList` is the interface between the grid and the viewer: what the viewer's
module lets happen to the list is what the list's own module does.

Worth stating too: a token that sees its albums as they were at one moment (for
`Access`). Still worth proving: a composition of Gallery and Lightbox with the tiles and
indices they share. For the people list, an instance with two people
on two photos would show that its bound is reached; the proof covers every instance.

## Media cache

`MediaCache.tla` models the index, the files, the streaming fill and the locked
fill. A request is a slot with a program counter that names the await it is
suspended at; the code between two awaits is one action. The correspondence:

| Code | Model |
|---|---|
| rows of `entries` | `rows`; the order of `last_access` is the rank `lastAccess` |
| the file at `_path_for(key)` | `file[k]`: how many chunks it holds |
| a request's temporary file | `got[r]`; one without a writer is in `litter` |
| `_fills`, and the variable `done` | `fills`, `done`: an event is named by the leader that made it |
| `_inflight` | `lockQ`: the holder and its waiters, in FIFO order |

What can fail is switched by the constant `Faults`: cancellation of a request that
waits; a response dropped before its body generator is started; an `aclose()` that
raises or is cancelled; a commit that raises or crashes half-way (`HalfCommit`: before
the row, or between the row's own commit, `:188`, and that of `_evict`, with some files
unlinked and no row deleted); an unlink that raises; and a crash at any other point.
That Immich fails, and that a client leaves while it reads, needs no switch.

A request may leave its fill behind in two ways: its generator is dropped before it
starts (`Drop`), or the `aclose()` in the finally of `_tee_and_cache` fails
(`CloseFails`, `:350`) and the `_finish_fill` after it is never reached. Its slot is then
`gone` and its event stays registered; followers of such a request are `Stranded`.
FillHasOwner says that there is no third way, NoFillLeftBehind proves that without these
two every registered fill has a request at work on it.

The generator advances as its client reads: `Chunk` brings a chunk from Immich to the
`yield` of `:345`, and `ClientReads` or `ClientLeaves`, in the client's own time, ends it.

The sizes of the files enter through the constant operator `Bytes`, of which the
proofs assume only that it is monotone.

| Run | What it asks | Instance, and why it is enough |
|---|---|---|
| `media_faults` | single flight of thumbnails, and of originals (SingleFlight), no partial file, no lost wake-up, under every fault (all six) | 3 requests, an original, a thumbnail and a video that leaves the cache path: a leader, a follower and a third party; the cap holds the original or the thumbnail |
| `media_liveness` | ownership, index and disk, cap, LRU and no more than needed, live queues; every request ends if no client stalls | 2 requests, 2 originals and a thumbnail of which the cap holds any two but the two originals, cancellation and failing `aclose()`: a commit evicts none, one or two rows |
| `media_dropped` | a violation: followers of a dropped response wait forever | 2 requests, 1 original: the smallest instance |

`NChunks = 1` is enough for atomicity: a file has none or all of its chunks, and the
rename may come early (the mutant) or late.

**Fairness** (`media_liveness`, `media_dropped`): `WF(Progress(r))` for each request: asyncio runs
a ready task, and Immich answers or the timeouts of httpx (`main.py:48`) raise. No
fairness is assumed of clients or of faults. But a client that keeps its connection and
stops reading keeps its leader at the `yield`, and every follower with it, for no timeout
bounds that: EveryRequestEnds and FollowersReleased have the hypothesis `ClientsMove`, by
which each client takes or leaves, in the end, what it is offered. Both runs say
CHECK_DEADLOCK FALSE because requests may really stop: every slot may be gone or
stranded.

**Proofs.** `CacheInv` strengthens the safety properties by what a request holds at
each await (RequestInv), that registered fills are exactly those of leaders at
work or gone (LeaderInv), and that whoever fetches a thumbnail heads its queue (QueueInv);
without LeaderInv, WaitsForRegistered is not inductive, for a finishing request might
pop an event that is not its own.

*Waiters.* `QueueLive` adds that the queue of a thumbnail's lock holds nothing but live
requests for it, each once: a request that leaves, by whatever way, leaves the queue. With
FillHasOwner it gives WaitersAreServed under every fault: whoever waits waits for a request
at work, or for one that is gone in the two known ways; a thumbnail's holder never is.
That a request which waits for one at work is released in the end is liveness.

*Single flight.* ImplementsSingleFlight maps the table of fills to `leader` and the
requests at `wait` to `waiting`: a body that is read, an error, a cancellation or
a crash of any request is a step of SingleFlight or invisible.

*Eviction.* `AccessOrder` (last_access gives no two keys the same rank) is all that the LRU
order rests on. EvictionIsMinimal and CommitsRestoreCap hold whatever fails or
crashes: each commit that ends leaves the index within the cap, and takes no more and
no younger rows than it must. The theorems that every step keeps the cap
(CapHolds) and that no step removes a row out of order (EvictionIsLRU)
assume that every commit comes to its end (`"crash"` and `"commit"` not in `Faults`): one that
stops between the row and the DELETEs leaves the index above the cap, and rows without
files, which a lookup then removes in any order. EvictsOldest is
proved and not run, since EvictsNoMore says more on the instance.

Known, in the model, and not asserted by a run because no line of the repository
speaks clearly enough: followers of a failed leader all fetch the original at once; a
hit may be evicted before its file is opened and then fails; a file whose row was
lost in half a commit, or whose unlink failed, is on disk but not counted by the cap; a
cancelled thumbnail leaves its temporary file.

## Redeem rate limit

`RateLimit.tla` has one action, the call of `redeem_allowed`, at any later time. The
lists of attempts are sets of times, since two calls never fall on one instant.
`granted` is history: what was allowed, never forgotten. The run `ratelimit` has
five IPs where the table is meant for two and the global limit is four, over two
windows: pruning finds stale and fresh IPs, both limits refuse, and attempts expire
exactly at the window's edge. The clock is bounded by MaxTime, hence
CHECK_DEADLOCK FALSE. The run takes 2 and 4 for the code's limits; the theorems hold for every
limit, window and clock bound.

**Refinement.** `Limiter` has only the history of grants: a call is granted if fewer
than the limits were granted in the window that ends now, and is refused otherwise. The code
has two lists instead, drops what it thinks it need not know, and prunes the IPs' table at a
size; RefinesLimiter says that its verdicts are those of the limiter, in both directions.

**Proofs.** `Remembered` (what the code remembers of the window is what it granted in
it) is inductive with the type invariant; that both budgets hold follows from it step by
step (`Budgets`, an invariant of the proof module), TrackedBounded from the
injection of fresh IPs into the global list, and RefusedOnlyIfFull from what a refusal
found remembered. For ImplementsLimiter, `CountsAgree` shows from Remembered that what the code
counts in its lists and what the limiter counts in the history are of one size.

## Scope, token store and auth gate

`Access.tla` follows a request through the gate, `require_token` and the scope
check, to the instant at which the route is allowed to answer.

| Code | Model |
|---|---|
| a row of `tokens` | `tokens[t]`: its scope, and `active` for neither revoked nor expired |
| `album_ids` None, `[]`, a list | `full`, or the set of albums |
| `asset_albums:...`, `scope_person_ids:...`, `people:...` | `albumsOf`, `idsOf`, `listOf`, by what is in the key |
| `expires_at` of a CacheEntry | the entry's age, up to its ttl; an older one is none, for `get` never returns it |
| an HTTP request | a slot: `pc` names its await, `who`, `want`, `scope` the token, the question and the scope read |
| Immich's albums | `album`, read at some instant of a call (external) |
| other process: `cli.py` | `End`, `SetAlbumScope` |

The search for the people of a scope is a loop of up to 100 awaited calls
(`scope.py:72-96`, at most `MaxPages` here). Each page is read at an instant of its own
(`ImmichReadsIds`); a full page is followed by the next call (`NextPage`), and what is
stored after the last one (`IdsArrive`) is the union, as old as its first page. On
whichever page Immich fails, nobody is in scope and nothing is stored (`IdsFail`).

Time is kept as ages (of entries, of calls, of what happened), so the clock is
unbounded. It passes (`Tick`) only while every request waits for Immich: the code
between two awaits takes none. A call ends within `Latency`, which stands for the
client's timeout. A full-library token is restricted by nothing, so its set of people is everyone; the model has
the albums change but not the names or faces. The answer stands for whatever the route does after
the check (a photo, its metadata, comments). A scope that changes during a request bites at
the next one: the properties speak of the scope that `require_token` read.

Run `access`: a token that changes between full library and one album, two requests,
a photo, a person on it and a hidden one elsewhere, each time to live and the latency
one tick, two pages of one photo at most. That is enough for two lookups to overlap, for
the older answer to be stored last, for an entry to be made from an entry, and for a token to end between any two
steps. With these values the bounds of AssetsWithinScope and RevocationBites are reached exactly;
that of PeopleWithinScope is not, since a single person is either in or out. The system
never stops, so deadlock is checked. No liveness is claimed, and no fairness assumed.

**Proofs.** For every set of tokens, requests, albums, assets and people and all times to
live. `EInv` bounds how long ago the token of a request between two steps was active:
zero before its first call, the calls so far at each page, and one call more for the list
of people: so a request is answered at most `MaxPages + 1` calls after its token ended, which
RevocationBites says and the run reaches. The scope invariant bounds in the same way, place by place, how old the
facts are that a call, a cache entry or a suspended request carries: an answer under way
is at most as old as its call, or as the first of its pages; a stored one at most that many
calls older than its entry; the person ids at the call for the list at most ScopeTTL
older still; and so on to the sum in
PeopleWithinScope. The properties alone are not inductive: they speak of the moment of
the answer only. TypeOK, the ages' bounds included, is proved and not run.

## Lightbox and original image

| Code | Model |
|---|---|
| `mediaGeneration` | the same; every display has its own, which names its promises |
| `currentAsset`, `currentIndex`, the elements | `view`, `image` |
| `OriginalImage`: `_generation`, controller, object URL | `original` |
| where `_displayImage` is suspended | `load[g]`: fetch, blob, decode, paint |
| `API.getAsset`, `video.play()` under way | `details`, `video` |
| `State.assets`, `hasMore`, `isLoadingMore` | `assets`, `hasMore`, `isLoadingMore` |
| `await Gallery.loadMore()` in `next()` | `nextWaits` |

The gallery and the activity drawer are the viewer's environment: a list is replaced,
a page arrives or fails, a late answer of the drawer opens a photo (`Uses` switches
them). `lightbox` has two displays of a photo and a video with all of that environment: a
display may be left for another, or for a second one of the same photo, while each of
its awaits is pending, and the list may grow, be replaced or be emptied meanwhile.
`lightbox_reopens` is a violation: next() at the end of the list, closed while the page is
under way, reopens the viewer on the first photo. MaxGen bounds the number of
displays, hence CHECK_DEADLOCK FALSE.

**Fairness**: `WF(ImageStep(g))`: a fetch, a body and a decode are settled by the
browser. Nothing is assumed of the user or of videos.

**Proofs.** `ViewerInv` says that OriginalImage works for the photo that is open or
for none, that everything begun before is aborted or outdated, and how spinner, error and
pixels depend on the open photo's own load; the other theorems follow from it
for any assets, lists and number of displays. TypeOK, which says that a closed viewer holds no
asset, pixels or index, is proved and not run. PhotoResolves is liveness and stays with TLC.

The violation has one cause, which PatientlyClosedStaysClosed proves: in every behaviour
in which nobody closes the viewer while its next() waits for a page (`ClosedPatiently`), the viewer
opens only at a click or for the activity drawer. Its invariant `NextIsOpen` is that next()
begins to wait in an open viewer, and outlives only the closing of it.

**Refinement.** `Screen` is what the viewer promises: nothing, a video, or a photo that is
waited for and then shown or failed, and one pair of asset and details at a time. The mapping (`Phase`, `OnScreen`)
reads the phase from spinner, pixels and error of the photo on screen. The run checks it as the property
RefinesScreen and ImplementsScreen proves it: a late answer maps to a stutter, and so does
every step of fetching. RefinesList is the same for the list around the viewer, and
`AssetList`, under its own names.

Not modelled: `downloadAsset`, the sidebar. Zoom and gestures are a module of their own. The activity drawer's answer opening over a
photo the user has since chosen is in the model, but no line of the repository
says which of the two requests wins.

## Zoom and gestures

`Gestures.tla` is the other half of `lightbox.js`: what touches, the mouse, the wheel, keys
and a timer do to the photo on screen. The image has one dimension and small
integer scales; at scale s it can be dragged `Limit(s)` to either side, which depends on
the window's layout.

| Code | Model |
|---|---|
| `zoom` | `view.zoom`; scale 1 is Fit |
| `_isPanning` with `_panPointer` | `view.pan`: its overdrag's direction, and whether it exceeds EDGE_HANDOFF_PX |
| `_pinch`, `_swipePointer`, `_lastTap`, `_wheelZoomSnapTimer` | `view.pinch`, `swipe`, `tap`, `snap`: the display on which they began, 0 for none |
| `e.touches.length` | `fingers`; `pinched` is history: this touch was a pinch at some time, and since then neither was the image out of touch nor did the mouse begin a drag |
| `_getMaxZoom`, `_panLimits` | `layout`, which a turned device changes at any time |

A listener of the code is an action. Fingers may come down and leave several at a time, or be
lost to the image (`TouchLost`: touchcancel, a finger that ends elsewhere). A pinch's and a
wheel's scale is any, a point to zoom about is any; whether a swipe was long enough and what
counts as the second tap are choices. The run `gestures` has two photos, so that either
end of the list is there, three displays, three fingers, and three layouts: one to zoom and drag
at any scale, one with a margin, and a photo that cannot be zoomed. MaxGen bounds the
displays, hence CHECK_DEADLOCK FALSE. There is no liveness: nothing obliges a finger to lift.

**Proofs.** Sound: every gesture and the timer began on the display on screen, and a closed
viewer has none that could move it. PinchInv: after a pinch neither a drag nor a
swipe is under way until the last finger is up or the mouse begins a drag. They are stated of the view, shown once for each operator
(`Rezoomed`, `Follows`), and carried over to the actions; LiftOpensOnePhoto rests on
the page that a drag turned having ended the swipe that would turn a second one. TypeOK is proved and not run, since GesturesOfPhoto
says more on the small instance.

Known, in the model, and not asserted: an overdrag that hands off on the first or last
photo, becomes a pinch or is cancelled leaves the image out of bounds at rest (`lightbox.js:493`
springs back only released drags); a swipe whose end the image never hears of turns a
page at a later lift; a mouse pressed on the zoomed image while a finger of a pinch is
still down (`lightbox.js:589` looks at the scale alone) arms a drag which that finger then
moves, and its lift may turn a page after the pinch: LiftTurnsOnePage speaks of touch until
the mouse does that; the scale is not clamped again when the window changes.

## The page: tiles and drawers

`GridImages.tla` has the `<img>` of each tile, `Drawers.tla` the two drawers, the backdrop
they share and the suggestions; `Page.tla` composes them with a viewer of which they
know only whether it is open.

| Code | Model |
|---|---|
| `dataset.src`, `src`, `dataset.loaded` | `tiles[t]`: `want`, `src`, `loaded`; "error" is the inline picture |
| `imageObserver`, `_visibleImages` | `watched`, `near` of a tile; `observing` |
| `_gridLoadingPaused`, `thumbnailSize()` | `paused`, `size` |
| `hidden` of panel, drawer, backdrop and suggestions | `drawers` |
| `Activity.loading` and `setStatus` | `feed` |
| `lightboxAssetId` | `open` |

`onStateChange` is synchronous, so opening a photo pauses the grid in the same step. Any set of
tiles may be rendered or appended at any time, also under an open photo, as a late
search does. The listeners for Escape run in the order they were registered
(`app.js:17-21`), in one step. The run `page` has two tiles: one may be loading,
near or forgotten while the other is in any other state, and tiles do not influence each other.
Deadlock is checked: the user can always do something.

**Fairness**: `WF(Settles(t))`: the browser ends each image it began, by load or error.

**Proofs.** The grid is paused exactly while a photo is open; `Tidy` says of one image what
follows from that. SuspendedWhileOpen is not inductive without it, for resuming must find every
image near the window, and nothing else, to ask for. NearAsked and TypeOK are proved and not run. TilesSettle is liveness
and stays with TLC.

Known, in the model, and not asserted: Escape closes the viewer and then, in the listener
of the drawers, a drawer beneath it (`filters.js:75` gives Escape to the viewer alone); in
the search box it closes the suggestions and then a drawer; an
item of the feed opens the viewer over its open drawer; tiles appended after an empty
result are not watched and never load.

## Gallery, filters and URL

A page has one item or none, and an item is named by the payload that found it: so a list
that mixes two searches, lacks a page or has one twice can be told apart.
`Filters` has the text and one value for all other filters. Each control is an action (`TimerFires`
is the debounced box), and answers come in any order. `overlapped` is auxiliary: it
tells the user who waits for each answer from the one who does not. `listed` is history: a
search has found something. `loadMore` itself looks at no tiles, and a viewer opened on the
first list may ask for a page over a grid that a later search has emptied.

`gallery` allows three searches and pages up to three, with two texts and two other
filters: two searches and a page may overlap and a third may follow. `gallery_shared` is a violation:
of two searches the older may answer last and stay under the newer URL. MaxLoads bounds
the searches, hence CHECK_DEADLOCK FALSE.

**Fairness**: `WF(LoadEnds)`, `WF(MoreEnds)`: the browser settles every fetch, by an
answer or an error.

**Proofs.** `PatientInv`: while requests do not overlap there is one at most, it is for
the filters of State, and it asks for the page the list lacks. TilesAgree and
UrlAgrees are proved without that restriction, and so is RefinesList: of all the requests
that may overlap, pages do not, and none is appended twice or unasked. It rests on TypeOK (proved,
not run), by which the flag is up exactly while its one page is under way. ScrollRecovers stays with TLC.

Known and not asserted: the debounce timer outlives the clear button and brings the
text back (no line says that clearing cancels a search under way).

## Reactions, comments and the guest

`Social.tla` has the page and the server in one module: one browser with its panel, its
cookie and its requests, and everybody else as `VisitorWrites`.

| Code | Model |
|---|---|
| tables `reactions`, `comments` | rows <<asset, guest, emoji>>; the ids, with `author` and `about`, which no deletion forgets |
| cookie `viewer_guest` | `jar`; `minted` are the guests the routes made for this browser |
| `Social.reactions`, `Social.comments` | `panel`: the rows, for which guest they were read, how often each comment is listed, which have a button |
| `Social.busy` and its request | `busy`, `mutation`; loads need not wait for each other: `loads` |

A route awaits only before it touches the tables, so serving is one action, which also
decides the guest; a refusal, a request lost and an answer lost are one action on the
page's side, after which the cookie may have been set or not. What `reacted` and `mine` say is
the `reader` of the answer and `author`. The wording, the order of the lists and the names are left out.

Two variables are auxiliary. `calm` tells the user who waits for each answer; `strayed`
says that an answer of a change arrived after the viewer had moved on. The code shows
it then, on the wrong photo (`social.js:337`, `:358`). The design of the viewer comes close to
forbidding that: "guard every asynchronous completion with the current open generation", and
no "stale load, metadata response, or close" may update the current photo's social panel
(`docs/superpowers/specs/2026-09-14-image-delivery-design.md:28`, `:44-45`). It speaks of
what opening a photo starts, and the answer of a change is named nowhere; so the defect is
told here and asserted by no run. PanelOfPhoto says that nothing else can get to a wrong
panel, and catches neither this nor, with PatientPanel, what overlapping changes or a lost answer do.

DeletedByAuthor tells apart who deletes: a step of this browser's own request takes away
the comment it named and only if the guest of the request's cookie wrote it; every other
comment goes by its own author, a visitor.

Run `social`: two photos, one emoji, one comment, two guests the browser may be, two
loads and a change at a time. That is enough for two first requests to mint two
guests, for a browser to have a button for a comment of the guest it is no more, and for
an answer to arrive over another photo, or over the same one opened again. Constraints (`MCSocial`)
keep the loads under way on different photos, and have others react only before any comment is
written or a second guest is minted: what others react with touches neither. The run never stops, so deadlock is
checked; no liveness is claimed, and no fairness assumed.

**Proofs.** `Known` says what a request under way and its answer can hold: a comment in
an answer is written, about the photo asked for, and stays so. PanelOfPhoto is inductive
with it. `Patience` is the invariant behind PatientPanel: a patient user is at rest with a
current panel, or waits for one load, or for one change, whose answer, once there, makes
the panel current although the panel is patched and not loaded again.

## What the checks rest on

- The backend is one asyncio loop in one process, and the frontend one JavaScript thread.
- Immich, the network, the browser and SQLite are modelled by what the code sees of
  them: an answer or an error; a statement that commits or raises.
- In each module, the constants' assumptions (`ASSUME`) are all that the proofs
  use of them; the runs evaluate them.
- A definition named `X_Y` is `X` with the bug `Y`: not part of any specification, it is
  what the properties are tried against.

Proved for every value of the constants: the theorems in `PROJECT.json`. Model-checked only:
the liveness properties (EveryRequestEnds, PhotoResolves, ScrollRecovers, TilesSettle), which need
fairness and are out of the prover's reach. Their safety halves are proved: what waits, waits for
something that is under way (NobodyWaitsInVain, SpinnerIsTruthful, NearTilesAreAsked, and TypeCorrect of
GalleryProofs). Not modelled, with reasons: see "components" in `PROJECT.json`.
