-------------------------------- MODULE Gallery --------------------------------
(***************************************************************************)
(* The photo grid: the filters and the URL (frontend/js/state.js), the     *)
(* controls that change them and the debounced search box (filters.js),    *)
(* and the searches and pages that answer in any order (gallery.js).       *)
(*                                                                         *)
(* One JavaScript thread: code between two awaits is one action.  A page   *)
(* holds one item or none; an item is named by the search that found it.   *)
(***************************************************************************)
EXTENDS Naturals, Sequences, FiniteSets

CONSTANTS
  Texts, NoText,   \* texts of the search box, and the empty one
  Others, NoOther, \* values of all other filters together, and that of none
  MaxLoads,        \* bound of the searches started
  MaxPage,         \* bound of State.page
  None             \* no timer

ASSUME GalleryAssumption ==
  /\ NoText \in Texts /\ NoOther \in Others /\ None \notin Texts
  /\ MaxLoads \in Nat /\ MaxPage \in Nat \ {0}

(* A definition named X_Y is X with the bug Y, for the mutation runs only. *)

Filters == [query: Texts, other: Others]
NoFilter == [query |-> NoText, other |-> NoOther]
Payloads == [filter: Filters, page: 1..MaxPage]   \* also names the item found

VARIABLES
  filter,         \* the filters in State
  url,            \* the filters in the address bar
  timer,          \* the text that searchDebounce will search for
  booted,         \* App.init has started the first search
  listed,         \* history: a search has found something, so that there have
                  \* been tiles to open the viewer with
  page, hasMore, assets,      \* of State; assets is a sequence of items
  tiles,          \* the grid: a sequence of <<item, index>>
  loads,          \* Gallery.load under way: <<its number, the filters it sent>>
  started,        \* how many were started
  mores,          \* the payloads of Gallery.loadMore under way
  isLoading, isLoadingMore,   \* of State
  error,          \* the error panel is shown
  overlapped      \* auxiliary: of the requests since the grid was last quiet,
                  \* one began while another was under way

request == <<loads, started, mores, isLoading, isLoadingMore, error, overlapped>>
vars == <<filter, url, timer, booted, listed, page, hasMore, assets, tiles, loads, started,
          mores, isLoading, isLoadingMore, error, overlapped>>

Quiet == loads = {} /\ mores = {}

Init ==
  /\ filter \in Filters /\ url = filter
  /\ timer = None /\ booted = FALSE /\ listed = FALSE
  /\ page = 1 /\ hasMore = TRUE /\ assets = << >> /\ tiles = << >>
  /\ loads = {} /\ started = 0 /\ mores = {}
  /\ isLoading = FALSE /\ isLoadingMore = FALSE /\ error = FALSE
  /\ overlapped = FALSE

-----------------------------------------------------------------------------
(* Searches begin.                                                         *)

\* Gallery.load up to its await, for the filters f that State then holds.
Load(f) ==
  /\ started < MaxLoads
  /\ started' = started + 1
  /\ loads' = loads \cup {<<started', f>>}
  /\ isLoading' = TRUE /\ error' = FALSE
  /\ overlapped' = ~Quiet
  /\ UNCHANGED <<tiles, mores, isLoadingMore>>

\* What every control does: filters into State, the list forgotten, a search.
SearchFor(f, more) ==
  /\ filter' = f /\ page' = 1 /\ assets' = << >> /\ hasMore' = more
  /\ Load(f)

Boot ==
  /\ ~booted /\ booted' = TRUE
  /\ Load(filter)
  /\ UNCHANGED <<filter, url, timer, listed, page, hasMore, assets>>

\* A key in the search box; names that match people cancel without a new timer.
Type(text) ==
  /\ timer' \in {text, None}
  /\ UNCHANGED <<filter, url, booted, listed, page, hasMore, assets, tiles, request>>

TimerFires ==
  /\ timer # None /\ timer' = None
  /\ SearchFor([filter EXCEPT !.query = timer], TRUE)
  /\ UNCHANGED <<url, booted, listed>>

\* Enter or the search button, with any text in the box.
CommitTextSearch(text) ==
  /\ timer' = None
  /\ SearchFor([filter EXCEPT !.query = text], TRUE)
  /\ UNCHANGED <<url, booted, listed>>

\* The controls of the panel and the person chips leave hasMore as it is.
PanelChange(other) ==
  /\ SearchFor([filter EXCEPT !.other = other], hasMore)
  /\ UNCHANGED <<url, timer, booted, listed>>

\* A suggested person replaces the text that was typed to find them.
SelectSearchPerson(other) ==
  /\ other # NoOther
  /\ SearchFor([query |-> NoText, other |-> other], TRUE)
  /\ UNCHANGED <<url, timer, booted, listed>>

\* The tag of the text, or one of the other tags and chips, is dismissed.
RemoveFilter(other) ==
  /\ \/ /\ filter.query # NoText
        /\ SearchFor([filter EXCEPT !.query = NoText], TRUE)
     \/ /\ filter.other # NoOther /\ other # filter.other
        /\ SearchFor([filter EXCEPT !.other = other], TRUE)
  /\ UNCHANGED <<url, timer, booted, listed>>

ClearAll ==
  /\ SearchFor(NoFilter, TRUE)
  /\ url' = NoFilter
  /\ UNCHANGED <<timer, booted, listed>>

Apply ==
  /\ SearchFor(filter, TRUE)
  /\ UNCHANGED <<url, timer, booted, listed>>

\* The retry button of the error panel.
Reload ==
  /\ error
  /\ Load(filter)
  /\ UNCHANGED <<filter, url, timer, booted, listed, page, hasMore, assets>>

LoadMore_Again ==
  /\ listed /\ hasMore
  /\ page < MaxPage
  /\ isLoadingMore' = TRUE
  /\ mores' = mores \cup {[filter |-> filter, page |-> page + 1]}
  /\ overlapped' = (overlapped \/ loads # {})
  /\ UNCHANGED <<filter, url, timer, booted, listed, page, hasMore, assets, tiles, loads, started,
                 isLoading, error>>

\* The sentinel comes into view, its button is clicked, or the viewer's next() is
\* at the end of the list.  None of them is there before a first list, but the
\* viewer stays open over a grid that a later search has emptied.
LoadMore ==
  /\ listed /\ hasMore /\ ~isLoadingMore
  /\ page < MaxPage
  /\ isLoadingMore' = TRUE
  /\ mores' = mores \cup {[filter |-> filter, page |-> page + 1]}
  /\ overlapped' = (overlapped \/ loads # {})
  /\ UNCHANGED <<filter, url, timer, booted, listed, page, hasMore, assets, tiles, loads, started,
                 isLoading, error>>

-----------------------------------------------------------------------------
(* Searches answer, in any order.                                          *)

\* The tiles of items that follow the first n.
Tiles(items, n) == [i \in DOMAIN items |-> <<items[i], n + i>>]

\* What the server may return: a page is empty or not, and only a page that is
\* not says that there are more.
Answers(payload) ==
  {[items |-> << >>, more |-> FALSE]} \cup [items: {<<payload>>}, more: BOOLEAN]

LoadAnswers_KeepsTiles(l, answer) ==
  /\ l \in loads /\ loads' = loads \ {l}
  /\ assets' = answer.items /\ page' = 1 /\ hasMore' = answer.more
  /\ isLoading' = FALSE /\ error' = FALSE
  /\ tiles' = tiles \o Tiles(answer.items, 0)
  /\ url' = filter
  /\ listed' = (listed \/ answer.items # << >>)
  /\ UNCHANGED <<filter, timer, booted, started, mores, isLoadingMore, overlapped>>

LoadAnswers_SyncsPayload(l, answer) ==
  /\ l \in loads /\ loads' = loads \ {l}
  /\ assets' = answer.items /\ page' = 1 /\ hasMore' = answer.more
  /\ isLoading' = FALSE /\ error' = FALSE
  /\ tiles' = Tiles(answer.items, 0)
  /\ url' = l[2]
  /\ listed' = (listed \/ answer.items # << >>)
  /\ UNCHANGED <<filter, timer, booted, started, mores, isLoadingMore, overlapped>>

\* The rest of Gallery.load with render and syncToURL.
LoadAnswers(l, answer) ==
  /\ l \in loads /\ loads' = loads \ {l}
  /\ assets' = answer.items /\ page' = 1 /\ hasMore' = answer.more
  /\ isLoading' = FALSE /\ error' = FALSE
  /\ tiles' = Tiles(answer.items, 0)
  /\ url' = filter
  /\ listed' = (listed \/ answer.items # << >>)
  /\ UNCHANGED <<filter, timer, booted, started, mores, isLoadingMore, overlapped>>

LoadFails(l) ==
  /\ l \in loads /\ loads' = loads \ {l}
  /\ isLoading' = FALSE /\ error' = TRUE
  /\ UNCHANGED <<filter, url, timer, booted, listed, page, hasMore, assets, tiles, started, mores,
                 isLoadingMore, overlapped>>

MoreAnswers_KeepsPage(m, answer) ==
  /\ m \in mores /\ mores' = mores \ {m}
  /\ assets' = assets \o answer.items /\ page' = page
  /\ hasMore' = (answer.more /\ answer.items # << >>)
  /\ isLoadingMore' = FALSE
  /\ tiles' = tiles \o Tiles(answer.items, Len(assets))
  /\ UNCHANGED <<filter, url, timer, booted, listed, loads, started, isLoading, error, overlapped>>

\* The rest of Gallery.loadMore with appendItems.
MoreAnswers(m, answer) ==
  /\ m \in mores /\ mores' = mores \ {m}
  /\ assets' = assets \o answer.items /\ page' = m.page
  /\ hasMore' = (answer.more /\ answer.items # << >>)
  /\ isLoadingMore' = FALSE
  /\ tiles' = tiles \o Tiles(answer.items, Len(assets))
  /\ UNCHANGED <<filter, url, timer, booted, listed, loads, started, isLoading, error, overlapped>>

MoreFails_StaysLoading(m) ==
  /\ m \in mores /\ mores' = mores \ {m}
  /\ UNCHANGED <<filter, url, timer, booted, listed, page, hasMore, assets, tiles, loads, started,
                 isLoading, isLoadingMore, error, overlapped>>

MoreFails(m) ==
  /\ m \in mores /\ mores' = mores \ {m}
  /\ isLoadingMore' = FALSE
  /\ UNCHANGED <<filter, url, timer, booted, listed, page, hasMore, assets, tiles, loads, started,
                 isLoading, error, overlapped>>

LoadEnds ==
  \E l \in loads :
    LoadFails(l) \/ \E answer \in Answers([filter |-> l[2], page |-> 1]) : LoadAnswers(l, answer)

MoreEnds == \E m \in mores : MoreFails(m) \/ \E answer \in Answers(m) : MoreAnswers(m, answer)

Next ==
  \/ Boot \/ TimerFires \/ ClearAll \/ Apply \/ Reload \/ LoadMore
  \/ \E text \in Texts : Type(text) \/ CommitTextSearch(text)
  \/ \E other \in Others : PanelChange(other) \/ SelectSearchPerson(other) \/ RemoveFilter(other)
  \/ LoadEnds \/ MoreEnds

Spec == Init /\ [][Next]_vars

\* The browser settles every fetch, by an answer or an error.
FairSpec == Spec /\ WF_vars(LoadEnds) /\ WF_vars(MoreEnds)

-----------------------------------------------------------------------------
\* The type invariant, with the flag of loadMore: it is up exactly while its one
\* request is under way.
TypeOK ==
  /\ filter \in Filters /\ url \in Filters /\ timer \in Texts \cup {None}
  /\ booted \in BOOLEAN /\ listed \in BOOLEAN /\ hasMore \in BOOLEAN /\ isLoading \in BOOLEAN
  /\ error \in BOOLEAN /\ overlapped \in BOOLEAN
  /\ page \in 1..MaxPage
  /\ assets \in Seq(Payloads) /\ tiles \in Seq(Payloads \X Nat)
  /\ started \in 0..MaxLoads /\ loads \subseteq (1..started) \X Filters
  /\ mores \in IF isLoadingMore THEN {{m} : m \in Payloads} ELSE {{}}
  /\ isLoadingMore \in BOOLEAN

\* Each tile opens the asset it shows at the index where the list has it, so that
\* the viewer's previous and next go on from there; a search under way or failed
\* is the only excuse.
TilesAgree == loads = {} /\ ~error => tiles = Tiles(assets, 0)

\* "URL sync for shareable filter links": when the searches are over, the address
\* bar holds the filters of State, or the user is told that the search failed.
UrlAgrees == loads = {} /\ ~error => url = filter

\* The list is the first pages of what the address bar says, none missing, none
\* twice.
Results == \E n \in 0..MaxPage :
  assets = [i \in 1..n |-> [filter |-> url, page |-> i]] /\ (n > 0 => page \in {n, n + 1})

\* A user who waits for each answer sees the results of the filters in the URL,
\* whatever happened before their last search.
PatientResults == Quiet /\ ~error /\ booted /\ ~overlapped => Results

\* The same for a user who does not wait: "URL sync for shareable filter links".
SharedLinkShowsTheSame == Quiet /\ ~error /\ booted => Results

\* What the viewer and the drawers may rely on: one page at a time is asked for,
\* and appended once, whatever searches start and answer meanwhile.
OnePage == {<<>>} \cup {<<payload>> : payload \in Payloads}
L == INSTANCE AssetList WITH Lists <- OnePage, Pages <- OnePage
RefinesList == L!Spec

\* Infinite scroll never wedges: whatever a page's request comes to, the next may
\* be asked for.
ScrollRecovers == isLoadingMore ~> ~isLoadingMore

-----------------------------------------------------------------------------
(* The inductive invariant of GalleryProofs: while the requests do not     *)
(* overlap there is one at most, it is for the filters of State, and the   *)
(* next page to ask for is the one that the list lacks.                    *)

OneAtATime ==
  ~overlapped => /\ loads = {} \/ mores = {}
                 /\ \A l \in loads : l[2] = filter /\ loads = {l}

FirstPages ==
  booted /\ ~overlapped /\ ~error /\ loads = {} =>
    /\ Results
    /\ hasMore => page = Len(assets)
    /\ \A m \in mores : m.filter = url /\ m.page = Len(assets) + 1

PatientInv == TypeOK /\ UrlAgrees /\ OneAtATime /\ FirstPages
=============================================================================
