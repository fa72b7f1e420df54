-------------------------------- MODULE Access --------------------------------
(***************************************************************************)
(* Who may see what: a request passes the auth gate and require_token      *)
(* (backend/app/auth.py), then the album scope (scope.py), which asks      *)
(* Immich through the TTL cache (memory_cache.py); the people route        *)
(* (routers/people.py) keeps a second cached answer made from the first.   *)
(* Meanwhile the CLI, another process, revokes tokens and changes scopes,  *)
(* tokens expire, and photos enter and leave albums.                       *)
(*                                                                         *)
(* Time passes only while every request waits for Immich: the code between *)
(* two calls takes none, and a call ends within Latency, answered or       *)
(* failed (the timeout of the HTTP client).  Times are kept as ages, so    *)
(* the clock is unbounded.                                                 *)
(***************************************************************************)
EXTENDS Naturals, FiniteSets

CONSTANTS
  Tokens,
  Requests,      \* slots: requests under way at the same time
  Assets,
  Albums,
  People,        \* the named people of the Immich library
  Hidden,        \* those of them Immich lists only withHidden
  Faces,         \* [Assets -> the people on it]
  Wants,         \* what requests ask for
  Scopes,        \* the scopes the CLI gives
  ScopeTTL,      \* ttl=120 of asset_albums and scope_person_ids
  PeopleTTL,     \* cache_ttl_people
  Latency,       \* the longest call of Immich
  MaxPages,      \* the pages of a search that are asked for at most: 100
  PageSize       \* the photos on a full page: 100

\* A token sees the full library (album_ids None) or the albums of a list.
AllScopes == [full: BOOLEAN, albums: SUBSET Albums]
FullLibrary == [full |-> TRUE, albums |-> {}]
Want == [kind: {"asset", "person", "people"}, asset: Assets, person: People,
         withHidden: BOOLEAN]

ASSUME AccessAssumption ==
  /\ ScopeTTL \in Nat /\ PeopleTTL \in Nat /\ Latency \in Nat
  /\ MaxPages \in Nat \ {0} /\ PageSize \in Nat \ {0}
  /\ Faces \in [Assets -> SUBSET People]
  /\ Scopes \subseteq AllScopes
  /\ Wants \subseteq Want /\ Wants # {} /\ Tokens # {}

(* A definition named X_Y is X with the bug Y, for the mutation runs only. *)

VARIABLES
  tokens,        \* rows of tokens: [scope, active]
  album,         \* external: the assets of each album
  albumsOf,      \* cache entries asset_albums:{asset}
  idsOf,         \* cache entries scope_person_ids:{albums}
  listOf,        \* cache entries people:full:{withHidden} and people:albums:{albums}
  pc,            \* the await each request is suspended at
  who, want,     \* its token and what it asks for
  scope,         \* album_ids of the record that require_token read
  albums,        \* the albums Immich answered, on the way back
  allowed,       \* the people on the pages so far, then those of the scope
  waited,        \* age of its call of Immich
  pages,         \* pages it has got before this call
  answer,        \* history: what the last step let through
  outside,       \* history: time since an asset was last in an album
  ended          \* history: time since a token was last active

cacheVars == <<albumsOf, idsOf, listOf>>
callVars == <<albums, allowed, waited, pages>>
requestVars == <<pc, who, want, scope, albums, allowed, waited, pages>>
worldVars == <<tokens, album, outside, ended>>
vars == <<tokens, album, albumsOf, idsOf, listOf, pc, who, want, scope, albums,
          allowed, waited, pages, answer, outside, ended>>

\* The time of n calls, and how old the history can grow: beyond every bound
\* of the properties.
Calls(n) == n * Latency
Horizon == Calls(MaxPages) + Latency + ScopeTTL + PeopleTTL + 1
EndHorizon == Calls(MaxPages) + Latency + 1

ListKeys == [full: BOOLEAN, albums: SUBSET Albums, withHidden: BOOLEAN]
Entry(Values, ttl) == [value: Values, age: 0..(ttl + 1)]
NoEntry(ttl) == [value |-> {}, age |-> ttl + 1]

\* What the slot of no request holds.
AnyToken == CHOOSE t \in Tokens : TRUE
AnyWant == CHOOSE w \in Wants : TRUE
NoAnswer == [token |-> AnyToken, scope |-> FullLibrary,
             assets |-> {}, people |-> {}]
Searching == {"askIds", "pageRead", "idsRead"}
Waiting == {"askAlbums", "albumsRead", "askPeople"} \cup Searching

Init ==
  /\ tokens \in [Tokens -> [scope: Scopes, active: {TRUE}]]
  /\ album \in [Albums -> SUBSET Assets]
  /\ albumsOf = [a \in Assets |-> NoEntry(ScopeTTL)]
  /\ idsOf = [s \in SUBSET Albums |-> NoEntry(ScopeTTL)]
  /\ listOf = [k \in ListKeys |-> NoEntry(PeopleTTL)]
  /\ pc = [r \in Requests |-> "idle"]
  /\ who = [r \in Requests |-> AnyToken]
  /\ want = [r \in Requests |-> AnyWant]
  /\ scope = [r \in Requests |-> FullLibrary]
  /\ albums = [r \in Requests |-> {}]
  /\ allowed = [r \in Requests |-> {}]
  /\ waited = [r \in Requests |-> 0]
  /\ pages = [r \in Requests |-> 0]
  /\ answer = NoAnswer
  /\ outside = [a \in Assets |-> [l \in Albums |-> IF a \in album[l] THEN 0 ELSE Horizon]]
  /\ ended = [t \in Tokens |-> 0]

------------------------------------------------------------------------------
(* The cache.  An entry outlives its TTL until get or the sweep of main.py  *)
(* deletes it, but get never returns it: an expired entry is no entry.      *)

Fresh(entry, ttl) == entry.age <= ttl
Stored(v) == [value |-> v, age |-> 0]

Aged(entry, ttl) ==
  IF entry.age < ttl THEN [value |-> entry.value, age |-> entry.age + 1] ELSE NoEntry(ttl)

(* The token store and the auth gate.                                      *)

\* resolve_token: the row is read again for every check, and must be active.
Resolves_Any(t) == TRUE
Resolves(t) == tokens[t].active

\* The middleware auth_gate lets the request pass.
Arrive(r, t) ==
  /\ pc[r] = "idle"
  /\ Resolves(t)
  /\ pc' = [pc EXCEPT ![r] = "passed"]
  /\ who' = [who EXCEPT ![r] = t]
  /\ answer' = NoAnswer /\ UNCHANGED <<want, scope>> /\ UNCHANGED callVars
  /\ UNCHANGED cacheVars /\ UNCHANGED worldVars

\* The answer of a request; nothing at all stands for 401, 404 and empty lists.
Answer(r, assets, people) ==
  /\ pc' = [pc EXCEPT ![r] = "idle"]
  /\ who' = [who EXCEPT ![r] = AnyToken]
  /\ want' = [want EXCEPT ![r] = AnyWant]
  /\ scope' = [scope EXCEPT ![r] = FullLibrary]
  /\ albums' = [albums EXCEPT ![r] = {}]
  /\ allowed' = [allowed EXCEPT ![r] = {}]
  /\ waited' = [waited EXCEPT ![r] = 0]
  /\ pages' = [pages EXCEPT ![r] = 0]
  /\ answer' = IF assets = {} /\ people = {}
               THEN NoAnswer
               ELSE [token |-> who[r], scope |-> scope[r], assets |-> assets, people |-> people]

\* require_token reads the row once more and hands the record to the route,
\* which asks for w.
Authorize(r, w) ==
  /\ pc[r] = "passed"
  /\ Resolves(who[r])
  /\ pc' = [pc EXCEPT ![r] = "checked"]
  /\ want' = [want EXCEPT ![r] = w]
  /\ scope' = [scope EXCEPT ![r] = tokens[who[r]].scope]
  /\ answer' = NoAnswer /\ UNCHANGED who /\ UNCHANGED callVars
  /\ UNCHANGED cacheVars /\ UNCHANGED worldVars

Unauthorized(r) ==
  /\ pc[r] = "passed"
  /\ ~Resolves(who[r])
  /\ Answer(r, {}, {})
  /\ UNCHANGED cacheVars /\ UNCHANGED worldVars

\* A call of Immich is sent; ids are the people the request may see so far.
Ask(r, where, ids) ==
  /\ pc' = [pc EXCEPT ![r] = where]
  /\ allowed' = [allowed EXCEPT ![r] = ids]
  /\ waited' = [waited EXCEPT ![r] = 0]
  /\ albums' = [albums EXCEPT ![r] = {}]
  /\ pages' = [pages EXCEPT ![r] = 0]
  /\ answer' = NoAnswer /\ UNCHANGED <<who, want, scope>>

(* ensure_asset_in_scope.  What the routes do once it returns (metadata,    *)
(* media, comments of the asset) is what the answer stands for.            *)

\* allowed.intersection(album_ids)
Judge(r, found) ==
  Answer(r, IF scope[r].albums \cap found # {} THEN {want[r].asset} ELSE {}, {})

\* An empty list of albums needs no call to see that nothing is in scope.
AlbumsKnown(r) == scope[r].albums = {} \/ Fresh(albumsOf[want[r].asset], ScopeTTL)

CheckAsset_Sliding(r) ==
  LET a == want[r].asset
  IN  /\ pc[r] = "checked" /\ want[r].kind = "asset"
      /\ \/ scope[r].full /\ Answer(r, {a}, {}) /\ UNCHANGED albumsOf
         \/ /\ ~scope[r].full /\ AlbumsKnown(r) /\ Judge(r, albumsOf[a].value)
            /\ albumsOf' = [albumsOf EXCEPT ![a] = Stored(albumsOf[a].value)]
         \/ ~scope[r].full /\ ~AlbumsKnown(r) /\ Ask(r, "askAlbums", {}) /\ UNCHANGED albumsOf
      /\ UNCHANGED <<idsOf, listOf>> /\ UNCHANGED worldVars

CheckAsset(r) ==
  LET a == want[r].asset
  IN  /\ pc[r] = "checked" /\ want[r].kind = "asset"
      /\ \/ scope[r].full /\ Answer(r, {a}, {})
         \/ ~scope[r].full /\ AlbumsKnown(r) /\ Judge(r, albumsOf[a].value)
         \/ ~scope[r].full /\ ~AlbumsKnown(r) /\ Ask(r, "askAlbums", {})
      /\ UNCHANGED cacheVars /\ UNCHANGED worldVars

\* External: GET /api/albums?assetId= reads the albums the asset is in.
ImmichReadsAlbums(r) ==
  /\ pc[r] = "askAlbums"
  /\ pc' = [pc EXCEPT ![r] = "albumsRead"]
  /\ albums' = [albums EXCEPT ![r] = {l \in Albums : want[r].asset \in album[l]}]
  /\ answer' = NoAnswer /\ UNCHANGED <<who, want, scope, allowed, waited, pages>>
  /\ UNCHANGED cacheVars /\ UNCHANGED worldVars

AlbumsArrive(r) ==
  /\ pc[r] = "albumsRead"
  /\ albumsOf' = [albumsOf EXCEPT ![want[r].asset] = Stored(albums[r])]
  /\ Judge(r, albums[r])
  /\ UNCHANGED <<idsOf, listOf>> /\ UNCHANGED worldVars

AlbumsFail(r) ==
  /\ pc[r] \in {"askAlbums", "albumsRead"}
  /\ Answer(r, {}, {})
  /\ UNCHANGED cacheVars /\ UNCHANGED worldVars

(* person_ids_in_scope, and the routes that call it: a person or its        *)
(* thumbnail, and the list.  For the full library it returns None, which    *)
(* restricts nothing: here, everyone.                                      *)

\* people:full:{withHidden} or people:albums:{albums}
ListKey_Shared(r) == [full |-> TRUE, albums |-> {}, withHidden |-> want[r].withHidden]
ListKey(r) ==
  IF scope[r].full
  THEN [full |-> TRUE, albums |-> {}, withHidden |-> want[r].withHidden]
  ELSE [full |-> FALSE, albums |-> scope[r].albums, withHidden |-> TRUE]

\* What the route does with the people in scope, up to its next await.
WithIds(r, ids) ==
  \/ /\ want[r].kind = "person"
     /\ Answer(r, {}, {want[r].person} \cap ids)
  \/ /\ want[r].kind = "people" /\ ~scope[r].full /\ ids = {}
     /\ Answer(r, {}, {})
  \/ /\ want[r].kind = "people" /\ (scope[r].full \/ ids # {})
     /\ Fresh(listOf[ListKey(r)], PeopleTTL)
     /\ Answer(r, {}, listOf[ListKey(r)].value)
  \/ /\ want[r].kind = "people" /\ (scope[r].full \/ ids # {})
     /\ ~Fresh(listOf[ListKey(r)], PeopleTTL)
     /\ Ask(r, "askPeople", ids)

IdsKnown(r) == scope[r].albums = {} \/ Fresh(idsOf[scope[r].albums], ScopeTTL)
KnownIds(r) == IF scope[r].albums = {} THEN {} ELSE idsOf[scope[r].albums].value

CheckPeople(r) ==
  /\ pc[r] = "checked" /\ want[r].kind \in {"person", "people"}
  /\ \/ scope[r].full /\ WithIds(r, People)
     \/ ~scope[r].full /\ IdsKnown(r) /\ WithIds(r, KnownIds(r))
     \/ ~scope[r].full /\ ~IdsKnown(r) /\ Ask(r, "askIds", {})
  /\ UNCHANGED cacheVars /\ UNCHANGED worldVars

\* The photos of the albums as they are now.
InScope(r) == UNION {album[l] : l \in scope[r].albums}

\* External: POST /api/search/metadata answers one page of those photos.  Each
\* page is of the instant it is read at, so that photos which come and go
\* between two pages may be on both or on none; a first page that is not full
\* has them all.
Page(r, items) ==
  /\ items \subseteq InScope(r) /\ Cardinality(items) <= PageSize
  /\ pages[r] = 0 /\ Cardinality(items) < PageSize => items = InScope(r)

\* A full page leaves the request at "pageRead": there may be another one.
ImmichReadsIds(r) ==
  /\ pc[r] = "askIds"
  /\ \E items \in SUBSET InScope(r) :
       /\ Page(r, items)
       /\ allowed' = [allowed EXCEPT ![r] = @ \cup UNION {Faces[a] : a \in items}]
       /\ pc' = [pc EXCEPT ![r] =
            IF Cardinality(items) = PageSize THEN "pageRead" ELSE "idsRead"]
  /\ answer' = NoAnswer /\ UNCHANGED <<who, want, scope, albums, waited, pages>>
  /\ UNCHANGED cacheVars /\ UNCHANGED worldVars

\* A full page arrives and the next one is asked for: another call.
NextPage(r) ==
  /\ pc[r] = "pageRead" /\ pages[r] + 1 < MaxPages
  /\ pc' = [pc EXCEPT ![r] = "askIds"]
  /\ waited' = [waited EXCEPT ![r] = 0]
  /\ pages' = [pages EXCEPT ![r] = @ + 1]
  /\ answer' = NoAnswer /\ UNCHANGED <<who, want, scope, albums, allowed>>
  /\ UNCHANGED cacheVars /\ UNCHANGED worldVars

\* The last page arrives, one that is not full or the last that is asked for;
\* what all of them said is stored as if it were new.
IdsArrive(r) ==
  /\ pc[r] = "idsRead" \/ (pc[r] = "pageRead" /\ pages[r] + 1 >= MaxPages)
  /\ idsOf' = [idsOf EXCEPT ![scope[r].albums] = Stored(allowed[r])]
  /\ WithIds(r, allowed[r])
  /\ UNCHANGED <<albumsOf, listOf>> /\ UNCHANGED worldVars

\* An error of Immich, on any page, is nobody in scope and is not remembered.
IdsFail(r) ==
  /\ pc[r] \in Searching
  /\ WithIds(r, {})
  /\ UNCHANGED cacheVars /\ UNCHANGED worldVars

\* GET /api/people answers; the names outside the scope are dropped.
Listed(r) ==
  (IF ~scope[r].full \/ want[r].withHidden THEN People ELSE People \ Hidden)
    \cap allowed[r]

PeopleArrive(r) ==
  /\ pc[r] = "askPeople"
  /\ listOf' = [listOf EXCEPT ![ListKey(r)] = Stored(Listed(r))]
  /\ Answer(r, {}, Listed(r))
  /\ UNCHANGED <<albumsOf, idsOf>> /\ UNCHANGED worldVars

PeopleFail(r) ==
  /\ pc[r] = "askPeople"
  /\ Answer(r, {}, {})
  /\ UNCHANGED cacheVars /\ UNCHANGED worldVars

------------------------------------------------------------------------------
(* The CLI, Immich's own users, and time.                                   *)

\* The token is revoked, or the time expires_at has come.
End(t) ==
  /\ tokens[t].active
  /\ tokens' = [tokens EXCEPT ![t].active = FALSE]
  /\ UNCHANGED <<album, outside, ended>>
  /\ answer' = NoAnswer /\ UNCHANGED requestVars /\ UNCHANGED cacheVars

\* The scope of an expired token may change too, but nothing reads it again.
SetAlbumScope(t, s) ==
  /\ tokens[t].active
  /\ tokens' = [tokens EXCEPT ![t].scope = s]
  /\ UNCHANGED <<album, outside, ended>>
  /\ answer' = NoAnswer /\ UNCHANGED requestVars /\ UNCHANGED cacheVars

AddToAlbum(a, l) ==
  /\ a \notin album[l]
  /\ album' = [album EXCEPT ![l] = @ \cup {a}]
  /\ outside' = [outside EXCEPT ![a][l] = 0]
  /\ UNCHANGED <<tokens, ended>>
  /\ answer' = NoAnswer /\ UNCHANGED requestVars /\ UNCHANGED cacheVars

RemoveFromAlbum(a, l) ==
  /\ a \in album[l]
  /\ album' = [album EXCEPT ![l] = @ \ {a}]
  /\ UNCHANGED <<tokens, outside, ended>>
  /\ answer' = NoAnswer /\ UNCHANGED requestVars /\ UNCHANGED cacheVars

Older(age, most) == IF age < most THEN age + 1 ELSE age

Tick ==
  /\ \A r \in Requests : pc[r] = "idle" \/ (pc[r] \in Waiting /\ waited[r] < Latency)
  /\ waited' = [r \in Requests |-> IF pc[r] = "idle" THEN 0 ELSE waited[r] + 1]
  /\ albumsOf' = [a \in Assets |-> Aged(albumsOf[a], ScopeTTL)]
  /\ idsOf' = [s \in SUBSET Albums |-> Aged(idsOf[s], ScopeTTL)]
  /\ listOf' = [k \in ListKeys |-> Aged(listOf[k], PeopleTTL)]
  /\ outside' = [a \in Assets |-> [l \in Albums |->
       IF a \in album[l] THEN 0 ELSE Older(outside[a][l], Horizon)]]
  /\ ended' = [t \in Tokens |-> IF tokens[t].active THEN 0 ELSE Older(ended[t], EndHorizon)]
  /\ answer' = NoAnswer
  /\ UNCHANGED <<tokens, album, pc, who, want, scope, albums, allowed, pages>>

Immich(r) == ImmichReadsAlbums(r) \/ ImmichReadsIds(r)
Server(r) ==
  \/ (\E w \in Wants : Authorize(r, w)) \/ Unauthorized(r)
  \/ CheckAsset(r) \/ AlbumsArrive(r) \/ AlbumsFail(r)
  \/ CheckPeople(r) \/ NextPage(r) \/ IdsArrive(r) \/ IdsFail(r)
  \/ PeopleArrive(r) \/ PeopleFail(r)
World ==
  \/ \E t \in Tokens : End(t) \/ \E s \in Scopes : SetAlbumScope(t, s)
  \/ \E a \in Assets, l \in Albums : AddToAlbum(a, l) \/ RemoveFromAlbum(a, l)

Next ==
  \/ \E r \in Requests, t \in Tokens : Arrive(r, t)
  \/ \E r \in Requests : Server(r) \/ Immich(r)
  \/ World
  \/ Tick

Spec == Init /\ [][Next]_vars

------------------------------------------------------------------------------
(* Type correctness; entries and calls have the ages the code allows them. *)
CacheTypeOK ==
  /\ albumsOf \in [Assets -> Entry(SUBSET Albums, ScopeTTL)]
  /\ idsOf \in [SUBSET Albums -> Entry(SUBSET People, ScopeTTL)]
  /\ listOf \in [ListKeys -> Entry(SUBSET People, PeopleTTL)]
RequestTypeOK ==
  /\ pc \in [Requests -> {"idle", "passed", "checked"} \cup Waiting]
  /\ who \in [Requests -> Tokens]
  /\ want \in [Requests -> Want]
  /\ scope \in [Requests -> AllScopes]
  /\ albums \in [Requests -> SUBSET Albums]
  /\ allowed \in [Requests -> SUBSET People]
  /\ waited \in [Requests -> 0..Latency]
  /\ pages \in [Requests -> 0..(MaxPages - 1)]
  /\ answer \in [token: Tokens, scope: AllScopes, assets: SUBSET Assets,
                 people: SUBSET People]
WorldTypeOK ==
  /\ tokens \in [Tokens -> [scope: AllScopes, active: BOOLEAN]]
  /\ album \in [Albums -> SUBSET Assets]
  /\ outside \in [Assets -> [Albums -> 0..Horizon]]
  /\ ended \in [Tokens -> 0..EndHorizon]
TypeOK == CacheTypeOK /\ RequestTypeOK /\ WorldTypeOK

\* The asset was in one of the albums, at most d ago.
SeenWithin(a, ls, d) == \E l \in ls : outside[a][l] <= d

\* The person was on an asset of one of the albums, at most d ago.
PersonWithin(p, ls, d) == \E a \in Assets : p \in Faces[a] /\ SeenWithin(a, ls, d)

\* A scoped token is let through only to assets that were in one of its albums
\* within the TTL of scope.py and one call of Immich: hits do not prolong an
\* entry, and of two calls for one asset that overlap, the older one may be
\* stored last (scope.py:26-41).
AssetsWithinScope ==
  ~answer.scope.full =>
    \A a \in answer.assets : SeenWithin(a, answer.scope.albums, Latency + ScopeTTL)

\* The people a scoped token is shown were on a photo of its albums within both
\* TTLs, the calls of all pages of a search and one more, whatever tokens share
\* the cache: the list is made from person ids that are already cached, and
\* those are of the time of the first page (scope.py:66-101, people.py:38-67).
PeopleWithinScope ==
  ~answer.scope.full =>
    \A p \in answer.people :
      PersonWithin(p, answer.scope.albums, Calls(MaxPages) + Latency + ScopeTTL + PeopleTTL)

\* Nothing is let through for longer after its token was revoked or expired
\* than the calls a request can make, the pages of a search and one more: both
\* checks read the row again (auth.py:107-131, 160-166), no later step does.
RevocationBites ==
  answer.assets # {} \/ answer.people # {} =>
    ended[answer.token] <= Calls(MaxPages) + Latency
=============================================================================
