----------------------------- MODULE AccessProofs -----------------------------
(***************************************************************************)
(* Theorems about Access, for any tokens, requests, library, times to live *)
(* and latency.                                                            *)
(***************************************************************************)
EXTENDS Access, TLAPS

\* The time of calls grows by one call at a time.
LEMMA CallsGrow ==
  /\ \A n \in Nat : Calls(n) \in Nat /\ Calls(n + 1) = Calls(n) + Latency
  /\ \A m, n \in Nat : m <= n => Calls(m) <= Calls(n)
<1>1. ASSUME NEW n \in Nat PROVE Calls(n) \in Nat /\ Calls(n + 1) = Calls(n) + Latency
  BY AccessAssumption, SMT DEF Calls
<1>2. ASSUME NEW m \in Nat, NEW n \in Nat, m <= n PROVE Calls(m) <= Calls(n)
  BY AccessAssumption, <1>2, SMT DEF Calls
<1> QED BY <1>1, <1>2

\* A request that has got k pages and waits for another one.
LEMMA LoopTime ==
  /\ Calls(MaxPages) \in Nat /\ Latency <= Calls(MaxPages)
  /\ 0 \in 0..(MaxPages - 1)
  /\ \A k \in 0..(MaxPages - 1) : Calls(k) \in Nat /\ Calls(k) + Latency <= Calls(MaxPages)
<1>1. ASSUME NEW k \in 0..(MaxPages - 1)
      PROVE  Calls(k) \in Nat /\ Calls(k) + Latency <= Calls(MaxPages)
  <2>1. k \in Nat /\ k + 1 \in Nat /\ MaxPages \in Nat /\ k + 1 <= MaxPages
    BY AccessAssumption
  <2>2. Calls(k) \in Nat /\ Calls(k + 1) = Calls(k) + Latency /\ Calls(k + 1) <= Calls(MaxPages)
    BY <2>1, CallsGrow
  <2> QED BY <2>2
<1>2. 0 \in 0..(MaxPages - 1) /\ MaxPages \in Nat
  BY AccessAssumption
<1>3. Calls(MaxPages) \in Nat
  BY <1>2, CallsGrow
<1>4. Latency <= Calls(MaxPages)
  BY <1>1, <1>2, <1>3, AccessAssumption
<1> QED BY <1>1, <1>2, <1>3, <1>4

LEMMA SlotTypes == AnyToken \in Tokens /\ AnyWant \in Want /\ FullLibrary \in AllScopes
  BY AccessAssumption DEF AnyToken, AnyWant, FullLibrary, AllScopes

LEMMA NoAnswerType ==
  NoAnswer \in [token: Tokens, scope: AllScopes, assets: SUBSET Assets, people: SUBSET People]
  BY SlotTypes DEF NoAnswer

\* A step that answers nothing.
LEMMA Silence == answer' = NoAnswer => RevocationBites'
  BY DEF RevocationBites, NoAnswer

\* An answer empties its slot and leaves everything else of the right type.
LEMMA AnswerTypes ==
  ASSUME RequestTypeOK, NEW r \in Requests, NEW as \in SUBSET Assets,
         NEW ps \in SUBSET People, Answer(r, as, ps)
  PROVE  RequestTypeOK'
<1>1. who[r] \in Tokens /\ scope[r] \in AllScopes
  BY DEF RequestTypeOK
<1>2. [token |-> who[r], scope |-> scope[r], assets |-> as, people |-> ps]
        \in [token: Tokens, scope: AllScopes, assets: SUBSET Assets, people: SUBSET People]
  BY <1>1
<1>3. answer' \in [token: Tokens, scope: AllScopes, assets: SUBSET Assets, people: SUBSET People]
  BY <1>2, NoAnswerType DEF Answer
<1>4. 0 \in 0..Latency
  BY AccessAssumption
<1> QED
  BY <1>3, <1>4, SlotTypes, LoopTime DEF Answer, RequestTypeOK

LEMMA AskTypes ==
  ASSUME RequestTypeOK, NEW r \in Requests, NEW where \in Waiting,
         NEW ids \in SUBSET People, Ask(r, where, ids)
  PROVE  RequestTypeOK'
<1>1. 0 \in 0..Latency
  BY AccessAssumption
<1> QED
  BY <1>1, NoAnswerType, LoopTime DEF Ask, RequestTypeOK

\* What the cache holds for a request is of the right type.
LEMMA HeldTypes ==
  ASSUME CacheTypeOK, RequestTypeOK, NEW r \in Requests
  PROVE  /\ want[r].asset \in Assets /\ want[r].person \in People
         /\ scope[r].albums \in SUBSET Albums
         /\ ListKey(r) \in ListKeys
         /\ idsOf[scope[r].albums].value \in SUBSET People
         /\ KnownIds(r) \in SUBSET People
         /\ listOf[ListKey(r)].value \in SUBSET People
         /\ albumsOf[want[r].asset].value \in SUBSET Albums
<1>1. want[r] \in Want /\ scope[r] \in AllScopes
  BY DEF RequestTypeOK
<1>2. /\ want[r].asset \in Assets /\ want[r].person \in People
      /\ want[r].withHidden \in BOOLEAN /\ scope[r].albums \in SUBSET Albums
  BY <1>1 DEF Want, AllScopes
<1>3. ListKey(r) \in ListKeys
  <2>1. CASE scope[r].full
    BY <1>2, <2>1 DEF ListKey, ListKeys
  <2>2. CASE ~scope[r].full
    BY <1>2, <2>2 DEF ListKey, ListKeys
  <2> QED BY <2>1, <2>2
<1>4. /\ idsOf[scope[r].albums] \in Entry(SUBSET People, ScopeTTL)
      /\ listOf[ListKey(r)] \in Entry(SUBSET People, PeopleTTL)
      /\ albumsOf[want[r].asset] \in Entry(SUBSET Albums, ScopeTTL)
  BY <1>2, <1>3 DEF CacheTypeOK
<1>5. /\ idsOf[scope[r].albums].value \in SUBSET People
      /\ listOf[ListKey(r)].value \in SUBSET People
      /\ albumsOf[want[r].asset].value \in SUBSET Albums
  BY <1>4 DEF Entry
<1> QED
  BY <1>2, <1>3, <1>5 DEF KnownIds

LEMMA WithIdsTypes ==
  ASSUME CacheTypeOK, RequestTypeOK, NEW r \in Requests, NEW ids \in SUBSET People,
         WithIds(r, ids)
  PROVE  RequestTypeOK'
<1>1. /\ {want[r].person} \cap ids \in SUBSET People
      /\ listOf[ListKey(r)].value \in SUBSET People
      /\ {} \in SUBSET People /\ {} \in SUBSET Assets
  BY HeldTypes
<1>2. CASE Answer(r, {}, {want[r].person} \cap ids)
  BY <1>1, <1>2, AnswerTypes
<1>3. CASE Answer(r, {}, {})
  BY <1>1, <1>3, AnswerTypes
<1>4. CASE Answer(r, {}, listOf[ListKey(r)].value)
  BY <1>1, <1>4, AnswerTypes
<1>5. CASE Ask(r, "askPeople", ids)
  <2>1. "askPeople" \in Waiting
    BY DEF Waiting
  <2> QED BY <1>5, <2>1, AskTypes
<1> QED
  BY <1>2, <1>3, <1>4, <1>5 DEF WithIds

LEMMA JudgeTypes ==
  ASSUME CacheTypeOK, RequestTypeOK, NEW r \in Requests, NEW found, Judge(r, found)
  PROVE  RequestTypeOK'
<1>1. (IF scope[r].albums \cap found # {} THEN {want[r].asset} ELSE {}) \in SUBSET Assets
  BY HeldTypes
<1> QED
  BY <1>1, AnswerTypes DEF Judge

\* A new entry, and an older one.
LEMMA EntryTypes ==
  ASSUME NEW T, NEW ttl \in Nat
  PROVE  /\ \A v \in SUBSET T : Stored(v) \in Entry(SUBSET T, ttl)
         /\ \A e \in Entry(SUBSET T, ttl) : Aged(e, ttl) \in Entry(SUBSET T, ttl)
         /\ NoEntry(ttl) \in Entry(SUBSET T, ttl)
<1>1. 0 \in 0..(ttl + 1) /\ ttl + 1 \in 0..(ttl + 1)
  OBVIOUS
<1>2. \A v \in SUBSET T : Stored(v) \in Entry(SUBSET T, ttl)
  BY <1>1 DEF Stored, Entry
<1>3. NoEntry(ttl) \in Entry(SUBSET T, ttl)
  BY <1>1 DEF NoEntry, Entry
<1>4. ASSUME NEW e \in Entry(SUBSET T, ttl)
      PROVE  Aged(e, ttl) \in Entry(SUBSET T, ttl)
  <2>1. e.value \in SUBSET T /\ e.age \in 0..(ttl + 1)
    BY DEF Entry
  <2>2. CASE e.age < ttl
    <3>1. e.age + 1 \in 0..(ttl + 1)
      BY <2>1, <2>2
    <3> QED BY <2>1, <2>2, <3>1 DEF Aged, Entry
  <2>3. CASE ~(e.age < ttl)
    BY <1>3, <2>3 DEF Aged
  <2> QED BY <2>2, <2>3
<1> QED
  BY <1>2, <1>3, <1>4

LEMMA Unmoved ==
  /\ CacheTypeOK /\ UNCHANGED cacheVars => CacheTypeOK'
  /\ WorldTypeOK /\ UNCHANGED worldVars => WorldTypeOK'
  /\ RequestTypeOK /\ answer' = NoAnswer /\ UNCHANGED requestVars => RequestTypeOK'
<1>1. CacheTypeOK /\ UNCHANGED cacheVars => CacheTypeOK'
  BY DEF CacheTypeOK, cacheVars
<1>2. WorldTypeOK /\ UNCHANGED worldVars => WorldTypeOK'
  BY DEF WorldTypeOK, worldVars
<1>3. RequestTypeOK /\ answer' = NoAnswer /\ UNCHANGED requestVars => RequestTypeOK'
  BY NoAnswerType DEF RequestTypeOK, requestVars
<1> QED BY <1>1, <1>2, <1>3

\* One step of a request keeps the types.
LEMMA RequestStepTypes ==
  ASSUME TypeOK, NEW r \in Requests, Server(r) \/ Immich(r)
  PROVE  TypeOK'
<1> USE DEF TypeOK
<1>0. /\ {} \in SUBSET Assets /\ {} \in SUBSET People /\ People \in SUBSET People
      /\ want[r].asset \in Assets /\ scope[r].albums \in SUBSET Albums
      /\ albums[r] \in SUBSET Albums /\ allowed[r] \in SUBSET People
      /\ KnownIds(r) \in SUBSET People /\ ListKey(r) \in ListKeys
      /\ "askAlbums" \in Waiting /\ "askIds" \in Waiting
      /\ CacheTypeOK /\ RequestTypeOK
  BY HeldTypes DEF RequestTypeOK, Waiting, Searching
<1>1. ASSUME NEW w \in Wants, Authorize(r, w) PROVE TypeOK'
  <2>1. w \in Want /\ tokens[who[r]].scope \in AllScopes
    BY AccessAssumption DEF RequestTypeOK, WorldTypeOK
  <2>2. RequestTypeOK'
    BY <1>1, <2>1, NoAnswerType DEF Authorize, callVars, RequestTypeOK
  <2> QED BY <1>1, <2>2, Unmoved DEF Authorize
<1>2. CASE Unauthorized(r)
  BY <1>0, <1>2, AnswerTypes, Unmoved DEF Unauthorized
<1>3. CASE CheckAsset(r)
  <2>1. ASSUME Answer(r, {want[r].asset}, {}) PROVE RequestTypeOK'
    <3>1. {want[r].asset} \in SUBSET Assets
      BY <1>0
    <3> QED BY <1>0, <2>1, <3>1, AnswerTypes
  <2>2. ASSUME Judge(r, albumsOf[want[r].asset].value) PROVE RequestTypeOK'
    BY <1>0, <2>2, JudgeTypes
  <2>3. ASSUME Ask(r, "askAlbums", {}) PROVE RequestTypeOK'
    BY <1>0, <2>3, AskTypes
  <2>4. RequestTypeOK'
    BY <1>3, <2>1, <2>2, <2>3 DEF CheckAsset
  <2> QED BY <1>3, <2>4, Unmoved DEF CheckAsset
<1>4. CASE AlbumsArrive(r)
  <2>1. RequestTypeOK'
    BY <1>4, JudgeTypes DEF AlbumsArrive
  <2>2. Stored(albums[r]) \in Entry(SUBSET Albums, ScopeTTL)
    BY <1>0, EntryTypes, AccessAssumption
  <2>3. CacheTypeOK'
    BY <1>4, <2>2 DEF AlbumsArrive, CacheTypeOK
  <2> QED BY <1>4, <2>1, <2>3, Unmoved DEF AlbumsArrive
<1>5. CASE AlbumsFail(r)
  BY <1>0, <1>5, AnswerTypes, Unmoved DEF AlbumsFail
<1>6. CASE CheckPeople(r)
  <2>1. ASSUME NEW ids \in SUBSET People, WithIds(r, ids) PROVE RequestTypeOK'
    BY <2>1, WithIdsTypes
  <2>2. ASSUME Ask(r, "askIds", {}) PROVE RequestTypeOK'
    BY <1>0, <2>2, AskTypes
  <2>3. RequestTypeOK'
    BY <1>0, <1>6, <2>1, <2>2 DEF CheckPeople
  <2> QED BY <1>6, <2>3, Unmoved DEF CheckPeople
<1>7. CASE IdsArrive(r)
  <2>1. RequestTypeOK'
    BY <1>0, <1>7, WithIdsTypes DEF IdsArrive
  <2>2. Stored(allowed[r]) \in Entry(SUBSET People, ScopeTTL)
    BY <1>0, EntryTypes, AccessAssumption
  <2>3. CacheTypeOK'
    BY <1>7, <2>2 DEF IdsArrive, CacheTypeOK
  <2> QED BY <1>7, <2>1, <2>3, Unmoved DEF IdsArrive
<1>8. CASE IdsFail(r)
  BY <1>0, <1>8, WithIdsTypes, Unmoved DEF IdsFail
<1>9. CASE PeopleArrive(r)
  <2>1. Listed(r) \in SUBSET People
    BY <1>0 DEF Listed
  <2>2. RequestTypeOK'
    BY <1>0, <1>9, <2>1, AnswerTypes DEF PeopleArrive
  <2>3. Stored(Listed(r)) \in Entry(SUBSET People, PeopleTTL)
    BY <2>1, EntryTypes, AccessAssumption
  <2>4. CacheTypeOK'
    BY <1>9, <2>3 DEF PeopleArrive, CacheTypeOK
  <2> QED BY <1>9, <2>2, <2>4, Unmoved DEF PeopleArrive
<1>10. CASE PeopleFail(r)
  BY <1>0, <1>10, AnswerTypes, Unmoved DEF PeopleFail
<1>11. CASE ImmichReadsAlbums(r)
  <2>1. RequestTypeOK'
    BY <1>11, NoAnswerType DEF ImmichReadsAlbums, RequestTypeOK, Waiting
  <2> QED BY <1>11, <2>1, Unmoved DEF ImmichReadsAlbums
<1>12. CASE ImmichReadsIds(r)
  <2>1. PICK items \in SUBSET InScope(r) :
          allowed' = [allowed EXCEPT ![r] = @ \cup UNION {Faces[a] : a \in items}]
    BY <1>12 DEF ImmichReadsIds
  <2>2. items \subseteq Assets
    BY <1>0 DEF InScope, WorldTypeOK
  <2>3. UNION {Faces[a] : a \in items} \in SUBSET People
    BY <2>2, AccessAssumption
  <2>4. allowed' \in [Requests -> SUBSET People]
    BY <1>0, <2>1, <2>3 DEF RequestTypeOK
  <2>5. pc' \in [Requests -> {"idle", "passed", "checked"} \cup Waiting]
    BY <1>12 DEF ImmichReadsIds, RequestTypeOK, Waiting, Searching
  <2>6. RequestTypeOK'
    BY <1>12, <2>4, <2>5, NoAnswerType DEF ImmichReadsIds, RequestTypeOK
  <2> QED BY <1>12, <2>6, Unmoved DEF ImmichReadsIds
<1>13. CASE NextPage(r)
  <2>1. pages[r] + 1 \in 0..(MaxPages - 1)
    BY <1>13, AccessAssumption DEF NextPage, RequestTypeOK
  <2>2. 0 \in 0..Latency /\ "askIds" \in Waiting
    BY AccessAssumption DEF Waiting, Searching
  <2>3. RequestTypeOK'
    BY <1>13, <2>1, <2>2, NoAnswerType DEF NextPage, RequestTypeOK
  <2> QED BY <1>13, <2>3, Unmoved DEF NextPage
<1> QED
  BY <1>1, <1>2, <1>3, <1>4, <1>5, <1>6, <1>7, <1>8, <1>9, <1>10, <1>11, <1>12, <1>13
     DEF Server, Immich

LEMMA Horizons == Horizon \in Nat /\ EndHorizon \in Nat
  BY LoopTime, AccessAssumption DEF Horizon, EndHorizon

LEMMA TickTypes == ASSUME TypeOK, Tick PROVE TypeOK'
<1> USE DEF TypeOK
<1>1. CacheTypeOK'
  <2>1. albumsOf' \in [Assets -> Entry(SUBSET Albums, ScopeTTL)]
    BY EntryTypes, AccessAssumption DEF Tick, CacheTypeOK
  <2>2. idsOf' \in [SUBSET Albums -> Entry(SUBSET People, ScopeTTL)]
    BY EntryTypes, AccessAssumption DEF Tick, CacheTypeOK
  <2>3. listOf' \in [ListKeys -> Entry(SUBSET People, PeopleTTL)]
    BY EntryTypes, AccessAssumption DEF Tick, CacheTypeOK
  <2> QED BY <2>1, <2>2, <2>3 DEF CacheTypeOK
<1>2. waited' \in [Requests -> 0..Latency]
  <2>1. ASSUME NEW r \in Requests
        PROVE  (IF pc[r] = "idle" THEN 0 ELSE waited[r] + 1) \in 0..Latency
    BY AccessAssumption DEF Tick, RequestTypeOK
  <2> QED BY <2>1 DEF Tick
<1>3. RequestTypeOK'
  <2>1. answer' \in [token: Tokens, scope: AllScopes, assets: SUBSET Assets,
                    people: SUBSET People]
    BY NoAnswerType DEF Tick
  <2>2. UNCHANGED <<pc, who, want, scope, albums, allowed, pages>>
    BY DEF Tick
  <2> QED BY <1>2, <2>1, <2>2 DEF RequestTypeOK
<1>4. \A most \in Nat : \A age \in 0..most : Older(age, most) \in 0..most /\ 0 \in 0..most
  BY DEF Older
<1>5. outside' \in [Assets -> [Albums -> 0..Horizon]]
  <2>1. \A a \in Assets, l \in Albums :
          (IF a \in album[l] THEN 0 ELSE Older(outside[a][l], Horizon)) \in 0..Horizon
    BY <1>4, Horizons DEF WorldTypeOK
  <2> QED BY <2>1 DEF Tick
<1>6. ended' \in [Tokens -> 0..EndHorizon]
  <2>1. \A t \in Tokens :
          (IF tokens[t].active THEN 0 ELSE Older(ended[t], EndHorizon)) \in 0..EndHorizon
    BY <1>4, Horizons DEF WorldTypeOK
  <2> QED BY <2>1 DEF Tick
<1>7. WorldTypeOK'
  BY <1>5, <1>6 DEF Tick, WorldTypeOK
<1> QED BY <1>1, <1>3, <1>7

LEMMA WorldTypes == ASSUME TypeOK, World PROVE TypeOK'
<1> USE DEF TypeOK
<1>1. ASSUME NEW t \in Tokens, End(t) PROVE TypeOK'
  <2>1. WorldTypeOK'
    BY <1>1 DEF End, WorldTypeOK
  <2> QED BY <1>1, <2>1, Unmoved DEF End
<1>2. ASSUME NEW t \in Tokens, NEW s \in Scopes, SetAlbumScope(t, s) PROVE TypeOK'
  <2>1. s \in AllScopes
    BY AccessAssumption
  <2>2. WorldTypeOK'
    BY <1>2, <2>1 DEF SetAlbumScope, WorldTypeOK
  <2> QED BY <1>2, <2>2, Unmoved DEF SetAlbumScope
<1>3. ASSUME NEW a \in Assets, NEW l \in Albums, AddToAlbum(a, l) PROVE TypeOK'
  <2>1. 0 \in 0..Horizon
    BY Horizons
  <2>2. WorldTypeOK'
    BY <1>3, <2>1 DEF AddToAlbum, WorldTypeOK
  <2> QED BY <1>3, <2>2, Unmoved DEF AddToAlbum
<1>4. ASSUME NEW a \in Assets, NEW l \in Albums, RemoveFromAlbum(a, l) PROVE TypeOK'
  <2>1. WorldTypeOK'
    BY <1>4 DEF RemoveFromAlbum, WorldTypeOK
  <2> QED BY <1>4, <2>1, Unmoved DEF RemoveFromAlbum
<1> QED BY <1>1, <1>2, <1>3, <1>4 DEF World

LEMMA ArriveTypes ==
  ASSUME TypeOK, NEW r \in Requests, NEW t \in Tokens, Arrive(r, t)
  PROVE  TypeOK'
<1>1. RequestTypeOK'
  BY NoAnswerType DEF Arrive, callVars, TypeOK, RequestTypeOK
<1> QED BY <1>1, Unmoved DEF Arrive, TypeOK

LEMMA InitTypes == Init => TypeOK
<1> SUFFICES ASSUME Init PROVE TypeOK
  OBVIOUS
<1>1. CacheTypeOK
  BY EntryTypes, AccessAssumption DEF Init, CacheTypeOK
<1>2. RequestTypeOK
  <2>1. 0 \in 0..Latency
    BY AccessAssumption
  <2> QED BY <2>1, SlotTypes, NoAnswerType, LoopTime DEF Init, RequestTypeOK
<1>3. WorldTypeOK
  <2>1. 0 \in 0..Horizon /\ Horizon \in 0..Horizon /\ 0 \in 0..EndHorizon
    BY Horizons
  <2>2. tokens \in [Tokens -> [scope: AllScopes, active: BOOLEAN]]
    BY AccessAssumption DEF Init
  <2> QED BY <2>1, <2>2 DEF Init, WorldTypeOK
<1> QED BY <1>1, <1>2, <1>3 DEF TypeOK

LEMMA StepTypes == TypeOK /\ [Next]_vars => TypeOK'
<1> SUFFICES ASSUME TypeOK, [Next]_vars PROVE TypeOK'
  OBVIOUS
<1>1. CASE UNCHANGED vars
  BY <1>1 DEF vars, TypeOK, CacheTypeOK, RequestTypeOK, WorldTypeOK
<1> QED
  BY <1>1, RequestStepTypes, ArriveTypes, WorldTypes, TickTypes DEF Next

\* Type correctness, for every instance.
THEOREM TypeCorrect == Spec => []TypeOK
  BY InitTypes, StepTypes, PTL DEF Spec

------------------------------------------------------------------------------
\* How long ago the token of a request ended: not at all before require_token
\* has let it pass, and then as long as its calls have taken.
EndInv ==
  /\ \A t \in Tokens : tokens[t].active => ended[t] = 0
  /\ \A r \in Requests :
       /\ pc[r] = "checked" => ended[who[r]] = 0
       /\ pc[r] \in {"askAlbums", "albumsRead"} \cup Searching =>
            ended[who[r]] <= Calls(pages[r]) + waited[r]
       /\ pc[r] = "askPeople" => ended[who[r]] <= Calls(MaxPages) + waited[r]
  /\ RevocationBites

EInv == TypeOK /\ EndInv

LEMMA EndTypes ==
  ASSUME TypeOK, NEW r \in Requests
  PROVE  /\ who[r] \in Tokens /\ ended[who[r]] \in Nat
         /\ waited[r] \in Nat /\ waited[r] <= Latency
         /\ Calls(pages[r]) \in Nat /\ Calls(pages[r]) + waited[r] \in Nat
         /\ Calls(pages[r]) + waited[r] <= Calls(MaxPages)
<1>1. who[r] \in Tokens /\ waited[r] \in 0..Latency /\ pages[r] \in 0..(MaxPages - 1)
  BY DEF TypeOK, RequestTypeOK
<1>2. ended[who[r]] \in 0..EndHorizon
  BY <1>1 DEF TypeOK, WorldTypeOK
<1>3. waited[r] \in Nat /\ waited[r] <= Latency
  BY <1>1, AccessAssumption
<1>4. /\ Calls(pages[r]) \in Nat /\ Calls(pages[r]) + waited[r] \in Nat
      /\ Calls(pages[r]) + waited[r] <= Calls(MaxPages)
  BY <1>1, <1>3, LoopTime, AccessAssumption
<1> QED BY <1>1, <1>2, <1>3, <1>4, Horizons

\* The parts of EndInv that one request can disturb.
CallEnds(r) ==
  /\ pc[r] = "checked" => ended[who[r]] = 0
  /\ pc[r] \in {"askAlbums", "albumsRead"} \cup Searching =>
       ended[who[r]] <= Calls(pages[r]) + waited[r]
  /\ pc[r] = "askPeople" => ended[who[r]] <= Calls(MaxPages) + waited[r]

Untouched(q) ==
  /\ pc'[q] = pc[q] /\ who'[q] = who[q] /\ want'[q] = want[q] /\ scope'[q] = scope[q]
  /\ albums'[q] = albums[q] /\ allowed'[q] = allowed[q]
  /\ waited'[q] = waited[q] /\ pages'[q] = pages[q]

\* A step of r leaves the other requests alone.
LEMMA OthersEnd ==
  ASSUME TypeOK, EndInv, NEW r \in Requests, UNCHANGED <<tokens, ended>>,
         \A q \in Requests : q # r =>
           Untouched(q),
         CallEnds(r)', RevocationBites'
  PROVE  EndInv'
<1>1. \A q \in Requests : CallEnds(q)'
  BY DEF EndInv, CallEnds, Untouched
<1> QED BY <1>1 DEF EndInv, CallEnds

LEMMA AnswerEnds ==
  ASSUME TypeOK, EndInv, NEW r \in Requests, NEW as, NEW ps, Answer(r, as, ps),
         UNCHANGED <<tokens, ended>>,
         (as # {} \/ ps # {}) => ended[who[r]] <= Calls(MaxPages) + Latency
  PROVE  EndInv'
<1>1. \A q \in Requests : q # r =>
        Untouched(q)
  BY DEF Answer, TypeOK, RequestTypeOK, Untouched
<1>2. pc'[r] = "idle"
  BY DEF Answer, TypeOK, RequestTypeOK
<1>3. RevocationBites'
  <2>1. CASE as = {} /\ ps = {}
    <3>1. answer' = NoAnswer
      BY <2>1 DEF Answer
    <3> QED BY <3>1, Silence
  <2>2. CASE ~(as = {} /\ ps = {})
    <3>1. answer' = [token |-> who[r], scope |-> scope[r], assets |-> as, people |-> ps]
      BY <2>2 DEF Answer
    <3>2. answer'.token = who[r]
      BY <3>1
    <3> QED BY <2>2, <3>2 DEF RevocationBites
  <2> QED BY <2>1, <2>2
<1> QED BY <1>1, <1>2, <1>3, OthersEnd DEF CallEnds, Searching

LEMMA AskEnds ==
  ASSUME TypeOK, EndInv, NEW r \in Requests,
         NEW where \in {"askAlbums", "askIds", "askPeople"}, NEW ids, Ask(r, where, ids),
         UNCHANGED <<tokens, ended>>,
         IF where = "askPeople" THEN ended[who[r]] <= Calls(MaxPages) ELSE ended[who[r]] = 0
  PROVE  EndInv'
<1>1. \A q \in Requests : q # r =>
        Untouched(q)
  BY DEF Ask, TypeOK, RequestTypeOK, Untouched
<1>2. pc'[r] = where /\ who'[r] = who[r] /\ waited'[r] = 0 /\ pages'[r] = 0
  BY DEF Ask, TypeOK, RequestTypeOK
<1>3. CallEnds(r)'
  <2>1. Calls(0) \in Nat /\ Calls(MaxPages) \in Nat
    BY LoopTime
  <2> QED BY <1>2, <2>1, EndTypes DEF CallEnds, Searching
<1>4. RevocationBites'
  BY Silence DEF Ask
<1> QED BY <1>1, <1>3, <1>4, OthersEnd

LEMMA WithIdsEnds ==
  ASSUME TypeOK, EndInv, NEW r \in Requests, NEW ids, WithIds(r, ids),
         UNCHANGED <<tokens, ended>>, ended[who[r]] <= Calls(MaxPages)
  PROVE  EndInv'
<1>1. ended[who[r]] <= Calls(MaxPages) + Latency
  BY EndTypes, LoopTime, AccessAssumption
<1> QED BY <1>1, AnswerEnds, AskEnds DEF WithIds

LEMMA RequestStepEnds ==
  ASSUME EInv, NEW r \in Requests, Server(r) \/ Immich(r)
  PROVE  EndInv'
<1>0. /\ TypeOK /\ EndInv /\ CallEnds(r)
      /\ who[r] \in Tokens /\ ended[who[r]] \in Nat
      /\ waited[r] \in Nat /\ waited[r] <= Latency
      /\ Calls(MaxPages) \in Nat /\ Calls(pages[r]) \in Nat
      /\ Calls(pages[r]) + waited[r] <= Calls(MaxPages)
  BY EndTypes, LoopTime DEF EInv, EndInv, CallEnds
<1>1. ASSUME NEW w \in Wants, Authorize(r, w) PROVE EndInv'
  <2>1. \A q \in Requests : q # r =>
          Untouched(q)
    BY <1>0, <1>1 DEF Authorize, callVars, TypeOK, RequestTypeOK, Untouched
  <2>2. /\ pc'[r] = "checked" /\ who'[r] = who[r] /\ answer' = NoAnswer
        /\ UNCHANGED <<tokens, ended>>
    BY <1>0, <1>1 DEF Authorize, callVars, worldVars, TypeOK, RequestTypeOK
  <2>3. ended[who[r]] = 0
    BY <1>0, <1>1 DEF Authorize, Resolves, EndInv
  <2>4. CallEnds(r)' /\ RevocationBites'
    BY <1>0, <2>2, <2>3, Silence DEF CallEnds, EndInv, Searching
  <2> QED BY <1>0, <2>1, <2>2, <2>4, OthersEnd
<1>2. CASE Unauthorized(r)
  BY <1>0, <1>2, AnswerEnds DEF Unauthorized, worldVars
<1>3. CASE CheckAsset(r)
  <2>1. ended[who[r]] = 0 /\ ended[who[r]] <= Calls(MaxPages) + Latency /\ UNCHANGED <<tokens, ended>>
    BY <1>0, <1>3, AccessAssumption DEF CheckAsset, CallEnds, worldVars
  <2> QED BY <1>0, <1>3, <2>1, AnswerEnds, AskEnds DEF CheckAsset, Judge
<1>4. CASE AlbumsArrive(r)
  <2>1. ended[who[r]] <= Calls(MaxPages) + Latency /\ UNCHANGED <<tokens, ended>>
    BY <1>0, <1>4, AccessAssumption DEF AlbumsArrive, CallEnds, worldVars
  <2> QED BY <1>0, <1>4, <2>1, AnswerEnds DEF AlbumsArrive, Judge
<1>5. CASE AlbumsFail(r)
  BY <1>0, <1>5, AnswerEnds DEF AlbumsFail, worldVars
<1>6. CASE CheckPeople(r)
  <2>1. ended[who[r]] = 0 /\ ended[who[r]] <= Calls(MaxPages) /\ UNCHANGED <<tokens, ended>>
    BY <1>0, <1>6 DEF CheckPeople, CallEnds, worldVars
  <2> QED BY <1>0, <1>6, <2>1, WithIdsEnds, AskEnds DEF CheckPeople
<1>7. CASE IdsArrive(r)
  <2>1. ended[who[r]] <= Calls(MaxPages) /\ UNCHANGED <<tokens, ended>>
    BY <1>0, <1>7 DEF IdsArrive, CallEnds, worldVars, Searching
  <2> QED BY <1>0, <1>7, <2>1, WithIdsEnds DEF IdsArrive
<1>8. CASE IdsFail(r)
  <2>1. ended[who[r]] <= Calls(MaxPages) /\ UNCHANGED <<tokens, ended>>
    BY <1>0, <1>8 DEF IdsFail, CallEnds, worldVars, Searching
  <2> QED BY <1>0, <1>8, <2>1, WithIdsEnds DEF IdsFail
<1>9. CASE PeopleArrive(r)
  <2>1. ended[who[r]] <= Calls(MaxPages) + Latency /\ UNCHANGED <<tokens, ended>>
    BY <1>0, <1>9, AccessAssumption DEF PeopleArrive, CallEnds, worldVars
  <2> QED BY <1>0, <1>9, <2>1, AnswerEnds DEF PeopleArrive
<1>10. CASE PeopleFail(r)
  BY <1>0, <1>10, AnswerEnds DEF PeopleFail, worldVars
<1>11. CASE Immich(r)
  <2>1. \A q \in Requests : q # r =>
          Untouched(q)
    BY <1>0, <1>11 DEF Immich, ImmichReadsAlbums, ImmichReadsIds, TypeOK, RequestTypeOK, Untouched
  <2>2. /\ pc[r] \in {"askAlbums", "askIds"}
        /\ pc'[r] \in {"albumsRead", "pageRead", "idsRead"}
        /\ answer' = NoAnswer /\ UNCHANGED <<who, waited, pages, tokens, ended>>
    BY <1>0, <1>11 DEF Immich, ImmichReadsAlbums, ImmichReadsIds, worldVars, TypeOK, RequestTypeOK
  <2>3. CallEnds(r)' /\ RevocationBites'
    BY <1>0, <2>2, Silence DEF CallEnds, EndInv, Searching
  <2> QED BY <1>0, <2>1, <2>2, <2>3, OthersEnd
<1>12. CASE NextPage(r)
  <2>1. \A q \in Requests : q # r => Untouched(q)
    BY <1>0, <1>12 DEF NextPage, TypeOK, RequestTypeOK, Untouched
  <2>2. /\ pc[r] = "pageRead" /\ pc'[r] = "askIds" /\ waited'[r] = 0
        /\ pages'[r] = pages[r] + 1 /\ pages[r] \in Nat
        /\ answer' = NoAnswer /\ UNCHANGED <<who, tokens, ended>>
    BY <1>0, <1>12, AccessAssumption DEF NextPage, worldVars, TypeOK, RequestTypeOK
  <2>3. Calls(pages[r] + 1) = Calls(pages[r]) + Latency
    BY <2>2, CallsGrow
  <2>4. ended[who[r]] <= Calls(pages[r]) + Latency
    BY <1>0, <2>2, AccessAssumption DEF CallEnds, Searching
  <2>5. CallEnds(r)' /\ RevocationBites'
    BY <1>0, <2>2, <2>3, <2>4, Silence, AccessAssumption DEF CallEnds, EndInv
  <2> QED BY <1>0, <2>1, <2>2, <2>5, OthersEnd
<1> QED
  BY <1>1, <1>2, <1>3, <1>4, <1>5, <1>6, <1>7, <1>8, <1>9, <1>10, <1>11, <1>12 DEF Server

LEMMA TickEnds == ASSUME EInv, Tick PROVE EndInv'
<1>0. TypeOK /\ EndInv
  BY DEF EInv
<1>1. \A t \in Tokens : /\ ended'[t] = IF tokens[t].active THEN 0 ELSE Older(ended[t], EndHorizon)
                        /\ ended[t] \in Nat
  BY <1>0, Horizons DEF Tick, TypeOK, WorldTypeOK
<1>2. \A t \in Tokens : tokens'[t].active => ended'[t] = 0
  BY <1>1 DEF Tick
<1>3. ASSUME NEW r \in Requests PROVE CallEnds(r)'
  <2>1. /\ who[r] \in Tokens /\ ended[who[r]] \in Nat /\ waited[r] \in Nat
        /\ who' = who /\ pc' = pc /\ pages' = pages
        /\ Calls(pages[r]) \in Nat /\ Calls(MaxPages) \in Nat
    BY <1>0, EndTypes, LoopTime DEF Tick
  <2>2. ended'[who[r]] <= ended[who[r]] + 1
    BY <1>1, <2>1 DEF Older
  <2>3. ended'[who[r]] \in Nat
    BY <1>1, <2>1 DEF Older
  <2>4. pc[r] # "idle" => waited'[r] = waited[r] + 1 /\ pc[r] \in Waiting
    BY DEF Tick
  <2>5. CallEnds(r)
    BY <1>0 DEF EndInv, CallEnds
  <2> QED BY <2>1, <2>2, <2>3, <2>4, <2>5 DEF CallEnds, Waiting, Searching
<1>4. RevocationBites'
  BY Silence DEF Tick
<1> QED BY <1>2, <1>3, <1>4 DEF EndInv, CallEnds

LEMMA OtherStepEnds ==
  ASSUME EInv, World \/ (\E r \in Requests, t \in Tokens : Arrive(r, t)) \/ UNCHANGED vars
  PROVE  EndInv'
<1>0. TypeOK /\ EndInv
  BY DEF EInv
<1>1. CASE UNCHANGED vars
  BY <1>0, <1>1 DEF vars, EndInv, RevocationBites
<1>2. CASE World
  <2>1. answer' = NoAnswer /\ UNCHANGED requestVars /\ UNCHANGED ended
    BY <1>2 DEF World, End, SetAlbumScope, AddToAlbum, RemoveFromAlbum
  <2>2. \A t \in Tokens : tokens'[t].active => tokens[t].active
    BY <1>0, <1>2 DEF World, End, SetAlbumScope, AddToAlbum, RemoveFromAlbum, TypeOK, WorldTypeOK
  <2> QED BY <1>0, <2>1, <2>2, Silence DEF EndInv, requestVars
<1>3. ASSUME NEW r \in Requests, NEW t \in Tokens, Arrive(r, t) PROVE EndInv'
  <2>1. \A q \in Requests : q # r =>
          Untouched(q)
    BY <1>0, <1>3 DEF Arrive, callVars, TypeOK, RequestTypeOK, Untouched
  <2>2. pc'[r] = "passed" /\ answer' = NoAnswer
        /\ UNCHANGED <<tokens, ended>>
    BY <1>0, <1>3 DEF Arrive, callVars, worldVars, TypeOK, RequestTypeOK
  <2>3. CallEnds(r)' /\ RevocationBites'
    BY <1>0, <2>2, Silence DEF CallEnds, EndInv, Searching
  <2> QED BY <1>0, <2>1, <2>2, <2>3, OthersEnd
<1> QED BY <1>1, <1>2, <1>3

\* Once the calls it can make after its token ended have taken their time, the
\* pages of a search and one more, a request has shown what it will show, for
\* every instance.
THEOREM RevocationTakesEffect == Spec => []RevocationBites
<1>1. Init => EInv
  <2>1. Init => EndInv
    BY DEF Init, EndInv, RevocationBites, NoAnswer, Searching
  <2> QED BY <2>1, InitTypes DEF EInv
<1>2. EInv /\ [Next]_vars => EInv'
  BY StepTypes, RequestStepEnds, TickEnds, OtherStepEnds DEF EInv, Next
<1>3. EInv => RevocationBites
  BY DEF EInv, EndInv
<1> QED BY <1>1, <1>2, <1>3, PTL DEF Spec

-----------------------------------------------------------------------------
(* How stale the answers to scoped tokens can be.  The inductive invariant *)
(* follows a fact about the library on its way: read by Immich, carried by *)
(* a call, kept by the first cache, carried by a request through its       *)
(* second call, kept by the second cache.  At each place its age is at     *)
(* most what the place adds to the age it came with.                       *)

\* A call for the scope is made for scoped tokens only, and what it carries,
\* or what the next call is made with, is no older than the calls and the cache.
CallInv(r) ==
  /\ pc[r] \in {"askAlbums", "albumsRead"} \cup Searching => ~scope[r].full
  /\ pc[r] = "albumsRead" =>
       \A l \in albums[r] : outside[want[r].asset][l] <= waited[r]
  /\ pc[r] \in Searching =>
       \A p \in allowed[r] : PersonWithin(p, scope[r].albums, Calls(pages[r]) + waited[r])
  /\ pc[r] = "askPeople" /\ ~scope[r].full =>
       \A p \in allowed[r] :
         PersonWithin(p, scope[r].albums, Calls(MaxPages) + ScopeTTL + waited[r])

CallsInv == \A r \in Requests : CallInv(r)

AlbumsInv ==
  \A a \in Assets : \A l \in albumsOf[a].value :
    outside[a][l] <= Latency + albumsOf[a].age
IdsInv ==
  \A s \in SUBSET Albums : \A p \in idsOf[s].value :
    PersonWithin(p, s, Calls(MaxPages) + idsOf[s].age)
ListInv ==
  \A k \in ListKeys : ~k.full => \A p \in listOf[k].value :
    PersonWithin(p, k.albums, Calls(MaxPages) + Latency + ScopeTTL + listOf[k].age)
CachesInv == AlbumsInv /\ IdsInv /\ ListInv

MembersInv == \A l \in Albums : \A a \in album[l] : outside[a][l] = 0
AnswersInv == AssetsWithinScope /\ PeopleWithinScope

ScopeInv == CallsInv /\ CachesInv /\ MembersInv /\ AnswersInv
IInv == TypeOK /\ ScopeInv

------------------------------------------------------------------------------
\* What was seen within d was seen within more.
LEMMA Wider ==
  ASSUME TypeOK, NEW p, NEW ls \in SUBSET Albums, NEW d \in Nat, NEW e \in Nat, d <= e
  PROVE  PersonWithin(p, ls, d) => PersonWithin(p, ls, e)
<1>1. \A a \in Assets : \A l \in ls : outside[a][l] \in Nat
  BY Horizons DEF TypeOK, WorldTypeOK
<1> QED BY <1>1 DEF PersonWithin, SeenWithin

LEMMA RequestTypes ==
  ASSUME TypeOK, NEW r \in Requests
  PROVE  /\ want[r].asset \in Assets /\ want[r].person \in People
         /\ scope[r] \in AllScopes
         /\ scope[r].albums \in SUBSET Albums /\ scope[r].full \in BOOLEAN
         /\ albums[r] \in SUBSET Albums /\ allowed[r] \in SUBSET People
         /\ waited[r] \in Nat /\ waited[r] <= Latency
         /\ pages[r] \in Nat
         /\ Calls(pages[r]) + waited[r] \in Nat /\ Calls(pages[r]) + waited[r] <= Calls(MaxPages)
         /\ KnownIds(r) \in SUBSET People /\ ListKey(r) \in ListKeys
<1>1. scope[r].full \in BOOLEAN /\ scope[r] \in AllScopes
  BY DEF TypeOK, RequestTypeOK, AllScopes
<1>2. waited[r] \in Nat /\ waited[r] <= Latency
  BY AccessAssumption DEF TypeOK, RequestTypeOK
<1>3. albums[r] \in SUBSET Albums /\ allowed[r] \in SUBSET People
  BY DEF TypeOK, RequestTypeOK
<1>4. pages[r] \in Nat /\ Calls(pages[r]) + waited[r] \in Nat
      /\ Calls(pages[r]) + waited[r] <= Calls(MaxPages)
  BY EndTypes, AccessAssumption DEF TypeOK, RequestTypeOK
<1> QED BY <1>1, <1>2, <1>3, <1>4, HeldTypes DEF TypeOK

\* The ages of entries.
LEMMA EntryAges ==
  ASSUME TypeOK
  PROVE  /\ \A a \in Assets : albumsOf[a].age \in Nat
         /\ \A s \in SUBSET Albums : idsOf[s].age \in Nat
         /\ \A k \in ListKeys : listOf[k].age \in Nat
<1>1. \A a \in Assets : albumsOf[a].age \in 0..(ScopeTTL + 1)
  BY DEF TypeOK, CacheTypeOK, Entry
<1>2. \A s \in SUBSET Albums : idsOf[s].age \in 0..(ScopeTTL + 1)
  BY DEF TypeOK, CacheTypeOK, Entry
<1>3. \A k \in ListKeys : listOf[k].age \in 0..(PeopleTTL + 1)
  BY DEF TypeOK, CacheTypeOK, Entry
<1> QED BY <1>1, <1>2, <1>3, AccessAssumption

\* An answer leaves the other calls as they are.
LEMMA AnswerCalls ==
  ASSUME TypeOK, CallsInv, NEW r \in Requests, NEW as, NEW ps, Answer(r, as, ps),
         UNCHANGED outside
  PROVE  CallsInv'
<1> SUFFICES ASSUME NEW q \in Requests PROVE CallInv(q)'
  BY DEF CallsInv
<1>1. CASE q = r
  <2>1. pc'[r] = "idle"
    BY DEF Answer, TypeOK, RequestTypeOK
  <2> QED BY <1>1, <2>1 DEF CallInv, Searching
<1>2. CASE q # r
  <2>1. Untouched(q)
    BY <1>2 DEF Answer, TypeOK, RequestTypeOK, Untouched
  <2> QED BY <2>1 DEF CallInv, CallsInv, PersonWithin, SeenWithin, Untouched
<1> QED BY <1>1, <1>2

\* So does a call, if it is made with people that were seen late enough.
LEMMA AskCalls ==
  ASSUME TypeOK, CallsInv, NEW r \in Requests,
         NEW where \in {"askAlbums", "askIds", "askPeople"}, NEW ids, Ask(r, where, ids),
         where # "askPeople" => ~scope[r].full, where = "askIds" => ids = {},
         scope[r].full \/ \A p \in ids : PersonWithin(p, scope[r].albums, Calls(MaxPages) + ScopeTTL),
         UNCHANGED outside
  PROVE  CallsInv' /\ answer' = NoAnswer
<1>1. ASSUME NEW q \in Requests PROVE CallInv(q)'
  <2>1. CASE q = r
    <3>1. /\ pc'[r] = where /\ scope'[r] = scope[r] /\ allowed'[r] = ids
          /\ waited'[r] = 0
      BY DEF Ask, TypeOK, RequestTypeOK
    <3>2. Calls(MaxPages) + ScopeTTL + 0 = Calls(MaxPages) + ScopeTTL
      BY LoopTime, AccessAssumption
    <3> QED BY <2>1, <3>1, <3>2 DEF CallInv, Searching, PersonWithin, SeenWithin
  <2>2. CASE q # r
    <3>1. Untouched(q)
      BY <2>2 DEF Ask, TypeOK, RequestTypeOK, Untouched
    <3> QED BY <3>1 DEF CallInv, CallsInv, PersonWithin, SeenWithin, Untouched
  <2> QED BY <2>1, <2>2
<1> QED BY <1>1 DEF CallsInv, Ask

\* A step that answers nothing.
LEMMA NothingShown == answer' = NoAnswer => AnswersInv'
  BY DEF AnswersInv, AssetsWithinScope, PeopleWithinScope, NoAnswer

\* What an answer shows, from what it is made of.
LEMMA AnswerShows ==
  ASSUME TypeOK, NEW r \in Requests, NEW as \in SUBSET Assets, NEW ps \in SUBSET People,
         Answer(r, as, ps), UNCHANGED outside,
         ~scope[r].full =>
           /\ \A a \in as : SeenWithin(a, scope[r].albums, Latency + ScopeTTL)
           /\ \A p \in ps : PersonWithin(p, scope[r].albums,
                              Calls(MaxPages) + Latency + ScopeTTL + PeopleTTL)
  PROVE  AnswersInv'
<1>1. CASE as = {} /\ ps = {}
  <2>1. answer' = NoAnswer
    BY <1>1 DEF Answer
  <2> QED BY <2>1, NothingShown
<1>2. CASE ~(as = {} /\ ps = {})
  <2>1. answer' = [token |-> who[r], scope |-> scope[r], assets |-> as, people |-> ps]
    BY <1>2 DEF Answer
  <2>2. answer'.scope = scope[r] /\ answer'.assets = as /\ answer'.people = ps
    BY <2>1
  <2> QED
    BY <2>2 DEF AnswersInv, AssetsWithinScope, PeopleWithinScope, PersonWithin, SeenWithin
<1> QED BY <1>1, <1>2

\* The shared list is that of the request's own albums.
LEMMA ListShows ==
  ASSUME IInv, NEW r \in Requests, ~scope[r].full, Fresh(listOf[ListKey(r)], PeopleTTL),
         NEW p \in listOf[ListKey(r)].value
  PROVE  PersonWithin(p, scope[r].albums, Calls(MaxPages) + Latency + ScopeTTL + PeopleTTL)
<1> DEFINE k == ListKey(r)
<1>1. k \in ListKeys /\ ~k.full /\ k.albums = scope[r].albums
  BY RequestTypes DEF ListKey, IInv
<1>2. listOf[k].age \in Nat /\ listOf[k].age <= PeopleTTL
  BY <1>1, EntryAges DEF IInv, Fresh
<1>3. PersonWithin(p, scope[r].albums, Calls(MaxPages) + Latency + ScopeTTL + listOf[k].age)
  BY <1>1 DEF IInv, ScopeInv, CachesInv, ListInv
<1> QED
  BY <1>2, <1>3, Wider, RequestTypes, LoopTime, AccessAssumption DEF IInv

LEMMA WithIdsInv ==
  ASSUME IInv, NEW r \in Requests, NEW ids \in SUBSET People, WithIds(r, ids),
         scope[r].full \/ \A p \in ids : PersonWithin(p, scope[r].albums, Calls(MaxPages) + ScopeTTL),
         UNCHANGED outside
  PROVE  CallsInv' /\ AnswersInv'
<1>0. TypeOK /\ CallsInv /\ AnswersInv /\ {} \in SUBSET Assets /\ {} \in SUBSET People
  BY DEF IInv, ScopeInv
<1> DEFINE most == Calls(MaxPages) + Latency + ScopeTTL + PeopleTTL
<1>1. most \in Nat /\ Calls(MaxPages) + ScopeTTL \in Nat /\ Calls(MaxPages) + ScopeTTL <= most
  BY LoopTime, AccessAssumption
<1>2. ASSUME NEW ps \in SUBSET People, Answer(r, {}, ps),
             ~scope[r].full => \A p \in ps : PersonWithin(p, scope[r].albums, most)
      PROVE  CallsInv' /\ AnswersInv'
  BY <1>0, <1>2, AnswerCalls, AnswerShows
<1>3. CASE Answer(r, {}, {want[r].person} \cap ids)
  <2>1. ~scope[r].full =>
          \A p \in {want[r].person} \cap ids : PersonWithin(p, scope[r].albums, most)
    BY <1>0, <1>1, Wider, RequestTypes
  <2>2. {want[r].person} \cap ids \in SUBSET People
    OBVIOUS
  <2> HIDE DEF most
  <2> QED BY <1>2, <1>3, <2>1, <2>2
<1>4. CASE Answer(r, {}, {})
  BY <1>0, <1>2, <1>4
<1>5. CASE Fresh(listOf[ListKey(r)], PeopleTTL) /\ Answer(r, {}, listOf[ListKey(r)].value)
  <2>1. listOf[ListKey(r)].value \in SUBSET People
    BY <1>0, HeldTypes DEF TypeOK
  <2>2. ~scope[r].full =>
          \A p \in listOf[ListKey(r)].value : PersonWithin(p, scope[r].albums, most)
    BY <1>5, ListShows
  <2> HIDE DEF most
  <2> QED BY <1>2, <1>5, <2>1, <2>2
<1>6. CASE Ask(r, "askPeople", ids)
  <2>1. CallsInv' /\ answer' = NoAnswer
    BY <1>0, <1>6, AskCalls
  <2> QED BY <2>1, NothingShown
<1> QED BY <1>3, <1>4, <1>5, <1>6 DEF WithIds

LEMMA JudgeInv ==
  ASSUME IInv, NEW r \in Requests, ~scope[r].full, NEW found \in SUBSET Albums,
         \A l \in found \cap scope[r].albums :
           outside[want[r].asset][l] <= Latency + ScopeTTL,
         Judge(r, found), UNCHANGED outside
  PROVE  CallsInv' /\ AnswersInv'
<1> DEFINE as == IF scope[r].albums \cap found # {} THEN {want[r].asset} ELSE {}
<1>1. as \in SUBSET Assets /\ {} \in SUBSET People
  BY RequestTypes DEF IInv
<1>2. \A a \in as : SeenWithin(a, scope[r].albums, Latency + ScopeTTL)
  BY DEF SeenWithin
<1>3. Answer(r, as, {})
  BY DEF Judge
<1>4. TypeOK /\ CallsInv
  BY DEF IInv, ScopeInv
<1> HIDE DEF as
<1> QED BY <1>1, <1>2, <1>3, <1>4, AnswerCalls, AnswerShows

\* Nothing about the library and the caches changes.
LEMMA StillInv ==
  ASSUME IInv, UNCHANGED worldVars
  PROVE  /\ MembersInv'
         /\ UNCHANGED albumsOf => AlbumsInv'
         /\ UNCHANGED idsOf => IdsInv'
         /\ UNCHANGED listOf => ListInv'
<1> USE DEF IInv, ScopeInv, CachesInv, worldVars
<1>1. MembersInv'
  BY DEF MembersInv
<1>2. UNCHANGED albumsOf => AlbumsInv'
  BY DEF AlbumsInv
<1>3. UNCHANGED idsOf => IdsInv'
  BY DEF IdsInv, PersonWithin, SeenWithin
<1>4. UNCHANGED listOf => ListInv'
  BY DEF ListInv, PersonWithin, SeenWithin
<1> QED BY <1>1, <1>2, <1>3, <1>4

\* An answer that lets nothing through.
LEMMA NothingInv ==
  ASSUME IInv, NEW r \in Requests, Answer(r, {}, {}), UNCHANGED outside
  PROVE  CallsInv' /\ AnswersInv'
<1>1. {} \in SUBSET Assets /\ {} \in SUBSET People /\ TypeOK /\ CallsInv
  BY DEF IInv, ScopeInv
<1> QED BY <1>1, AnswerCalls, AnswerShows

LEMMA RequestStepInv ==
  ASSUME IInv, NEW r \in Requests, Server(r) \/ Immich(r)
  PROVE  ScopeInv'
<1>0. /\ TypeOK /\ CallsInv /\ AlbumsInv /\ IdsInv /\ AnswersInv /\ MembersInv
      /\ {} \in SUBSET Assets /\ {} \in SUBSET People /\ People \in SUBSET People
  BY DEF IInv, ScopeInv, CachesInv
<1>a. /\ want[r].asset \in Assets /\ scope[r].albums \in SUBSET Albums
      /\ waited[r] \in Nat /\ waited[r] <= Latency /\ pages[r] \in Nat
      /\ Calls(pages[r]) + waited[r] \in Nat /\ Calls(pages[r]) + waited[r] <= Calls(MaxPages)
      /\ albums[r] \in SUBSET Albums /\ allowed[r] \in SUBSET People
      /\ KnownIds(r) \in SUBSET People /\ ListKey(r) \in ListKeys
  BY <1>0, RequestTypes
<1>b. /\ pc[r] \in {"askAlbums", "albumsRead"} \cup Searching => ~scope[r].full
      /\ pc[r] = "albumsRead" =>
           \A l \in albums[r] : outside[want[r].asset][l] <= waited[r]
      /\ pc[r] \in Searching =>
           \A p \in allowed[r] : PersonWithin(p, scope[r].albums, Calls(pages[r]) + waited[r])
      /\ pc[r] = "askPeople" /\ ~scope[r].full =>
           \A p \in allowed[r] :
             PersonWithin(p, scope[r].albums, Calls(MaxPages) + ScopeTTL + waited[r])
  BY <1>0 DEF CallsInv, CallInv
<1>c. ASSUME CallsInv', AnswersInv', UNCHANGED cacheVars, UNCHANGED worldVars PROVE ScopeInv'
  BY <1>c, StillInv DEF ScopeInv, CachesInv, cacheVars
<1>1. ASSUME NEW w \in Wants, Authorize(r, w) PROVE ScopeInv'
  <2>1. ASSUME NEW q \in Requests PROVE CallInv(q)'
    <3>1. UNCHANGED outside
      BY <1>1 DEF Authorize, worldVars
    <3>2. CASE q = r
      <4>1. pc'[r] = "checked"
        BY <1>0, <1>1 DEF Authorize, TypeOK, RequestTypeOK
      <4> QED BY <3>2, <4>1 DEF CallInv, Searching
    <3>3. CASE q # r
      <4>1. Untouched(q)
        BY <1>0, <1>1, <3>3 DEF Authorize, callVars, TypeOK, RequestTypeOK, Untouched
      <4> QED BY <1>0, <3>1, <4>1 DEF CallInv, CallsInv, PersonWithin, SeenWithin, Untouched
    <3> QED BY <3>2, <3>3
  <2>2. AnswersInv'
    BY <1>1, NothingShown DEF Authorize
  <2>3. UNCHANGED cacheVars /\ UNCHANGED worldVars
    BY <1>1 DEF Authorize
  <2> QED BY <1>c, <2>1, <2>2, <2>3 DEF CallsInv
<1>2. CASE Unauthorized(r)
  <2>1. CallsInv' /\ AnswersInv'
    BY <1>2, NothingInv DEF Unauthorized, worldVars
  <2> QED BY <1>c, <1>2, <2>1 DEF Unauthorized
<1>3. CASE CheckAsset(r)
  <2>0. UNCHANGED outside /\ UNCHANGED cacheVars /\ UNCHANGED worldVars
    BY <1>3 DEF CheckAsset, worldVars
  <2>1. ASSUME scope[r].full, Answer(r, {want[r].asset}, {})
        PROVE  CallsInv' /\ AnswersInv'
    <3>1. {want[r].asset} \in SUBSET Assets
      BY <1>a
    <3> QED BY <1>0, <2>0, <2>1, <3>1, AnswerCalls, AnswerShows
  <2>2. ASSUME ~scope[r].full, AlbumsKnown(r), Judge(r, albumsOf[want[r].asset].value)
        PROVE  CallsInv' /\ AnswersInv'
    <3> DEFINE e == albumsOf[want[r].asset]
    <3>1. e.value \in SUBSET Albums
      BY <1>0, HeldTypes DEF TypeOK
    <3>2. ASSUME NEW l \in e.value \cap scope[r].albums
          PROVE  outside[want[r].asset][l] <= Latency + ScopeTTL
      <4>1. e.age \in Nat /\ e.age <= ScopeTTL
        BY <1>0, <1>a, <2>2, EntryAges DEF AlbumsKnown, Fresh
      <4>2. outside[want[r].asset][l] <= Latency + e.age
        BY <1>0, <1>a DEF AlbumsInv
      <4>3. outside[want[r].asset][l] \in Nat
        BY <1>0, <1>a, <3>1, Horizons DEF TypeOK, WorldTypeOK
      <4> QED BY <4>1, <4>2, <4>3, AccessAssumption
    <3> QED BY <2>0, <2>2, <3>1, <3>2, JudgeInv
  <2>3. ASSUME ~scope[r].full, Ask(r, "askAlbums", {})
        PROVE  CallsInv' /\ AnswersInv'
    <3>1. CallsInv' /\ answer' = NoAnswer
      BY <1>0, <2>0, <2>3, AskCalls
    <3> QED BY <3>1, NothingShown
  <2>4. CallsInv' /\ AnswersInv'
    BY <1>3, <2>1, <2>2, <2>3 DEF CheckAsset
  <2> QED BY <1>c, <2>0, <2>4
<1>4. CASE AlbumsArrive(r)
  <2>0. /\ pc[r] = "albumsRead" /\ Judge(r, albums[r])
        /\ albumsOf' = [albumsOf EXCEPT ![want[r].asset] = Stored(albums[r])]
        /\ UNCHANGED <<idsOf, listOf>> /\ UNCHANGED worldVars /\ UNCHANGED outside
    BY <1>4 DEF AlbumsArrive, worldVars
  <2>1. \A l \in albums[r] : /\ outside[want[r].asset][l] \in Nat
                             /\ outside[want[r].asset][l] <= Latency
    <3> SUFFICES ASSUME NEW l \in albums[r]
                 PROVE  /\ outside[want[r].asset][l] \in Nat
                        /\ outside[want[r].asset][l] <= Latency
      OBVIOUS
    <3>1. outside[want[r].asset][l] \in 0..Horizon
      BY <1>0, <1>a DEF TypeOK, WorldTypeOK
    <3>2. outside[want[r].asset][l] <= waited[r]
      BY <1>b, <2>0
    <3> QED BY <1>a, <3>1, <3>2, Horizons, AccessAssumption
  <2>2. \A l \in albums[r] : outside[want[r].asset][l] <= Latency + ScopeTTL
    BY <2>1, AccessAssumption
  <2>3. CallsInv' /\ AnswersInv'
    BY <1>a, <1>b, <2>0, <2>2, JudgeInv
  <2>4. AlbumsInv'
    <3> SUFFICES ASSUME NEW a \in Assets, NEW l \in albumsOf'[a].value
                 PROVE  outside[a][l] <= Latency + albumsOf'[a].age
      BY <2>0 DEF AlbumsInv
    <3>1. CASE a = want[r].asset
      <4>1. albumsOf'[a] = Stored(albums[r])
        BY <1>0, <2>0, <3>1 DEF TypeOK, CacheTypeOK
      <4>2. albumsOf'[a].value = albums[r] /\ albumsOf'[a].age = 0
        BY <4>1 DEF Stored
      <4> QED BY <2>1, <3>1, <4>2, AccessAssumption
    <3>2. CASE a # want[r].asset
      BY <1>0, <2>0, <3>2 DEF TypeOK, CacheTypeOK, AlbumsInv
    <3> QED BY <3>1, <3>2
  <2> QED BY <2>0, <2>3, <2>4, StillInv DEF ScopeInv, CachesInv
<1>5. CASE AlbumsFail(r)
  <2>1. CallsInv' /\ AnswersInv'
    BY <1>5, NothingInv DEF AlbumsFail, worldVars
  <2> QED BY <1>c, <1>5, <2>1 DEF AlbumsFail
<1>6. CASE CheckPeople(r)
  <2>0. UNCHANGED outside /\ UNCHANGED cacheVars /\ UNCHANGED worldVars
    BY <1>6 DEF CheckPeople, worldVars
  <2>1. ASSUME scope[r].full, WithIds(r, People) PROVE CallsInv' /\ AnswersInv'
    BY <1>0, <2>0, <2>1, WithIdsInv
  <2>2. ASSUME ~scope[r].full, IdsKnown(r), WithIds(r, KnownIds(r))
        PROVE  CallsInv' /\ AnswersInv'
    <3>1. ASSUME NEW p \in KnownIds(r)
          PROVE  PersonWithin(p, scope[r].albums, Calls(MaxPages) + ScopeTTL)
      <4> DEFINE e == idsOf[scope[r].albums]
      <4>1. p \in e.value /\ e.age \in Nat /\ e.age <= ScopeTTL
        BY <1>0, <1>a, <2>2, <3>1, EntryAges DEF IdsKnown, KnownIds, Fresh
      <4>2. PersonWithin(p, scope[r].albums, Calls(MaxPages) + e.age)
        BY <1>0, <1>a, <4>1 DEF IdsInv
      <4> HIDE DEF e
      <4>3. Calls(MaxPages) + e.age \in Nat /\ Calls(MaxPages) + ScopeTTL \in Nat
            /\ Calls(MaxPages) + e.age <= Calls(MaxPages) + ScopeTTL
        BY <4>1, LoopTime, AccessAssumption
      <4> QED BY <1>0, <1>a, <4>2, <4>3, Wider
    <3> QED BY <1>a, <2>0, <2>2, <3>1, WithIdsInv
  <2>3. ASSUME ~scope[r].full, Ask(r, "askIds", {})
        PROVE  CallsInv' /\ AnswersInv'
    <3>1. CallsInv' /\ answer' = NoAnswer
      BY <1>0, <2>0, <2>3, AskCalls
    <3> QED BY <3>1, NothingShown
  <2>4. CallsInv' /\ AnswersInv'
    BY <1>6, <2>1, <2>2, <2>3 DEF CheckPeople
  <2> QED BY <1>c, <2>0, <2>4
<1>7. CASE IdsArrive(r)
  <2>0. /\ pc[r] \in Searching /\ WithIds(r, allowed[r])
        /\ idsOf' = [idsOf EXCEPT ![scope[r].albums] = Stored(allowed[r])]
        /\ UNCHANGED <<albumsOf, listOf>> /\ UNCHANGED worldVars /\ UNCHANGED outside
    BY <1>7 DEF IdsArrive, Searching, worldVars
  <2> DEFINE age == Calls(pages[r]) + waited[r]
             most == Calls(MaxPages) + ScopeTTL
             now == Calls(MaxPages) + 0
  <2>1. age \in Nat /\ most \in Nat /\ now \in Nat /\ age <= most /\ age <= now
    BY <1>a, LoopTime, AccessAssumption
  <2>a. \A p \in allowed[r] : PersonWithin(p, scope[r].albums, age)
    BY <1>b, <2>0
  <2> HIDE DEF age, most, now
  <2>b. \A p \in allowed[r] : /\ PersonWithin(p, scope[r].albums, most)
                              /\ PersonWithin(p, scope[r].albums, now)
    BY <1>0, <1>a, <2>1, <2>a, Wider
  <2>2. \A p \in allowed[r] : /\ PersonWithin(p, scope[r].albums, Calls(MaxPages) + ScopeTTL)
                              /\ PersonWithin(p, scope[r].albums, Calls(MaxPages) + 0)
    BY <2>b DEF most, now
  <2>3. CallsInv' /\ AnswersInv'
    BY <1>a, <2>0, <2>2, WithIdsInv
  <2>4. IdsInv'
    <3> SUFFICES ASSUME NEW s \in SUBSET Albums, NEW p \in idsOf'[s].value
                 PROVE  PersonWithin(p, s, Calls(MaxPages) + idsOf'[s].age)
      BY <2>0 DEF IdsInv, PersonWithin, SeenWithin
    <3>1. CASE s = scope[r].albums
      <4>1. idsOf'[s] = Stored(allowed[r])
        BY <1>0, <2>0, <3>1 DEF TypeOK, CacheTypeOK
      <4>2. idsOf'[s].value = allowed[r] /\ idsOf'[s].age = 0
        BY <4>1 DEF Stored
      <4> QED BY <2>2, <3>1, <4>2
    <3>2. CASE s # scope[r].albums
      <4>1. idsOf'[s] = idsOf[s]
        BY <1>0, <2>0, <3>2 DEF TypeOK, CacheTypeOK
      <4> QED BY <1>0, <4>1 DEF IdsInv
    <3> QED BY <3>1, <3>2
  <2> QED BY <2>0, <2>3, <2>4, StillInv DEF ScopeInv, CachesInv
<1>8. CASE IdsFail(r)
  <2>1. CallsInv' /\ AnswersInv'
    BY <1>0, <1>8, WithIdsInv DEF IdsFail, worldVars
  <2> QED BY <1>c, <1>8, <2>1 DEF IdsFail
<1>9. CASE PeopleArrive(r)
  <2> DEFINE k == ListKey(r)
  <2>0. /\ pc[r] = "askPeople" /\ Answer(r, {}, Listed(r))
        /\ listOf' = [listOf EXCEPT ![ListKey(r)] = Stored(Listed(r))]
        /\ UNCHANGED <<albumsOf, idsOf>> /\ UNCHANGED worldVars /\ UNCHANGED outside
    BY <1>9 DEF PeopleArrive, worldVars
  <2>1. Listed(r) \in SUBSET People /\ Listed(r) \subseteq allowed[r]
    BY <1>a DEF Listed
  <2>2. /\ Calls(MaxPages) + ScopeTTL + waited[r] \in Nat
        /\ Calls(MaxPages) + Latency + ScopeTTL + 0 \in Nat
        /\ Calls(MaxPages) + Latency + ScopeTTL + PeopleTTL \in Nat
        /\ Calls(MaxPages) + ScopeTTL + waited[r] <= Calls(MaxPages) + Latency + ScopeTTL + 0
        /\ Calls(MaxPages) + ScopeTTL + waited[r] <= Calls(MaxPages) + Latency + ScopeTTL + PeopleTTL
    BY <1>a, LoopTime, AccessAssumption
  <2>3. ~scope[r].full => \A p \in Listed(r) :
          /\ PersonWithin(p, scope[r].albums, Calls(MaxPages) + Latency + ScopeTTL + 0)
          /\ PersonWithin(p, scope[r].albums, Calls(MaxPages) + Latency + ScopeTTL + PeopleTTL)
    BY <1>0, <1>a, <1>b, <2>0, <2>1, <2>2, Wider
  <2>4. CallsInv' /\ AnswersInv'
    BY <1>0, <2>0, <2>1, <2>3, AnswerCalls, AnswerShows
  <2>5. ListInv'
    <3> SUFFICES ASSUME NEW j \in ListKeys, ~j.full, NEW p \in listOf'[j].value
                 PROVE  PersonWithin(p, j.albums, Calls(MaxPages) + Latency + ScopeTTL + listOf'[j].age)
      BY <2>0 DEF ListInv, PersonWithin, SeenWithin
    <3>1. CASE j = k
      <4>1. listOf'[j] = Stored(Listed(r))
        BY <1>0, <2>0, <3>1 DEF TypeOK, CacheTypeOK
      <4>2. listOf'[j].value = Listed(r) /\ listOf'[j].age = 0
        BY <4>1 DEF Stored
      <4>3. ~scope[r].full /\ j.albums = scope[r].albums
        BY <3>1 DEF ListKey
      <4> QED BY <2>3, <4>2, <4>3
    <3>2. CASE j # k
      <4>1. listOf'[j] = listOf[j]
        BY <1>0, <2>0, <3>2 DEF TypeOK, CacheTypeOK
      <4> QED BY <4>1 DEF IInv, ScopeInv, CachesInv, ListInv
    <3> QED BY <3>1, <3>2
  <2> QED BY <2>0, <2>4, <2>5, StillInv DEF ScopeInv, CachesInv
<1>10. CASE PeopleFail(r)
  <2>1. CallsInv' /\ AnswersInv'
    BY <1>10, NothingInv DEF PeopleFail, worldVars
  <2> QED BY <1>c, <1>10, <2>1 DEF PeopleFail
<1>11. CASE ImmichReadsAlbums(r)
  <2>1. ASSUME NEW q \in Requests PROVE CallInv(q)'
    <3>1. UNCHANGED outside
      BY <1>11 DEF ImmichReadsAlbums, worldVars
    <3>2. CASE q = r
      <4>1. /\ pc'[r] = "albumsRead" /\ pc[r] = "askAlbums" /\ scope'[r] = scope[r]
            /\ want'[r] = want[r] /\ waited'[r] = waited[r]
            /\ albums'[r] = {l \in Albums : want[r].asset \in album[l]}
        BY <1>0, <1>11 DEF ImmichReadsAlbums, TypeOK, RequestTypeOK
      <4>2. \A l \in albums'[r] : outside[want[r].asset][l] = 0
        BY <1>0, <4>1 DEF MembersInv
      <4> QED BY <1>a, <1>b, <3>1, <3>2, <4>1, <4>2 DEF CallInv, Searching
    <3>3. CASE q # r
      <4>1. Untouched(q)
        BY <1>0, <1>11, <3>3 DEF ImmichReadsAlbums, TypeOK, RequestTypeOK, Untouched
      <4> QED BY <1>0, <3>1, <4>1 DEF CallInv, CallsInv, PersonWithin, SeenWithin, Untouched
    <3> QED BY <3>2, <3>3
  <2>2. AnswersInv'
    BY <1>11, NothingShown DEF ImmichReadsAlbums
  <2>3. UNCHANGED cacheVars /\ UNCHANGED worldVars
    BY <1>11 DEF ImmichReadsAlbums
  <2> QED BY <1>c, <2>1, <2>2, <2>3 DEF CallsInv
<1>12. CASE ImmichReadsIds(r)
  <2>0. PICK items \in SUBSET InScope(r) :
          allowed' = [allowed EXCEPT ![r] = @ \cup UNION {Faces[a] : a \in items}]
    BY <1>12 DEF ImmichReadsIds
  <2>1. ASSUME NEW q \in Requests PROVE CallInv(q)'
    <3>1. UNCHANGED outside
      BY <1>12 DEF ImmichReadsIds, worldVars
    <3>2. CASE q = r
      <4>1. /\ pc'[r] \in {"pageRead", "idsRead"} /\ pc[r] = "askIds" /\ scope'[r] = scope[r]
            /\ waited'[r] = waited[r] /\ pages'[r] = pages[r]
        BY <1>0, <1>12 DEF ImmichReadsIds, TypeOK, RequestTypeOK
      <4>2. allowed'[r] = allowed[r] \cup UNION {Faces[a] : a \in items}
        BY <1>0, <2>0 DEF TypeOK, RequestTypeOK
      <4>3. ASSUME NEW p \in allowed'[r]
            PROVE  PersonWithin(p, scope[r].albums, Calls(pages[r]) + waited[r])
        <5>1. CASE p \in allowed[r]
          BY <1>b, <4>1, <5>1 DEF Searching
        <5>2. CASE p \notin allowed[r]
          <6>1. PICK a \in items : p \in Faces[a]
            BY <4>2, <4>3, <5>2
          <6>2. PICK l \in scope[r].albums : a \in album[l]
            BY <2>0, <6>1 DEF InScope
          <6>3. a \in Assets /\ outside[a][l] = 0
            BY <1>0, <1>a, <6>2 DEF MembersInv, TypeOK, WorldTypeOK
          <6> QED BY <1>a, <6>1, <6>2, <6>3 DEF PersonWithin, SeenWithin
        <5> QED BY <5>1, <5>2
      <4> QED BY <1>b, <3>1, <3>2, <4>1, <4>3 DEF CallInv, Searching, PersonWithin, SeenWithin
    <3>3. CASE q # r
      <4>1. Untouched(q)
        BY <1>0, <1>12, <3>3 DEF ImmichReadsIds, TypeOK, RequestTypeOK, Untouched
      <4> QED BY <1>0, <3>1, <4>1 DEF CallInv, CallsInv, PersonWithin, SeenWithin, Untouched
    <3> QED BY <3>2, <3>3
  <2>2. AnswersInv'
    BY <1>12, NothingShown DEF ImmichReadsIds
  <2>3. UNCHANGED cacheVars /\ UNCHANGED worldVars
    BY <1>12 DEF ImmichReadsIds
  <2> QED BY <1>c, <2>1, <2>2, <2>3 DEF CallsInv
<1>13. CASE NextPage(r)
  <2>1. ASSUME NEW q \in Requests PROVE CallInv(q)'
    <3>1. UNCHANGED outside
      BY <1>13 DEF NextPage, worldVars
    <3>2. CASE q = r
      <4>1. /\ pc'[r] = "askIds" /\ pc[r] = "pageRead" /\ scope'[r] = scope[r]
            /\ allowed'[r] = allowed[r] /\ waited'[r] = 0 /\ pages'[r] = pages[r] + 1
        BY <1>0, <1>13 DEF NextPage, TypeOK, RequestTypeOK
      <4> DEFINE age == Calls(pages[r]) + waited[r]
                 next == Calls(pages[r] + 1) + 0
      <4>2. age \in Nat /\ next \in Nat /\ age <= next
        <5>1. /\ Calls(pages[r]) \in Nat /\ Calls(pages[r] + 1) \in Nat
              /\ Calls(pages[r] + 1) = Calls(pages[r]) + Latency
          BY <1>a, CallsGrow
        <5> QED BY <1>a, <5>1, AccessAssumption
      <4>3. \A p \in allowed[r] : PersonWithin(p, scope[r].albums, age)
        BY <1>b, <4>1 DEF Searching
      <4> HIDE DEF age, next
      <4>4. \A p \in allowed[r] : PersonWithin(p, scope[r].albums, next)
        BY <1>0, <1>a, <4>2, <4>3, Wider
      <4> QED
        BY <1>b, <3>1, <3>2, <4>1, <4>4 DEF CallInv, Searching, PersonWithin, SeenWithin, next
    <3>3. CASE q # r
      <4>1. Untouched(q)
        BY <1>0, <1>13, <3>3 DEF NextPage, TypeOK, RequestTypeOK, Untouched
      <4> QED BY <1>0, <3>1, <4>1 DEF CallInv, CallsInv, PersonWithin, SeenWithin, Untouched
    <3> QED BY <3>2, <3>3
  <2>2. AnswersInv'
    BY <1>13, NothingShown DEF NextPage
  <2>3. UNCHANGED cacheVars /\ UNCHANGED worldVars
    BY <1>13 DEF NextPage
  <2> QED BY <1>c, <2>1, <2>2, <2>3 DEF CallsInv
<1> QED
  BY <1>1, <1>2, <1>3, <1>4, <1>5, <1>6, <1>7, <1>8, <1>9, <1>10, <1>11, <1>12, <1>13
     DEF Server, Immich

LEMMA ArriveInv ==
  ASSUME IInv, NEW r \in Requests, NEW t \in Tokens, Arrive(r, t)
  PROVE  ScopeInv'
<1>0. /\ TypeOK /\ CallsInv /\ AnswersInv
      /\ UNCHANGED cacheVars /\ UNCHANGED worldVars /\ UNCHANGED outside
  BY DEF IInv, ScopeInv, Arrive, worldVars
<1>1. ASSUME NEW q \in Requests PROVE CallInv(q)'
  <2>1. CASE q = r
    <3>1. pc'[r] = "passed"
      BY <1>0 DEF Arrive, TypeOK, RequestTypeOK
    <3> QED BY <2>1, <3>1 DEF CallInv, Searching
  <2>2. CASE q # r
    <3>1. Untouched(q)
      BY <1>0, <2>2 DEF Arrive, callVars, TypeOK, RequestTypeOK, Untouched
    <3> QED BY <1>0, <3>1 DEF CallInv, CallsInv, PersonWithin, SeenWithin, Untouched
  <2> QED BY <2>1, <2>2
<1>2. AnswersInv'
  BY NothingShown DEF Arrive
<1> QED BY <1>0, <1>1, <1>2, StillInv DEF ScopeInv, CachesInv, CallsInv, cacheVars

\* Steps of the world make nothing older.
LEMMA WorldInv == ASSUME IInv, World PROVE ScopeInv'
<1>0. TypeOK /\ ScopeInv /\ 0 \in Nat
  BY DEF IInv
<1>1. UNCHANGED requestVars /\ UNCHANGED cacheVars
  BY DEF World, End, SetAlbumScope, AddToAlbum, RemoveFromAlbum
<1>2. \A a \in Assets : \A l \in Albums :
        outside'[a][l] \in Nat /\ outside'[a][l] <= outside[a][l] /\ outside[a][l] \in Nat
  <2>1. \A a \in Assets : \A l \in Albums : outside[a][l] \in Nat
    BY <1>0, Horizons DEF TypeOK, WorldTypeOK
  <2>2. ASSUME NEW b \in Assets, NEW m \in Albums, AddToAlbum(b, m),
               NEW a \in Assets, NEW l \in Albums
        PROVE  outside'[a][l] = outside[a][l] \/ outside'[a][l] = 0
    BY <1>0, <2>2 DEF AddToAlbum, TypeOK, WorldTypeOK
  <2>3. (\E b \in Assets, m \in Albums : AddToAlbum(b, m)) \/ UNCHANGED outside
    BY DEF World, End, SetAlbumScope, RemoveFromAlbum
  <2> QED BY <2>1, <2>2, <2>3
<1>3. ASSUME NEW p, NEW ls \in SUBSET Albums, NEW d \in Nat, PersonWithin(p, ls, d)
      PROVE  PersonWithin(p, ls, d)'
  BY <1>2, <1>3 DEF PersonWithin, SeenWithin
<1>4. CallsInv'
  <2> SUFFICES ASSUME NEW r \in Requests PROVE CallInv(r)'
    BY DEF CallsInv
  <2>1. CallInv(r)
    BY <1>0 DEF ScopeInv, CallsInv
  <2>2. /\ want[r].asset \in Assets /\ scope[r].albums \in SUBSET Albums
        /\ albums[r] \in SUBSET Albums
        /\ waited[r] \in Nat /\ Calls(pages[r]) + waited[r] \in Nat
        /\ Calls(MaxPages) + ScopeTTL + waited[r] \in Nat
    BY <1>0, RequestTypes, LoopTime, AccessAssumption
  <2>3. /\ pc'[r] = pc[r] /\ want'[r] = want[r] /\ scope'[r] = scope[r]
        /\ albums'[r] = albums[r] /\ allowed'[r] = allowed[r] /\ waited'[r] = waited[r]
        /\ pages'[r] = pages[r]
    BY <1>1 DEF requestVars
  <2>4. pc[r] = "albumsRead" => \A l \in albums[r] : outside'[want[r].asset][l] <= waited[r]
    BY <1>2, <2>1, <2>2 DEF CallInv
  <2>5. pc[r] \in Searching =>
          \A p \in allowed[r] : PersonWithin(p, scope[r].albums, Calls(pages[r]) + waited[r])'
    BY <1>3, <2>1, <2>2, <2>3 DEF CallInv
  <2>6. pc[r] = "askPeople" /\ ~scope[r].full =>
          \A p \in allowed[r] :
            PersonWithin(p, scope[r].albums, Calls(MaxPages) + ScopeTTL + waited[r])'
    BY <1>3, <2>1, <2>2, <2>3 DEF CallInv
  <2> QED BY <2>1, <2>3, <2>4, <2>5, <2>6 DEF CallInv, PersonWithin, SeenWithin
<1>5. CachesInv'
  <2>1. /\ albumsOf' = albumsOf /\ idsOf' = idsOf /\ listOf' = listOf
        /\ AlbumsInv /\ IdsInv /\ ListInv
    BY <1>0, <1>1 DEF cacheVars, ScopeInv, CachesInv
  <2>2. /\ \A a \in Assets : albumsOf[a].value \in SUBSET Albums /\ albumsOf[a].age \in Nat
        /\ \A s \in SUBSET Albums : Calls(MaxPages) + idsOf[s].age \in Nat
        /\ \A k \in ListKeys : /\ Calls(MaxPages) + Latency + ScopeTTL + listOf[k].age \in Nat
                               /\ k.albums \in SUBSET Albums
    <3>1. \A a \in Assets : albumsOf[a].value \in SUBSET Albums
      BY <1>0 DEF TypeOK, CacheTypeOK, Entry
    <3>2. \A k \in ListKeys : k.albums \in SUBSET Albums
      BY DEF ListKeys
    <3> QED BY <1>0, <3>1, <3>2, EntryAges, LoopTime, AccessAssumption
  <2>3. AlbumsInv'
    <3> SUFFICES ASSUME NEW a \in Assets, NEW l \in albumsOf[a].value
                 PROVE  outside'[a][l] <= Latency + albumsOf[a].age
      BY <2>1 DEF AlbumsInv
    <3>1. outside[a][l] <= Latency + albumsOf[a].age
      BY <2>1 DEF AlbumsInv
    <3> QED BY <1>2, <2>2, <3>1, AccessAssumption
  <2>4. IdsInv'
    BY <1>3, <2>1, <2>2 DEF IdsInv, PersonWithin, SeenWithin
  <2>5. ListInv'
    BY <1>3, <2>1, <2>2 DEF ListInv, PersonWithin, SeenWithin
  <2> QED BY <2>3, <2>4, <2>5 DEF CachesInv
<1>6. MembersInv'
  <2>1. ASSUME NEW b \in Assets, NEW m \in Albums, AddToAlbum(b, m),
               NEW l \in Albums, NEW a \in album'[l]
        PROVE  outside'[a][l] = 0
    BY <1>0, <2>1 DEF AddToAlbum, TypeOK, WorldTypeOK, ScopeInv, MembersInv
  <2>2. ASSUME NEW b \in Assets, NEW m \in Albums, RemoveFromAlbum(b, m),
               NEW l \in Albums, NEW a \in album'[l]
        PROVE  outside'[a][l] = 0
    BY <1>0, <2>2 DEF RemoveFromAlbum, TypeOK, WorldTypeOK, ScopeInv, MembersInv
  <2>3. \/ \E b \in Assets, m \in Albums : AddToAlbum(b, m) \/ RemoveFromAlbum(b, m)
        \/ UNCHANGED <<album, outside>>
    BY DEF World, End, SetAlbumScope
  <2> QED BY <1>0, <2>1, <2>2, <2>3 DEF ScopeInv, MembersInv
<1>7. AnswersInv'
  BY NothingShown DEF World, End, SetAlbumScope, AddToAlbum, RemoveFromAlbum
<1> QED BY <1>4, <1>5, <1>6, <1>7 DEF ScopeInv

\* An entry that is kept when time passes is older by one.
LEMMA AgedEntry ==
  ASSUME NEW e, NEW ttl \in Nat, e.age \in Nat, Aged(e, ttl).value # {}
  PROVE  Aged(e, ttl).value = e.value /\ Aged(e, ttl).age = e.age + 1
<1>1. CASE e.age < ttl
  BY <1>1 DEF Aged
<1>2. CASE ~(e.age < ttl)
  BY <1>2 DEF Aged, NoEntry
<1> QED BY <1>1, <1>2

\* PersonWithin, of any history o.
Near(o, p, ls, d) == \E a \in Assets : p \in Faces[a] /\ \E l \in ls : o[a][l] <= d

\* Time passes: everything is older by one at most, and so are the bounds.
LEMMA TickInv == ASSUME IInv, Tick PROVE ScopeInv'
<1>0. TypeOK /\ ScopeInv /\ 1 \in Nat
  BY DEF IInv
<1>1. \A a \in Assets : \A l \in Albums :
        /\ outside[a][l] \in Nat
        /\ outside'[a][l] = IF a \in album[l] THEN 0 ELSE Older(outside[a][l], Horizon)
  BY <1>0, Horizons DEF Tick, TypeOK, WorldTypeOK
<1>2. \A a \in Assets : \A l \in Albums :
        outside'[a][l] \in Nat /\ outside'[a][l] <= outside[a][l] + 1
  BY <1>1 DEF Older
<1>3. ASSUME NEW p, NEW ls \in SUBSET Albums, NEW d \in Nat, PersonWithin(p, ls, d)
      PROVE  Near(outside', p, ls, d + 1)
  <2>1. ASSUME NEW a \in Assets, p \in Faces[a], NEW l \in ls, outside[a][l] <= d
        PROVE  outside'[a][l] <= d + 1
    BY <1>1, <1>2, <2>1
  <2> QED BY <1>3, <2>1 DEF PersonWithin, SeenWithin, Near
<1>4. CallsInv'
  <2> SUFFICES ASSUME NEW r \in Requests PROVE CallInv(r)'
    BY DEF CallsInv
  <2>1. CallInv(r)
    BY <1>0 DEF ScopeInv, CallsInv
  <2>2. /\ want[r].asset \in Assets /\ scope[r].albums \in SUBSET Albums
        /\ albums[r] \in SUBSET Albums
        /\ waited[r] \in Nat /\ Calls(pages[r]) + waited[r] \in Nat
        /\ Calls(MaxPages) + ScopeTTL + waited[r] \in Nat
    BY <1>0, RequestTypes, LoopTime, AccessAssumption
  <2>3. /\ pc'[r] = pc[r] /\ want'[r] = want[r] /\ scope'[r] = scope[r]
        /\ albums'[r] = albums[r] /\ allowed'[r] = allowed[r] /\ pages'[r] = pages[r]
        /\ pc[r] # "idle" => waited'[r] = waited[r] + 1
    BY DEF Tick
  <2>4. pc[r] = "albumsRead" => \A l \in albums[r] : outside'[want[r].asset][l] <= waited'[r]
    <3> SUFFICES ASSUME pc[r] = "albumsRead", NEW l \in albums[r]
                 PROVE  outside'[want[r].asset][l] <= waited'[r]
      OBVIOUS
    <3>1. outside[want[r].asset][l] <= waited[r]
      BY <2>1 DEF CallInv
    <3> QED BY <1>1, <1>2, <2>2, <2>3, <3>1
  <2>5. pc[r] \in Searching =>
          \A p \in allowed[r] :
            Near(outside', p, scope[r].albums, (Calls(pages[r]) + waited[r]) + 1)
    BY <1>3, <2>1, <2>2, <2>3 DEF CallInv
  <2>6. pc[r] = "askPeople" /\ ~scope[r].full =>
          \A p \in allowed[r] :
            Near(outside', p, scope[r].albums, (Calls(MaxPages) + ScopeTTL + waited[r]) + 1)
    BY <1>3, <2>1, <2>2, <2>3 DEF CallInv
  <2>7. (Calls(MaxPages) + ScopeTTL + waited[r]) + 1 = Calls(MaxPages) + ScopeTTL + (waited[r] + 1)
        /\ (Calls(pages[r]) + waited[r]) + 1 = Calls(pages[r]) + (waited[r] + 1)
    BY <1>0, <2>2, EndTypes, LoopTime, AccessAssumption
  <2>8. /\ (pc[r] \in {"askAlbums", "albumsRead"} \cup Searching => ~scope[r].full)'
    BY <2>1, <2>3 DEF CallInv, Searching
  <2>9. (pc[r] = "albumsRead" =>
           \A l \in albums[r] : outside[want[r].asset][l] <= waited[r])'
    BY <2>3, <2>4
  <2>10. (pc[r] \in Searching =>
           \A p \in allowed[r] : PersonWithin(p, scope[r].albums, Calls(pages[r]) + waited[r]))'
    BY <2>3, <2>5, <2>7 DEF Near, PersonWithin, SeenWithin, Searching
  <2>11. (pc[r] = "askPeople" /\ ~scope[r].full =>
           \A p \in allowed[r] :
             PersonWithin(p, scope[r].albums, Calls(MaxPages) + ScopeTTL + waited[r]))'
    BY <2>3, <2>6, <2>7 DEF Near, PersonWithin, SeenWithin
  <2> QED BY <2>8, <2>9, <2>10, <2>11 DEF CallInv
<1>5. CachesInv'
  <2>0. AlbumsInv /\ IdsInv /\ ListInv
    BY <1>0 DEF ScopeInv, CachesInv
  <2>1. /\ \A a \in Assets : albumsOf'[a] = Aged(albumsOf[a], ScopeTTL)
        /\ \A s \in SUBSET Albums : idsOf'[s] = Aged(idsOf[s], ScopeTTL)
        /\ \A k \in ListKeys : listOf'[k] = Aged(listOf[k], PeopleTTL)
    BY DEF Tick
  <2>2. AlbumsInv'
    <3> SUFFICES ASSUME NEW a \in Assets, NEW l \in albumsOf'[a].value
                 PROVE  outside'[a][l] <= Latency + albumsOf'[a].age
      BY DEF AlbumsInv
    <3>1. albumsOf'[a].value = albumsOf[a].value /\ albumsOf'[a].age = albumsOf[a].age + 1
      BY <1>0, <2>1, AgedEntry, EntryAges, AccessAssumption
    <3>2. l \in Albums
      BY <1>0, <3>1 DEF TypeOK, CacheTypeOK, Entry
    <3>3. outside[a][l] <= Latency + albumsOf[a].age
      BY <2>0, <3>1 DEF AlbumsInv
    <3>4. albumsOf[a].age \in Nat
      BY <1>0, EntryAges
    <3> QED BY <1>1, <1>2, <3>1, <3>2, <3>3, <3>4, AccessAssumption
  <2>3. IdsInv'
    <3> SUFFICES ASSUME NEW s \in SUBSET Albums, NEW p \in idsOf'[s].value
                 PROVE  PersonWithin(p, s, Calls(MaxPages) + idsOf[s].age)'
      BY DEF IdsInv
    <3>1. idsOf'[s].value = idsOf[s].value /\ idsOf'[s].age = idsOf[s].age + 1
      BY <1>0, <2>1, AgedEntry, EntryAges, AccessAssumption
    <3>2. /\ idsOf[s].age \in Nat /\ Calls(MaxPages) \in Nat
          /\ Calls(MaxPages) + idsOf[s].age \in Nat
      BY <1>0, EntryAges, LoopTime, AccessAssumption
    <3>3. PersonWithin(p, s, Calls(MaxPages) + idsOf[s].age)
      BY <2>0, <3>1 DEF IdsInv
    <3>4. Near(outside', p, s, (Calls(MaxPages) + idsOf[s].age) + 1)
      BY <1>3, <3>2, <3>3
    <3>5. Near(outside', p, s, Calls(MaxPages) + (idsOf[s].age + 1))
      BY <3>2, <3>4, AccessAssumption
    <3> QED BY <3>1, <3>5 DEF Near, PersonWithin, SeenWithin
  <2>4. ListInv'
    <3> SUFFICES ASSUME NEW k \in ListKeys, ~k.full, NEW p \in listOf'[k].value
                 PROVE  PersonWithin(p, k.albums, Calls(MaxPages) + Latency + ScopeTTL + listOf[k].age)'
      BY DEF ListInv
    <3>1. listOf'[k].value = listOf[k].value /\ listOf'[k].age = listOf[k].age + 1
      BY <1>0, <2>1, AgedEntry, EntryAges, AccessAssumption
    <3>2. /\ listOf[k].age \in Nat /\ k.albums \in SUBSET Albums
          /\ Calls(MaxPages) + Latency + ScopeTTL + listOf[k].age \in Nat
      BY <1>0, EntryAges, LoopTime, AccessAssumption DEF ListKeys
    <3>3. PersonWithin(p, k.albums, Calls(MaxPages) + Latency + ScopeTTL + listOf[k].age)
      BY <2>0, <3>1 DEF ListInv
    <3>4. Near(outside', p, k.albums, (Calls(MaxPages) + Latency + ScopeTTL + listOf[k].age) + 1)
      BY <1>3, <3>2, <3>3
    <3>5. Near(outside', p, k.albums, Calls(MaxPages) + Latency + ScopeTTL + (listOf[k].age + 1))
      BY <3>2, <3>4, LoopTime, AccessAssumption
    <3> QED BY <3>1, <3>5 DEF Near, PersonWithin, SeenWithin
  <2> QED BY <2>2, <2>3, <2>4 DEF CachesInv
<1>6. MembersInv'
  <2>1. album' = album /\ \A l \in Albums : album[l] \subseteq Assets
    BY <1>0 DEF Tick, TypeOK, WorldTypeOK
  <2> QED BY <1>1, <2>1 DEF MembersInv
<1>7. AnswersInv'
  BY NothingShown DEF Tick
<1> QED BY <1>4, <1>5, <1>6, <1>7 DEF ScopeInv

LEMMA InitInv == Init => ScopeInv
<1> SUFFICES ASSUME Init PROVE ScopeInv
  OBVIOUS
<1>1. CallsInv
  BY DEF Init, CallsInv, CallInv, Searching
<1>2. CachesInv
  BY DEF Init, CachesInv, AlbumsInv, IdsInv, ListInv, NoEntry
<1>3. MembersInv
  BY DEF Init, MembersInv
<1>4. AnswersInv
  BY DEF Init, AnswersInv, AssetsWithinScope, PeopleWithinScope, NoAnswer
<1> QED BY <1>1, <1>2, <1>3, <1>4 DEF ScopeInv

LEMMA StepInv == IInv /\ [Next]_vars => IInv'
<1> SUFFICES ASSUME IInv, [Next]_vars PROVE IInv'
  OBVIOUS
<1>1. TypeOK'
  BY StepTypes DEF IInv
<1>2. CASE UNCHANGED vars
  <2>1. ScopeInv'
    BY <1>2 DEF IInv, vars, ScopeInv, CallsInv, CallInv, CachesInv, AlbumsInv, IdsInv, ListInv,
                MembersInv, AnswersInv, AssetsWithinScope, PeopleWithinScope,
                PersonWithin, SeenWithin
  <2> QED BY <1>1, <2>1 DEF IInv
<1> QED
  BY <1>1, <1>2, RequestStepInv, ArriveInv, WorldInv, TickInv DEF Next, IInv

THEOREM ScopeInvariant == Spec => []IInv
<1>1. Init => IInv
  BY InitTypes, InitInv DEF IInv
<1> QED BY <1>1, StepInv, PTL DEF Spec

\* A scoped token reaches only assets that were in its albums within one call
\* and one time to live, for every instance.
THEOREM AssetsStayWithinScope == Spec => []AssetsWithinScope
<1>1. IInv => AssetsWithinScope
  BY DEF IInv, ScopeInv, AnswersInv
<1> QED BY <1>1, ScopeInvariant, PTL

\* The people it is shown were on photos of its albums within the calls of all
\* pages of a search, one more call and both times to live, for every instance.
THEOREM PeopleStayWithinScope == Spec => []PeopleWithinScope
<1>1. IInv => PeopleWithinScope
  BY DEF IInv, ScopeInv, AnswersInv
<1> QED BY <1>1, ScopeInvariant, PTL
===============================================================================
