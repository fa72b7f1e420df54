---------------------------- MODULE GalleryProofs ----------------------------
(***************************************************************************)
(* Theorems about Gallery, for every set of filters and any number of      *)
(* searches and pages.                                                     *)
(***************************************************************************)
EXTENDS Gallery, SequenceTheorems, TLAPS

\* An answer is no item or the one of its payload.
LEMMA AnswerTypes ==
  ASSUME NEW payload \in Payloads, NEW answer \in Answers(payload)
  PROVE  /\ answer.items = << >> \/ answer.items = <<payload>>
         /\ answer.more \in BOOLEAN
         /\ answer.items = << >> => ~answer.more
         /\ answer.items \in Seq(Payloads)
<1>1. /\ answer.items = << >> \/ answer.items = <<payload>>
      /\ answer.more \in BOOLEAN
      /\ answer.items = << >> => ~answer.more
  <2>1. CASE answer = [items |-> << >>, more |-> FALSE]
    BY <2>1
  <2>2. CASE answer \in [items: {<<payload>>}, more: BOOLEAN]
    BY <2>2
  <2> QED BY <2>1, <2>2 DEF Answers
<1>2. << >> \in Seq(Payloads) /\ <<payload>> \in Seq(Payloads)
  OBVIOUS
<1> QED BY <1>1, <1>2

\* The tiles of items are numbered from n + 1.
LEMMA TileTypes ==
  ASSUME NEW T, NEW items \in Seq(T), NEW n \in Nat
  PROVE  /\ Tiles(items, n) \in Seq(T \X Nat)
         /\ Len(Tiles(items, n)) = Len(items)
         /\ \A i \in 1..Len(items) : Tiles(items, n)[i] = <<items[i], n + i>>
<1>1. \A i \in 1..Len(items) : <<items[i], n + i>> \in T \X Nat
  OBVIOUS
<1> QED BY <1>1 DEF Tiles

\* Appended tiles are those of the longer list.
LEMMA TilesAppend ==
  ASSUME NEW T, NEW a \in Seq(T), NEW b \in Seq(T)
  PROVE  Tiles(a, 0) \o Tiles(b, Len(a)) = Tiles(a \o b, 0)
<1> DEFINE U == T \X Nat
           c == a \o b
           A == Tiles(a, 0)
           B == Tiles(b, Len(a))
           C == Tiles(c, 0)
<1>1. /\ c \in Seq(T) /\ Len(c) = Len(a) + Len(b) /\ Len(a) \in Nat /\ Len(b) \in Nat
      /\ \A i \in 1..Len(c) : c[i] = IF i <= Len(a) THEN a[i] ELSE b[i - Len(a)]
  BY ConcatProperties, LenProperties
<1>2. A \in Seq(U) /\ Len(A) = Len(a) /\ \A i \in 1..Len(a) : A[i] = <<a[i], 0 + i>>
  BY TileTypes
<1>3. B \in Seq(U) /\ Len(B) = Len(b) /\ \A i \in 1..Len(b) : B[i] = <<b[i], Len(a) + i>>
  BY <1>1, TileTypes
<1> HIDE DEF c
<1>4. C \in Seq(U) /\ Len(C) = Len(c) /\ \A i \in 1..Len(c) : C[i] = <<c[i], 0 + i>>
  BY <1>1, TileTypes
<1> HIDE DEF U, A, B, C
<1>5. /\ A \o B \in Seq(U) /\ Len(A \o B) = Len(c)
      /\ \A i \in 1..Len(c) : (A \o B)[i] = IF i <= Len(a) THEN A[i] ELSE B[i - Len(a)]
  <2>1. /\ A \o B \in Seq(U) /\ Len(A \o B) = Len(A) + Len(B)
        /\ \A i \in 1..(Len(A) + Len(B)) :
             (A \o B)[i] = IF i <= Len(A) THEN A[i] ELSE B[i - Len(A)]
    BY <1>2, <1>3, ConcatProperties, Zenon
  <2>2. Len(A) = Len(a) /\ Len(A) + Len(B) = Len(c)
    BY <1>1, <1>2, <1>3
  <2> QED BY <2>1, <2>2, Zenon
<1>6. \A i \in 1..Len(c) : (A \o B)[i] = C[i]
  <2> SUFFICES ASSUME NEW i \in 1..Len(c) PROVE (A \o B)[i] = C[i]
    OBVIOUS
  <2>1. C[i] = <<c[i], 0 + i>>
    BY <1>4
  <2>2. CASE i <= Len(a)
    <3>1. i \in 1..Len(a)
      BY <2>2, <1>1
    <3> QED BY <2>1, <2>2, <3>1, <1>1, <1>2, <1>5
  <2>3. CASE i > Len(a)
    <3>1. i - Len(a) \in 1..Len(b) /\ ~(i <= Len(a))
      BY <2>3, <1>1
    <3>2. (A \o B)[i] = B[i - Len(a)] /\ c[i] = b[i - Len(a)]
      BY <3>1, <1>1, <1>5
    <3>3. B[i - Len(a)] = <<b[i - Len(a)], Len(a) + (i - Len(a))>>
      BY <3>1, <1>3
    <3>4. Len(a) + (i - Len(a)) = 0 + i
      BY <1>1
    <3> QED BY <2>1, <3>2, <3>3, <3>4
  <2>4. i \in Nat /\ Len(a) \in Nat
    BY <1>1
  <2>5. i <= Len(a) \/ i > Len(a)
    BY <2>4
  <2> QED BY <2>2, <2>3, <2>5
<1>7. A \o B = C
  BY <1>4, <1>5, <1>6, SeqEqual
<1> QED BY <1>7 DEF A, B, C, c

\* A search starts: what every control has in common.
LEMMA LoadTypes ==
  ASSUME TypeOK, NEW f \in Filters, Load(f)
  PROVE  /\ loads' \subseteq (1..started') \X Filters /\ started' \in 0..MaxLoads
         /\ loads' = loads \cup {<<started', f>>}
         /\ isLoading' = TRUE /\ error' = FALSE /\ overlapped' \in BOOLEAN
<1>1. started' = started + 1 /\ started' \in 0..MaxLoads
  BY GalleryAssumption DEF Load, TypeOK
<1>2. loads' = loads \cup {<<started', f>>}
  BY DEF Load
<1>3. loads \subseteq (1..started') \X Filters /\ started' \in 1..started'
  BY <1>1 DEF TypeOK
<1>4. overlapped' \in BOOLEAN
  BY DEF Load
<1> QED BY <1>1, <1>2, <1>3, <1>4 DEF Load

\* A control's search forgets the list and leaves everything of the right type.
LEMMA SearchForTypes ==
  ASSUME TypeOK, NEW f \in Filters, NEW more \in BOOLEAN, SearchFor(f, more),
         url' \in Filters, timer' \in Texts \cup {None}, booted' \in BOOLEAN, listed' \in BOOLEAN
  PROVE  TypeOK'
<1>1. filter' \in Filters /\ hasMore' \in BOOLEAN /\ page' \in 1..MaxPage
  BY GalleryAssumption DEF SearchFor
<1>2. assets' \in Seq(Payloads) /\ tiles' \in Seq(Payloads \X Nat)
  BY DEF SearchFor, Load, TypeOK
<1>3. mores' = mores /\ isLoadingMore' = isLoadingMore
  BY DEF SearchFor, Load
<1> QED BY <1>1, <1>2, <1>3, LoadTypes DEF SearchFor, TypeOK

\* Every change of a filter yields filters.
LEMMA FilterTypes ==
  ASSUME TypeOK
  PROVE  /\ \A text \in Texts : [filter EXCEPT !.query = text] \in Filters
         /\ \A other \in Others : [filter EXCEPT !.other = other] \in Filters
         /\ \A other \in Others : [query |-> NoText, other |-> other] \in Filters
         /\ NoFilter \in Filters /\ filter \in Filters
BY GalleryAssumption DEF TypeOK, Filters, NoFilter

\* Type correctness, and the flag of loadMore is up exactly while its request is
\* under way.
THEOREM TypeCorrect == Spec => []TypeOK
<1>1. Init => TypeOK
  <2> SUFFICES ASSUME Init PROVE TypeOK
    OBVIOUS
  <2>1. page \in 1..MaxPage /\ started \in 0..MaxLoads /\ loads \subseteq (1..started) \X Filters
    BY GalleryAssumption DEF Init
  <2>2. assets \in Seq(Payloads) /\ tiles \in Seq(Payloads \X Nat)
    BY DEF Init
  <2>3. isLoadingMore = FALSE /\ mores \in {{}}
    BY DEF Init
  <2> QED BY <2>1, <2>2, <2>3 DEF Init, TypeOK
<1>2. TypeOK /\ [Next]_vars => TypeOK'
  <2> SUFFICES ASSUME TypeOK, [Next]_vars PROVE TypeOK'
    OBVIOUS
  <2>1. CASE UNCHANGED vars
    BY <2>1 DEF vars, TypeOK
  <2>2. CASE Boot
    <3>1. filter \in Filters /\ Load(filter)
      BY <2>2 DEF Boot, TypeOK
    <3>2. booted' \in BOOLEAN /\ tiles' = tiles /\ mores' = mores /\ isLoadingMore' = isLoadingMore
      BY <2>2 DEF Boot, Load
    <3> QED BY <2>2, <3>1, <3>2, LoadTypes DEF Boot, TypeOK
  <2>3. CASE TimerFires
    <3>1. timer \in Texts
      BY <2>3 DEF TimerFires, TypeOK
    <3> QED BY <2>3, <3>1, FilterTypes, SearchForTypes DEF TimerFires, TypeOK
  <2>4. CASE ClearAll
    BY <2>4, FilterTypes, SearchForTypes DEF ClearAll, TypeOK
  <2>5. CASE Apply
    BY <2>5, FilterTypes, SearchForTypes DEF Apply, TypeOK
  <2>6. CASE Reload
    <3>1. filter \in Filters /\ Load(filter)
      BY <2>6 DEF Reload, TypeOK
    <3>2. tiles' = tiles /\ mores' = mores /\ isLoadingMore' = isLoadingMore
      BY <2>6 DEF Reload, Load
    <3> QED BY <2>6, <3>1, <3>2, LoadTypes DEF Reload, TypeOK
  <2>7. CASE LoadMore
    <3>1. mores = {} /\ page + 1 \in 1..MaxPage
      BY <2>7, GalleryAssumption DEF LoadMore, TypeOK
    <3>2. [filter |-> filter, page |-> page + 1] \in Payloads
      BY <3>1 DEF Payloads, TypeOK
    <3>3. mores' \in {{m} : m \in Payloads} /\ isLoadingMore' = TRUE
      BY <2>7, <3>1, <3>2 DEF LoadMore
    <3>4. overlapped' \in BOOLEAN
      BY <2>7 DEF LoadMore, TypeOK
    <3> QED BY <2>7, <3>3, <3>4 DEF LoadMore, TypeOK
  <2>8. ASSUME NEW text \in Texts, Type(text) \/ CommitTextSearch(text)
        PROVE  TypeOK'
    <3>1. CASE Type(text)
      BY <3>1 DEF Type, request, TypeOK
    <3>2. CASE CommitTextSearch(text)
      BY <3>2, FilterTypes, SearchForTypes DEF CommitTextSearch, TypeOK
    <3> QED BY <2>8, <3>1, <3>2
  <2>9. ASSUME NEW other \in Others, PanelChange(other) \/ SelectSearchPerson(other) \/ RemoveFilter(other)
        PROVE  TypeOK'
    <3>1. CASE PanelChange(other)
      BY <3>1, FilterTypes, SearchForTypes DEF PanelChange, TypeOK
    <3>2. CASE SelectSearchPerson(other)
      BY <3>2, FilterTypes, SearchForTypes DEF SelectSearchPerson, TypeOK
    <3>3. CASE RemoveFilter(other)
      BY <3>3, FilterTypes, SearchForTypes, GalleryAssumption DEF RemoveFilter, TypeOK
    <3> QED BY <2>9, <3>1, <3>2, <3>3
  <2>10. ASSUME NEW l \in loads, NEW answer \in Answers([filter |-> l[2], page |-> 1]),
                LoadAnswers(l, answer)
         PROVE  TypeOK'
    <3>1. [filter |-> l[2], page |-> 1] \in Payloads
      BY GalleryAssumption DEF TypeOK, Payloads
    <3>2. answer.items \in Seq(Payloads) /\ answer.more \in BOOLEAN
      BY <3>1, AnswerTypes
    <3>3. Tiles(answer.items, 0) \in Seq(Payloads \X Nat)
      BY <3>2, TileTypes
    <3>4. page' \in 1..MaxPage /\ loads' \subseteq (1..started') \X Filters
      BY <2>10, GalleryAssumption DEF LoadAnswers, TypeOK
    <3> QED BY <2>10, <3>2, <3>3, <3>4 DEF LoadAnswers, TypeOK
  <2>11. ASSUME NEW l \in loads, LoadFails(l)
         PROVE  TypeOK'
    BY <2>11 DEF LoadFails, TypeOK
  <2>12. ASSUME NEW m \in mores, NEW answer \in Answers(m), MoreAnswers(m, answer)
         PROVE  TypeOK'
    <3>1. m \in Payloads /\ mores = {m}
      BY DEF TypeOK
    <3>2. answer.items \in Seq(Payloads) /\ answer.more \in BOOLEAN
      BY <3>1, AnswerTypes
    <3>3. Tiles(answer.items, Len(assets)) \in Seq(Payloads \X Nat)
      BY <3>2, TileTypes, LenProperties DEF TypeOK
    <3>4. assets' \in Seq(Payloads) /\ tiles' \in Seq(Payloads \X Nat)
      BY <2>12, <3>2, <3>3, ConcatProperties DEF MoreAnswers, TypeOK
    <3>5. mores' = {} /\ isLoadingMore' = FALSE /\ page' \in 1..MaxPage /\ hasMore' \in BOOLEAN
      BY <2>12, <3>1, <3>2 DEF MoreAnswers, Payloads
    <3> QED BY <2>12, <3>4, <3>5 DEF MoreAnswers, TypeOK
  <2>13. ASSUME NEW m \in mores, MoreFails(m)
         PROVE  TypeOK'
    <3>1. mores' = {} /\ isLoadingMore' = FALSE
      BY <2>13 DEF MoreFails, TypeOK
    <3> QED BY <2>13, <3>1 DEF MoreFails, TypeOK
  <2> QED BY <2>1, <2>2, <2>3, <2>4, <2>5, <2>6, <2>7, <2>8, <2>9, <2>10, <2>11, <2>12, <2>13
          DEF Next, LoadEnds, MoreEnds
<1> QED BY <1>1, <1>2, PTL DEF Spec

\* Whatever the user does starts a search, asks for a page or only types.
LEMMA UserSteps ==
  ASSUME TypeOK, [Next]_vars
  PROVE  \/ UNCHANGED vars \/ LoadMore
         \/ \E text \in Texts : Type(text)
         \/ \E f \in Filters : Load(f) /\ filter' = f
         \/ \E l \in loads : LoadFails(l)
         \/ \E l \in loads : \E answer \in Answers([filter |-> l[2], page |-> 1]) : LoadAnswers(l, answer)
         \/ \E m \in mores : MoreFails(m)
         \/ \E m \in mores : \E answer \in Answers(m) : MoreAnswers(m, answer)
<1>1. CASE Boot \/ Reload
  BY <1>1, FilterTypes DEF Boot, Reload
<1>2. CASE TimerFires
  <2>1. timer \in Texts
    BY <1>2 DEF TimerFires, TypeOK
  <2> QED BY <1>2, <2>1, FilterTypes DEF TimerFires, SearchFor
<1>3. CASE ClearAll \/ Apply
  BY <1>3, FilterTypes DEF ClearAll, Apply, SearchFor
<1>4. CASE \E text \in Texts : CommitTextSearch(text)
  BY <1>4, FilterTypes DEF CommitTextSearch, SearchFor
<1>5. CASE \E other \in Others : PanelChange(other) \/ SelectSearchPerson(other) \/ RemoveFilter(other)
  BY <1>5, FilterTypes, GalleryAssumption DEF PanelChange, SelectSearchPerson, RemoveFilter, SearchFor
<1> QED BY <1>1, <1>2, <1>3, <1>4, <1>5 DEF Next, LoadEnds, MoreEnds

\* Each tile opens its asset at the index where the list has it.
THEOREM TilesAreHonest == Spec => []TilesAgree
<1>1. Init => TilesAgree
  BY DEF Init, TilesAgree, Tiles
<1>2. TypeOK /\ TilesAgree /\ [Next]_vars => TilesAgree'
  <2> SUFFICES ASSUME TypeOK, TilesAgree, [Next]_vars, loads' = {}, ~error'
               PROVE  tiles' = Tiles(assets', 0)
    BY DEF TilesAgree
  <2>1. CASE UNCHANGED vars \/ LoadMore \/ (\E text \in Texts : Type(text))
             \/ (\E m \in mores : MoreFails(m))
    BY <2>1 DEF vars, LoadMore, Type, request, MoreFails, TilesAgree
  <2>2. CASE (\E f \in Filters : Load(f)) \/ (\E l \in loads : LoadFails(l))
    BY <2>2 DEF Load, LoadFails
  <2>3. CASE \E l \in loads : \E answer \in Answers([filter |-> l[2], page |-> 1]) : LoadAnswers(l, answer)
    BY <2>3 DEF LoadAnswers
  <2>4. ASSUME NEW m \in mores, NEW answer \in Answers(m), MoreAnswers(m, answer)
        PROVE  tiles' = Tiles(assets', 0)
    <3>1. m \in Payloads
      BY DEF TypeOK
    <3>2. answer.items \in Seq(Payloads) /\ assets \in Seq(Payloads)
      BY <3>1, AnswerTypes DEF TypeOK
    <3>3. tiles = Tiles(assets, 0)
      BY <2>4 DEF MoreAnswers, TilesAgree
    <3> QED BY <2>4, <3>2, <3>3, TilesAppend DEF MoreAnswers
  <2> QED BY <2>1, <2>2, <2>3, <2>4, UserSteps
<1> QED BY <1>1, <1>2, TypeCorrect, PTL DEF Spec

\* When the searches are over the address bar holds the filters of State.
LEMMA UrlKept == TypeOK /\ UrlAgrees /\ [Next]_vars => UrlAgrees'
<1> SUFFICES ASSUME TypeOK, UrlAgrees, [Next]_vars, loads' = {}, ~error'
             PROVE  url' = filter'
  BY DEF UrlAgrees
<1>1. CASE UNCHANGED vars \/ LoadMore \/ (\E text \in Texts : Type(text))
           \/ (\E m \in mores : MoreFails(m))
  BY <1>1 DEF vars, LoadMore, Type, request, MoreFails, UrlAgrees
<1>2. CASE (\E f \in Filters : Load(f)) \/ (\E l \in loads : LoadFails(l))
  BY <1>2 DEF Load, LoadFails
<1>3. CASE (\E l \in loads : \E answer \in Answers([filter |-> l[2], page |-> 1]) : LoadAnswers(l, answer))
           \/ (\E m \in mores : \E answer \in Answers(m) : MoreAnswers(m, answer))
  BY <1>3 DEF LoadAnswers, MoreAnswers, UrlAgrees
<1> QED BY <1>1, <1>2, <1>3, UserSteps

THEOREM UrlIsShareable == Spec => []UrlAgrees
<1>1. Init => UrlAgrees
  BY DEF Init, UrlAgrees
<1> QED BY <1>1, UrlKept, TypeCorrect, PTL DEF Spec

\* While the requests do not overlap there is one at most, for the filters of State.
LEMMA OneKept == TypeOK /\ OneAtATime /\ [Next]_vars => OneAtATime'
<1> SUFFICES ASSUME TypeOK, OneAtATime, [Next]_vars, ~overlapped'
             PROVE  /\ loads' = {} \/ mores' = {}
                    /\ \A l \in loads' : l[2] = filter' /\ loads' = {l}
  BY DEF OneAtATime
<1>1. CASE UNCHANGED vars \/ (\E text \in Texts : Type(text))
  BY <1>1 DEF vars, Type, request, OneAtATime
<1>2. CASE LoadMore
  BY <1>2 DEF LoadMore, OneAtATime
<1>3. ASSUME NEW f \in Filters, Load(f), filter' = f
      PROVE  /\ mores' = {} /\ \A l \in loads' : l[2] = filter' /\ loads' = {l}
  <2>1. loads' = {<<started', f>>} /\ mores' = {}
    BY <1>3 DEF Load, Quiet
  <2> QED BY <1>3, <2>1
<1>4. CASE (\E l \in loads : LoadFails(l))
           \/ (\E l \in loads : \E answer \in Answers([filter |-> l[2], page |-> 1]) : LoadAnswers(l, answer))
  <2>1. loads' = {}
    BY <1>4 DEF LoadFails, LoadAnswers, OneAtATime
  <2> QED BY <2>1
<1>5. CASE (\E m \in mores : MoreFails(m)) \/ (\E m \in mores : \E answer \in Answers(m) : MoreAnswers(m, answer))
  <2>1. mores' = {} /\ loads' = loads /\ filter' = filter /\ overlapped' = overlapped
    BY <1>5 DEF MoreFails, MoreAnswers, TypeOK
  <2> QED BY <2>1 DEF OneAtATime
<1> QED BY <1>1, <1>2, <1>3, <1>4, <1>5, UserSteps

\* A list of first pages grows by the next page to a list of first pages.
LEMMA PageAppended ==
  ASSUME NEW f \in Filters, NEW n \in Nat, n + 1 <= MaxPage,
         NEW a, a = [i \in 1..n |-> [filter |-> f, page |-> i]]
  PROVE  a \o <<[filter |-> f, page |-> n + 1]>> = [i \in 1..(n + 1) |-> [filter |-> f, page |-> i]]
<1> DEFINE it(i) == [filter |-> f, page |-> i]
           b == [i \in 1..(n + 1) |-> it(i)]
           c == a \o <<it(n + 1)>>
<1>0. \A i \in 1..MaxPage : it(i) \in Payloads
  BY DEF Payloads
<1> USE GalleryAssumption
<1>1. \A i \in 1..(n + 1) : it(i) \in Payloads
  BY <1>0
<1>2. a \in Seq(Payloads) /\ Len(a) = n /\ \A i \in 1..n : a[i] = it(i)
  BY <1>1
<1>3. b \in Seq(Payloads) /\ Len(b) = n + 1 /\ \A i \in 1..(n + 1) : b[i] = it(i)
  BY <1>1
<1>4. <<it(n + 1)>> \in Seq(Payloads) /\ Len(<<it(n + 1)>>) = 1 /\ <<it(n + 1)>>[1] = it(n + 1)
  BY <1>1
<1> HIDE DEF it, b
<1>5. /\ c \in Seq(Payloads) /\ Len(c) = n + 1
      /\ \A i \in 1..(n + 1) : c[i] = IF i <= n THEN a[i] ELSE <<it(n + 1)>>[i - n]
  BY <1>2, <1>4, ConcatProperties
<1> HIDE DEF c
<1>6. \A i \in 1..(n + 1) : c[i] = b[i]
  <2> SUFFICES ASSUME NEW i \in 1..(n + 1) PROVE c[i] = b[i]
    OBVIOUS
  <2>1. CASE i <= n
    BY <2>1, <1>2, <1>3, <1>5
  <2>2. CASE i = n + 1
    BY <2>2, <1>3, <1>4, <1>5
  <2> QED BY <2>1, <2>2
<1>7. c = b
  BY <1>3, <1>5, <1>6, SeqEqual
<1> QED BY <1>7 DEF b, c, it

\* An answer to a search that overlapped nothing shows the first page or nothing.
LEMMA SearchShowsFirstPage ==
  ASSUME TypeOK, OneAtATime, ~overlapped, NEW l \in loads,
         NEW answer \in Answers([filter |-> l[2], page |-> 1]), LoadAnswers(l, answer)
  PROVE  Results' /\ (hasMore' => page' = Len(assets')) /\ mores' = {}
<1>1. l[2] = filter /\ mores = {} /\ filter \in Filters
  BY DEF OneAtATime, TypeOK
<1>2. /\ assets' = answer.items /\ hasMore' = answer.more /\ page' = 1 /\ url' = filter
      /\ mores' = {}
  BY <1>1 DEF LoadAnswers
<1>3. [filter |-> l[2], page |-> 1] \in Payloads
  BY <1>1, GalleryAssumption DEF Payloads
<1>4. CASE answer.items = << >>
  <2>1. ~answer.more
    BY <1>3, <1>4, AnswerTypes
  <2>2. assets' = [i \in 1..0 |-> [filter |-> url', page |-> i]] /\ 0 \in 0..MaxPage
    BY <1>2, <1>4, GalleryAssumption
  <2> QED BY <1>2, <2>1, <2>2 DEF Results
<1>5. CASE answer.items = <<[filter |-> l[2], page |-> 1]>>
  <2>1. Len(assets') = 1
    BY <1>2, <1>5
  <2>2. assets' = [i \in 1..1 |-> [filter |-> url', page |-> i]] /\ 1 \in 0..MaxPage
    BY <1>1, <1>2, <1>5, GalleryAssumption
  <2> QED BY <1>2, <2>1, <2>2 DEF Results
<1> QED BY <1>3, <1>4, <1>5, AnswerTypes

\* The next page continues them, or says that there is none.
LEMMA PageContinues ==
  ASSUME TypeOK, FirstPages, booted, ~overlapped, ~error, loads = {}, NEW m \in mores,
         NEW answer \in Answers(m), MoreAnswers(m, answer)
  PROVE  Results' /\ (hasMore' => page' = Len(assets')) /\ mores' = {}
<1>1. PICK n \in 0..MaxPage : assets = [i \in 1..n |-> [filter |-> url, page |-> i]]
                              /\ (n > 0 => page \in {n, n + 1})
  BY DEF FirstPages, Results
<1>2. Len(assets) = n /\ n \in Nat
  BY <1>1, GalleryAssumption
<1>3. m \in Payloads /\ m.filter = url /\ m.page = n + 1 /\ mores = {m}
  BY <1>2 DEF FirstPages, TypeOK
<1>4. m = [filter |-> url, page |-> n + 1] /\ n + 1 \in 1..MaxPage /\ url \in Filters
  BY <1>3 DEF Payloads
<1>5. /\ assets' = assets \o answer.items /\ hasMore' = (answer.more /\ answer.items # << >>)
      /\ page' = n + 1 /\ url' = url /\ mores' = {}
  BY <1>3 DEF MoreAnswers
<1>6. CASE answer.items = << >>
  <2>1. assets \in Seq(Payloads)
    BY DEF TypeOK
  <2>2. assets' = assets /\ ~hasMore'
    BY <1>5, <1>6, <2>1, ConcatEmptySeq
  <2> QED BY <1>1, <1>5, <2>2 DEF Results
<1>7. CASE answer.items = <<m>>
  <2>1. assets' = [i \in 1..(n + 1) |-> [filter |-> url', page |-> i]]
    BY <1>1, <1>2, <1>4, <1>5, <1>7, PageAppended, GalleryAssumption
  <2>2. Len(assets') = n + 1
    BY <2>1, <1>2
  <2>3. n + 1 \in 0..MaxPage
    BY <1>4, GalleryAssumption
  <2> QED BY <1>5, <2>1, <2>2, <2>3 DEF Results
<1> QED BY <1>3, <1>6, <1>7, AnswerTypes

\* As long as the requests do not overlap, the list is the first pages.
LEMMA FirstKept == TypeOK /\ UrlAgrees /\ OneAtATime /\ FirstPages /\ [Next]_vars => FirstPages'
<1> SUFFICES ASSUME TypeOK, UrlAgrees, OneAtATime, FirstPages, [Next]_vars,
                    booted', ~overlapped', ~error', loads' = {}
             PROVE  /\ Results'
                    /\ hasMore' => page' = Len(assets')
                    /\ \A m \in mores' : m.filter = url' /\ m.page = Len(assets') + 1
  BY DEF FirstPages
<1>1. CASE UNCHANGED vars \/ (\E text \in Texts : Type(text))
  <2>1. /\ booted' = booted /\ overlapped' = overlapped /\ error' = error /\ loads' = loads
        /\ url' = url /\ page' = page /\ hasMore' = hasMore /\ assets' = assets /\ mores' = mores
    BY <1>1 DEF vars, Type, request
  <2>2. Results' = Results
    BY <2>1 DEF Results
  <2> QED BY <2>1, <2>2 DEF FirstPages
<1>2. CASE LoadMore
  <2>1. booted /\ ~overlapped /\ ~error /\ loads = {} /\ hasMore /\ mores = {}
    BY <1>2 DEF LoadMore, TypeOK
  <2>2. Results /\ page = Len(assets) /\ url = filter
    BY <2>1 DEF FirstPages, UrlAgrees
  <2>3. mores' = {[filter |-> url, page |-> Len(assets) + 1]}
    BY <1>2, <2>1, <2>2 DEF LoadMore
  <2> QED BY <1>2, <2>2, <2>3 DEF LoadMore, Results
<1>3. CASE (\E f \in Filters : Load(f)) \/ (\E l \in loads : LoadFails(l))
  BY <1>3 DEF Load, LoadFails
<1>4. ASSUME NEW l \in loads, NEW answer \in Answers([filter |-> l[2], page |-> 1]), LoadAnswers(l, answer)
      PROVE  Results' /\ (hasMore' => page' = Len(assets')) /\ mores' = {}
  <2>1. ~overlapped
    BY <1>4 DEF LoadAnswers
  <2> QED BY <1>4, <2>1, SearchShowsFirstPage
<1>5. CASE \E m \in mores : MoreFails(m)
  <2>1. mores' = {}
    BY <1>5 DEF MoreFails, TypeOK
  <2> QED BY <1>5, <2>1 DEF MoreFails, FirstPages, Results
<1>6. ASSUME NEW m \in mores, NEW answer \in Answers(m), MoreAnswers(m, answer)
      PROVE  Results' /\ (hasMore' => page' = Len(assets')) /\ mores' = {}
  <2>1. booted /\ ~overlapped /\ ~error /\ loads = {}
    BY <1>6 DEF MoreAnswers
  <2> QED BY <1>6, <2>1, PageContinues
<1> QED BY <1>1, <1>2, <1>3, <1>4, <1>5, <1>6, UserSteps

\* The inductive invariant of the patient user.
THEOREM PatientInvariant == Spec => []PatientInv
<1>1. Init => UrlAgrees /\ OneAtATime /\ FirstPages
  BY DEF Init, UrlAgrees, OneAtATime, FirstPages
<1>2. TypeOK /\ (UrlAgrees /\ OneAtATime /\ FirstPages) /\ [Next]_vars
      => (UrlAgrees /\ OneAtATime /\ FirstPages)'
  BY UrlKept, OneKept, FirstKept
<1>3. TypeOK /\ (UrlAgrees /\ OneAtATime /\ FirstPages) => PatientInv
  BY DEF PatientInv
<1> QED BY <1>1, <1>2, <1>3, TypeCorrect, PTL DEF Spec

\* A user who waits for each answer sees the results of the filters in the URL.
THEOREM PatientUserSeesResults == Spec => []PatientResults
<1>1. PatientInv => PatientResults
  BY DEF PatientInv, FirstPages, PatientResults, Quiet
<1> QED BY <1>1, PatientInvariant, PTL

\* A search, from any control, forgets the list, starts on the one there is, or
\* (Type) is only put off.
LEMMA ControlsForget ==
  ASSUME TypeOK,
         \/ Boot \/ TimerFires \/ ClearAll \/ Apply \/ Reload
         \/ \E text \in Texts : Type(text) \/ CommitTextSearch(text)
         \/ \E other \in Others : PanelChange(other) \/ SelectSearchPerson(other) \/ RemoveFilter(other)
  PROVE  [L!Forget]_(L!vars)
<1>1. ASSUME NEW f, NEW more \in {hasMore, TRUE}, SearchFor(f, more)
      PROVE  L!Forget
  BY <1>1 DEF SearchFor, Load, L!Forget
<1>2. CASE Boot \/ Reload \/ \E text \in Texts : Type(text)
  BY <1>2 DEF Boot, Reload, Load, Type, request, L!vars
<1>3. CASE TimerFires \/ \E text \in Texts : CommitTextSearch(text)
  BY <1>1, <1>3 DEF TimerFires, CommitTextSearch
<1>4. CASE ClearAll \/ Apply
  BY <1>1, <1>4 DEF ClearAll, Apply
<1>5. CASE \E other \in Others : PanelChange(other) \/ SelectSearchPerson(other) \/ RemoveFilter(other)
  BY <1>1, <1>5 DEF PanelChange, SelectSearchPerson, RemoveFilter
<1> QED BY <1>2, <1>3, <1>4, <1>5

\* The grid's list, with any number of searches and pages in any order, implements
\* AssetList: a page is appended only if it was asked for, and once.
THEOREM ImplementsList == Spec => RefinesList
<1>1. Init => L!Init
  BY DEF Init, L!Init
<1>2. TypeOK /\ [Next]_vars => [L!Next]_(L!vars)
  <2> SUFFICES ASSUME TypeOK, [Next]_vars
               PROVE  [L!Next]_(L!vars)
    OBVIOUS
  <2>1. CASE UNCHANGED vars
    BY <2>1 DEF vars, L!vars
  <2>2. CASE LoadMore
    BY <2>2 DEF LoadMore, L!Ask, L!Next
  <2>3. ASSUME NEW l \in loads, LoadFails(l)
        PROVE  UNCHANGED L!vars
    BY <2>3 DEF LoadFails, L!vars
  <2>4. ASSUME NEW l \in loads, NEW answer \in Answers([filter |-> l[2], page |-> 1]), LoadAnswers(l, answer)
        PROVE  L!Replace
    <3>1. [filter |-> l[2], page |-> 1] \in Payloads
      BY GalleryAssumption DEF TypeOK, Payloads
    <3>2. answer.items \in OnePage /\ answer.more \in BOOLEAN
      BY <3>1, AnswerTypes DEF OnePage
    <3> QED BY <2>4, <3>2 DEF LoadAnswers, L!Replace
  <2>5. ASSUME NEW m \in mores, MoreFails(m)
        PROVE  L!Fail
    BY <2>5 DEF MoreFails, TypeOK, L!Fail
  <2>6. ASSUME NEW m \in mores, NEW answer \in Answers(m), MoreAnswers(m, answer)
        PROVE  \E new \in OnePage : L!Arrive(new)
    <3>1. m \in Payloads /\ isLoadingMore = TRUE
      BY DEF TypeOK
    <3>2. answer.items \in OnePage /\ answer.more \in BOOLEAN
      BY <3>1, AnswerTypes DEF OnePage
    <3>3. L!Arrive(answer.items)
      BY <2>6, <3>1, <3>2 DEF MoreAnswers, L!Arrive
    <3> QED BY <3>2, <3>3
  <2>7. CASE \/ Boot \/ TimerFires \/ ClearAll \/ Apply \/ Reload
             \/ \E text \in Texts : Type(text) \/ CommitTextSearch(text)
             \/ \E other \in Others : PanelChange(other) \/ SelectSearchPerson(other) \/ RemoveFilter(other)
    BY <2>7, ControlsForget DEF L!Next
  <2> QED BY <2>1, <2>2, <2>3, <2>4, <2>5, <2>6, <2>7 DEF Next, LoadEnds, MoreEnds, L!Next
<1> QED BY <1>1, <1>2, TypeCorrect, PTL DEF Spec, RefinesList, L!Spec
=============================================================================
