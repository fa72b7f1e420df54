----------------------------- MODULE SocialProofs -----------------------------
(***************************************************************************)
(* Theorems about Social, for all photos, guests, comments and loads.      *)
(***************************************************************************)
EXTENDS Social, TLAPS

Readers == minted \cup {None}

\* Who sent what is under way, and what its answer can hold: a comment in an
\* answer is written, about the photo asked for, and stays so.
LoadKnown(load) ==
  /\ load.asset \in Assets /\ load.cookie \in Readers /\ load.answer.reader \in Readers
  /\ load.answer.rows = ListReactions(load.asset, load.answer.rows)
  /\ \A c \in load.answer.ids : author[c] # None /\ about[c] = load.asset

MutationKnown ==
  /\ mutation.asset \in Assets /\ mutation.cookie \in Readers
  /\ mutation.answer.reader \in Readers
  /\ mutation.kind = "toggle" =>
       /\ mutation.what \in Emojis
       /\ mutation.answer.rows = ListReactions(mutation.asset, mutation.answer.rows)
  /\ mutation.kind = "comment" =>
       \A c \in mutation.answer.ids : author[c] # None /\ about[c] = mutation.asset

LoadsKnown ==
  \A s \in Slots : IF loads[s].stage = "none" THEN loads[s] = NoLoad ELSE LoadKnown(loads[s])

PendingKnown == IF mutation.stage = "none" THEN mutation = NoMutation ELSE MutationKnown

Written ==
  /\ \A c \in comments : author[c] # None
  /\ \A c \in CommentIds : panel.copies[c] > 0 => author[c] # None

Known == Written /\ LoadsKnown /\ PendingKnown

\* A patient user is at rest, waits for the load of the photo on screen, or for one
\* change of it; what arrives will make the panel current.
Only(s) == \A t \in Slots \ {s} : loads[t] = NoLoad

AtRest == Quiet /\ jar # None /\ Current(panel, jar)

Loading ==
  /\ mutation = NoMutation
  /\ \E s \in Slots :
       /\ Only(s) /\ loads[s].asset = assetId /\ loads[s].cookie = jar
       /\ \/ loads[s].stage = "sent"
          \/ /\ loads[s].stage = "answered" /\ SetCookie(loads[s]) # None
             /\ Current(Loaded(loads[s].answer), SetCookie(loads[s]))

Changing ==
  /\ \A s \in Slots : loads[s] = NoLoad
  /\ mutation.asset = assetId /\ mutation.cookie = jar /\ jar # None
  /\ \/ mutation.stage = "sent" /\ Current(panel, jar)
     \/ mutation.stage = "answered" /\ Current(Applied, jar)

Patience == assetId # None /\ calm => AtRest \/ Loading \/ Changing

SafeInv == TypeOK /\ Known /\ PanelOfPhoto

------------------------------------------------------------------------------
(* Types.                                                                   *)

LEMMA NothingTyped ==
  NoAnswer \in Answer /\ NoLoad \in LoadRecord /\ NoMutation \in Mutation /\ Blank \in Panel
  BY DEF NoAnswer, NoLoad, NoMutation, Blank, Answer, LoadRecord, Mutation, Panel, Stages, Rows

LEMMA TypeInit == Init => TypeOK
<1> SUFFICES ASSUME Init PROVE TypeOK
  OBVIOUS
<1> USE DEF Init
<1>1. loads \in [Slots -> LoadRecord] /\ mutation \in Mutation /\ panel \in Panel
  BY NothingTyped
<1>2. author \in [CommentIds -> Guests \cup {None}] /\ about \in [CommentIds -> Assets \cup {None}]
  OBVIOUS
<1> QED BY <1>1, <1>2 DEF TypeOK

LEMMA AnswerType ==
  ASSUME NEW g \in Guests \cup {None}, NEW rows \in SUBSET Rows,
         NEW ids \in SUBSET CommentIds
  PROVE  [reader |-> g, rows |-> rows, ids |-> ids] \in Answer
  BY DEF Answer

\* The guest of a request is one of the browser's.
LEMMA GuestOfRequest ==
  ASSUME TypeOK, NEW cookie \in Readers, NEW g \in EnsureGuestId(cookie)
  PROVE  g \in Guests /\ g # Visitor /\ g # None /\ (cookie # None => g = cookie)
  BY SocialAssumption DEF EnsureGuestId, Readers, TypeOK

LEMMA LoadedType ==
  ASSUME TypeOK, NEW answer \in Answer
  PROVE  Loaded(answer) \in Panel
<1>1. [c \in CommentIds |-> IF c \in answer.ids THEN 1 ELSE 0] \in [CommentIds -> Nat]
  OBVIOUS
<1>2. {c \in answer.ids : author[c] = answer.reader} \in SUBSET CommentIds
  BY DEF Answer
<1> QED BY <1>1, <1>2 DEF Loaded, Answer, Panel

LEMMA AppliedType ==
  ASSUME TypeOK
  PROVE  Applied \in Panel
<1>1. /\ panel \in Panel /\ mutation.answer \in Answer
      /\ \A c \in CommentIds : panel.copies[c] \in Nat
  BY DEF TypeOK, Mutation, Panel
<1>2. CASE mutation.kind = "toggle"
  BY <1>1, <1>2 DEF Applied, Panel, Answer
<1>3. CASE mutation.kind = "comment"
  <2>1. [c \in CommentIds |-> IF c \in mutation.answer.ids THEN panel.copies[c] + 1
                              ELSE panel.copies[c]] \in [CommentIds -> Nat]
    BY <1>1
  <2> QED BY <1>1, <1>3, <2>1 DEF Applied, Panel, Answer
<1>4. CASE mutation.kind \notin {"toggle", "comment"}
  <2>1. [c \in CommentIds |-> IF c \in mutation.answer.ids THEN 0
                              ELSE panel.copies[c]] \in [CommentIds -> Nat]
    BY <1>1
  <2> QED BY <1>1, <1>4, <2>1 DEF Applied, Panel, Answer
<1> QED BY <1>2, <1>3, <1>4

\* What a client keeps as its cookie is a guest it was answered with.
LEMMA CookieKept ==
  ASSUME TypeOK, NEW request, request.answer.reader \in Readers
  PROVE  SetCookie(request) \in Readers
  BY DEF TypeOK, SetCookie, Readers

------------------------------------------------------------------------------
(* What is known of the requests under way.                                 *)

\* What was once written keeps its author and its photo.
AuthorsKept ==
  \A c \in CommentIds : author[c] # None => author'[c] = author[c] /\ about'[c] = about[c]

LEMMA MutationStaysKnown ==
  ASSUME TypeOK, AuthorsKept, minted \subseteq minted', MutationKnown, mutation' = mutation
  PROVE  MutationKnown'
  BY DEF MutationKnown, AuthorsKept, Readers, TypeOK, Mutation, Answer, ListReactions

LEMMA LoadsStayKnown ==
  ASSUME TypeOK, LoadsKnown, TypeOK', AuthorsKept, minted \subseteq minted',
         \A s \in Slots : \/ loads'[s] \in {loads[s], NoLoad}
                          \/ loads'[s].stage # "none" /\ LoadKnown(loads[s])'
  PROVE  LoadsKnown'
<1> SUFFICES ASSUME NEW s \in Slots
             PROVE  IF loads'[s].stage = "none" THEN loads'[s] = NoLoad ELSE LoadKnown(loads[s])'
  BY DEF LoadsKnown
<1>1. NoLoad.stage = "none"
  BY DEF NoLoad
<1>2. CASE loads'[s] = NoLoad
  BY <1>1, <1>2
<1>3. CASE loads'[s].stage # "none" /\ LoadKnown(loads[s])'
  BY <1>3
<1>4. CASE loads'[s] = loads[s] /\ loads[s].stage = "none"
  BY <1>4 DEF LoadsKnown
<1>5. CASE loads'[s] = loads[s] /\ loads[s].stage # "none"
  <2>1. LoadKnown(loads[s]) /\ loads[s] \in LoadRecord
    BY <1>5 DEF LoadsKnown, TypeOK
  <2>2. /\ loads[s].asset \in Assets /\ loads[s].cookie \in Readers'
        /\ loads[s].answer.reader \in Readers'
        /\ loads[s].answer.rows = ListReactions(loads[s].asset, loads[s].answer.rows)
    BY <2>1 DEF LoadKnown, Readers
  <2>3. \A c \in loads[s].answer.ids : author'[c] # None /\ about'[c] = loads[s].asset
    BY <2>1 DEF LoadKnown, AuthorsKept, LoadRecord, Answer
  <2> QED BY <1>5, <2>2, <2>3 DEF LoadKnown
<1> QED BY <1>2, <1>3, <1>4, <1>5

LEMMA PendingStaysKnown ==
  ASSUME TypeOK, PendingKnown, AuthorsKept, minted \subseteq minted', mutation' = mutation
  PROVE  PendingKnown'
  BY MutationStaysKnown DEF PendingKnown

------------------------------------------------------------------------------
(* The panel shows only the photo on screen.                                *)

LEMMA SafeInit == Init => SafeInv
<1>1. Init => Known
  BY DEF Init, Known, Written, LoadsKnown, PendingKnown, NoLoad, NoMutation, Blank
<1> QED BY <1>1, TypeInit, SocialAssumption DEF SafeInv, PanelOfPhoto, Init

LEMMA LoadForAssetSafe ==
  ASSUME SafeInv, NEW a \in Assets, NEW s \in Slots, LoadForAsset(a, s)
  PROVE  SafeInv'
<1> DEFINE load == [stage |-> "sent", asset |-> a, cookie |-> jar, answer |-> NoAnswer]
<1> USE DEF SafeInv, Known
<1>1. jar \in Readers /\ load \in LoadRecord
  BY NothingTyped DEF TypeOK, Readers, LoadRecord, Stages
<1>2. TypeOK'
  BY <1>1, NothingTyped DEF LoadForAsset, TypeOK, tables, Quiet
<1>3. AuthorsKept /\ minted' = minted
  BY DEF LoadForAsset, tables, AuthorsKept
<1>4. \A t \in Slots : loads'[t] = IF t = s THEN load ELSE loads[t]
  BY DEF LoadForAsset, TypeOK
<1>5. loads'[s].stage # "none" /\ LoadKnown(loads[s])'
  BY <1>1, <1>3, <1>4 DEF LoadKnown, NoAnswer, Readers, ListReactions
<1>6. LoadsKnown'
  <2>1. \A t \in Slots : \/ loads'[t] \in {loads[t], NoLoad}
                         \/ loads'[t].stage # "none" /\ LoadKnown(loads[t])'
    BY <1>4, <1>5
  <2> QED BY <2>1, <1>2, <1>3, LoadsStayKnown
<1>7. PendingKnown'
  BY <1>3, PendingStaysKnown DEF LoadForAsset
<1>8. Written' /\ PanelOfPhoto'
  BY DEF LoadForAsset, tables, Written, PanelOfPhoto, Blank, ListReactions
<1> QED BY <1>2, <1>6, <1>7, <1>8

LEMMA ClearSafe ==
  ASSUME SafeInv, Clear
  PROVE  SafeInv'
<1> USE DEF SafeInv, Known
<1>1. TypeOK'
  BY NothingTyped DEF Clear, TypeOK, tables
<1>2. AuthorsKept /\ minted' = minted
  BY DEF Clear, tables, AuthorsKept
<1>3. LoadsKnown' /\ PendingKnown'
  BY <1>1, <1>2, LoadsStayKnown, PendingStaysKnown DEF Clear
<1>4. Written' /\ PanelOfPhoto'
  BY DEF Clear, tables, Written, PanelOfPhoto, Blank
<1> QED BY <1>1, <1>3, <1>4

LEMMA SendSafe ==
  ASSUME SafeInv, NEW kind \in {"toggle", "comment", "delete"},
         NEW what \in Emojis \cup CommentIds \cup {None}, Send(kind, what),
         kind = "toggle" => what \in Emojis
  PROVE  SafeInv'
<1> DEFINE sent == [stage |-> "sent", kind |-> kind, asset |-> assetId, what |-> what,
                    cookie |-> jar, answer |-> NoAnswer]
<1> USE DEF SafeInv, Known
<1>1. /\ jar \in Readers /\ assetId \in Assets /\ sent \in Mutation
      /\ mutation' = sent /\ sent.stage # "none" /\ sent # NoMutation
  BY NothingTyped DEF Send, TypeOK, Readers, Mutation, Stages, NoMutation
<1>2. TypeOK'
  BY <1>1 DEF Send, TypeOK, tables, Quiet
<1>3. AuthorsKept /\ minted' = minted
  BY DEF Send, tables, AuthorsKept
<1>4. LoadsKnown'
  BY <1>2, <1>3, LoadsStayKnown DEF Send
<1>5. PendingKnown'
  BY <1>1, <1>3 DEF PendingKnown, MutationKnown, NoAnswer, Readers, ListReactions
<1>6. Written' /\ PanelOfPhoto'
  BY DEF Send, tables, Written, PanelOfPhoto, ListReactions
<1> QED BY <1>2, <1>4, <1>5, <1>6

LEMMA GetAssetSocialSafe ==
  ASSUME SafeInv, NEW s \in Slots, GetAssetSocial(s)
  PROVE  SafeInv'
<1> USE DEF SafeInv, Known
<1>1. loads[s].stage # "none" /\ LoadKnown(loads[s]) /\ loads[s].cookie \in Readers
  BY DEF GetAssetSocial, LoadsKnown, LoadKnown
<1>2. PICK g \in EnsureGuestId(loads[s].cookie) :
        /\ minted' = minted \cup {g}
        /\ loads' = [loads EXCEPT ![s].stage = "answered", ![s].answer =
             [reader |-> g, rows |-> ListReactions(loads[s].asset, reactions),
              ids |-> ListComments(loads[s].asset)]]
  BY DEF GetAssetSocial
<1> DEFINE answer == [reader |-> g, rows |-> ListReactions(loads[s].asset, reactions),
                      ids |-> ListComments(loads[s].asset)]
<1>3. g \in Guests /\ g # Visitor /\ g # None
  BY <1>1, GuestOfRequest
<1>4. answer \in Answer
  BY <1>3, AnswerType DEF ListReactions, ListComments, TypeOK
<1>5. /\ loads'[s].stage = "answered" /\ loads'[s].asset = loads[s].asset
      /\ loads'[s].cookie = loads[s].cookie /\ loads'[s].answer = answer
      /\ \A t \in Slots \ {s} : loads'[t] = loads[t]
  BY <1>2 DEF TypeOK, LoadRecord
<1>6. loads' \in [Slots -> LoadRecord]
  BY <1>2, <1>4 DEF TypeOK, LoadRecord, Stages
<1>7. TypeOK'
  BY <1>2, <1>3, <1>6 DEF GetAssetSocial, TypeOK, tables, page
<1>8. AuthorsKept /\ minted \subseteq minted'
  BY <1>2 DEF GetAssetSocial, tables, AuthorsKept
<1>9. LoadKnown(loads[s])'
  <2>1. \A c \in ListComments(loads[s].asset) : author'[c] # None /\ about'[c] = loads[s].asset
    BY DEF ListComments, Written, GetAssetSocial, tables
  <2>2. loads[s].asset \in Assets /\ loads[s].cookie \in Readers' /\ g \in Readers'
    BY <1>1, <1>2 DEF LoadKnown, Readers
  <2>3. answer.rows = ListReactions(loads[s].asset, answer.rows)
    BY DEF ListReactions
  <2> QED BY <1>5, <2>1, <2>2, <2>3 DEF LoadKnown
<1>10. LoadsKnown'
  <2>1. \A t \in Slots : \/ loads'[t] \in {loads[t], NoLoad}
                         \/ loads'[t].stage # "none" /\ LoadKnown(loads[t])'
    BY <1>5, <1>9
  <2> QED BY <2>1, <1>7, <1>8, LoadsStayKnown
<1>11. PendingKnown'
  BY <1>8, PendingStaysKnown DEF GetAssetSocial
<1>12. Written' /\ PanelOfPhoto'
  BY DEF GetAssetSocial, tables, page, Written, PanelOfPhoto, ListReactions
<1> QED BY <1>7, <1>10, <1>11, <1>12

LEMMA ToggleAssetReactionSafe ==
  ASSUME SafeInv, ToggleAssetReaction
  PROVE  SafeInv'
<1> USE DEF SafeInv, Known
<1>1. MutationKnown
  BY DEF ToggleAssetReaction, PendingKnown
<1>2. PICK g \in EnsureGuestId(mutation.cookie) :
        /\ minted' = minted \cup {g}
        /\ reactions' = Toggled(<<mutation.asset, g, mutation.what>>, reactions)
        /\ Answered(g, ListReactions(mutation.asset, reactions'), {})
  BY DEF ToggleAssetReaction
<1>3. g \in Guests /\ g # Visitor /\ g # None
  BY <1>1, GuestOfRequest DEF MutationKnown
<1>4. reactions' \subseteq Rows
  BY <1>1, <1>2, <1>3 DEF ToggleAssetReaction, MutationKnown, TypeOK, Toggled, Rows
<1>5. /\ mutation' \in Mutation /\ mutation'.stage = "answered" /\ mutation'.kind = "toggle"
      /\ mutation'.asset = mutation.asset /\ mutation'.cookie = mutation.cookie
      /\ mutation'.what = mutation.what /\ mutation'.answer.reader = g
      /\ mutation'.answer.rows = ListReactions(mutation.asset, reactions')
      /\ mutation' # NoMutation
  BY <1>2, <1>3, <1>4, AnswerType
  DEF ToggleAssetReaction, Answered, TypeOK, Mutation, Stages, ListReactions, NoMutation
<1>6. TypeOK'
  <2>1. minted' \subseteq Guests \ {Visitor} /\ jar' \in minted' \cup {None}
    BY <1>2, <1>3 DEF ToggleAssetReaction, TypeOK
  <2>2. busy' /\ mutation # NoMutation
    BY DEF ToggleAssetReaction, TypeOK, page, NoMutation
  <2> QED BY <1>4, <1>5, <2>1, <2>2 DEF ToggleAssetReaction, TypeOK, page
<1>7. AuthorsKept /\ minted \subseteq minted'
  BY <1>2 DEF ToggleAssetReaction, AuthorsKept
<1>8. LoadsKnown'
  BY <1>6, <1>7, LoadsStayKnown DEF ToggleAssetReaction
<1>9. PendingKnown'
  BY <1>1, <1>2, <1>5 DEF PendingKnown, MutationKnown, Readers, ListReactions,
                          ToggleAssetReaction
<1>10. Written' /\ PanelOfPhoto'
  BY DEF ToggleAssetReaction, page, Written, PanelOfPhoto, ListReactions
<1> QED BY <1>6, <1>8, <1>9, <1>10

LEMMA AddAssetCommentSafe ==
  ASSUME SafeInv, AddAssetComment
  PROVE  SafeInv'
<1> USE DEF SafeInv, Known
<1>1. MutationKnown
  BY DEF AddAssetComment, PendingKnown
<1>2. PICK g \in EnsureGuestId(mutation.cookie), c \in CommentIds :
        /\ minted' = minted \cup {g}
        /\ Write(c, g, mutation.asset)
        /\ Answered(g, {}, {c})
  BY DEF AddAssetComment
<1>3. g \in Guests /\ g # Visitor /\ g # None /\ mutation.asset \in Assets
  BY <1>1, GuestOfRequest DEF MutationKnown
<1>4. /\ mutation' \in Mutation /\ mutation'.stage = "answered" /\ mutation'.kind = "comment"
      /\ mutation'.asset = mutation.asset /\ mutation'.cookie = mutation.cookie
      /\ mutation'.answer.reader = g /\ mutation'.answer.ids = {c}
      /\ mutation' # NoMutation
  BY <1>2, <1>3, AnswerType
  DEF AddAssetComment, Answered, TypeOK, Mutation, Stages, NoMutation
<1>5. /\ author' \in [CommentIds -> Guests \cup {None}]
      /\ about' \in [CommentIds -> Assets \cup {None}]
      /\ author'[c] = g /\ about'[c] = mutation.asset /\ author[c] = None
      /\ \A d \in CommentIds \ {c} : author'[d] = author[d] /\ about'[d] = about[d]
  BY <1>2, <1>3 DEF Write, TypeOK
<1>6. TypeOK'
  <2>1. minted' \subseteq Guests \ {Visitor} /\ jar' \in minted' \cup {None}
    BY <1>2, <1>3 DEF AddAssetComment, TypeOK
  <2>2. busy'
    BY DEF AddAssetComment, TypeOK, page, NoMutation
  <2>3. comments' \subseteq CommentIds
    BY <1>2 DEF Write, TypeOK
  <2> QED BY <1>4, <1>5, <2>1, <2>2, <2>3 DEF AddAssetComment, TypeOK, page
<1>7. AuthorsKept /\ minted \subseteq minted'
  BY <1>2, <1>5 DEF AuthorsKept
<1>8. LoadsKnown'
  BY <1>6, <1>7, LoadsStayKnown DEF AddAssetComment
<1>9. PendingKnown'
  BY <1>1, <1>2, <1>3, <1>4, <1>5 DEF PendingKnown, MutationKnown, Readers
<1>10. Written'
  BY <1>2, <1>3, <1>5 DEF AddAssetComment, page, Written, Write, TypeOK
<1>11. PanelOfPhoto'
  BY <1>5 DEF AddAssetComment, page, Written, PanelOfPhoto, ListReactions
<1> QED BY <1>6, <1>8, <1>9, <1>10, <1>11

LEMMA ServeDeleteSafe ==
  ASSUME SafeInv, ServeDelete
  PROVE  SafeInv'
<1> USE DEF SafeInv, Known
<1>1. MutationKnown
  BY DEF ServeDelete, PendingKnown
<1>2. /\ mutation' \in Mutation /\ mutation'.stage = "answered" /\ mutation'.kind = "delete"
      /\ mutation'.asset = mutation.asset /\ mutation'.cookie = mutation.cookie
      /\ mutation'.answer.reader = mutation.cookie /\ mutation' # NoMutation
  <2>1. mutation.cookie \in Guests \cup {None} /\ mutation.what \in CommentIds
    BY <1>1 DEF MutationKnown, ServeDelete, TypeOK, Readers
  <2> QED BY <2>1, AnswerType
          DEF ServeDelete, Answered, TypeOK, Mutation, Stages, NoMutation
<1>3. TypeOK'
  <2>1. busy' /\ comments' \subseteq CommentIds
    BY DEF ServeDelete, TypeOK, page, NoMutation
  <2> QED BY <1>2, <2>1 DEF ServeDelete, TypeOK, page
<1>4. AuthorsKept /\ minted' = minted
  BY DEF ServeDelete, AuthorsKept
<1>5. LoadsKnown'
  BY <1>3, <1>4, LoadsStayKnown DEF ServeDelete
<1>6. PendingKnown'
  BY <1>1, <1>2, <1>4 DEF PendingKnown, MutationKnown, Readers
<1>7. Written' /\ PanelOfPhoto'
  BY DEF ServeDelete, page, Written, PanelOfPhoto, ListReactions
<1> QED BY <1>3, <1>5, <1>6, <1>7

LEMMA VisitorWritesSafe ==
  ASSUME SafeInv, VisitorWrites
  PROVE  SafeInv'
<1> USE DEF SafeInv, Known
<1>1. /\ UNCHANGED <<minted, jar, loads, mutation, strayed>> /\ UNCHANGED page
      /\ calm' = FALSE
  BY DEF VisitorWrites
<1> DEFINE Rest == Written' /\ AuthorsKept /\ PanelOfPhoto'
<1>2. CASE /\ \E a \in Assets, e \in Emojis : reactions' = Toggled(<<a, Visitor, e>>, reactions)
           /\ UNCHANGED <<comments, author, about>>
  <2>1. TypeOK'
    <3>1. PICK a \in Assets, e \in Emojis : reactions' = Toggled(<<a, Visitor, e>>, reactions)
      BY <1>2
    <3>2. <<a, Visitor, e>> \in Rows
      BY SocialAssumption DEF Rows
    <3>3. reactions' \subseteq Rows
      BY <3>1, <3>2 DEF TypeOK, Toggled
    <3> QED BY <1>1, <1>2, <3>3 DEF TypeOK, page
  <2>2. Rest
    BY <1>1, <1>2 DEF page, Written, AuthorsKept, PanelOfPhoto, ListReactions
  <2> QED BY <1>1, <2>1, <2>2, LoadsStayKnown, PendingStaysKnown
<1>3. CASE /\ \E c \in CommentIds, a \in Assets : Write(c, Visitor, a)
           /\ UNCHANGED reactions
  <2>1. PICK c \in CommentIds, a \in Assets : Write(c, Visitor, a)
    BY <1>3
  <2>2. /\ author' \in [CommentIds -> Guests \cup {None}]
        /\ about' \in [CommentIds -> Assets \cup {None}]
        /\ author'[c] # None /\ author[c] = None /\ comments' = comments \cup {c}
        /\ \A d \in CommentIds \ {c} : author'[d] = author[d] /\ about'[d] = about[d]
    BY <2>1, SocialAssumption DEF Write, TypeOK
  <2>3. TypeOK'
    BY <1>1, <1>3, <2>2 DEF TypeOK, page
  <2>4. Written'
    BY <1>1, <2>2 DEF page, Written, TypeOK
  <2>5. AuthorsKept /\ PanelOfPhoto'
    BY <1>1, <2>2 DEF page, Written, AuthorsKept, PanelOfPhoto, ListReactions
  <2> QED BY <1>1, <2>3, <2>4, <2>5, LoadsStayKnown, PendingStaysKnown
<1>4. CASE /\ \E c \in comments : author[c] = Visitor /\ comments' = comments \ {c}
           /\ UNCHANGED <<reactions, author, about>>
  <2>1. TypeOK'
    BY <1>1, <1>4 DEF TypeOK, page
  <2>2. Rest
    BY <1>1, <1>4 DEF page, Written, AuthorsKept, PanelOfPhoto, ListReactions
  <2> QED BY <1>1, <2>1, <2>2, LoadsStayKnown, PendingStaysKnown
<1> QED BY <1>2, <1>3, <1>4 DEF VisitorWrites

LEMMA LoadArrivesSafe ==
  ASSUME SafeInv, NEW s \in Slots, LoadArrives(s)
  PROVE  SafeInv'
<1> USE DEF SafeInv, Known
<1>1. LoadKnown(loads[s]) /\ loads[s].answer \in Answer
  BY DEF LoadArrives, LoadsKnown, TypeOK, LoadRecord
<1>2. jar' \in Readers
  BY <1>1, CookieKept DEF LoadArrives, LoadKnown
<1>3. panel' \in Panel
  BY <1>1, LoadedType DEF LoadArrives, TypeOK
<1>4. /\ loads' \in [Slots -> LoadRecord]
      /\ \A t \in Slots : loads'[t] \in {loads[t], NoLoad}
  BY NothingTyped DEF LoadArrives, TypeOK
<1>5. TypeOK'
  BY <1>2, <1>3, <1>4 DEF LoadArrives, TypeOK, Readers, tables
<1>6. AuthorsKept /\ minted' = minted
  BY DEF LoadArrives, tables, AuthorsKept
<1>7. LoadsKnown' /\ PendingKnown'
  BY <1>4, <1>5, <1>6, LoadsStayKnown, PendingStaysKnown DEF LoadArrives
<1>8. CASE assetId = loads[s].asset
  <2>1. \A c \in CommentIds : panel'.copies[c] > 0 => c \in loads[s].answer.ids
    BY <1>8 DEF LoadArrives, Loaded
  <2>2. panel'.rows = ListReactions(assetId, panel'.rows)
    BY <1>1, <1>8 DEF LoadArrives, Loaded, LoadKnown
  <2>3. Written'
    BY <1>1, <2>1 DEF LoadArrives, tables, Written, LoadKnown
  <2>4. PanelOfPhoto'
    BY <1>1, <1>8, <2>1, <2>2 DEF LoadArrives, tables, PanelOfPhoto, LoadKnown, ListReactions
  <2> QED BY <1>5, <1>7, <2>3, <2>4
<1>9. CASE assetId # loads[s].asset
  <2>1. Written' /\ PanelOfPhoto'
    BY <1>9 DEF LoadArrives, tables, Written, PanelOfPhoto, ListReactions
  <2> QED BY <1>5, <1>7, <2>1
<1> QED BY <1>8, <1>9

LEMMA LoadFailsSafe ==
  ASSUME SafeInv, NEW s \in Slots, LoadFails(s)
  PROVE  SafeInv'
<1> USE DEF SafeInv, Known
<1>1. jar' \in Readers
  <2>1. loads[s].stage = "answered" => SetCookie(loads[s]) \in Readers
    BY CookieKept DEF LoadsKnown, LoadKnown
  <2> QED BY <2>1 DEF LoadFails, TypeOK, Readers
<1>2. /\ loads' \in [Slots -> LoadRecord]
      /\ \A t \in Slots : loads'[t] \in {loads[t], NoLoad}
  BY NothingTyped DEF LoadFails, TypeOK
<1>3. TypeOK'
  BY <1>1, <1>2 DEF LoadFails, TypeOK, Readers, tables, page
<1>4. AuthorsKept /\ minted' = minted
  BY DEF LoadFails, tables, AuthorsKept
<1>5. LoadsKnown' /\ PendingKnown'
  BY <1>2, <1>3, <1>4, LoadsStayKnown, PendingStaysKnown DEF LoadFails
<1>6. Written' /\ PanelOfPhoto'
  BY DEF LoadFails, tables, page, Written, PanelOfPhoto, ListReactions
<1> QED BY <1>3, <1>5, <1>6

LEMMA MutationArrivesSafe ==
  ASSUME SafeInv, MutationArrives
  PROVE  SafeInv'
<1> USE DEF SafeInv, Known
<1>1. MutationKnown /\ mutation.answer \in Answer
  BY DEF MutationArrives, PendingKnown, TypeOK, Mutation
<1>2. jar' \in Readers
  BY <1>1, CookieKept DEF MutationArrives, MutationKnown
<1>3. TypeOK'
  BY <1>2, AppliedType, NothingTyped DEF MutationArrives, TypeOK, Readers, tables
<1>4. AuthorsKept /\ minted' = minted
  BY DEF MutationArrives, tables, AuthorsKept
<1>5. LoadsKnown'
  BY <1>3, <1>4, LoadsStayKnown DEF MutationArrives
<1>6. PendingKnown'
  BY DEF MutationArrives, PendingKnown, NoMutation
<1>7. /\ panel \in Panel /\ \A c \in CommentIds : panel.copies[c] \in Nat
      /\ panel' = Applied
  BY DEF TypeOK, Panel, MutationArrives
<1>8. \A c \in CommentIds : panel'.copies[c] > 0 =>
        panel.copies[c] > 0 \/ (mutation.kind = "comment" /\ c \in mutation.answer.ids)
  BY <1>7 DEF Applied, Panel
<1>9. panel'.rows = IF mutation.kind = "toggle" THEN mutation.answer.rows ELSE panel.rows
  BY <1>7 DEF Applied, Panel
<1>10. Written'
  BY <1>1, <1>8 DEF MutationArrives, tables, Written, MutationKnown
<1>11. PanelOfPhoto'
  BY <1>1, <1>8, <1>9 DEF MutationArrives, tables, PanelOfPhoto, MutationKnown, ListReactions
<1> QED BY <1>3, <1>5, <1>6, <1>10, <1>11

LEMMA MutationFailsSafe ==
  ASSUME SafeInv, MutationFails
  PROVE  SafeInv'
<1> USE DEF SafeInv, Known
<1>1. jar' \in Readers
  <2>1. mutation.stage = "answered" => SetCookie(mutation) \in Readers
    BY CookieKept DEF PendingKnown, MutationKnown
  <2> QED BY <2>1 DEF MutationFails, TypeOK, Readers
<1>2. TypeOK'
  BY <1>1, NothingTyped DEF MutationFails, TypeOK, Readers, tables
<1>3. AuthorsKept /\ minted' = minted
  BY DEF MutationFails, tables, AuthorsKept
<1>4. LoadsKnown'
  BY <1>2, <1>3, LoadsStayKnown DEF MutationFails
<1>5. PendingKnown' /\ Written' /\ PanelOfPhoto'
  BY DEF MutationFails, tables, PendingKnown, NoMutation, Written, PanelOfPhoto, ListReactions
<1> QED BY <1>2, <1>4, <1>5

LEMMA SafeStep == SafeInv /\ [Next]_vars => SafeInv'
<1> SUFFICES ASSUME SafeInv, [Next]_vars PROVE SafeInv'
  OBVIOUS
<1>1. CASE \E a \in Assets, s \in Slots : LoadForAsset(a, s)
  BY <1>1, LoadForAssetSafe
<1>2. CASE Clear
  BY <1>2, ClearSafe
<1>3. CASE SubmitComment
  BY <1>3, SendSafe DEF SubmitComment
<1>4. CASE \E e \in Emojis : ToggleReaction(e)
  BY <1>4, SendSafe DEF ToggleReaction
<1>5. CASE \E c \in CommentIds : DeleteComment(c)
  BY <1>5, SendSafe DEF DeleteComment
<1>6. CASE \E s \in Slots : GetAssetSocial(s) \/ LoadArrives(s) \/ LoadFails(s)
  BY <1>6, GetAssetSocialSafe, LoadArrivesSafe, LoadFailsSafe
<1>7. CASE MutationStep
  BY <1>7, ToggleAssetReactionSafe, AddAssetCommentSafe, ServeDeleteSafe,
     MutationArrivesSafe, MutationFailsSafe DEF MutationStep
<1>8. CASE VisitorWrites
  BY <1>8, VisitorWritesSafe
<1>9. CASE UNCHANGED vars
  BY <1>9 DEF vars, SafeInv, TypeOK, Known, Written, LoadsKnown, LoadKnown, PendingKnown,
              MutationKnown, Readers, PanelOfPhoto, ListReactions
<1> QED BY <1>1, <1>2, <1>3, <1>4, <1>5, <1>6, <1>7, <1>8, <1>9 DEF Next

LEMMA SafeInvariant == Spec => []SafeInv
  BY SafeInit, SafeStep, PTL DEF Spec

\* The state is well typed, and busy says exactly that a change is under way.
THEOREM TypeCorrect == Spec => []TypeOK
<1>1. SafeInv => TypeOK
  BY DEF SafeInv
<1> QED BY <1>1, SafeInvariant, PTL

\* Unless the answer of a change made on another photo arrived, the panel shows
\* reactions and comments of the photo on screen only.
THEOREM PanelShowsItsPhoto == Spec => []PanelOfPhoto
<1>1. SafeInv => PanelOfPhoto
  BY DEF SafeInv
<1> QED BY <1>1, SafeInvariant, PTL

\* A visitor's comment is deleted by the visitors only, and this browser's DELETE
\* removes the one comment it names, written by the guest whose cookie it sent.
THEOREM OnlyAuthorsDelete == Spec => DeletedByAuthor
<1> DEFINE A == \A c \in comments \ comments' :
                  IF mutation' = mutation THEN author[c] = Visitor
                  ELSE /\ c = mutation.what
                       /\ author[c] = mutation.cookie /\ author[c] \in minted
<1>1. SafeInv /\ [Next]_vars => [A]_vars
  <2> SUFFICES ASSUME SafeInv, Next PROVE A
    OBVIOUS
  <2>1. CASE ServeDelete
    <3>1. /\ mutation.stage = "sent" /\ mutation'.stage = "answered"
          /\ \A c \in comments \ comments' : c = mutation.what /\ author[c] = mutation.cookie
      BY <2>1 DEF ServeDelete, Answered, SafeInv, TypeOK, Mutation
    <3>2. mutation.cookie \in Readers /\ \A c \in comments : author[c] # None
      BY <3>1 DEF SafeInv, Known, Written, PendingKnown, MutationKnown
    <3> QED BY <3>1, <3>2 DEF Readers
  <2>2. CASE VisitorWrites
    BY <2>2 DEF VisitorWrites, Write
  <2>3. CASE AddAssetComment
    BY <2>3 DEF AddAssetComment, Write
  <2>4. CASE /\ ~ServeDelete /\ ~VisitorWrites /\ ~AddAssetComment
    <3>1. comments' = comments
      BY <2>4 DEF Next, LoadForAsset, Clear, SubmitComment, ToggleReaction, DeleteComment, Send,
         GetAssetSocial, LoadArrives, LoadFails, MutationStep, ToggleAssetReaction,
         MutationArrives, MutationFails, tables
    <3> QED BY <3>1
  <2> QED BY <2>1, <2>2, <2>3, <2>4
<1> QED BY <1>1, SafeInvariant, PTL DEF Spec, DeletedByAuthor

------------------------------------------------------------------------------
(* What a patient user sees.                                                *)

LEMMA Stages3 ==
  NoLoad.stage = "none" /\ NoMutation.stage = "none"
  BY DEF NoLoad, NoMutation

LEMMA LoadForAssetPatient ==
  ASSUME SafeInv, Patience, NEW a \in Assets, NEW s \in Slots, LoadForAsset(a, s)
  PROVE  Patience'
<1> SUFFICES ASSUME Quiet PROVE Loading'
  BY DEF Patience, LoadForAsset
<1>1. /\ loads'[s].stage = "sent" /\ loads'[s].asset = a /\ loads'[s].cookie = jar
      /\ \A t \in Slots \ {s} : loads'[t] = NoLoad
  BY DEF LoadForAsset, SafeInv, TypeOK, Quiet
<1> QED BY <1>1 DEF Loading, Only, LoadForAsset, Quiet

LEMMA SendPatient ==
  ASSUME SafeInv, Patience, NEW kind, NEW what, Send(kind, what)
  PROVE  Patience'
<1> SUFFICES ASSUME Quiet, calm, assetId # None PROVE Changing'
  BY DEF Patience, Send
<1>1. AtRest
  BY Stages3 DEF Patience, Loading, Changing, Quiet
<1>2. Current(panel, jar)'
  BY <1>1 DEF AtRest, Current, Send, tables, ListComments, ListReactions
<1> QED BY <1>1, <1>2 DEF Changing, Send, AtRest, Quiet

\* A request that is served finds a patient user waiting for it, and for no other.
LEMMA LoadingOf ==
  ASSUME Patience, assetId # None, calm, NEW s \in Slots, loads[s].stage # "none"
  PROVE  /\ mutation = NoMutation /\ Only(s) /\ loads[s].asset = assetId /\ loads[s].cookie = jar
         /\ loads[s].stage = "answered" =>
              /\ SetCookie(loads[s]) # None
              /\ Current(Loaded(loads[s].answer), SetCookie(loads[s]))
<1>1. loads[s] # NoLoad
  BY Stages3
<1>2. Loading
  BY <1>1 DEF Patience, AtRest, Changing, Quiet
<1>3. PICK t \in Slots :
       /\ Only(t) /\ loads[t].asset = assetId /\ loads[t].cookie = jar
       /\ \/ loads[t].stage = "sent"
          \/ /\ loads[t].stage = "answered" /\ SetCookie(loads[t]) # None
             /\ Current(Loaded(loads[t].answer), SetCookie(loads[t]))
  BY <1>2 DEF Loading
<1>4. t = s
  BY <1>1, <1>3 DEF Only
<1> QED BY <1>2, <1>3, <1>4 DEF Loading

LEMMA ChangingNow ==
  ASSUME Patience, assetId # None, calm, mutation.stage # "none"
  PROVE  Changing
  BY Stages3 DEF Patience, AtRest, Loading, Quiet

LEMMA GetAssetSocialPatient ==
  ASSUME SafeInv, Patience, NEW s \in Slots, GetAssetSocial(s)
  PROVE  Patience'
<1> SUFFICES ASSUME calm, assetId # None PROVE Loading'
  BY DEF Patience, GetAssetSocial, page
<1>1. loads[s].stage # "none" /\ loads[s].cookie \in Readers
  BY DEF GetAssetSocial, SafeInv, Known, LoadsKnown, LoadKnown
<1>2. mutation = NoMutation /\ Only(s) /\ loads[s].asset = assetId /\ loads[s].cookie = jar
  BY <1>1, LoadingOf
<1>3. PICK g \in EnsureGuestId(jar) :
        loads' = [loads EXCEPT ![s].stage = "answered", ![s].answer =
             [reader |-> g, rows |-> ListReactions(assetId, reactions),
              ids |-> ListComments(assetId)]]
  BY <1>2 DEF GetAssetSocial
<1>4. g # None /\ (jar # None => g = jar)
  BY <1>1, <1>2, GuestOfRequest DEF SafeInv
<1>5. /\ loads'[s].stage = "answered" /\ loads'[s].asset = assetId /\ loads'[s].cookie = jar
      /\ loads'[s].answer = [reader |-> g, rows |-> ListReactions(assetId, reactions),
                             ids |-> ListComments(assetId)]
      /\ \A t \in Slots \ {s} : loads'[t] = NoLoad
  BY <1>2, <1>3 DEF SafeInv, TypeOK, LoadRecord, Only
<1>6. assetId' = assetId /\ jar' = jar /\ mutation' = NoMutation
  BY <1>2 DEF GetAssetSocial, page
<1>7. SetCookie(loads[s])' = g
  BY <1>4, <1>5, <1>6 DEF SetCookie
<1>8. Current(Loaded(loads[s].answer), SetCookie(loads[s]))'
  <2> DEFINE shown == Loaded(loads[s].answer)'
  <2>1. /\ shown.rows = ListReactions(assetId, reactions) /\ shown.reader = g
        /\ \A c \in CommentIds : shown.copies[c] = IF c \in ListComments(assetId) THEN 1 ELSE 0
        /\ shown.mine = {c \in ListComments(assetId) : author'[c] = g}
    BY <1>5 DEF Loaded
  <2>2. author' = author /\ about' = about /\ comments' = comments /\ reactions' = reactions
    BY DEF GetAssetSocial, tables
  <2> QED BY <1>6, <1>7, <2>1, <2>2 DEF Current, ListComments, ListReactions
<1> QED BY <1>4, <1>5, <1>6, <1>7, <1>8 DEF Loading, Only

LEMMA LoadArrivesPatient ==
  ASSUME SafeInv, Patience, NEW s \in Slots, LoadArrives(s)
  PROVE  Patience'
<1> SUFFICES ASSUME calm, assetId # None PROVE AtRest'
  BY DEF Patience, LoadArrives
<1>1. /\ mutation = NoMutation /\ Only(s) /\ loads[s].asset = assetId
      /\ SetCookie(loads[s]) # None
      /\ Current(Loaded(loads[s].answer), SetCookie(loads[s]))
  BY LoadingOf DEF LoadArrives
<1>2. jar' = SetCookie(loads[s]) /\ panel' = Loaded(loads[s].answer) /\ assetId' = assetId
  BY <1>1 DEF LoadArrives
<1>3. Quiet'
  BY <1>1 DEF LoadArrives, Quiet, Only, SafeInv, TypeOK
<1>4. Current(panel, jar)'
  BY <1>1, <1>2 DEF Current, LoadArrives, tables, ListComments, ListReactions
<1> QED BY <1>1, <1>2, <1>3, <1>4 DEF AtRest

LEMMA ToggleAssetReactionPatient ==
  ASSUME SafeInv, Patience, ToggleAssetReaction
  PROVE  Patience'
<1> SUFFICES ASSUME calm, assetId # None PROVE Changing'
  BY DEF Patience, ToggleAssetReaction, page
<1>1. /\ Changing /\ mutation.stage = "sent" /\ Current(panel, jar)
      /\ mutation.asset = assetId /\ mutation.cookie = jar /\ jar # None
  BY ChangingNow DEF ToggleAssetReaction, Changing
<1>2. EnsureGuestId(jar) = {jar}
  BY <1>1 DEF EnsureGuestId
<1>3. Answered(jar, ListReactions(assetId, reactions'), {})
  BY <1>1, <1>2 DEF ToggleAssetReaction
<1>4. /\ mutation'.stage = "answered" /\ mutation'.kind = "toggle"
      /\ mutation'.asset = assetId /\ mutation'.cookie = jar
      /\ mutation'.answer.rows = ListReactions(assetId, reactions')
      /\ mutation'.answer.reader = jar
  BY <1>1, <1>3 DEF Answered, ToggleAssetReaction, SafeInv, TypeOK, Mutation
<1>5. panel' = panel /\ assetId' = assetId /\ jar' = jar /\ panel \in Panel
  BY DEF ToggleAssetReaction, page, SafeInv, TypeOK
<1>6. /\ Applied'.rows = ListReactions(assetId, reactions') /\ Applied'.reader = jar
      /\ Applied'.copies = panel.copies /\ Applied'.mine = panel.mine
  BY <1>4, <1>5 DEF Applied, Panel
<1>7. Current(Applied, jar)'
  BY <1>1, <1>5, <1>6 DEF Current, ToggleAssetReaction, ListComments, ListReactions
<1> QED BY <1>1, <1>4, <1>5, <1>7 DEF Changing, ToggleAssetReaction

LEMMA AddAssetCommentPatient ==
  ASSUME SafeInv, Patience, AddAssetComment
  PROVE  Patience'
<1> SUFFICES ASSUME calm, assetId # None PROVE Changing'
  BY DEF Patience, AddAssetComment, page
<1>1. /\ Changing /\ mutation.stage = "sent" /\ Current(panel, jar)
      /\ mutation.asset = assetId /\ mutation.cookie = jar /\ jar # None
  BY ChangingNow DEF AddAssetComment, Changing
<1>2. EnsureGuestId(jar) = {jar}
  BY <1>1 DEF EnsureGuestId
<1>3. PICK c \in CommentIds : Write(c, jar, assetId) /\ Answered(jar, {}, {c})
  BY <1>1, <1>2 DEF AddAssetComment
<1>4. /\ mutation'.stage = "answered" /\ mutation'.kind = "comment"
      /\ mutation'.asset = assetId /\ mutation'.cookie = jar
      /\ mutation'.answer.ids = {c}
  BY <1>1, <1>3 DEF Answered, AddAssetComment, SafeInv, TypeOK, Mutation
<1>5. panel' = panel /\ assetId' = assetId /\ jar' = jar /\ panel \in Panel
  BY DEF AddAssetComment, page, SafeInv, TypeOK
<1>6. /\ Applied'.rows = panel.rows /\ Applied'.reader = panel.reader
      /\ Applied'.mine = panel.mine \cup {c}
      /\ \A d \in CommentIds :
           Applied'.copies[d] = IF d = c THEN panel.copies[d] + 1 ELSE panel.copies[d]
  BY <1>4, <1>5 DEF Applied, Panel
<1>7. /\ author'[c] = jar /\ about'[c] = assetId /\ c \notin comments
      /\ comments' = comments \cup {c}
      /\ \A d \in CommentIds \ {c} : author'[d] = author[d] /\ about'[d] = about[d]
  BY <1>3 DEF Write, SafeInv, TypeOK, Known, Written
<1>8. ListComments(assetId)' = ListComments(assetId) \cup {c} /\ c \notin ListComments(assetId)
  BY <1>5, <1>7 DEF ListComments, SafeInv, TypeOK
<1>9. {d \in ListComments(assetId)' : author'[d] = jar} = panel.mine \cup {c}
  BY <1>1, <1>7, <1>8 DEF Current, ListComments, SafeInv, TypeOK
<1>10. \A d \in CommentIds :
         Applied'.copies[d] = IF d \in ListComments(assetId)' THEN 1 ELSE 0
  BY <1>1, <1>6, <1>8 DEF Current
<1>11. ListReactions(assetId, reactions)' = ListReactions(assetId, reactions)
  BY <1>5 DEF ListReactions, AddAssetComment
<1>12. Current(Applied, jar)'
  BY <1>1, <1>5, <1>6, <1>9, <1>10, <1>11 DEF Current
<1> QED BY <1>1, <1>4, <1>5, <1>12 DEF Changing, AddAssetComment

LEMMA ServeDeletePatient ==
  ASSUME SafeInv, Patience, ServeDelete
  PROVE  Patience'
<1> SUFFICES ASSUME calm, assetId # None PROVE Changing'
  BY DEF Patience, ServeDelete, page
<1> DEFINE c == mutation.what
<1>1. /\ Changing /\ mutation.stage = "sent" /\ Current(panel, jar)
      /\ mutation.asset = assetId /\ mutation.cookie = jar /\ jar # None
  BY ChangingNow DEF ServeDelete, Changing
<1>2. c \in CommentIds /\ comments' = comments \ {c}
  BY DEF ServeDelete, SafeInv, TypeOK
<1>3. /\ mutation'.stage = "answered" /\ mutation'.kind = "delete"
      /\ mutation'.asset = assetId /\ mutation'.cookie = jar
      /\ mutation'.answer.ids = {c}
  BY <1>1 DEF Answered, ServeDelete, SafeInv, TypeOK, Mutation
<1>4. panel' = panel /\ assetId' = assetId /\ jar' = jar /\ panel \in Panel
  BY DEF ServeDelete, page, SafeInv, TypeOK
<1> HIDE DEF c
<1>5. /\ Applied'.rows = panel.rows /\ Applied'.reader = panel.reader
      /\ Applied'.mine = panel.mine \ {c}
      /\ \A d \in CommentIds :
           Applied'.copies[d] = IF d = c THEN 0 ELSE panel.copies[d]
  BY <1>3, <1>4 DEF Applied, Panel
<1>6. ListComments(assetId)' = ListComments(assetId) \ {c} /\ author' = author
  BY <1>2, <1>4 DEF ListComments, ServeDelete
<1>7. ListReactions(assetId, reactions)' = ListReactions(assetId, reactions)
  BY <1>4 DEF ListReactions, ServeDelete
<1>8. Current(Applied, jar)'
  BY <1>1, <1>4, <1>5, <1>6, <1>7 DEF Current
<1> QED BY <1>1, <1>3, <1>4, <1>8 DEF Changing, ServeDelete

LEMMA MutationArrivesPatient ==
  ASSUME SafeInv, Patience, MutationArrives
  PROVE  Patience'
<1> SUFFICES ASSUME calm, assetId # None PROVE AtRest'
  BY DEF Patience, MutationArrives
<1>1. Changing /\ Current(Applied, jar) /\ mutation.cookie = jar /\ jar # None
  BY ChangingNow DEF MutationArrives, Changing
<1>2. jar' = jar /\ panel' = Applied /\ assetId' = assetId
  BY <1>1 DEF MutationArrives, SetCookie
<1>3. Current(panel, jar)'
  BY <1>1, <1>2 DEF Current, MutationArrives, tables, ListComments, ListReactions
<1> QED BY <1>1, <1>2, <1>3 DEF AtRest, Changing, Quiet, MutationArrives

LEMMA PatientStep == SafeInv /\ Patience /\ [Next]_vars => Patience'
<1> SUFFICES ASSUME SafeInv, Patience, [Next]_vars PROVE Patience'
  OBVIOUS
<1>1. CASE \E a \in Assets, s \in Slots : LoadForAsset(a, s)
  BY <1>1, LoadForAssetPatient
<1>2. CASE Clear
  BY <1>2 DEF Clear, Patience
<1>3. CASE \/ SubmitComment
           \/ \E e \in Emojis : ToggleReaction(e)
           \/ \E c \in CommentIds : DeleteComment(c)
  BY <1>3, SendPatient DEF SubmitComment, ToggleReaction, DeleteComment
<1>4. CASE \E s \in Slots : GetAssetSocial(s) \/ LoadArrives(s)
  BY <1>4, GetAssetSocialPatient, LoadArrivesPatient
<1>5. CASE (\E s \in Slots : LoadFails(s)) \/ MutationFails \/ VisitorWrites
  BY <1>5 DEF LoadFails, MutationFails, VisitorWrites, Patience
<1>6. CASE ToggleAssetReaction \/ AddAssetComment \/ ServeDelete \/ MutationArrives
  BY <1>6, ToggleAssetReactionPatient, AddAssetCommentPatient, ServeDeletePatient,
     MutationArrivesPatient
<1>7. CASE UNCHANGED vars
  BY <1>7 DEF vars, Patience, AtRest, Loading, Changing, Quiet, Only, Current, Loaded, Applied,
              SetCookie, ListComments, ListReactions
<1> QED BY <1>1, <1>2, <1>3, <1>4, <1>5, <1>6, <1>7 DEF Next, MutationStep

\* A user who waits for each answer is shown what the tables hold.
THEOREM PatientIsShownTheTables == Spec => []PatientPanel
<1>1. Init => Patience
  BY DEF Init, Patience
<1>2. SafeInv /\ Patience => PatientPanel
  <2> SUFFICES ASSUME SafeInv, Patience, assetId # None, calm, Quiet
               PROVE  Current(panel, jar)
    BY DEF PatientPanel
  <2>1. AtRest
    BY Stages3 DEF Patience, Loading, Changing, Quiet
  <2> QED BY <2>1 DEF AtRest
<1> QED BY <1>1, <1>2, SafeInvariant, PatientStep, PTL DEF Spec
===============================================================================
