-------------------------------- MODULE Social --------------------------------
(***************************************************************************)
(* Reactions and comments: the panel beside a photo (frontend/js/          *)
(* social.js), the routes and tables behind it (routers/social.py,         *)
(* social_store.py), and the cookie that says which guest a browser is     *)
(* (deps.py).  One browser, and the other visitors, who write through the  *)
(* same routes.                                                            *)
(*                                                                         *)
(* A route touches the tables without an await, after the awaits of its    *)
(* checks: a request is sent, served or refused, and its answer arrives.   *)
(* Names, wording and the order of comments are left out.                  *)
(***************************************************************************)
EXTENDS Naturals

CONSTANTS
  Assets, Emojis,
  Guests,        \* guest ids that may be minted, and Visitor
  Visitor,       \* the guest id of somebody else
  CommentIds,    \* bounds the comments ever written
  Slots,         \* bounds the loads under way at the same time
  None

ASSUME SocialAssumption ==
  /\ Visitor \in Guests /\ None \notin Guests \cup Assets \cup CommentIds \cup Emojis

(* A definition named X_Y is X with the bug Y, for the mutation runs only. *)

VARIABLES
  reactions,     \* the table reactions: rows <<asset, guest, emoji>>
  comments,      \* the ids in the table comments
  author, about, \* of every comment ever written, deleted ones too
  minted,        \* guest ids this browser was ever answered with
  jar,           \* its cookie viewer_guest
  assetId, busy, \* of Social
  panel,         \* the reactions and comments of Social: see Panel
  loads,         \* [Slots -> a GET .../social under way, or NoLoad]
  mutation,      \* the POST or DELETE under way, or NoMutation
  calm,          \* auxiliary: since the photo was opened, each request waited
                 \* for the one before, none failed, nobody else wrote
  strayed        \* auxiliary: since then, an answer for another photo arrived

tables == <<reactions, comments, author, about>>
page == <<assetId, busy, panel>>
vars == <<reactions, comments, author, about, minted, jar, assetId, busy, panel,
          loads, mutation, calm, strayed>>

Rows == Assets \X Guests \X Emojis

\* A comment added to a list that already has it is shown twice.
Panel == [rows: SUBSET Rows, reader: Guests \cup {None},
          copies: [CommentIds -> Nat], mine: SUBSET CommentIds]
Blank == [rows |-> {}, reader |-> None, copies |-> [c \in CommentIds |-> 0], mine |-> {}]

\* What a route answers: for whom, the rows of the asset, the ids of comments.
Answer == [reader: Guests \cup {None}, rows: SUBSET Rows, ids: SUBSET CommentIds]
NoAnswer == [reader |-> None, rows |-> {}, ids |-> {}]

Stages == {"none", "sent", "answered"}
LoadRecord == [stage: Stages, asset: Assets \cup {None}, cookie: Guests \cup {None},
               answer: Answer]
NoLoad == [stage |-> "none", asset |-> None, cookie |-> None, answer |-> NoAnswer]
Mutation == [stage: Stages, kind: {"none", "toggle", "comment", "delete"},
             asset: Assets \cup {None}, what: Emojis \cup CommentIds \cup {None},
             cookie: Guests \cup {None}, answer: Answer]
NoMutation == [stage |-> "none", kind |-> "none", asset |-> None, what |-> None,
               cookie |-> None, answer |-> NoAnswer]

Quiet == mutation = NoMutation /\ \A s \in Slots : loads[s] = NoLoad

Init ==
  /\ reactions = {} /\ comments = {}
  /\ author = [c \in CommentIds |-> None] /\ about = [c \in CommentIds |-> None]
  /\ minted = {} /\ jar = None
  /\ assetId = None /\ busy = FALSE /\ panel = Blank
  /\ loads = [s \in Slots |-> NoLoad] /\ mutation = NoMutation
  /\ calm = FALSE /\ strayed = FALSE

------------------------------------------------------------------------------
(* The page.                                                                *)

\* Lightbox.open, of any photo: loadForAsset up to its await.
LoadForAsset(a, s) ==
  /\ loads[s] = NoLoad
  /\ assetId' = a /\ panel' = Blank
  /\ loads' = [loads EXCEPT ![s] =
       [stage |-> "sent", asset |-> a, cookie |-> jar, answer |-> NoAnswer]]
  /\ calm' = Quiet /\ strayed' = FALSE
  /\ UNCHANGED <<busy, jar, minted, mutation>> /\ UNCHANGED tables

\* Lightbox.close.
Clear ==
  /\ assetId # None
  /\ assetId' = None /\ panel' = Blank
  /\ calm' = FALSE /\ strayed' = FALSE
  /\ UNCHANGED <<busy, jar, minted, loads, mutation>> /\ UNCHANGED tables

\* What the three handlers share: one at a time, for the photo on screen.
Send(kind, what) ==
  /\ assetId # None /\ ~busy
  /\ busy' = TRUE
  /\ mutation' = [stage |-> "sent", kind |-> kind, asset |-> assetId, what |-> what,
                  cookie |-> jar, answer |-> NoAnswer]
  /\ calm' = (calm /\ Quiet)
  /\ UNCHANGED <<assetId, panel, jar, minted, loads, strayed>> /\ UNCHANGED tables

\* An emoji is typed, or a reaction shown is clicked.
ToggleReaction(e) == Send("toggle", e)

SubmitComment == Send("comment", None)

\* Only the comments shown as one's own have the button; a closed viewer shows none.
DeleteComment(c) ==
  /\ panel.copies[c] > 0 /\ c \in panel.mine
  /\ Send("delete", c)

------------------------------------------------------------------------------
(* The routes.                                                              *)

\* ensure_guest_id: the cookie's guest, or one that is new.
EnsureGuestId_Anew(cookie) == Guests \ (minted \cup {Visitor})
EnsureGuestId(cookie) ==
  IF cookie # None THEN {cookie} ELSE Guests \ (minted \cup {Visitor})

ListReactions(a, table) == {row \in table : row[1] = a}
ListComments(a) == {c \in comments : about[c] = a}

Toggled(row, table) == IF row \in table THEN table \ {row} ELSE table \cup {row}

GetAssetSocial(s) ==
  /\ loads[s].stage = "sent"
  /\ \E g \in EnsureGuestId(loads[s].cookie) :
       /\ minted' = minted \cup {g}
       /\ loads' = [loads EXCEPT ![s].stage = "answered", ![s].answer =
            [reader |-> g, rows |-> ListReactions(loads[s].asset, reactions),
             ids |-> ListComments(loads[s].asset)]]
  /\ UNCHANGED <<jar, mutation, calm, strayed>> /\ UNCHANGED page /\ UNCHANGED tables

\* The answer of a mutation.
Answered(g, rows, ids) ==
  mutation' = [mutation EXCEPT !.stage = "answered",
                               !.answer = [reader |-> g, rows |-> rows, ids |-> ids]]

ToggleAssetReaction ==
  /\ mutation.stage = "sent" /\ mutation.kind = "toggle"
  /\ \E g \in EnsureGuestId(mutation.cookie) :
       /\ minted' = minted \cup {g}
       /\ reactions' = Toggled(<<mutation.asset, g, mutation.what>>, reactions)
       /\ Answered(g, ListReactions(mutation.asset, reactions'), {})
  /\ UNCHANGED <<comments, author, about, jar, loads, calm, strayed>> /\ UNCHANGED page

Write(c, g, a) ==
  /\ author[c] = None
  /\ comments' = comments \cup {c}
  /\ author' = [author EXCEPT ![c] = g]
  /\ about' = [about EXCEPT ![c] = a]

AddAssetComment ==
  /\ mutation.stage = "sent" /\ mutation.kind = "comment"
  /\ \E g \in EnsureGuestId(mutation.cookie), c \in CommentIds :
       /\ minted' = minted \cup {g}
       /\ Write(c, g, mutation.asset)
       /\ Answered(g, {}, {c})
  /\ UNCHANGED <<reactions, jar, loads, calm, strayed>> /\ UNCHANGED page

ServeDelete_Anyones ==
  /\ mutation.stage = "sent" /\ mutation.kind = "delete"
  /\ mutation.what \in comments
  /\ comments' = comments \ {mutation.what}
  /\ Answered(mutation.cookie, {}, {mutation.what})
  /\ UNCHANGED <<reactions, author, about, minted, jar, loads, calm, strayed>>
  /\ UNCHANGED page

\* DELETE ... WHERE id = ? AND guest_id = ?: a guest that is new wrote nothing.
ServeDelete ==
  /\ mutation.stage = "sent" /\ mutation.kind = "delete"
  /\ mutation.what \in comments /\ author[mutation.what] = mutation.cookie
  /\ comments' = comments \ {mutation.what}
  /\ Answered(mutation.cookie, {}, {mutation.what})
  /\ UNCHANGED <<reactions, author, about, minted, jar, loads, calm, strayed>>
  /\ UNCHANGED page

\* The other visitors, each request in one step.
VisitorWrites ==
  /\ \/ /\ \E a \in Assets, e \in Emojis :
             reactions' = Toggled(<<a, Visitor, e>>, reactions)
        /\ UNCHANGED <<comments, author, about>>
     \/ /\ \E c \in CommentIds, a \in Assets : Write(c, Visitor, a)
        /\ UNCHANGED reactions
     \/ /\ \E c \in comments :
             author[c] = Visitor /\ comments' = comments \ {c}
        /\ UNCHANGED <<reactions, author, about>>
  /\ calm' = FALSE
  /\ UNCHANGED <<minted, jar, loads, mutation, strayed>> /\ UNCHANGED page

------------------------------------------------------------------------------
(* The answers.                                                             *)

\* Set-Cookie is sent only by a request that came without the cookie.
SetCookie(request) == IF request.cookie = None THEN request.answer.reader ELSE jar

\* What loadForAsset makes of its answer: each comment once.
Loaded(answer) ==
  [rows |-> answer.rows, reader |-> answer.reader,
   copies |-> [c \in CommentIds |-> IF c \in answer.ids THEN 1 ELSE 0],
   mine |-> {c \in answer.ids : author[c] = answer.reader}]

LoadArrives_Unchecked(s) ==
  /\ loads[s].stage = "answered"
  /\ panel' = Loaded(loads[s].answer)
  /\ jar' = SetCookie(loads[s])
  /\ loads' = [loads EXCEPT ![s] = NoLoad]
  /\ UNCHANGED <<assetId, busy, minted, mutation, calm, strayed>> /\ UNCHANGED tables

\* The rest of loadForAsset: an answer for a photo that was left is dropped.
LoadArrives(s) ==
  /\ loads[s].stage = "answered"
  /\ panel' = IF assetId = loads[s].asset THEN Loaded(loads[s].answer) ELSE panel
  /\ jar' = SetCookie(loads[s])
  /\ loads' = [loads EXCEPT ![s] = NoLoad]
  /\ UNCHANGED <<assetId, busy, minted, mutation, calm, strayed>> /\ UNCHANGED tables

\* Refused, or lost on either way: the answer's cookie may have been set.
LoadFails(s) ==
  /\ loads[s] # NoLoad
  /\ jar' \in {jar} \cup (IF loads[s].stage = "answered" THEN {SetCookie(loads[s])} ELSE {})
  /\ loads' = [loads EXCEPT ![s] = NoLoad]
  /\ calm' = FALSE
  /\ UNCHANGED <<minted, mutation, strayed>> /\ UNCHANGED page /\ UNCHANGED tables

\* The rest of toggleReaction, submitComment and deleteComment: whatever photo
\* is on screen by now.
Applied ==
  LET answer == mutation.answer IN
  CASE mutation.kind = "toggle" ->
         [panel EXCEPT !.rows = answer.rows, !.reader = answer.reader]
    [] mutation.kind = "comment" ->
         [panel EXCEPT !.copies = [c \in CommentIds |->
                         IF c \in answer.ids THEN panel.copies[c] + 1 ELSE panel.copies[c]],
                       !.mine = @ \cup answer.ids]
    [] OTHER ->
         [panel EXCEPT !.copies = [c \in CommentIds |->
                         IF c \in answer.ids THEN 0 ELSE panel.copies[c]],
                       !.mine = @ \ answer.ids]

MutationArrives ==
  /\ mutation.stage = "answered"
  /\ panel' = Applied
  /\ jar' = SetCookie(mutation)
  /\ busy' = FALSE /\ mutation' = NoMutation
  /\ strayed' = (strayed \/ mutation.asset # assetId)
  /\ UNCHANGED <<assetId, minted, loads, calm>> /\ UNCHANGED tables

MutationFails_StaysBusy ==
  /\ mutation # NoMutation
  /\ jar' \in {jar} \cup (IF mutation.stage = "answered" THEN {SetCookie(mutation)} ELSE {})
  /\ mutation' = NoMutation
  /\ calm' = FALSE
  /\ UNCHANGED <<assetId, busy, panel, minted, loads, strayed>> /\ UNCHANGED tables

\* Refused, or lost on either way; the user is told.
MutationFails ==
  /\ mutation # NoMutation
  /\ jar' \in {jar} \cup (IF mutation.stage = "answered" THEN {SetCookie(mutation)} ELSE {})
  /\ busy' = FALSE /\ mutation' = NoMutation
  /\ calm' = FALSE
  /\ UNCHANGED <<assetId, panel, minted, loads, strayed>> /\ UNCHANGED tables

MutationStep ==
  \/ ToggleAssetReaction \/ AddAssetComment \/ ServeDelete
  \/ MutationArrives \/ MutationFails

Next ==
  \/ \E a \in Assets, s \in Slots : LoadForAsset(a, s)
  \/ Clear \/ SubmitComment
  \/ \E e \in Emojis : ToggleReaction(e)
  \/ \E c \in CommentIds : DeleteComment(c)
  \/ \E s \in Slots : GetAssetSocial(s) \/ LoadArrives(s) \/ LoadFails(s)
  \/ MutationStep
  \/ VisitorWrites

Spec == Init /\ [][Next]_vars

------------------------------------------------------------------------------
\* The type invariant; busy says exactly that a mutation is under way.
TypeOK ==
  /\ reactions \subseteq Rows /\ comments \subseteq CommentIds
  /\ author \in [CommentIds -> Guests \cup {None}]
  /\ about \in [CommentIds -> Assets \cup {None}]
  /\ minted \subseteq Guests \ {Visitor} /\ jar \in minted \cup {None}
  /\ assetId \in Assets \cup {None}
  /\ panel \in Panel
  /\ loads \in [Slots -> LoadRecord]
  /\ mutation \in Mutation
  /\ calm \in BOOLEAN /\ strayed \in BOOLEAN
  /\ busy \in BOOLEAN /\ (busy <=> mutation # NoMutation)

\* "A stale load [...] must never [...] update the current photo's metadata/social
\* panel" (the image delivery design): of what was loaded, only that of the photo on
\* screen is shown (social.js:254).  The answer of a change made on another photo is
\* the one exception, and is what strayed is about.
PanelOfPhoto ==
  assetId # None /\ ~strayed =>
    /\ panel.rows = ListReactions(assetId, panel.rows)
    /\ \A c \in CommentIds : panel.copies[c] > 0 => about[c] = assetId

\* p is what the tables hold of the photo on screen, for guest g.
Current(p, g) ==
  /\ p.rows = ListReactions(assetId, reactions) /\ p.reader = g
  /\ \A c \in CommentIds :
       p.copies[c] = IF c \in ListComments(assetId) THEN 1 ELSE 0
  /\ p.mine = {c \in ListComments(assetId) : author[c] = g}

\* A user who waits for each answer sees what the tables hold, each comment once,
\* and may delete exactly what is theirs, whatever they toggled, wrote and deleted
\* since they opened the photo: the panel is not loaded again.
PatientPanel == assetId # None /\ Quiet /\ calm => Current(panel, jar)

\* A comment leaves the table in two ways: the other visitors delete their own, or
\* this browser the one it asked to delete, and then the guest that it was when it
\* asked had written it: a guest this browser was answered as, never a visitor.
\* Meanwhile an answer may have made the browser another guest, and its panel may
\* show the comments of both as its own (social_store.py:268).
DeletedByAuthor ==
  [][\A c \in comments \ comments' :
       IF mutation' = mutation THEN author[c] = Visitor
       ELSE /\ c = mutation.what
            /\ author[c] = mutation.cookie /\ author[c] \in minted]_vars
===============================================================================
