------------------------------- MODULE AssetList -------------------------------
(***************************************************************************)
(* State.assets as its readers may rely on it: the grid, the viewer and    *)
(* the activity drawer all read one list that grows by pages, one page at  *)
(* a time, and that a search may forget or replace at any moment, a page   *)
(* under way or not.  Gallery implements it, and so does Lightbox, with    *)
(* all that it lets happen to the list under the viewer.                   *)
(***************************************************************************)
EXTENDS Naturals, Sequences

CONSTANTS
  Lists,   \* what a search may answer
  Pages    \* what loadMore may append

VARIABLES assets, hasMore, isLoadingMore

vars == <<assets, hasMore, isLoadingMore>>

Init ==
  /\ assets \in Lists \cup {<<>>} /\ hasMore \in BOOLEAN
  /\ isLoadingMore = FALSE

\* A search starts: there is no list until it answers.
Forget ==
  /\ assets' = <<>> /\ hasMore' \in {hasMore, TRUE}
  /\ UNCHANGED isLoadingMore

\* A search answers.
Replace ==
  /\ assets' \in Lists /\ hasMore' \in BOOLEAN
  /\ UNCHANGED isLoadingMore

\* A page is asked for: only where there is one, and none is under way.
Ask ==
  /\ hasMore /\ ~isLoadingMore
  /\ isLoadingMore' = TRUE
  /\ UNCHANGED <<assets, hasMore>>

\* It arrives after whatever the list now holds; an empty page is the last.
Arrive(page) ==
  /\ isLoadingMore /\ isLoadingMore' = FALSE
  /\ assets' = assets \o page
  /\ hasMore' \in BOOLEAN /\ (hasMore' => page # <<>>)

\* It fails: it may be asked for again.
Fail ==
  /\ isLoadingMore /\ isLoadingMore' = FALSE
  /\ UNCHANGED <<assets, hasMore>>

Next == Forget \/ Replace \/ Ask \/ Fail \/ \E page \in Pages : Arrive(page)

Spec == Init /\ [][Next]_vars
=============================================================================
