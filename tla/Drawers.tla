------------------------------- MODULE Drawers --------------------------------
(***************************************************************************)
(* The two drawers, filters and activity, the backdrop they share, and the *)
(* list of people the search box suggests (frontend/js/filters.js,         *)
(* activity.js). Focus is left out.                                        *)
(***************************************************************************)

(* A definition named X_Y is X with the bug Y, for the mutation runs only. *)

VARIABLES
  drawers,  \* what is not hidden: see DrawersTypeOK
  feed      \* what the activity drawer shows; "loading" is Activity.loading

drawerVars == <<drawers, feed>>

DrawersInit ==
  /\ drawers = [panel |-> FALSE, activity |-> FALSE, backdrop |-> FALSE, suggest |-> FALSE]
  /\ feed = "none"

\* Filters.hidePanel, Activity.hide: the backdrop stays for the other drawer.
HidePanel(d) ==
  IF d.panel THEN [d EXCEPT !.panel = FALSE, !.backdrop = d.backdrop /\ d.activity] ELSE d

HideActivity(d) ==
  IF d.activity THEN [d EXCEPT !.activity = FALSE, !.backdrop = d.backdrop /\ d.panel] ELSE d

\* Filters.showPanel, Activity.show
ShowPanel_KeepsActivity(d) == [d EXCEPT !.panel = TRUE, !.backdrop = TRUE]

ShowPanel(d) == [HideActivity(d) EXCEPT !.panel = TRUE, !.backdrop = TRUE]

ShowActivity(d) == [HidePanel(d) EXCEPT !.activity = TRUE, !.backdrop = TRUE]

HideSuggestions(d) == [d EXCEPT !.suggest = FALSE]

\* Escape, where the suggestions come first; those of the search box itself have
\* gone by the time the document hears of it.
Escaped(d, inSearch) ==
  IF d.suggest /\ ~inSearch THEN HideSuggestions(d)
  ELSE IF d.panel THEN HidePanel(HideSuggestions(d))
  ELSE HideActivity(HideSuggestions(d))

-----------------------------------------------------------------------------
TogglePanel ==
  /\ drawers' = IF drawers.panel THEN HidePanel(drawers) ELSE ShowPanel(drawers)
  /\ UNCHANGED feed

\* The drawer's close button, and apply() on a narrow screen
ClosePanel ==
  /\ drawers' = HidePanel(drawers)
  /\ UNCHANGED feed

\* Showing the drawer loads the feed, unless a load is under way.
ToggleActivity ==
  IF drawers.activity
  THEN drawers' = HideActivity(drawers) /\ UNCHANGED feed
  ELSE drawers' = ShowActivity(drawers) /\ feed' = "loading"

RetryFeed ==
  /\ drawers.activity /\ feed = "error" /\ feed' = "loading"
  /\ UNCHANGED drawers

CloseActivity ==
  /\ drawers' = HideActivity(drawers)
  /\ UNCHANGED feed

FeedAnswers ==
  /\ feed = "loading" /\ feed' \in {"list", "empty", "error"}
  /\ UNCHANGED drawers

BackdropClick ==
  /\ drawers.backdrop
  /\ drawers' = HideActivity(HidePanel(HideSuggestions(drawers)))
  /\ UNCHANGED feed

\* Typing a name that matches; choosing one, searching, or a press elsewhere
Suggest ==
  /\ drawers' = [drawers EXCEPT !.suggest = TRUE]
  /\ UNCHANGED feed

SuggestEnds ==
  /\ drawers' = HideSuggestions(drawers)
  /\ UNCHANGED feed

DrawersNext ==
  \/ TogglePanel \/ ClosePanel \/ ToggleActivity \/ RetryFeed \/ CloseActivity
  \/ FeedAnswers \/ BackdropClick \/ Suggest \/ SuggestEnds

DrawersTypeOK ==
  /\ drawers \in [panel: BOOLEAN, activity: BOOLEAN, backdrop: BOOLEAN, suggest: BOOLEAN]
  /\ feed \in {"none", "loading", "list", "empty", "error"}
=============================================================================
