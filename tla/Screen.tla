-------------------------------- MODULE Screen --------------------------------
(***************************************************************************)
(* What the viewer promises: one photo or video at a time, whatever is     *)
(* under way behind it.  A photo is waited for, and that ends with its own *)
(* pixels or an error; nothing but opening brings another one.             *)
(***************************************************************************)
CONSTANTS Assets, Videos, None

VARIABLE screen  \* phase, the asset it is about, and that of the details beside it

Blank == [phase |-> "closed", asset |-> None, details |-> None]

Showing(phase, a) == [phase |-> phase, asset |-> a, details |-> a]

Init == screen = Blank

Open(a) == screen' = Showing(IF a \in Videos THEN "video" ELSE "waiting", a)

Resolve ==
  /\ screen.phase = "waiting"
  /\ \E phase \in {"shown", "failed"} : screen' = Showing(phase, screen.asset)

Close == screen' = Blank

Next == Resolve \/ Close \/ \E a \in Assets : Open(a)

Spec == Init /\ [][Next]_screen
=============================================================================
