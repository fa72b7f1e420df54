------------------------------ MODULE MCGestures ------------------------------
(* Gestures on a small instance. *)
EXTENDS Gestures

\* Upright the photo overflows as soon as it is zoomed, and can be zoomed to 3;
\* on its side it has a margin, and less to zoom; a small one cannot be zoomed.
AllWays == {[max |-> 3, margin |-> 0], [max |-> 2, margin |-> 1], [max |-> 1, margin |-> 0]}
=============================================================================
