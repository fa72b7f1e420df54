------------------------------- MODULE MCSocial -------------------------------
(* Social on small instances. *)
EXTENDS Social, TLC

CONSTANTS a1, a2, e1, g1, g2, v, c1, s1, s2

\* Photos, guests of the browser and loads are interchangeable.
Symmetry == Permutations({a1, a2}) \cup Permutations({g1, g2}) \cup Permutations({s1, s2})

\* Bounds.  The loads under way are of different photos; the others react to
\* nothing once a comment was written or the browser is two guests.
OneLoadPerPhoto ==
  \A s, t \in Slots : s # t /\ loads[s] # NoLoad => loads[s].asset # loads[t].asset
OthersReactEarly ==
  (\E row \in reactions : row[2] = Visitor) =>
    /\ \A c \in CommentIds : author[c] = None
    /\ \A g, h \in minted : g = h
===============================================================================
