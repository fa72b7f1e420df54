------------------------------- MODULE MCAccess -------------------------------
(* Access on small instances. *)
EXTENDS Access, TLC

CONSTANTS t1, r1, r2, a1, l1, p1, p2

\* p1 is on the photo a1, p2 is on none and hidden.
OnPhotos == [a \in {a1} |-> {p1}]
Asked ==
  [kind: {"asset", "person", "people"}, asset: {a1}, person: {p1}, withHidden: {TRUE}]
Same == Permutations(Requests)
GivenScopes == {FullLibrary} \cup [full: {FALSE}, albums: {{l1}}]
==============================================================================
