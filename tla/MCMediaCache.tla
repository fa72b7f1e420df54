----------------------------- MODULE MCMediaCache -----------------------------
(* MediaCache on small instances: model values, and files of unlike sizes. *)
EXTENDS MediaCache, FiniteSetsExt, TLC

CONSTANTS o1, o2, t1

\* The cap holds o1 and t1, or o2 and t1, but not o1 and o2, and a fill of
\* both originals evicts at least one key.
SizeOf == (o1 :> 6) @@ (o2 :> 4) @@ (t1 :> 3)

MCBytes(S) == FoldSet(LAMBDA k, n : SizeOf[k] + n, 0, S)

Symmetry == Permutations(Requests)
=============================================================================
