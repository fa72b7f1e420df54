------------------------------- MODULE MCGallery -------------------------------
(* Gallery on small instances. *)
EXTENDS Gallery

CONSTANTS noText, sea, noOther, anna
=============================================================================
