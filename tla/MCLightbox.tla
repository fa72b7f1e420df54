------------------------------ MODULE MCLightbox ------------------------------
(* Lightbox on small instances. *)
EXTENDS Lightbox

CONSTANTS p, q, v

OneList == {<<p, v>>}
OnePage == {<<q>>}
VideoPage == {<<v>>}
PhotoList == {<<p>>}
=============================================================================
