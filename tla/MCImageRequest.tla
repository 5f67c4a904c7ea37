--------------------------- MODULE MCImageRequest ---------------------------
(* Instances of ImageRequest for TLC. *)
EXTENDS ImageRequest, TLC

Swap == Permutations(Requests)
=============================================================================
