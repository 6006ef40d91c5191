--------------------------- MODULE MCTokenRotation ---------------------------
(* Small instances of TokenRotation. *)
EXTENDS TokenRotation, TLC

Alike == Permutations(Requests)

=============================================================================
