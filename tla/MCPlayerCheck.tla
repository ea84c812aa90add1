--------------------------- MODULE MCPlayerCheck ---------------------------
(* Instance of PlayerCheck for TLC. *)
EXTENDS PlayerCheck, TLC

Interchangeable == Permutations(Guids)
=============================================================================
