--------------------------- MODULE MCLoginEffects ---------------------------
(* Instances of LoginEffects for TLC. *)
EXTENDS LoginEffects, TLC

Interchangeable == Permutations(Guids) \cup Permutations(Users)
=============================================================================
