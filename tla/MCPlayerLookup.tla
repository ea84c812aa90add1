--------------------------- MODULE MCPlayerLookup ---------------------------
(* Instance of PlayerLookup for TLC. *)
EXTENDS PlayerLookup, TLC

Interchangeable == Permutations(Guids) \cup Permutations(Users)
=============================================================================
