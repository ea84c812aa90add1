------------------------------ MODULE MCNetBox ------------------------------
(* Instance of NetBox for TLC. *)
EXTENDS NetBox, TLC

Interchangeable == Permutations(Hwids) \cup Permutations(Users)
=============================================================================
