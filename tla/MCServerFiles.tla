---------------------------- MODULE MCServerFiles ---------------------------
(* Instances of ServerFiles for TLC. *)
EXTENDS ServerFiles

Interchangeable == Permutations(Hwids) \cup Permutations(Texts)
=============================================================================
