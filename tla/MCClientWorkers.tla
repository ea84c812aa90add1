-------------------------- MODULE MCClientWorkers ---------------------------
(* Instances of ClientWorkers for TLC. *)
EXTENDS ClientWorkers, TLC

Name(letters) == letters \o [b \in 1 .. (10 - Len(letters)) |-> 0]
MCLogins == {Name(<<>>), Name(<<97, 98, 99>>), [b \in 1 .. 10 |-> 120 + (b % 3)]}
MCSerials == {[b \in 1 .. 16 |-> 64 + b]}

Interchangeable == Permutations(Ids \ {mainThread})
=============================================================================
