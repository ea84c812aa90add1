-------------------------- MODULE MCSessionRegistry --------------------------
(* Instances of SessionRegistry for TLC.                                    *)
EXTENDS SessionRegistry, TLC

CONSTANT ip1

\* Every client behind one address.
OneAddress == [g \in Guids |-> ip1]

Strict  == [accMultisession |-> FALSE, hwidMultisession |-> FALSE, autoban |-> {"userid", "hwid", "ip"}]
Lenient == [accMultisession |-> TRUE, hwidMultisession |-> TRUE, autoban |-> {}]
NoBans  == [accMultisession |-> FALSE, hwidMultisession |-> FALSE, autoban |-> {}]

StrictOnly == {Strict}
Switching  == {NoBans, Lenient}

Interchangeable == Permutations(Guids) \cup Permutations(Users) \cup Permutations(Hwids)
=============================================================================
