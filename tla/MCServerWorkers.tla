-------------------------- MODULE MCServerWorkers ---------------------------
(* Instances of ServerWorkers for TLC. *)
EXTENDS ServerWorkers

\* The directory without and with a library and a file that is neither.
MCListings == {<<"exe">>, <<"exe", "dll">>, <<"txt", "exe", "dll">>}
=============================================================================
