-------------------------- MODULE MCClientShutdown --------------------------
(* Instance of ClientShutdown for TLC.  The third thread stops the game        *)
(* without an error, at any time.                                             *)
EXTENDS ClientShutdown

TwoRaisers == {"netbox", "core"}
=============================================================================
