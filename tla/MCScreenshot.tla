---------------------------- MODULE MCScreenshot ----------------------------
(* Instances of Screenshot for TLC. *)
EXTENDS Screenshot
=============================================================================
