---------------------------- MODULE MCFederation ----------------------------
(* Small instances of Federation for TLC.                                   *)
EXTENDS Federation

CONSTANTS east, c1, c2
=============================================================================
