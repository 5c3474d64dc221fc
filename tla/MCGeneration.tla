---------------------------- MODULE MCGeneration ----------------------------
(* Small instances of Generation for TLC: three calls for two places, and  *)
(* the coordinator's goroutine ("run") with or without a concurrent Stop.  *)
EXTENDS Generation
=============================================================================
