---------------------------- MODULE MCSourceRuns ----------------------------
(* Small instances of SourceRuns. *)
EXTENDS SourceRuns, TLC

CONSTANTS d1, d2, w1
==============================================================================
