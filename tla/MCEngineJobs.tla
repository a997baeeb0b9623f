---------------------------- MODULE MCEngineJobs ----------------------------
(* An instance of EngineJobs for TLC.                                      *)
EXTENDS EngineJobs, TLC

CONSTANTS j1, j2, c1

\* A job of one forward, and one of two.
StepsOf == j1 :> 1 @@ j2 :> 2
=============================================================================
