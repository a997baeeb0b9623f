---------------------------- MODULE MCVideoJobs ----------------------------
(* Instances of VideoJobs for TLC.                                         *)
EXTENDS VideoJobs, TLC

CONSTANTS j1, j2, j3

\* Job ids are random: no rule of the store tells them apart.
AnyJobs == Permutations(Jobs)
=============================================================================
