-------------------------- MODULE MCScheduleEntries --------------------------
(* Instances of ScheduleEntries for TLC.                                   *)
EXTENDS ScheduleEntries, TLC

Symmetry == Permutations(Puts) \cup Permutations(Starts) \cup Permutations(Fires)
=============================================================================
