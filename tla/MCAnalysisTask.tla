--------------------------- MODULE MCAnalysisTask ---------------------------
(* Instances of AnalysisTask for TLC.                                      *)
EXTENDS AnalysisTask, TLC

\* Tasks are interchangeable in every safety property.
Symmetry == Permutations(Tasks)
=============================================================================
