----------------------------- MODULE MCDataFile -----------------------------
(* Constants for the model-checking runs of DataFile.                      *)
EXTENDS DataFile, TLC

ConnSymmetry == Permutations(Conns)
=============================================================================
