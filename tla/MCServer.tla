------------------------------ MODULE MCServer ------------------------------
(* Constants for the model-checking runs of Server.                        *)
EXTENDS Server, TLC

ConnSymmetry == Permutations(Conns)

(* Liveness does not depend on what an earlier server left in the file.    *)
FreshInit == Init /\ file = <<>>

FairFresh == FreshInit /\ [][Next]_vars /\ ServerFairness /\ ClientFairness
=============================================================================
