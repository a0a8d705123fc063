------------------------------ MODULE MCRestart ------------------------------
(* The specification TLC checks; the servers are numbers.                  *)
EXTENDS Restart
=============================================================================
