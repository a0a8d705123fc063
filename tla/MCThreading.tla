----------------------------- MODULE MCThreading -----------------------------
(* The specification TLC checks; the threads are model values.             *)
EXTENDS Threading
=============================================================================
