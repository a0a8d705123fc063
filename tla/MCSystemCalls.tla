---------------------------- MODULE MCSystemCalls ----------------------------
(* The specification TLC checks; Others is a set of model values.          *)
EXTENDS SystemCalls
=============================================================================
