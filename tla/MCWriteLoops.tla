---------------------------- MODULE MCWriteLoops ----------------------------
(* The specification TLC checks; there is no set of model values.          *)
EXTENDS WriteLoops
=============================================================================
