---------------------------- MODULE MCLineBuffer ----------------------------
(* The model-checking runs of LineBuffer.                                  *)
EXTENDS LineBuffer
=============================================================================
