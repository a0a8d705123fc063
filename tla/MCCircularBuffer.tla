-------------------------- MODULE MCCircularBuffer --------------------------
(* Constants for the model-checking runs of CircularBuffer.                *)
EXTENDS CircularBuffer, TLC

BufferSymmetry == Permutations(Buffers)
=============================================================================
