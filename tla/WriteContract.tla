--------------------------- MODULE WriteContract ---------------------------
(***************************************************************************)
(* What a caller may rely on when write_all() has returned or the writer   *)
(* program has exited, in one step.  Byte number i of the content is i;    *)
(* larger numbers are what lies behind the content in memory.              *)
(***************************************************************************)
EXTENDS Naturals, Sequences

VARIABLES
    prog,    \* "write_all" or "writer"
    len,     \* the size of the content
    file,    \* what the file holds
    result   \* "running", "ok" (0) or "failed" (-1, or exit status 1)

Bytes(from, n) == [i \in 1..n |-> from + i]

(* write_all() appends a beginning of the content, and reports success     *)
(* exactly when that is all of it.                                         *)
WriteAllReturns ==
    /\ prog = "write_all"
    /\ \E n \in 0..len :
         /\ file' = file \o Bytes(0, n)
         /\ result' = IF n = len THEN "ok" ELSE "failed"

(* A writer that does not get so far as to open its file leaves it alone.  *)
WriterRefuses ==
    /\ prog = "writer"
    /\ file' = file
    /\ result' = "failed"

(* Otherwise the file holds a proper beginning of the content after a      *)
(* failure, and after a success all of it, followed by fewer bytes from    *)
(* behind it than the content has.                                         *)
WriterExits ==
    /\ prog = "writer"
    /\ \E n \in 0..(2 * len) :
         /\ n = 0 \/ n < 2 * len
         /\ file' = Bytes(0, n)
         /\ result' = IF n >= len THEN "ok" ELSE "failed"

Init ==
    /\ prog \in {"write_all", "writer"}
    /\ len \in Nat
    /\ file \in {<<>>, <<0>>}
    /\ result = "running"

Next ==
    /\ result = "running"
    /\ WriteAllReturns \/ WriterRefuses \/ WriterExits
    /\ UNCHANGED <<prog, len>>

vars == <<prog, len, file, result>>

Spec == Init /\ [][Next]_vars
=============================================================================
