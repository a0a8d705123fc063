----------------------------- MODULE WriteLoops -----------------------------
(***************************************************************************)
(* The two loops of the repository around write(): write_all() of the      *)
(* server, which appends to a file or sends to a socket, and the program   *)
(* writer, which puts one string into a file.  Both must live with writes  *)
(* that take a part of the data; one counts failures and goes on, the      *)
(* other gives up at the first.                                            *)
(*                                                                         *)
(* A byte of memory is its distance from the beginning of the content,     *)
(* counted from 1; 0 is a byte the file held before.  bytes 1..len are the *)
(* content, those up to readable are behind it and can be read.            *)
(***************************************************************************)
EXTENDS Naturals, Sequences

CONSTANTS
    MAX_FAIL_COUNT,  \* failures write_all() puts up with
    MaxLen           \* bound: size of the content

ASSUME WriteLoopsAssumption ==
    /\ MAX_FAIL_COUNT \in Nat
    /\ MaxLen \in Nat

VARIABLES
    prog,           \* which of the two runs: "write_all" or "writer"
    len,            \* argument len, or content_size
    readable,       \* bytes that can be read from the content's beginning on
    before,         \* what the file held at the start
    file,           \* what the file holds
    opened,         \* is the file open?
    buf,            \* buf, or content_string: offset of the next byte
    bytes_left,     \* bytes_left of write_all()
    bytes_written,  \* bytes_written of the writer
    fail_count,     \* fail_count of write_all()
    turn,           \* alternates with the calls of write(), so that one that
                    \* takes nothing is a step too
    result          \* "running", then what is returned: "ok" or "failed"

inputs == <<prog, len, readable, before>>
vars == <<inputs, file, opened, buf, bytes_left, bytes_written, fail_count,
          turn, result>>

Bytes(from, n) == [i \in 1..n |-> from + i]

-----------------------------------------------------------------------------
(* A call of write() that takes n bytes from where buf points, and one     *)
(* that takes none.                                                        *)
Write(n) ==
    /\ file' = file \o Bytes(buf, n)
    /\ buf' = buf + n
    /\ turn' = ~turn

WriteNothing == turn' = ~turn /\ UNCHANGED <<file, buf>>

InWriteAll == prog = "write_all" /\ result = "running"

(* Mutant: the pointer stays where it is.                                  *)
WriteAllWritesAgain ==
    /\ InWriteAll /\ bytes_left > 0
    /\ \E n \in 1..bytes_left :
         /\ file' = file \o Bytes(buf, n)
         /\ bytes_left' = bytes_left - n
    /\ turn' = ~turn
    /\ UNCHANGED <<inputs, opened, buf, bytes_written, fail_count, result>>

WriteAllWrites ==
    /\ InWriteAll /\ bytes_left > 0
    /\ \E n \in 1..bytes_left :
         /\ Write(n)
         /\ bytes_left' = bytes_left - n
    /\ UNCHANGED <<inputs, opened, bytes_written, fail_count, result>>

(* Mutant: only -1 is a failure; a write() that takes nothing is not.      *)
WriteAllFailsUncounted ==
    /\ InWriteAll /\ bytes_left > 0
    /\ WriteNothing
    /\ fail_count' \in {fail_count, fail_count + 1}
    /\ result' = IF fail_count' > MAX_FAIL_COUNT THEN "failed" ELSE result
    /\ UNCHANGED <<inputs, opened, bytes_left, bytes_written>>

(* write() returns -1 or 0.  The count is of all failures, not of those in *)
(* a row.                                                                  *)
WriteAllFails ==
    /\ InWriteAll /\ bytes_left > 0
    /\ WriteNothing
    /\ fail_count' = fail_count + 1
    /\ result' = IF fail_count' > MAX_FAIL_COUNT THEN "failed" ELSE result
    /\ UNCHANGED <<inputs, opened, bytes_left, bytes_written>>

WriteAllReturns ==
    /\ InWriteAll /\ bytes_left = 0
    /\ result' = "ok"
    /\ UNCHANGED <<inputs, file, opened, buf, bytes_left, bytes_written,
                   fail_count, turn>>

WriteAll == WriteAllWrites \/ WriteAllFails \/ WriteAllReturns

-----------------------------------------------------------------------------
InWriter == prog = "writer" /\ result = "running"

(* The wrong number of arguments, or open() fails: exit status 1.          *)
WriterRefuses ==
    /\ InWriter /\ ~opened
    /\ result' = "failed"
    /\ UNCHANGED <<inputs, file, opened, buf, bytes_left, bytes_written,
                   fail_count, turn>>

(* open() with O_CREAT and O_TRUNC *)
WriterOpens ==
    /\ InWriter /\ ~opened
    /\ opened' = TRUE
    /\ file' = <<>>
    /\ UNCHANGED <<inputs, buf, bytes_left, bytes_written, fail_count, turn,
                   result>>

(* Every write() asks for content_size bytes, whatever has been written    *)
(* already; the kernel takes what it can read and likes to take.           *)
WriterWrites ==
    /\ InWriter /\ opened /\ bytes_written < len
    /\ \E n \in 1..len :
         /\ buf + n <= readable
         /\ Write(n)
         /\ bytes_written' = bytes_written + n
    /\ UNCHANGED <<inputs, opened, bytes_left, fail_count, result>>

(* write() returns 0, and the loop goes round ...                          *)
WriterWritesNothing ==
    /\ InWriter /\ opened /\ bytes_written < len
    /\ WriteNothing
    /\ UNCHANGED <<inputs, opened, bytes_left, bytes_written, fail_count,
                   result>>

(* ... or it returns -1: exit status 1.                                    *)
WriterFails ==
    /\ InWriter /\ opened /\ bytes_written < len
    /\ WriteNothing
    /\ result' = "failed"
    /\ UNCHANGED <<inputs, opened, bytes_left, bytes_written, fail_count>>

WriterExits ==
    /\ InWriter /\ opened /\ bytes_written >= len
    /\ result' = "ok"
    /\ UNCHANGED <<inputs, file, opened, buf, bytes_left, bytes_written,
                   fail_count, turn>>

WriterProgress ==
    \/ WriterRefuses \/ WriterOpens \/ WriterWrites \/ WriterFails
    \/ WriterExits

-----------------------------------------------------------------------------
(* The server appends to a file or a socket it has open, and passes a      *)
(* length; an argument of the writer has its terminator behind it, and the *)
(* environment of the process behind that.                                 *)
Init ==
    /\ prog \in {"write_all", "writer"}
    /\ len \in 0..MaxLen
    /\ readable \in (len + 1)..(2 * len + 1)
    /\ before \in {<<>>, <<0>>}
    /\ file = before
    /\ opened = (prog = "write_all")
    /\ buf = 0
    /\ bytes_left = len
    /\ bytes_written = 0
    /\ fail_count = 0
    /\ turn = FALSE
    /\ result = "running"

Terminated == result # "running" /\ UNCHANGED vars

Next == WriteAll \/ WriterProgress \/ WriterWritesNothing \/ Terminated

(* The processes are scheduled.  What the writer writes to takes a byte or *)
(* reports an error in the end; write_all() does not need as much.         *)
Fairness == WF_vars(WriteAll) /\ WF_vars(WriterProgress)

Spec == Init /\ [][Next]_vars

FairSpec == Spec /\ Fairness

-----------------------------------------------------------------------------
(* Properties                                                              *)

TypeOK ==
    /\ prog \in {"write_all", "writer"}
    /\ len \in Nat /\ readable \in Nat /\ buf \in Nat
    /\ bytes_left \in Nat /\ bytes_written \in Nat /\ fail_count \in Nat
    /\ before \in {<<>>, <<0>>}
    /\ file \in Seq(Nat)
    /\ opened \in BOOLEAN /\ turn \in BOOLEAN
    /\ result \in {"running", "ok", "failed"}

Contract == INSTANCE WriteContract
    WITH file <- IF result = "running" THEN before ELSE file

(* However the kernel cuts the writes and whichever of them fail, callers  *)
(* see what WriteContract says: write_all() has appended a beginning of    *)
(* its buffer, in order and without gap or repetition, and returns 0 only  *)
(* for all of it; a file of the writer begins with the content if it exits *)
(* with 0, with less than as much again behind it, and holds a proper      *)
(* beginning of the content, or what it held before, if it exits with 1.   *)
MeetsContract == Contract!Spec

(* Both loops end, write_all() even if write() never takes a byte: its     *)
(* failures, among them the calls that return 0, are counted.              *)
LoopsEnd == <>(result # "running")
=============================================================================
