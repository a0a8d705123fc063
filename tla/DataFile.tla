------------------------------ MODULE DataFile ------------------------------
(***************************************************************************)
(* The data file of aesdsocket, /var/tmp/aesdsocketdata, and the critical  *)
(* sections that use it.  All threads share one descriptor (one file       *)
(* offset) and serialise on g_file_mutex:                                  *)
(*                                                                         *)
(*   - a connection handler, in handle_packet(): it appends the message,   *)
(*     appends a newline, rewinds the shared offset, copies the whole file *)
(*     to its socket and moves the offset back to the end;                 *)
(*   - the timestamp thread, in print_timestamp_on_time(): it appends one  *)
(*     timestamp line.                                                     *)
(*                                                                         *)
(* The file is a sequence of pieces, one per write_all()/dprintf() call.   *)
(* A piece records its author, which of the author's records it belongs to *)
(* and what it is; the bytes themselves do not matter here.                *)
(***************************************************************************)
EXTENDS Integers, SequencesExt

CONSTANTS
    Conns,           \* the connection-handler threads
    TsThread,        \* the timestamp thread
    NoThread,        \* "nobody holds the mutex"
    MAX_BUF_SIZE,    \* pieces moved by one read() of the echo loop
    DiskMayFail,     \* may write(), read() or lseek() on the file fail?
    SigpipeIgnored,  \* was the server started with SIGPIPE ignored?
    MaxRecords       \* bound: records (packets or timestamps) per thread

Threads == Conns \cup {TsThread}

ASSUME DataFileAssumption ==
    /\ TsThread \notin Conns
    /\ NoThread \notin Threads
    /\ MAX_BUF_SIZE \in Nat \ {0}
    /\ DiskMayFail \in BOOLEAN
    /\ SigpipeIgnored \in BOOLEAN
    /\ MaxRecords \in Nat

VARIABLES
    proc,            \* the process: "running", "done", "failed" (exit(n)), "killed"
    g_file_mutex,    \* the thread that holds the mutex, or NoThread
    file,            \* contents of the data file
    pos,             \* offset of the shared descriptor diskfd
    step,            \* where each thread is inside its critical section
    served,          \* records each thread has completed
    echo,            \* pieces written to the client for the current packet
    peer,            \* the client: "reading", "stalled" (window full), "gone"
    broken           \* history: the records for which a call has failed

dfvars == <<proc, g_file_mutex, file, pos, step, served, echo, peer, broken>>

Parts == {"msg", "msg_cut", "nl", "ts", "ts_cut", "old"}
Piece == [by : Threads \cup {NoThread}, n : Nat, part : Parts]

(* What an earlier server left behind when it died without reaching        *)
(* remove(): main() opens the file without O_TRUNC.                        *)
Leftover == [by |-> NoThread, n |-> 0, part |-> "old"]

ConnSteps == {"out", "msg", "newline", "rewind", "copy", "seekend", "unlock"}
TsSteps   == {"out", "print", "unlock"}

-----------------------------------------------------------------------------
Running == proc = "running"

(* Thread t moves from one point of its critical section to another.       *)
Move(t, from, to) ==
    /\ Running
    /\ step[t] = from
    /\ step' = [step EXCEPT ![t] = to]

(* A call fails while thread t works on its current record.                *)
Record(t) == <<t, served[t]>>
Breaks(t) == broken' = broken \cup {Record(t)}

(* Mutant: the file is opened without O_APPEND.                            *)
AppendPieceAtOffset(t, whole, cut) ==
    /\ UNCHANGED broken
    /\ file' = SubSeq(file, 1, pos) \o <<[by |-> t, n |-> served[t], part |-> whole]>>
                   \o SubSeq(file, pos + 2, Len(file))
    /\ pos' = pos + 1

(* Appending through a descriptor opened with O_APPEND: the data goes to   *)
(* the end of the file and the shared offset follows it.  write_all() and  *)
(* dprintf() may give up after part of the data, or before any of it; none *)
(* of their callers looks at the result.                                   *)
AppendPiece(t, whole, cut) ==
    \E part \in {whole} \cup (IF DiskMayFail THEN {cut, "none"} ELSE {}) :
        /\ IF part = "none"
           THEN UNCHANGED <<file, pos>>
           ELSE /\ file' = Append(file, [by |-> t, n |-> served[t], part |-> part])
                /\ pos' = Len(file')
        /\ IF part = whole THEN UNCHANGED broken ELSE Breaks(t)

(* pthread_mutex_lock(&g_file_mutex) *)
Lock(t) ==
    /\ g_file_mutex = NoThread
    /\ g_file_mutex' = t

(* pthread_mutex_unlock(&g_file_mutex) *)
Unlock(t) ==
    /\ g_file_mutex' = NoThread
    /\ served' = [served EXCEPT ![t] = @ + 1]

-----------------------------------------------------------------------------
(* handle_packet(), one action per step of its critical section.           *)

LockForPacket(c) ==
    /\ served[c] < MaxRecords
    /\ Move(c, "out", "msg")
    /\ Lock(c)
    /\ UNCHANGED <<proc, file, pos, served, echo, peer, broken>>

(* Mutant: the mutex protects each write, not the pair.                    *)
WriteMessageUnlocking(c) ==
    /\ Move(c, "msg", "newline")
    /\ AppendPiece(c, "msg", "msg_cut")
    /\ g_file_mutex' = NoThread
    /\ UNCHANGED <<proc, served, echo, peer>>

WriteMessage(c) ==
    /\ Move(c, "msg", "newline")
    /\ AppendPiece(c, "msg", "msg_cut")
    /\ UNCHANGED <<proc, g_file_mutex, served, echo, peer>>

(* Mutant: the mutex is released before the file is echoed.                *)
WriteNewlineUnlocking(c) ==
    /\ Move(c, "newline", "rewind")
    /\ AppendPiece(c, "nl", "none")
    /\ g_file_mutex' = NoThread
    /\ UNCHANGED <<proc, served, echo, peer>>

WriteNewline(c) ==
    /\ Move(c, "newline", "rewind")
    /\ AppendPiece(c, "nl", "none")
    /\ UNCHANGED <<proc, g_file_mutex, served, echo, peer>>

(* Mutants: the offset is moved back over the last line, and too far; or   *)
(* it is not moved at all.                                                 *)
RewindOverLine(c) ==
    /\ Move(c, "rewind", "copy")
    /\ pos' = pos - 3
    /\ echo' = [echo EXCEPT ![c] = <<>>]
    /\ UNCHANGED <<proc, g_file_mutex, file, served, peer, broken>>

RewindForgotten(c) ==
    /\ Move(c, "rewind", "copy")
    /\ echo' = [echo EXCEPT ![c] = <<>>]
    /\ UNCHANGED <<proc, g_file_mutex, file, pos, served, peer, broken>>

(* spit_file_back_out_to_socket(): lseek(diskfd, 0, SEEK_SET).             *)
Rewind(c) ==
    /\ Move(c, "rewind", "copy")
    /\ pos' = 0
    /\ echo' = [echo EXCEPT ![c] = <<>>]
    /\ UNCHANGED <<proc, g_file_mutex, file, served, peer, broken>>

(* How many pieces the next read() of duplicate_data_across_fds() returns. *)
ReadSize == IF Len(file) - pos < MAX_BUF_SIZE THEN Len(file) - pos ELSE MAX_BUF_SIZE

(* One turn of duplicate_data_across_fds(): read() from the shared offset, *)
(* write_all() to the socket.  The write blocks, with the mutex held,      *)
(* while the client does not read.  A write to a client that has gone may  *)
(* still be accepted by the kernel.                                        *)
CopyChunk(c) ==
    /\ Move(c, "copy", "copy")
    /\ ReadSize > 0
    /\ peer[c] # "stalled"
    /\ echo' = [echo EXCEPT ![c] = @ \o SubSeq(file, pos + 1, pos + ReadSize)]
    /\ pos' = pos + ReadSize
    /\ UNCHANGED <<proc, g_file_mutex, file, served, peer, broken>>

(* The write to a client that has gone fails.  By default SIGPIPE then     *)
(* kills the process (at the latest on write_all()'s first retry); with    *)
(* SIGPIPE ignored write_all() gives up after MAX_FAIL_COUNT failures,     *)
(* duplicate_data_across_fds() returns -1 and its caller carries on.       *)
SocketWriteFails(c) ==
    /\ Running
    /\ step[c] = "copy"
    /\ ReadSize > 0
    /\ peer[c] = "gone"
    /\ IF SigpipeIgnored
       THEN /\ step' = [step EXCEPT ![c] = "seekend"]
            /\ pos' = pos + ReadSize
            /\ Breaks(c)
            /\ UNCHANGED proc
       ELSE /\ proc' = "killed"
            /\ UNCHANGED <<step, pos, broken>>
    /\ UNCHANGED <<g_file_mutex, file, served, echo, peer>>

(* read() returned 0 at the end of the file, or -1: the loop ends alike.   *)
CopyEnds(c) ==
    /\ Move(c, "copy", "seekend")
    /\ \/ ReadSize = 0 /\ UNCHANGED broken
       \/ ReadSize > 0 /\ DiskMayFail /\ Breaks(c)
    /\ UNCHANGED <<proc, g_file_mutex, file, pos, served, echo, peer>>

(* lseek(diskfd, 0, SEEK_END) *)
SeekEnd(c) ==
    /\ Move(c, "seekend", "unlock")
    /\ pos' = Len(file)
    /\ UNCHANGED <<proc, g_file_mutex, file, served, echo, peer, broken>>

(* Either lseek() fails: exit(13) or exit(15), with the mutex held.        *)
SeekFails(c) ==
    /\ Running
    /\ DiskMayFail
    /\ step[c] \in {"rewind", "seekend"}
    /\ proc' = "failed"
    /\ UNCHANGED <<g_file_mutex, file, pos, step, served, echo, peer, broken>>

UnlockAfterPacket(c) ==
    /\ Move(c, "unlock", "out")
    /\ Unlock(c)
    /\ UNCHANGED <<proc, file, pos, echo, peer, broken>>

(* Every step of handle_packet() between its lock and its unlock.          *)
PacketStep(c) ==
    \/ WriteMessage(c)
    \/ WriteNewline(c)
    \/ Rewind(c)
    \/ CopyChunk(c)
    \/ SocketWriteFails(c)
    \/ CopyEnds(c)
    \/ SeekEnd(c)
    \/ SeekFails(c)

-----------------------------------------------------------------------------
(* The critical section of print_timestamp_on_time().                      *)

(* Mutant: the timestamp is printed without the lock.                      *)
TsLockForgotten ==
    /\ served[TsThread] < MaxRecords
    /\ Move(TsThread, "out", "print")
    /\ UNCHANGED <<proc, g_file_mutex, file, pos, served, echo, peer, broken>>

TsLock ==
    /\ served[TsThread] < MaxRecords
    /\ Move(TsThread, "out", "print")
    /\ Lock(TsThread)
    /\ UNCHANGED <<proc, file, pos, served, echo, peer, broken>>

TsPrint ==
    /\ Move(TsThread, "print", "unlock")
    /\ AppendPiece(TsThread, "ts", "ts_cut")
    /\ UNCHANGED <<proc, g_file_mutex, served, echo, peer>>

TsUnlock ==
    /\ Move(TsThread, "unlock", "out")
    /\ Unlock(TsThread)
    /\ UNCHANGED <<proc, file, pos, echo, peer, broken>>

-----------------------------------------------------------------------------
(* The clients' ends of the sockets (external).                            *)

PeerChanges(c) ==
    /\ Running
    /\ \/ peer[c] = "reading" /\ peer' = [peer EXCEPT ![c] = "stalled"]
       \/ peer[c] = "stalled" /\ peer' = [peer EXCEPT ![c] = "reading"]
       \/ peer[c] # "gone"    /\ peer' = [peer EXCEPT ![c] = "gone"]
    /\ UNCHANGED <<proc, g_file_mutex, file, pos, step, served, echo, broken>>

(* Any other thread may end the process.                                   *)
ProcessEnds ==
    /\ Running
    /\ proc' \in {"done", "failed", "killed"}
    /\ UNCHANGED <<g_file_mutex, file, pos, step, served, echo, peer, broken>>

Terminated == ~Running /\ UNCHANGED dfvars

-----------------------------------------------------------------------------
Init ==
    /\ proc = "running"
    /\ g_file_mutex = NoThread
    /\ file \in {<<>>, <<Leftover>>}
    /\ pos = 0
    /\ step = [t \in Threads |-> "out"]
    /\ served = [t \in Threads |-> 0]
    /\ echo = [c \in Conns |-> <<>>]
    /\ peer = [c \in Conns |-> "reading"]
    /\ broken = {}

Next ==
    \/ \E c \in Conns : \/ LockForPacket(c)
                        \/ PacketStep(c)
                        \/ UnlockAfterPacket(c)
                        \/ PeerChanges(c)
    \/ TsLock
    \/ TsPrint
    \/ TsUnlock
    \/ ProcessEnds
    \/ Terminated

Spec == Init /\ [][Next]_dfvars

-----------------------------------------------------------------------------
(* Properties                                                              *)

TypeOK ==
    /\ proc \in {"running", "done", "failed", "killed"}
    /\ g_file_mutex \in Threads \cup {NoThread}
    /\ file \in Seq(Piece)
    /\ pos \in Nat
    /\ step \in [Threads -> ConnSteps \cup TsSteps]
    /\ served \in [Threads -> Nat]
    /\ echo \in [Conns -> Seq(Piece)]
    /\ peer \in [Conns -> {"reading", "stalled", "gone"}]
    /\ broken \subseteq Threads \X Nat

(* A thread is between its pthread_mutex_lock and pthread_mutex_unlock     *)
(* exactly when it owns g_file_mutex; so at most one thread is.            *)
MutualExclusion ==
    \A t \in Threads : (step[t] # "out") <=> (g_file_mutex = t)

(* The two writes of handle_packet() are one line of the file: a message   *)
(* is followed by its own newline, whatever the other handlers and the     *)
(* timestamp thread do and whatever fails for them, unless its author is   *)
(* just about to write that newline or a call for this very record failed. *)
LinesComplete ==
    \A i \in 1..Len(file) :
      (file[i].part = "msg" /\ <<file[i].by, file[i].n>> \notin broken) =>
        IF i < Len(file)
        THEN file[i+1] = [file[i] EXCEPT !.part = "nl"]
        ELSE step[file[i].by] = "newline" /\ served[file[i].by] = file[i].n

(* The writes one thread makes for one record stay together even when some *)
(* of them fail: nobody else's data gets between them.                     *)
RecordsContiguous ==
    \A i, j \in 1..Len(file) :
        (i < j /\ file[i].by = file[j].by /\ file[i].n = file[j].n) =>
            \A k \in i..j : file[k].by = file[i].by /\ file[k].n = file[i].n

(* When a handler is about to release the mutex its client has been sent   *)
(* the complete file, ending in the line the client itself has just sent;  *)
(* only a failure of one of its own calls excuses it.                      *)
ReplyIsSnapshot ==
    \A c \in Conns : (step[c] = "unlock" /\ Record(c) \notin broken) =>
        /\ echo[c] = file
        /\ Len(file) >= 2
        /\ file[Len(file) - 1] = [by |-> c, n |-> served[c], part |-> "msg"]
        /\ file[Len(file)]     = [by |-> c, n |-> served[c], part |-> "nl"]

(* All clients see one history: what any client has been sent for its      *)
(* latest packet, complete or cut short by a failure, and what any other   *)
(* has been sent are prefixes of one another.                              *)
RepliesAgree ==
    \A c, d \in Conns : IsPrefix(echo[c], echo[d]) \/ IsPrefix(echo[d], echo[c])

(* Nothing that is in the file, a dead server's leftover included, is ever *)
(* overwritten, although every echo moves the shared offset to the start.  *)
AppendOnly == [][IsPrefix(file, file')]_file
=============================================================================
