----------------------------- MODULE LineBuffer -----------------------------
(***************************************************************************)
(* The receive buffer of one connection of aesdsocket: how                 *)
(* read_until_stop_condition() fills it, and how repeated calls of         *)
(* extract_token_and_consolidate_buffer() take the lines out of it.        *)
(* What happens to a line afterwards is the business of module DataFile.   *)
(***************************************************************************)
EXTENDS Integers, SequencesExt, FiniteSets

CONSTANTS
    Data,            \* the bytes clients send, "nl" among them
    buf_chunk_size,  \* how much the buffer grows, and one recv() may return
    MaxRecvs,        \* bound: full chunks received
    MaxPackets       \* bound: tokens taken out

ASSUME LineBufferAssumption ==
    /\ "nl" \in Data /\ "nul" \notin Data
    /\ buf_chunk_size \in Nat \ {0}
    /\ MaxRecvs \in Nat
    /\ MaxPackets \in Nat

VARIABLES
    pc,        \* "recv", "tokens", "return" (to handle_connection), "failed"
    buf,       \* the malloc()ed buffer, buf[1] its first byte
    index,     \* where the next recv() writes
    received,  \* all the bytes received
    packets,   \* the tokens given to handle_packet()
    calls      \* how often a token was found, modulo 2

vars == <<pc, buf, index, received, packets, calls>>

Byte == Data \cup {"nul"}
Zeros(n) == [i \in 1..n |-> "nul"]
len == Len(buf)

(* The buffer after s was copied to its offset at.                         *)
Overwrite(b, at, s) ==
    [i \in 1..Len(b) |-> IF i \in (at + 1)..(at + Len(s)) THEN s[i - at] ELSE b[i]]

(* Mutant: the memset() is missing.                                        *)
GrowUncleared(b, at) == b \o [i \in 1..buf_chunk_size |-> "junk"]

(* realloc() by one chunk, then memset() of a chunk from the new index on. *)
Grow(b, at) ==
    Overwrite(b \o Zeros(buf_chunk_size), at, Zeros(buf_chunk_size))

-----------------------------------------------------------------------------
Init ==
    /\ pc = "recv"
    /\ buf = Zeros(buf_chunk_size)
    /\ index = 0
    /\ received = <<>>
    /\ packets = <<>>
    /\ calls = 0

(* Mutant: the realloc() is missing.                                       *)
RecvFullWithoutGrowing ==
    /\ pc = "recv"
    /\ index < MaxRecvs * buf_chunk_size
    /\ \E data \in [1..buf_chunk_size -> Data] :
         /\ index' = index + buf_chunk_size
         /\ buf' = Overwrite(buf, index, data)
         /\ received' = received \o data
    /\ UNCHANGED <<pc, packets, calls>>

(* recv() returns exactly a chunk: grow the buffer and receive again.      *)
RecvFull ==
    /\ pc = "recv"
    /\ index < MaxRecvs * buf_chunk_size
    /\ \E data \in [1..buf_chunk_size -> Data] :
         /\ index' = index + buf_chunk_size
         /\ buf' = Grow(Overwrite(buf, index, data), index')
         /\ received' = received \o data
    /\ UNCHANGED <<pc, packets, calls>>

(* recv() returns less: take out the lines.  The code also grows a buffer  *)
(* that has become full.                                                   *)
RecvShort ==
    /\ pc = "recv"
    /\ \E n \in 1..(buf_chunk_size - 1) : \E data \in [1..n -> Data] :
         /\ received' = received \o data
         /\ IF n + index >= len
            THEN /\ index' = index + n
                 /\ buf' = Grow(Overwrite(buf, index, data), index')
            ELSE /\ buf' = Overwrite(buf, index, data)
                 /\ UNCHANGED index
    /\ pc' = "tokens"
    /\ UNCHANGED <<packets, calls>>

(* recv() returns 0: the buffer is returned without a look at it; or -1.   *)
RecvEnds ==
    /\ pc = "recv"
    /\ pc' \in {"return", "failed"}
    /\ UNCHANGED <<buf, index, received, packets, calls>>

HasNewline == \E i \in 1..len : buf[i] = "nl"
FirstNewline == CHOOSE i \in 1..len : buf[i] = "nl" /\ \A j \in 1..(i-1) : buf[j] # "nl"

(* What strlen() sees of the first n bytes of b.                           *)
CString(b, n) ==
    IF \E i \in 1..n : b[i] = "nul"
    THEN SubSeq(b, 1, (CHOOSE i \in 1..n : b[i] = "nul" /\ \A j \in 1..(i-1) : b[j] # "nul") - 1)
    ELSE SubSeq(b, 1, n)

(* Mutant: the newline is neither overwritten nor skipped.                 *)
ScootchKeepingNewline(b, i) ==
    [j \in 1..Len(b) |-> IF j + i - 1 <= Len(b) THEN b[j + i - 1] ELSE b[j]]

(* The rest of the buffer moves to its beginning.  The bytes behind the    *)
(* moved ones keep their old values.                                       *)
Scootch(b, i) ==
    [j \in 1..Len(b) |-> IF j + i <= Len(b) THEN b[j + i]
                         ELSE IF j = i THEN "nul" ELSE b[j]]

ExtractToken ==
    /\ pc = "tokens"
    /\ HasNewline
    /\ packets' = IF Len(packets) < MaxPackets
                  THEN Append(packets, CString(buf, FirstNewline - 1))
                  ELSE packets
    /\ buf' = Scootch(buf, FirstNewline)
    /\ calls' = 1 - calls
    /\ UNCHANGED <<pc, index, received>>

NoMoreTokens ==
    /\ pc = "tokens"
    /\ ~HasNewline
    /\ pc' = "return"
    /\ UNCHANGED <<buf, index, received, packets, calls>>

Returned == pc \in {"return", "failed"} /\ UNCHANGED vars

Next == RecvFull \/ RecvShort \/ RecvEnds \/ ExtractToken \/ NoMoreTokens \/ Returned

Spec == Init /\ [][Next]_vars

(* The thread is scheduled; whether recv() ever returns is up to others.   *)
FairSpec == Spec /\ WF_vars(ExtractToken \/ NoMoreTokens)

-----------------------------------------------------------------------------
(* The complete lines among the bytes received, in order.                  *)
Newlines == {i \in 1..Len(received) : received[i] = "nl"}
LineCount == Cardinality(Newlines)
LineEnd(k) == IF k = 0 THEN 0
              ELSE CHOOSE i \in Newlines : Cardinality({j \in Newlines : j <= i}) = k
Lines == [k \in 1..LineCount |-> SubSeq(received, LineEnd(k - 1) + 1, LineEnd(k) - 1)]

(* When a line is moved out, the last newline of the data is not among the *)
(* bytes at the end of the buffer that keep their old values.              *)
WellSpaced ==
    \A k \in 1..(LineCount - 1) :
        (LineEnd(LineCount) - LineEnd(k - 1)) + (LineEnd(k) - LineEnd(k - 1)) <= len

-----------------------------------------------------------------------------
(* Properties                                                              *)

TypeOK ==
    /\ pc \in {"recv", "tokens", "return", "failed"}
    /\ buf \in Seq(Byte)
    /\ index \in Nat
    /\ received \in Seq(Data)
    /\ packets \in Seq(Seq(Byte))
    /\ calls \in {0, 1}

(* The buffer always has room for what the next recv() may return.         *)
NoOverrun == pc = "recv" => index + buf_chunk_size <= len

(* What is handed to handle_packet() are the lines the client sent, in     *)
(* order and each once, as long as the data is well spaced.                *)
WellSpacedPackets ==
    WellSpaced =>
      /\ IsPrefix(packets, Lines)
      /\ pc = "return" => packets = Lines \/ packets = <<>>

(* ... and taking them out comes to an end.                                *)
WellSpacedEnds == (pc = "tokens" /\ WellSpaced) ~> pc = "return"

(* server.c:219: "Like strtok, but it manually rearranges the buffer when  *)
(* a token is found [...] Can be called many times on the same": strtok()  *)
(* would run out of tokens.                                                *)
TokensEnd == pc = "tokens" ~> pc = "return"
=============================================================================
