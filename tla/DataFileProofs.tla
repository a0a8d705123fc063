--------------------------- MODULE DataFileProofs ---------------------------
(***************************************************************************)
(* TLAPS proofs about DataFile, for any set of connection handlers, any    *)
(* buffer size and any number of records.                                  *)
(***************************************************************************)
EXTENDS DataFile, TLAPS

(* A prefix, element by element: the form the provers reason with.         *)
LEMMA PrefixByElements ==
    ASSUME NEW S, NEW s \in Seq(S), NEW t \in Seq(S)
    PROVE  IsPrefix(s, t) <=> /\ Len(s) <= Len(t)
                              /\ \A i \in 1..Len(s) : s[i] = t[i]
BY DEF IsPrefix

(* What a read() of the echo loop returns: at least one piece before the   *)
(* end of the file, none at the end, and never more than is left.          *)
LEMMA ReadSizeRange ==
    ASSUME TypeOK, pos <= Len(file)
    PROVE  /\ ReadSize \in Nat
           /\ pos + ReadSize <= Len(file)
           /\ ReadSize = 0 => pos = Len(file)
BY DataFileAssumption DEF TypeOK, ReadSize

-----------------------------------------------------------------------------
(* An append adds nothing, or one piece of the writing thread's current    *)
(* record at the end of the file, where it leaves the shared offset.  It   *)
(* may break that record, and no other.                                    *)
AppendsOne(t) ==
    /\ \/ UNCHANGED <<file, pos>>
       \/ \E part \in Parts :
             /\ part \notin {"old"}
             /\ file' = Append(file, [by |-> t, n |-> served[t], part |-> part])
             /\ pos' = Len(file')
    /\ UNCHANGED broken \/ Breaks(t)

(* A write call adds at most one piece, behind all others.                 *)
LEMMA AppendPieceAppends ==
    ASSUME NEW t \in Threads,
           NEW whole \in Parts \ {"old"},
           NEW cut \in (Parts \ {"old"}) \cup {"none"},
           AppendPiece(t, whole, cut)
    PROVE  AppendsOne(t)
<1>1. PICK part \in {whole, cut, "none"} :
        /\ IF part = "none"
           THEN UNCHANGED <<file, pos>>
           ELSE /\ file' = Append(file, [by |-> t, n |-> served[t], part |-> part])
                /\ pos' = Len(file')
        /\ UNCHANGED broken \/ Breaks(t)
  BY DEF AppendPiece
<1>2. CASE part = "none"
  BY <1>1, <1>2 DEF AppendsOne
<1>3. CASE part # "none"
  BY <1>1, <1>3 DEF AppendsOne
<1> QED
  BY <1>2, <1>3

(* What has grown by a piece keeps its type.                               *)
LEMMA AppendsOneType ==
    ASSUME TypeOK, NEW t \in Threads, AppendsOne(t)
    PROVE  file' \in Seq(Piece) /\ pos' \in Nat /\ broken' \subseteq Threads \X Nat
<1>0. broken' \subseteq Threads \X Nat
  <2>1. served[t] \in Nat /\ broken \subseteq Threads \X Nat
    BY DEF TypeOK
  <2>2. <<t, served[t]>> \in Threads \X Nat
    BY <2>1
  <2> QED
    BY <2>1, <2>2 DEF AppendsOne, Breaks, Record
<1>1. CASE UNCHANGED <<file, pos>>
  BY <1>0, <1>1 DEF TypeOK
<1>2. ASSUME NEW part \in Parts,
             file' = Append(file, [by |-> t, n |-> served[t], part |-> part]),
             pos' = Len(file')
      PROVE  file' \in Seq(Piece) /\ pos' \in Nat
  <2>1. [by |-> t, n |-> served[t], part |-> part] \in Piece
    BY DEF TypeOK, Piece
  <2>2. file \in Seq(Piece)
    BY DEF TypeOK
  <2> QED
    BY <1>2, <2>1, <2>2
<1> QED
  BY <1>0, <1>1, <1>2 DEF AppendsOne

(* The type invariant holds in every reachable state.                      *)
THEOREM TypeCorrect == Spec => []TypeOK
<1>1. Init => TypeOK
  <2> SUFFICES ASSUME Init PROVE TypeOK
    OBVIOUS
  <2>1. Leftover \in Piece
    BY DEF Leftover, Piece, Parts
  <2>2. file \in Seq(Piece)
    <3>1. CASE file = <<>>
      BY <3>1
    <3>2. CASE file = <<Leftover>>
      BY <3>2, <2>1
    <3> QED
      BY <3>1, <3>2 DEF Init
  <2> QED
    BY <2>2, DataFileAssumption DEF Init, TypeOK, ConnSteps, TsSteps
<1>2. TypeOK /\ [Next]_dfvars => TypeOK'
  <2> SUFFICES ASSUME TypeOK, [Next]_dfvars PROVE TypeOK'
    OBVIOUS
  <2> USE DataFileAssumption DEF TypeOK, ConnSteps, TsSteps, Threads
  <2>1. CASE UNCHANGED dfvars
    BY <2>1 DEF dfvars
  <2>2. ASSUME NEW c \in Conns, LockForPacket(c) PROVE TypeOK'
    BY <2>2 DEF LockForPacket, Move, Lock
  <2>3. ASSUME NEW c \in Conns, WriteMessage(c) PROVE TypeOK'
    <3>1. file' \in Seq(Piece) /\ pos' \in Nat /\ broken' \subseteq Threads \X Nat
      BY <2>3, AppendPieceAppends, AppendsOneType DEF WriteMessage, Parts
    <3> QED
      BY <2>3, <3>1 DEF WriteMessage, Move
  <2>4. ASSUME NEW c \in Conns, WriteNewline(c) PROVE TypeOK'
    <3>1. file' \in Seq(Piece) /\ pos' \in Nat /\ broken' \subseteq Threads \X Nat
      BY <2>4, AppendPieceAppends, AppendsOneType DEF WriteNewline, Parts
    <3> QED
      BY <2>4, <3>1 DEF WriteNewline, Move
  <2>5. ASSUME NEW c \in Conns, Rewind(c) PROVE TypeOK'
    BY <2>5 DEF Rewind, Move
  <2>6. ASSUME NEW c \in Conns, CopyChunk(c) PROVE TypeOK'
    <3>1. ReadSize \in Nat
      BY <2>6 DEF CopyChunk, ReadSize
    <3>2. SubSeq(file, pos + 1, pos + ReadSize) \in Seq(Piece)
      BY <2>6, <3>1 DEF CopyChunk, ReadSize
    <3> QED
      BY <2>6, <3>1, <3>2 DEF CopyChunk, Move
  <2>7. ASSUME NEW c \in Conns, SocketWriteFails(c) PROVE TypeOK'
    <3>1. ReadSize \in Nat
      <4>1. ReadSize > 0
        BY <2>7 DEF SocketWriteFails
      <4> QED
        BY <4>1 DEF ReadSize
    <3>2. QED
      <4>1. CASE SigpipeIgnored
        <5>1. /\ step' = [step EXCEPT ![c] = "seekend"]
              /\ pos' = pos + ReadSize
              /\ broken' = broken \cup {<<c, served[c]>>}
              /\ UNCHANGED <<proc, g_file_mutex, file, served, echo, peer>>
          BY <2>7, <4>1 DEF SocketWriteFails, Breaks, Record
        <5> QED
          BY <3>1, <5>1
      <4>2. CASE ~SigpipeIgnored
        BY <2>7, <3>1, <4>2 DEF SocketWriteFails
      <4> QED
        BY <4>1, <4>2
  <2>8. ASSUME NEW c \in Conns, CopyEnds(c) PROVE TypeOK'
    BY <2>8 DEF CopyEnds, Move, Breaks, Record
  <2>9. ASSUME NEW c \in Conns, SeekEnd(c) PROVE TypeOK'
    BY <2>9 DEF SeekEnd, Move
  <2>10. ASSUME NEW c \in Conns, SeekFails(c) PROVE TypeOK'
    BY <2>10 DEF SeekFails
  <2>11. ASSUME NEW c \in Conns, UnlockAfterPacket(c) PROVE TypeOK'
    BY <2>11 DEF UnlockAfterPacket, Move, Unlock
  <2>12. ASSUME NEW c \in Conns, PeerChanges(c) PROVE TypeOK'
    BY <2>12 DEF PeerChanges
  <2>13. CASE TsLock
    BY <2>13 DEF TsLock, Move, Lock
  <2>14. CASE TsPrint
    <3>1. file' \in Seq(Piece) /\ pos' \in Nat /\ broken' \subseteq Threads \X Nat
      BY <2>14, AppendPieceAppends, AppendsOneType DEF TsPrint, Parts
    <3> QED
      BY <2>14, <3>1 DEF TsPrint, Move
  <2>15. CASE TsUnlock
    BY <2>15 DEF TsUnlock, Move, Unlock
  <2>16. CASE ProcessEnds
    BY <2>16 DEF ProcessEnds
  <2>17. CASE Terminated
    BY <2>17 DEF Terminated, dfvars
  <2> QED
    BY <2>1, <2>2, <2>3, <2>4, <2>5, <2>6, <2>7, <2>8, <2>9, <2>10, <2>11,
       <2>12, <2>13, <2>14, <2>15, <2>16, <2>17 DEF Next, PacketStep
<1> QED
  BY <1>1, <1>2, PTL DEF Spec

-----------------------------------------------------------------------------
(* A thread is inside its critical section exactly when it holds           *)
(* g_file_mutex: the lock is taken and released on every path.             *)
THEOREM MutexCorrect == Spec => []MutualExclusion
<1>1. Init => MutualExclusion
  BY DataFileAssumption DEF Init, MutualExclusion
<1>2. TypeOK /\ MutualExclusion /\ [Next]_dfvars => MutualExclusion'
  <2> SUFFICES ASSUME TypeOK, MutualExclusion, [Next]_dfvars
               PROVE  MutualExclusion'
    OBVIOUS
  <2> USE DataFileAssumption DEF TypeOK, MutualExclusion, Threads
  <2>1. CASE UNCHANGED dfvars
    BY <2>1 DEF dfvars
  <2>2. ASSUME NEW c \in Conns, LockForPacket(c) PROVE MutualExclusion'
    BY <2>2 DEF LockForPacket, Move, Lock
  <2>3. ASSUME NEW c \in Conns, WriteMessage(c) PROVE MutualExclusion'
    BY <2>3 DEF WriteMessage, Move
  <2>4. ASSUME NEW c \in Conns, WriteNewline(c) PROVE MutualExclusion'
    BY <2>4 DEF WriteNewline, Move
  <2>5. ASSUME NEW c \in Conns, Rewind(c) PROVE MutualExclusion'
    BY <2>5 DEF Rewind, Move
  <2>6. ASSUME NEW c \in Conns, CopyChunk(c) PROVE MutualExclusion'
    BY <2>6 DEF CopyChunk, Move
  <2>7. ASSUME NEW c \in Conns, SocketWriteFails(c) PROVE MutualExclusion'
    <3>1. /\ UNCHANGED step \/ step' = [step EXCEPT ![c] = "seekend"]
          /\ step[c] = "copy"
          /\ UNCHANGED g_file_mutex
      BY <2>7 DEF SocketWriteFails
    <3> QED
      BY <3>1
  <2>8. ASSUME NEW c \in Conns, CopyEnds(c) PROVE MutualExclusion'
    BY <2>8 DEF CopyEnds, Move
  <2>9. ASSUME NEW c \in Conns, SeekEnd(c) PROVE MutualExclusion'
    BY <2>9 DEF SeekEnd, Move
  <2>10. ASSUME NEW c \in Conns, SeekFails(c) PROVE MutualExclusion'
    BY <2>10 DEF SeekFails
  <2>11. ASSUME NEW c \in Conns, UnlockAfterPacket(c) PROVE MutualExclusion'
    BY <2>11 DEF UnlockAfterPacket, Move, Unlock
  <2>12. ASSUME NEW c \in Conns, PeerChanges(c) PROVE MutualExclusion'
    BY <2>12 DEF PeerChanges
  <2>13. CASE TsLock
    BY <2>13 DEF TsLock, Move, Lock
  <2>14. CASE TsPrint
    BY <2>14 DEF TsPrint, Move
  <2>15. CASE TsUnlock
    BY <2>15 DEF TsUnlock, Move, Unlock
  <2>16. CASE ProcessEnds
    BY <2>16 DEF ProcessEnds
  <2>17. CASE Terminated
    BY <2>17 DEF Terminated, dfvars
  <2> QED
    BY <2>1, <2>2, <2>3, <2>4, <2>5, <2>6, <2>7, <2>8, <2>9, <2>10, <2>11,
       <2>12, <2>13, <2>14, <2>15, <2>16, <2>17 DEF Next, PacketStep
<1> QED
  BY <1>1, <1>2, TypeCorrect, PTL DEF Spec

-----------------------------------------------------------------------------
(* What a step does to the file: only a thread inside its critical section *)
(* appends, and every other step leaves the file alone.                    *)
LEMMA FileSteps ==
    ASSUME TypeOK, [Next]_dfvars
    PROVE  \/ UNCHANGED file
           \/ \E c \in Conns : WriteMessage(c) \/ WriteNewline(c)
           \/ TsPrint
BY DEF Next, PacketStep, LockForPacket, Rewind, CopyChunk, SocketWriteFails,
       CopyEnds, SeekEnd, SeekFails, UnlockAfterPacket, PeerChanges, TsLock,
       TsUnlock, ProcessEnds, Terminated, dfvars

(* The file only ever grows at its end, by at most one piece.              *)
LEMMA FileGrows ==
    ASSUME TypeOK, TypeOK', [Next]_dfvars
    PROVE  IsPrefix(file, file')
<1>1. ASSUME NEW t \in Threads, AppendsOne(t) PROVE IsPrefix(file, file')
  <2>1. /\ Len(file) <= Len(file')
        /\ \A i \in 1..Len(file) : file[i] = file'[i]
    <3>1. CASE UNCHANGED <<file, pos>>
      BY <3>1 DEF TypeOK
    <3>2. ASSUME NEW e, file' = Append(file, e)
          PROVE  /\ Len(file) <= Len(file')
                 /\ \A i \in 1..Len(file) : file[i] = file'[i]
      BY <3>2 DEF TypeOK
    <3> QED
      BY <1>1, <3>1, <3>2 DEF AppendsOne
  <2> QED
    BY <2>1, PrefixByElements DEF TypeOK
<1>2. CASE UNCHANGED file
  BY <1>2, PrefixByElements DEF TypeOK
<1>3. ASSUME NEW c \in Conns, WriteMessage(c) \/ WriteNewline(c)
      PROVE  IsPrefix(file, file')
  BY <1>1, <1>3, AppendPieceAppends DEF WriteMessage, WriteNewline, Parts, Threads
<1>4. CASE TsPrint
  BY <1>1, <1>4, AppendPieceAppends DEF TsPrint, Parts, Threads
<1> QED
  BY <1>2, <1>3, <1>4, FileSteps

(* No thread overwrites anything that is in the file.                      *)
THEOREM FileIsAppendOnly == Spec => AppendOnly
<1>1. TypeOK /\ TypeOK' /\ [Next]_dfvars => [IsPrefix(file, file')]_file
  BY FileGrows
<1> QED
  BY <1>1, TypeCorrect, PTL DEF Spec, AppendOnly

-----------------------------------------------------------------------------
(* The inductive invariant behind the properties of the replies: the       *)
(* shared offset stays inside the file, what a client was sent is a prefix *)
(* of the file, a handler that copies has sent exactly what lies before    *)
(* the offset, and it stops before the end only if one of its calls fails. *)
EchoInv ==
    /\ pos <= Len(file)
    /\ \A c \in Conns :
         /\ IsPrefix(echo[c], file)
         /\ step[c] = "copy" => pos = Len(echo[c])
         /\ (Record(c) \notin broken /\ step[c] \in {"seekend", "unlock"})
              => Len(echo[c]) = Len(file)

(* A prefix of a prefix is a prefix.                                       *)
LEMMA PrefixTransitive ==
    ASSUME NEW S, NEW r \in Seq(S), NEW s \in Seq(S), NEW t \in Seq(S),
           IsPrefix(r, s), IsPrefix(s, t)
    PROVE  IsPrefix(r, t)
BY PrefixByElements

(* Two prefixes of one sequence are prefixes of one another.               *)
LEMMA PrefixesComparable ==
    ASSUME NEW S, NEW r \in Seq(S), NEW s \in Seq(S), NEW t \in Seq(S),
           IsPrefix(r, t), IsPrefix(s, t)
    PROVE  IsPrefix(r, s) \/ IsPrefix(s, r)
<1>1. CASE Len(r) <= Len(s)
  BY <1>1, PrefixByElements
<1>2. CASE Len(s) <= Len(r)
  BY <1>2, PrefixByElements
<1> QED
  BY <1>1, <1>2

(* A prefix as long as the sequence is the sequence.                       *)
LEMMA FullPrefix ==
    ASSUME NEW S, NEW s \in Seq(S), NEW t \in Seq(S),
           IsPrefix(s, t), Len(s) = Len(t)
    PROVE  s = t
BY PrefixByElements

(* One turn of the echo loop extends a prefix that ends at the offset to a *)
(* prefix that ends at the new offset.                                     *)
LEMMA CopyExtendsPrefix ==
    ASSUME NEW S, NEW s \in Seq(S), NEW t \in Seq(S), IsPrefix(s, t),
           NEW k \in Nat, Len(s) + k <= Len(t)
    PROVE  /\ IsPrefix(s \o SubSeq(t, Len(s) + 1, Len(s) + k), t)
           /\ Len(s \o SubSeq(t, Len(s) + 1, Len(s) + k)) = Len(s) + k
<1> DEFINE d == SubSeq(t, Len(s) + 1, Len(s) + k)
           u == s \o d
<1>1. /\ d \in Seq(S)
      /\ Len(d) = k
      /\ \A i \in 1..k : d[i] = t[Len(s) + i]
  OBVIOUS
<1>2. /\ u \in Seq(S)
      /\ Len(u) = Len(s) + k
      /\ \A i \in 1..Len(s) : u[i] = s[i]
      /\ \A i \in (Len(s) + 1)..(Len(s) + k) : u[i] = d[i - Len(s)]
  BY <1>1
<1>3. \A i \in 1..Len(s) : s[i] = t[i]
  BY PrefixByElements
<1> HIDE DEF d, u
<1>4. ASSUME NEW i \in 1..Len(u) PROVE u[i] = t[i]
  <2>1. CASE i <= Len(s)
    <3>1. i \in 1..Len(s)
      BY <2>1, <1>2
    <3> QED
      BY <3>1, <1>2, <1>3
  <2>2. CASE i > Len(s)
    <3>1. /\ i \in (Len(s) + 1)..(Len(s) + k)
          /\ i - Len(s) \in 1..k
          /\ Len(s) + (i - Len(s)) = i
      BY <2>2, <1>2
    <3>2. u[i] = d[i - Len(s)]
      BY <3>1, <1>2
    <3>3. d[i - Len(s)] = t[i]
      BY <3>1, <1>1
    <3> QED
      BY <3>2, <3>3
  <2> QED
    BY <2>1, <2>2, <1>2
<1>5. IsPrefix(u, t)
  BY <1>2, <1>4, PrefixByElements
<1> QED
  BY <1>2, <1>5 DEF u, d

(* A step of thread t that leaves every reply alone and puts t at a point  *)
(* where it is neither copying nor done copying preserves EchoInv.         *)
LEMMA EchoKept ==
    ASSUME TypeOK, TypeOK', MutualExclusion, EchoInv, [Next]_dfvars,
           NEW t \in Threads, g_file_mutex = t, UNCHANGED echo,
           step'[t] \notin {"copy", "seekend", "unlock"} \/ t \notin Conns,
           \A u \in Threads \ {t} : step'[u] = step[u],
           pos' <= Len(file')
    PROVE  EchoInv'
<1>1. \A c \in Conns : IsPrefix(echo'[c], file')
  BY FileGrows, PrefixTransitive DEF TypeOK, EchoInv
<1>2. \A c \in Conns \ {t} : step'[c] = "out"
  BY DataFileAssumption DEF MutualExclusion, Threads
<1> QED
  BY <1>1, <1>2 DEF EchoInv, Threads

(* Every client has been sent a prefix of the file, and the shared offset  *)
(* tells how much of it.                                                   *)
THEOREM EchoCorrect == Spec => []EchoInv
<1>1. Init => EchoInv
  <2> SUFFICES ASSUME Init PROVE EchoInv
    OBVIOUS
  <2>1. file \in Seq({Leftover})
    <3>1. CASE file = <<>>
      BY <3>1
    <3>2. CASE file = <<Leftover>>
      BY <3>2
    <3> QED
      BY <3>1, <3>2 DEF Init
  <2>2. \A c \in Conns : echo[c] = <<>> /\ step[c] = "out"
    BY DEF Init, Threads
  <2>3. \A c \in Conns : IsPrefix(echo[c], file)
    BY <2>1, <2>2 DEF IsPrefix
  <2> QED
    BY <2>1, <2>2, <2>3 DEF Init, EchoInv
<1>2. TypeOK /\ TypeOK' /\ MutualExclusion /\ EchoInv /\ [Next]_dfvars => EchoInv'
  <2> SUFFICES ASSUME TypeOK, TypeOK', MutualExclusion, EchoInv, [Next]_dfvars
               PROVE  EchoInv'
    OBVIOUS
  <2> USE DataFileAssumption
  <2>1. CASE UNCHANGED dfvars
    BY <2>1 DEF dfvars, EchoInv, Record
  <2>2. ASSUME NEW c \in Conns, LockForPacket(c) PROVE EchoInv'
    BY <2>2 DEF LockForPacket, Move, Lock, EchoInv, TypeOK, Threads, Record
  <2>3. ASSUME NEW t \in Threads, AppendsOne(t) PROVE pos' <= Len(file')
    <3>1. CASE UNCHANGED <<file, pos>>
      BY <3>1 DEF EchoInv
    <3>2. CASE pos' = Len(file')
      BY <3>2 DEF TypeOK
    <3> QED
      BY <2>3, <3>1, <3>2 DEF AppendsOne
  <2>4. ASSUME NEW c \in Conns, WriteMessage(c) PROVE EchoInv'
    <3>1. AppendsOne(c)
      BY <2>4, AppendPieceAppends DEF WriteMessage, Parts, Threads
    <3>2. /\ g_file_mutex = c
          /\ UNCHANGED echo
          /\ step'[c] = "newline"
          /\ \A u \in Threads \ {c} : step'[u] = step[u]
      BY <2>4 DEF WriteMessage, Move, TypeOK, MutualExclusion, Threads
    <3> QED
      BY <2>3, <3>1, <3>2, EchoKept DEF Threads
  <2>5. ASSUME NEW c \in Conns, WriteNewline(c) PROVE EchoInv'
    <3>1. AppendsOne(c)
      BY <2>5, AppendPieceAppends DEF WriteNewline, Parts, Threads
    <3>2. /\ g_file_mutex = c
          /\ UNCHANGED echo
          /\ step'[c] = "rewind"
          /\ \A u \in Threads \ {c} : step'[u] = step[u]
      BY <2>5 DEF WriteNewline, Move, TypeOK, MutualExclusion, Threads
    <3> QED
      BY <2>3, <3>1, <3>2, EchoKept DEF Threads
  <2>6. ASSUME NEW c \in Conns, Rewind(c) PROVE EchoInv'
    <3>1. echo'[c] = <<>> /\ IsPrefix(echo'[c], file')
      <4>1. echo'[c] = <<>>
        BY <2>6 DEF Rewind, TypeOK
      <4> QED
        BY <4>1 DEF IsPrefix, TypeOK
    <3>2. \A d \in Conns \ {c} : echo'[d] = echo[d] /\ step'[d] = step[d]
      BY <2>6 DEF Rewind, Move, TypeOK, Threads
    <3>3. step'[c] = "copy" /\ pos' = 0 /\ UNCHANGED file
      BY <2>6 DEF Rewind, Move, TypeOK, Threads
    <3>4. \A d \in Conns \ {c} : step[d] = "out"
      BY <2>6 DEF Rewind, Move, MutualExclusion, Threads
    <3> QED
      <4>1. /\ pos' <= Len(file')
            /\ Len(echo'[c]) = 0
        BY <3>1, <3>3 DEF TypeOK
      <4> QED
        BY <3>1, <3>2, <3>3, <3>4, <4>1 DEF EchoInv
  <2>7. ASSUME NEW c \in Conns, CopyChunk(c) PROVE EchoInv'
    <3>1. /\ step[c] = "copy"
          /\ pos = Len(echo[c])
          /\ IsPrefix(echo[c], file)
      BY <2>7 DEF CopyChunk, Move, EchoInv
    <3>2. ReadSize \in Nat /\ pos + ReadSize <= Len(file)
      BY ReadSizeRange DEF EchoInv
    <3>3. /\ echo'[c] = echo[c] \o SubSeq(file, pos + 1, pos + ReadSize)
          /\ pos' = pos + ReadSize
          /\ UNCHANGED file
          /\ step'[c] = "copy"
      BY <2>7 DEF CopyChunk, Move, TypeOK, Threads
    <3>4. IsPrefix(echo'[c], file) /\ Len(echo'[c]) = pos'
      <4>1. echo[c] \in Seq(Piece) /\ file \in Seq(Piece)
        BY DEF TypeOK
      <4>2. PICK k \in Nat : k = ReadSize
        BY <3>2
      <4>3. /\ pos = Len(echo[c])
            /\ Len(echo[c]) + k <= Len(file)
            /\ echo'[c] = echo[c] \o SubSeq(file, Len(echo[c]) + 1, Len(echo[c]) + k)
            /\ pos' = Len(echo[c]) + k
        BY <3>1, <3>2, <3>3, <4>2
      <4>4. /\ IsPrefix(echo[c] \o SubSeq(file, Len(echo[c]) + 1, Len(echo[c]) + k), file)
            /\ Len(echo[c] \o SubSeq(file, Len(echo[c]) + 1, Len(echo[c]) + k))
                 = Len(echo[c]) + k
        BY ONLY <3>1, <4>1, <4>2, <4>3, CopyExtendsPrefix
      <4> QED
        BY <4>3, <4>4
    <3>5. \A d \in Conns \ {c} : echo'[d] = echo[d] /\ step'[d] = "out"
      BY <2>7 DEF CopyChunk, Move, MutualExclusion, TypeOK, Threads
    <3> QED
      BY <3>2, <3>3, <3>4, <3>5 DEF EchoInv
  <2>8. ASSUME NEW c \in Conns, SocketWriteFails(c) PROVE EchoInv'
    <3>1. ReadSize \in Nat /\ pos + ReadSize <= Len(file)
      BY ReadSizeRange DEF EchoInv
    <3>2. CASE SigpipeIgnored
      <4>1. /\ step' = [step EXCEPT ![c] = "seekend"]
            /\ pos' = pos + ReadSize
            /\ UNCHANGED <<file, echo>>
            /\ step[c] = "copy"
            /\ Record(c)' \in broken'
        BY <2>8, <3>2 DEF SocketWriteFails, Breaks, Record
      <4>2. \A d \in Conns \ {c} : step'[d] = "out"
        BY <4>1 DEF MutualExclusion, TypeOK, Threads
      <4>3. step'[c] = "seekend"
        BY <4>1 DEF TypeOK, Threads
      <4> QED
        BY <3>1, <3>2, <4>1, <4>2, <4>3 DEF EchoInv
    <3>3. CASE ~SigpipeIgnored
      <4>1. UNCHANGED <<file, echo, step, pos, served, broken>>
        BY <2>8, <3>3 DEF SocketWriteFails
      <4> QED
        BY <4>1 DEF EchoInv, Record
    <3> QED
      BY <3>2, <3>3
  <2>9. ASSUME NEW c \in Conns, CopyEnds(c) PROVE EchoInv'
    <3>1. /\ step[c] = "copy"
          /\ UNCHANGED <<file, pos, echo>>
          /\ ReadSize = 0 \/ Record(c)' \in broken'
          /\ step'[c] = "seekend"
      BY <2>9 DEF CopyEnds, Move, TypeOK, Threads, Breaks, Record
    <3>2. Record(c)' \notin broken' => pos = Len(file)
      BY <3>1, ReadSizeRange DEF EchoInv
    <3>3. \A d \in Conns \ {c} : step'[d] = "out"
      BY <2>9 DEF CopyEnds, Move, MutualExclusion, TypeOK, Threads
    <3> QED
      BY <3>1, <3>2, <3>3 DEF EchoInv
  <2>10. ASSUME NEW c \in Conns, SeekEnd(c) PROVE EchoInv'
    <3>1. /\ step[c] = "seekend"
          /\ step' = [step EXCEPT ![c] = "unlock"]
          /\ pos' = Len(file)
          /\ UNCHANGED <<file, echo, served, broken>>
      BY <2>10 DEF SeekEnd, Move
    <3>2. \A d \in Conns : step'[d] = IF d = c THEN "unlock" ELSE step[d]
      BY <3>1 DEF TypeOK, Threads
    <3>3. \A d \in Conns \ {c} : step'[d] = "out"
      BY <3>1, <3>2 DEF MutualExclusion, Threads
    <3> QED
      BY <3>1, <3>2, <3>3 DEF EchoInv, TypeOK, Record
  <2>11. ASSUME NEW c \in Conns, SeekFails(c) PROVE EchoInv'
    BY <2>11 DEF SeekFails, EchoInv, Record
  <2>12. ASSUME NEW c \in Conns, UnlockAfterPacket(c) PROVE EchoInv'
    <3>1. /\ UNCHANGED <<file, pos, echo, broken>>
          /\ step'[c] = "out"
          /\ \A d \in Conns \ {c} : step'[d] = step[d] /\ served'[d] = served[d]
      BY <2>12 DEF UnlockAfterPacket, Unlock, Move, TypeOK, Threads
    <3> QED
      BY <3>1 DEF EchoInv, Record
  <2>13. ASSUME NEW c \in Conns, PeerChanges(c) PROVE EchoInv'
    BY <2>13 DEF PeerChanges, EchoInv, Record
  <2>14. CASE TsLock
    BY <2>14 DEF TsLock, Move, EchoInv, TypeOK, Threads, Record
  <2>15. CASE TsPrint
    <3>1. AppendsOne(TsThread)
      BY <2>15, AppendPieceAppends DEF TsPrint, Parts, Threads
    <3>2. /\ g_file_mutex = TsThread
          /\ UNCHANGED echo
          /\ \A u \in Threads \ {TsThread} : step'[u] = step[u]
      BY <2>15 DEF TsPrint, Move, TypeOK, MutualExclusion, Threads
    <3> QED
      BY <2>3, <3>1, <3>2, EchoKept DEF Threads
  <2>16. CASE TsUnlock
    <3>1. /\ UNCHANGED <<file, pos, echo, broken>>
          /\ \A d \in Conns : step'[d] = step[d] /\ served'[d] = served[d]
      BY <2>16 DEF TsUnlock, Unlock, Move, TypeOK, Threads
    <3> QED
      BY <3>1 DEF EchoInv, Record
  <2>17. CASE ProcessEnds
    BY <2>17 DEF ProcessEnds, EchoInv, Record
  <2>18. CASE Terminated
    BY <2>18 DEF Terminated, dfvars, EchoInv, Record
  <2> QED
    BY <2>1, <2>2, <2>4, <2>5, <2>6, <2>7, <2>8, <2>9, <2>10, <2>11, <2>12,
       <2>13, <2>14, <2>15, <2>16, <2>17, <2>18 DEF Next, PacketStep
<1> QED
  BY <1>1, <1>2, TypeCorrect, MutexCorrect, PTL DEF Spec

(* All clients see one history, whatever fails on the way.                 *)
THEOREM RepliesAgreeCorrect == Spec => []RepliesAgree
<1>1. TypeOK /\ EchoInv => RepliesAgree
  BY PrefixesComparable DEF TypeOK, EchoInv, RepliesAgree
<1> QED
  BY <1>1, TypeCorrect, EchoCorrect, PTL

-----------------------------------------------------------------------------
(* The piece a thread's write() of the given kind puts into the file.      *)
Entry(t, part) == [by |-> t, n |-> served[t], part |-> part]

(* A file after an append, element by element.                             *)
LEMMA AppendElements ==
    ASSUME NEW S, NEW s \in Seq(S), NEW e \in S
    PROVE  /\ Append(s, e) \in Seq(S)
           /\ Len(Append(s, e)) = Len(s) + 1
           /\ \A i \in 1..Len(s) : Append(s, e)[i] = s[i]
           /\ Append(s, e)[Len(s) + 1] = e
OBVIOUS

(* The inductive invariant behind LinesComplete: unless a call for the     *)
(* record in progress failed, the end of the file shows how far the thread *)
(* that holds the mutex has come.                                          *)
LinesInv ==
    /\ \A i \in 1..Len(file) : file[i].part = "msg" => file[i].by \in Conns
    /\ \A c \in Conns : Record(c) \notin broken =>
         /\ step[c] = "newline" =>
              /\ Len(file) >= 1
              /\ file[Len(file)] = Entry(c, "msg")
         /\ step[c] \in {"rewind", "copy", "seekend", "unlock"} =>
              /\ Len(file) >= 2
              /\ file[Len(file) - 1] = Entry(c, "msg")
              /\ file[Len(file)] = Entry(c, "nl")
    /\ LinesComplete

(* A step of thread t that does not touch the file and neither reaches nor *)
(* leaves the point between the two writes preserves LinesInv.             *)
LEMMA LinesKept ==
    ASSUME TypeOK, TypeOK', LinesInv, NEW t \in Threads, UNCHANGED file,
           broken \subseteq broken',
           \A u \in Threads \ {t} : step'[u] = step[u] /\ served'[u] = served[u],
           step[t] # "newline", step'[t] # "newline",
           step'[t] \in {"rewind", "copy", "seekend", "unlock"} =>
               /\ t \notin Conns \/ step[t] \in {"rewind", "copy", "seekend", "unlock"}
               /\ served'[t] = served[t]
    PROVE  LinesInv'
<1>1. ASSUME NEW c \in Conns, Record(c)' \notin broken'
      PROVE  /\ step'[c] = "newline" =>
                  /\ Len(file') >= 1
                  /\ file'[Len(file')] = Entry(c, "msg")'
             /\ step'[c] \in {"rewind", "copy", "seekend", "unlock"} =>
                  /\ Len(file') >= 2
                  /\ file'[Len(file') - 1] = Entry(c, "msg")'
                  /\ file'[Len(file')] = Entry(c, "nl")'
  BY <1>1 DEF LinesInv, Entry, Record, Threads
<1>2. LinesComplete'
  BY DEF LinesInv, LinesComplete, Threads
<1> QED
  BY <1>1, <1>2 DEF LinesInv

(* What one append does: nothing, or a cut piece, and then its record is   *)
(* broken; or the whole piece.                                             *)
LEMMA AppendPieceCases ==
    ASSUME NEW t \in Threads, NEW whole \in Parts, NEW cut \in Parts \cup {"none"},
           AppendPiece(t, whole, cut)
    PROVE  /\ broken \subseteq broken'
           /\ \/ UNCHANGED file /\ Record(t) \in broken'
              \/ file' = Append(file, Entry(t, whole))
              \/ /\ file' = Append(file, Entry(t, cut))
                 /\ cut # "none" /\ Record(t) \in broken'
<1>1. PICK part \in {whole, cut, "none"} :
        /\ IF part = "none"
           THEN UNCHANGED <<file, pos>>
           ELSE file' = Append(file, Entry(t, part))
        /\ IF part = whole THEN UNCHANGED broken ELSE Breaks(t)
  BY DEF AppendPiece, Entry
<1>2. whole # "none"
  BY DEF Parts
<1> QED
  BY <1>1, <1>2 DEF Breaks

(* What the thread that holds the mutex may do to the end of the file      *)
(* without spoiling LinesComplete.                                         *)
LEMMA LinesCompleteAppend ==
    ASSUME TypeOK, MutualExclusion, LinesInv, NEW t \in Threads,
           step[t] # "out", UNCHANGED served, broken \subseteq broken',
           \/ UNCHANGED file /\ Record(t) \in broken'
           \/ \E part \in Parts :
                 /\ file' = Append(file, Entry(t, part))
                 /\ Record(t) \notin broken' =>
                      /\ part = "msg" => step'[t] = "newline"
                      /\ step[t] = "newline" => part = "nl"
    PROVE  LinesComplete'
<1>1. \A u \in Threads : u # t => step[u] = "out"
  BY DEF MutualExclusion
<1>2. ASSUME NEW i \in 1..Len(file), file[i].part = "msg",
             <<file[i].by, file[i].n>> \notin broken', i >= Len(file)
      PROVE  /\ file[i].by = t /\ file[i].n = served[t]
             /\ i = Len(file)
             /\ step[t] = "newline" /\ Record(t) \notin broken'
  <2>0. i = Len(file) /\ ~(i < Len(file))
    BY <1>2 DEF TypeOK
  <2>1. step[file[i].by] = "newline" /\ served[file[i].by] = file[i].n
    <3>1. <<file[i].by, file[i].n>> \notin broken
      BY <1>2
    <3>2. LinesComplete
      BY DEF LinesInv
    <3> QED
      BY <1>2, <2>0, <3>1, <3>2 DEF LinesComplete
  <2>3. file[i].by \in Threads
    BY <1>2 DEF LinesInv, Threads
  <2> QED
    <3>1. file[i].by = t
      BY <1>1, <2>1, <2>3
    <3> QED
      BY <1>2, <2>0, <2>1, <3>1 DEF Record
<1>3. CASE UNCHANGED file /\ Record(t) \in broken'
  BY <1>2, <1>3 DEF LinesInv, LinesComplete, TypeOK
<1>4. ASSUME NEW part \in Parts, file' = Append(file, Entry(t, part)),
             Record(t) \notin broken' =>
                  /\ part = "msg" => step'[t] = "newline"
                  /\ step[t] = "newline" => part = "nl"
      PROVE  LinesComplete'
  <2>1. Entry(t, part) \in Piece /\ file \in Seq(Piece)
    BY DEF TypeOK, Piece, Entry
  <2>2. /\ Len(file') = Len(file) + 1
        /\ \A i \in 1..Len(file) : file'[i] = file[i]
        /\ file'[Len(file) + 1] = Entry(t, part)
        /\ Len(file) \in Nat
    BY <1>4, <2>1, AppendElements
  <2>3. ASSUME NEW i \in 1..Len(file), file[i].part = "msg",
               <<file[i].by, file[i].n>> \notin broken'
        PROVE  file'[i+1] = [file[i] EXCEPT !.part = "nl"]
    <3>1. CASE i < Len(file)
      <4>1. file[i+1] = [file[i] EXCEPT !.part = "nl"]
        BY <2>3, <3>1 DEF LinesInv, LinesComplete
      <4> QED
        BY <2>2, <3>1, <4>1
    <3>2. CASE i >= Len(file)
      <4>1. /\ file[i].by = t /\ file[i].n = served[t] /\ i = Len(file)
            /\ part = "nl"
        BY <1>2, <1>4, <2>3, <3>2
      <4>2. file[i] \in Piece
        BY <2>1
      <4>3. Entry(t, "nl") = [file[i] EXCEPT !.part = "nl"]
        BY <4>1, <4>2 DEF Entry, Piece
      <4> QED
        BY <2>2, <4>1, <4>3
    <3> QED
      BY <2>2, <3>1, <3>2
  <2>4. ASSUME part = "msg", Record(t) \notin broken'
        PROVE  step'[t] = "newline" /\ served'[t] = served[t]
    BY <1>4, <2>4
  <2>5. Entry(t, part).by = t /\ Entry(t, part).n = served[t] /\ Entry(t, part).part = part
    BY DEF Entry
  <2> QED
    BY <2>2, <2>3, <2>4, <2>5 DEF LinesComplete, Record
<1> QED
  BY <1>3, <1>4

(* The same, for the whole of LinesInv: t must leave the end of the file   *)
(* in the shape its next step expects.                                     *)
LEMMA LinesInvAppend ==
    ASSUME TypeOK, MutualExclusion, LinesInv, NEW t \in Threads,
           step[t] # "out", UNCHANGED served, broken \subseteq broken',
           \A u \in Threads \ {t} : step'[u] = step[u],
           NEW part \in Parts \ {"old"},
           part = "msg" => t \in Conns /\ step'[t] = "newline",
           step[t] = "newline" => part = "nl",
           NEW cut \in Parts \ {"msg"},
           \/ UNCHANGED file /\ Record(t) \in broken'
           \/ file' = Append(file, Entry(t, part))
           \/ file' = Append(file, Entry(t, cut)) /\ Record(t) \in broken',
           (t \in Conns /\ Record(t) \notin broken') =>
              \/ part = "msg" /\ step'[t] = "newline"
              \/ part = "nl" /\ step[t] = "newline" /\ step'[t] = "rewind"
    PROVE  LinesInv'
<1>1. LinesComplete'
  BY LinesCompleteAppend
<1>2. \A i \in 1..Len(file') : file'[i].part = "msg" => file'[i].by \in Conns
  <2>1. CASE UNCHANGED file
    BY <2>1 DEF LinesInv
  <2>2. ASSUME NEW p \in {part, cut}, file' = Append(file, Entry(t, p))
        PROVE  \A i \in 1..Len(file') : file'[i].part = "msg" => file'[i].by \in Conns
    <3>1. Entry(t, p) \in Piece /\ file \in Seq(Piece)
      BY DEF TypeOK, Piece, Entry
    <3>2. /\ Len(file') = Len(file) + 1
          /\ \A i \in 1..Len(file) : file'[i] = file[i]
          /\ file'[Len(file) + 1] = Entry(t, p)
          /\ Len(file) \in Nat
      BY <2>2, <3>1, AppendElements
    <3>3. Entry(t, p).part = p /\ Entry(t, p).by = t
      BY DEF Entry
    <3> QED
      BY <3>2, <3>3 DEF LinesInv
  <2> QED
    BY <2>1, <2>2
<1>3. ASSUME NEW c \in Conns, Record(c)' \notin broken'
      PROVE  /\ step'[c] = "newline" =>
                  /\ Len(file') >= 1
                  /\ file'[Len(file')] = Entry(c, "msg")'
             /\ step'[c] \in {"rewind", "copy", "seekend", "unlock"} =>
                  /\ Len(file') >= 2
                  /\ file'[Len(file') - 1] = Entry(c, "msg")'
                  /\ file'[Len(file')] = Entry(c, "nl")'
  <2>1. CASE c # t
    BY <2>1 DEF MutualExclusion, Threads
  <2>2. CASE c = t
    <3>1. Record(t) \notin broken' /\ Record(t) \notin broken
      BY <1>3, <2>2 DEF Record
    <3>2. file' = Append(file, Entry(t, part))
      BY <3>1
    <3>3. Entry(t, part) \in Piece /\ file \in Seq(Piece)
      BY DEF TypeOK, Piece, Entry
    <3>4. /\ Len(file') = Len(file) + 1
          /\ \A i \in 1..Len(file) : file'[i] = file[i]
          /\ file'[Len(file) + 1] = Entry(t, part)
          /\ Len(file) \in Nat
      BY <3>2, <3>3, AppendElements
    <3>5. step[t] = "newline" => Len(file) >= 1 /\ file[Len(file)] = Entry(t, "msg")
      BY <2>2, <3>1 DEF LinesInv
    <3>6. Entry(t, "msg")' = Entry(t, "msg") /\ Entry(t, "nl")' = Entry(t, "nl")
      BY DEF Entry
    <3> QED
      BY <2>2, <3>1, <3>4, <3>5, <3>6
  <2> QED
    BY <2>1, <2>2
<1> QED
  BY <1>1, <1>2, <1>3 DEF LinesInv

(* LinesInv holds in every reachable state.                                *)
THEOREM LinesCorrect == Spec => []LinesInv
<1>1. Init => LinesInv
  <2> SUFFICES ASSUME Init PROVE LinesInv
    OBVIOUS
  <2>1. \A i \in 1..Len(file) : file[i].part = "old"
    <3>1. CASE file = <<>>
      BY <3>1
    <3>2. CASE file = <<Leftover>>
      BY <3>2 DEF Leftover
    <3> QED
      BY <3>1, <3>2 DEF Init
  <2>2. \A c \in Conns : step[c] = "out"
    BY DEF Init, Threads
  <2> QED
    BY <2>1, <2>2 DEF LinesInv, LinesComplete
<1>2. TypeOK /\ TypeOK' /\ MutualExclusion /\ LinesInv /\ [Next]_dfvars => LinesInv'
  <2> SUFFICES ASSUME TypeOK, TypeOK', MutualExclusion, LinesInv, [Next]_dfvars
               PROVE  LinesInv'
    OBVIOUS
  <2> USE DataFileAssumption
  <2>1. CASE UNCHANGED dfvars
    BY <2>1 DEF dfvars, LinesInv, LinesComplete, Entry, Record
  <2>2. ASSUME NEW c \in Conns, LockForPacket(c) PROVE LinesInv'
    BY <2>2, LinesKept DEF LockForPacket, Move, TypeOK, Threads
  <2>3. ASSUME NEW c \in Conns, WriteMessage(c) PROVE LinesInv'
    <3>1. /\ step[c] = "msg" /\ step'[c] = "newline"
          /\ \A u \in Threads \ {c} : step'[u] = step[u]
          /\ UNCHANGED served
      BY <2>3 DEF WriteMessage, Move, TypeOK, Threads
    <3>2. /\ broken \subseteq broken'
          /\ \/ UNCHANGED file /\ Record(c) \in broken'
             \/ file' = Append(file, Entry(c, "msg"))
             \/ file' = Append(file, Entry(c, "msg_cut")) /\ Record(c) \in broken'
      BY <2>3, AppendPieceCases DEF WriteMessage, Parts, Threads
    <3> QED
      BY <3>1, <3>2, LinesInvAppend DEF Parts, Threads
  <2>4. ASSUME NEW c \in Conns, WriteNewline(c) PROVE LinesInv'
    <3>1. /\ step[c] = "newline" /\ step'[c] = "rewind"
          /\ \A u \in Threads \ {c} : step'[u] = step[u]
          /\ UNCHANGED served
      BY <2>4 DEF WriteNewline, Move, TypeOK, Threads
    <3>2. /\ broken \subseteq broken'
          /\ \/ UNCHANGED file /\ Record(c) \in broken'
             \/ file' = Append(file, Entry(c, "nl"))
             \/ file' = Append(file, Entry(c, "msg_cut")) /\ Record(c) \in broken'
      BY <2>4, AppendPieceCases DEF WriteNewline, Parts, Threads
    <3> QED
      BY <3>1, <3>2, LinesInvAppend DEF Parts, Threads
  <2>5. ASSUME NEW c \in Conns, Rewind(c) PROVE LinesInv'
    BY <2>5, LinesKept DEF Rewind, Move, TypeOK, Threads
  <2>6. ASSUME NEW c \in Conns, CopyChunk(c) PROVE LinesInv'
    BY <2>6, LinesKept DEF CopyChunk, Move, TypeOK, Threads
  <2>7. ASSUME NEW c \in Conns, SocketWriteFails(c) PROVE LinesInv'
    <3>1. /\ UNCHANGED step \/ step' = [step EXCEPT ![c] = "seekend"]
          /\ step[c] = "copy"
          /\ UNCHANGED <<file, served>>
          /\ broken \subseteq broken'
      BY <2>7 DEF SocketWriteFails, Breaks
    <3> QED
      BY <3>1, LinesKept DEF TypeOK, Threads
  <2>8. ASSUME NEW c \in Conns, CopyEnds(c) PROVE LinesInv'
    BY <2>8, LinesKept DEF CopyEnds, Breaks, Move, TypeOK, Threads
  <2>9. ASSUME NEW c \in Conns, SeekEnd(c) PROVE LinesInv'
    BY <2>9, LinesKept DEF SeekEnd, Move, TypeOK, Threads
  <2>10. ASSUME NEW c \in Conns, SeekFails(c) PROVE LinesInv'
    BY <2>10 DEF SeekFails, LinesInv, LinesComplete, Entry, Record
  <2>11. ASSUME NEW c \in Conns, UnlockAfterPacket(c) PROVE LinesInv'
    BY <2>11, LinesKept DEF UnlockAfterPacket, Unlock, Move, TypeOK, Threads
  <2>12. ASSUME NEW c \in Conns, PeerChanges(c) PROVE LinesInv'
    BY <2>12 DEF PeerChanges, LinesInv, LinesComplete, Entry, Record
  <2>13. CASE TsLock
    BY <2>13, LinesKept DEF TsLock, Move, TypeOK, Threads
  <2>14. CASE TsPrint
    <3>1. /\ step[TsThread] = "print" /\ TsThread \in Threads \ Conns
          /\ \A u \in Threads \ {TsThread} : step'[u] = step[u]
          /\ UNCHANGED served
      BY <2>14 DEF TsPrint, Move, TypeOK, Threads
    <3>2. /\ broken \subseteq broken'
          /\ \/ UNCHANGED file /\ Record(TsThread) \in broken'
             \/ file' = Append(file, Entry(TsThread, "ts"))
             \/ file' = Append(file, Entry(TsThread, "ts_cut")) /\ Record(TsThread) \in broken'
      BY <2>14, AppendPieceCases DEF TsPrint, Parts, Threads
    <3> QED
      BY <3>1, <3>2, LinesInvAppend DEF Parts, Threads
  <2>15. CASE TsUnlock
    BY <2>15, LinesKept DEF TsUnlock, Unlock, Move, TypeOK, Threads
  <2>16. CASE ProcessEnds
    BY <2>16 DEF ProcessEnds, LinesInv, LinesComplete, Entry, Record
  <2>17. CASE Terminated
    BY <2>17 DEF Terminated, dfvars, LinesInv, LinesComplete, Entry, Record
  <2> QED
    BY <2>1, <2>2, <2>3, <2>4, <2>5, <2>6, <2>7, <2>8, <2>9, <2>10, <2>11,
       <2>12, <2>13, <2>14, <2>15, <2>16, <2>17 DEF Next, PacketStep
<1> QED
  BY <1>1, <1>2, TypeCorrect, MutexCorrect, PTL DEF Spec

(* Every message in the file is followed by its own newline.               *)
THEOREM LinesCompleteCorrect == Spec => []LinesComplete
<1>1. LinesInv => LinesComplete
  BY DEF LinesInv, LinesComplete
<1> QED
  BY <1>1, LinesCorrect, PTL

(* A handler that is about to unlock has sent its client the whole file,   *)
(* ending in the client's own line.                                        *)
THEOREM ReplyCorrect == Spec => []ReplyIsSnapshot
<1>1. TypeOK /\ EchoInv /\ LinesInv => ReplyIsSnapshot
  <2> SUFFICES ASSUME TypeOK, EchoInv, LinesInv,
                      NEW c \in Conns, step[c] = "unlock", Record(c) \notin broken
               PROVE  /\ echo[c] = file
                      /\ Len(file) >= 2
                      /\ file[Len(file) - 1] = Entry(c, "msg")
                      /\ file[Len(file)] = Entry(c, "nl")
    BY DEF ReplyIsSnapshot, Entry
  <2>1. echo[c] = file
    BY FullPrefix DEF TypeOK, EchoInv
  <2> QED
    BY <2>1 DEF LinesInv
<1> QED
  BY <1>1, TypeCorrect, EchoCorrect, LinesCorrect, PTL

-----------------------------------------------------------------------------
(* The inductive invariant behind RecordsContiguous: the pieces of the     *)
(* record a thread is writing end the file; no piece is from a later one.  *)
SameRecord(p, q) == p.by = q.by /\ p.n = q.n

RecordsInv ==
    /\ \A i \in 1..Len(file) :
         /\ file[i].by = NoThread => i = 1
         /\ file[i].by # NoThread => file[i].n <= served[file[i].by]
         /\ (file[i].by # NoThread /\ file[i].n = served[file[i].by]) =>
              /\ step[file[i].by] # "out"
              /\ \A k \in i..Len(file) : SameRecord(file[k], file[i])
    /\ RecordsContiguous

(* Every piece has an author, or is a leftover, and a number.              *)
LEMMA PieceFields ==
    ASSUME TypeOK, NEW i \in 1..Len(file)
    PROVE  file[i].by \in Threads \cup {NoThread} /\ file[i].n \in Nat
<1>1. file[i] \in Piece
  BY DEF TypeOK
<1> QED
  BY <1>1 DEF Piece

(* A step that neither writes nor ends a record preserves RecordsInv.      *)
LEMMA RecordsKept ==
    ASSUME TypeOK, RecordsInv, UNCHANGED <<file, served>>,
           \A t \in Threads : step[t] # "out" => step'[t] # "out"
    PROVE  RecordsInv'
<1>1. \A i \in 1..Len(file) : file[i].by \in Threads \cup {NoThread}
  BY PieceFields
<1>2. RecordsContiguous'
  BY DEF RecordsInv, RecordsContiguous
<1>3. ASSUME NEW i \in 1..Len(file)
      PROVE  /\ file[i].by = NoThread => i = 1
             /\ file[i].by # NoThread => file[i].n <= served[file[i].by]
             /\ (file[i].by # NoThread /\ file[i].n = served[file[i].by]) =>
                  /\ step'[file[i].by] # "out"
                  /\ \A k \in i..Len(file) : SameRecord(file[k], file[i])
  BY <1>1 DEF RecordsInv
<1> QED
  BY <1>2, <1>3 DEF RecordsInv, SameRecord

(* An append by the thread that holds the mutex preserves RecordsInv.      *)
LEMMA RecordsAppend ==
    ASSUME TypeOK, TypeOK', MutualExclusion, RecordsInv,
           NEW t \in Threads, AppendsOne(t), UNCHANGED served,
           step[t] # "out",
           \A u \in Threads : step[u] # "out" => step'[u] # "out"
    PROVE  RecordsInv'
<1>1. CASE UNCHANGED file
  BY <1>1, RecordsKept
<1>2. ASSUME NEW part \in Parts,
             file' = Append(file, [by |-> t, n |-> served[t], part |-> part])
      PROVE  RecordsInv'
  <2> DEFINE e == [by |-> t, n |-> served[t], part |-> part]
             N == Len(file)
  <2>1. file \in Seq(Piece) /\ e \in Piece /\ N \in Nat
    BY DEF TypeOK, Piece
  <2>2. /\ Len(file') = N + 1
        /\ \A i \in 1..N : file'[i] = file[i]
        /\ file'[N + 1] = e
    BY <1>2, <2>1, AppendElements
  <2>3. e.by = t /\ e.n = served[t] /\ served[t] \in Nat
    BY DEF TypeOK
  <2>4. \A u \in Threads : u # t => step[u] = "out"
    BY DEF MutualExclusion
  <2>5. \A i \in 1..N : /\ file[i].by \in Threads \cup {NoThread}
                        /\ file[i].n \in Nat
    BY PieceFields
  <2>6. t # NoThread /\ NoThread \notin Threads
    BY DataFileAssumption
  <2> HIDE DEF e, N
  <2>7. \A i \in 1..N : SameRecord(file[i], e) =>
                          \A k \in i..N : SameRecord(file[k], file[i])
    BY <2>3, <2>6 DEF RecordsInv, SameRecord, N
  <2>8. \A i \in 1..N :
          (file[i].by # NoThread /\ file[i].n = served[file[i].by]) => SameRecord(file[i], e)
    BY <2>3, <2>4, <2>5 DEF RecordsInv, SameRecord, N
  <2>9. ASSUME NEW i \in 1..Len(file'), file'[i].by # NoThread,
               file'[i].n = served[file'[i].by]
        PROVE  /\ step'[file'[i].by] # "out"
               /\ \A k \in i..Len(file') : SameRecord(file'[k], file'[i])
    <3>1. CASE i = N + 1
      BY <2>1, <2>2, <2>3, <3>1 DEF SameRecord
    <3>2. CASE i \in 1..N
      <4>1. SameRecord(file[i], e) /\ file'[i] = file[i] /\ file'[i].by = t
        BY <2>2, <2>3, <2>8, <2>9, <3>2 DEF SameRecord
      <4>2. \A k \in i..N : SameRecord(file'[k], file'[i])
        BY <2>1, <2>2, <2>7, <3>2, <4>1
      <4>3. SameRecord(file'[N + 1], file'[i])
        BY <2>2, <4>1 DEF SameRecord
      <4>4. \A k \in i..Len(file') : k \in i..N \/ k = N + 1
        BY <2>1, <2>2, <3>2
      <4> QED
        BY <4>1, <4>2, <4>3, <4>4
    <3> QED
      BY <2>1, <2>2, <3>1, <3>2
  <2>10. ASSUME NEW i \in 1..Len(file')
         PROVE  /\ file'[i].by = NoThread => i = 1
                /\ file'[i].by # NoThread => file'[i].n <= served[file'[i].by]
    BY <2>1, <2>2, <2>3, <2>6 DEF RecordsInv, N
  <2>11. ASSUME NEW i \in 1..Len(file'), NEW j \in 1..Len(file'),
                i < j, SameRecord(file'[i], file'[j])
         PROVE  \A k \in i..j : SameRecord(file'[k], file'[i])
    <3>1. CASE j = N + 1
      BY <2>1, <2>2, <2>7, <2>11, <3>1 DEF SameRecord
    <3>2. CASE j \in 1..N
      BY <2>1, <2>2, <2>11, <3>2 DEF RecordsInv, RecordsContiguous, SameRecord, N
    <3> QED
      BY <2>1, <2>2, <3>1, <3>2
  <2>12. RecordsContiguous'
    BY <2>11 DEF RecordsContiguous, SameRecord
  <2> QED
    BY <2>9, <2>10, <2>12 DEF RecordsInv
<1> QED
  BY <1>1, <1>2 DEF AppendsOne

(* Ending a record preserves RecordsInv: all its pieces become old.        *)
LEMMA RecordsEnd ==
    ASSUME TypeOK, TypeOK', MutualExclusion, RecordsInv, UNCHANGED file,
           NEW t \in Threads, step[t] # "out", Unlock(t),
           \A u \in Threads \ {t} : step'[u] = step[u]
    PROVE  RecordsInv'
<1>1. /\ served'[t] = served[t] + 1
      /\ \A u \in Threads \ {t} : served'[u] = served[u]
      /\ \A u \in Threads : served[u] \in Nat
  BY DEF Unlock, TypeOK
<1>2. \A i \in 1..Len(file) : /\ file[i].by \in Threads \cup {NoThread}
                              /\ file[i].n \in Nat
  BY PieceFields
<1>3. \A i \in 1..Len(file) : file[i].by = t => file[i].n < served'[t]
  BY <1>1, <1>2, DataFileAssumption DEF RecordsInv
<1>4. RecordsContiguous'
  BY DEF RecordsInv, RecordsContiguous
<1>5. ASSUME NEW i \in 1..Len(file)
      PROVE  /\ file[i].by = NoThread => i = 1
             /\ file[i].by # NoThread => file[i].n <= served'[file[i].by]
             /\ (file[i].by # NoThread /\ file[i].n = served'[file[i].by]) =>
                  /\ step'[file[i].by] # "out"
                  /\ \A k \in i..Len(file) : SameRecord(file[k], file[i])
  <2>1. CASE file[i].by = t
    BY <1>1, <1>2, <1>3, <2>1, DataFileAssumption
  <2>2. CASE file[i].by \in Threads \ {t}
    <3>1. served'[file[i].by] = served[file[i].by] /\ step'[file[i].by] = step[file[i].by]
      BY <1>1, <2>2
    <3> QED
      BY <2>2, <3>1, DataFileAssumption DEF RecordsInv
  <2>3. CASE file[i].by = NoThread
    BY <2>3 DEF RecordsInv
  <2> QED
    BY <1>2, <2>1, <2>2, <2>3
<1> QED
  BY <1>4, <1>5 DEF RecordsInv, SameRecord

(* Whatever fails, the pieces of one record are never separated.           *)
THEOREM RecordsCorrect == Spec => []RecordsContiguous
<1>1. Init => RecordsInv
  <2> SUFFICES ASSUME Init PROVE RecordsInv
    OBVIOUS
  <2>1. Len(file) \in {0, 1} /\ \A i \in 1..Len(file) : file[i].by = NoThread
    <3>1. CASE file = <<>>
      BY <3>1
    <3>2. CASE file = <<Leftover>>
      BY <3>2 DEF Leftover
    <3> QED
      BY <3>1, <3>2 DEF Init
  <2> QED
    BY <2>1 DEF RecordsInv, RecordsContiguous
<1>2. TypeOK /\ TypeOK' /\ MutualExclusion /\ RecordsInv /\ [Next]_dfvars => RecordsInv'
  <2> SUFFICES ASSUME TypeOK, TypeOK', MutualExclusion, RecordsInv, [Next]_dfvars
               PROVE  RecordsInv'
    OBVIOUS
  <2>1. CASE UNCHANGED dfvars
    BY <2>1, RecordsKept DEF dfvars
  <2>2. ASSUME NEW c \in Conns,
               LockForPacket(c) \/ Rewind(c) \/ CopyChunk(c) \/ CopyEnds(c) \/ SeekEnd(c)
        PROVE  RecordsInv'
    BY <2>2, RecordsKept
    DEF LockForPacket, Rewind, CopyChunk, CopyEnds, SeekEnd, Move, TypeOK, Threads
  <2>3. ASSUME NEW c \in Conns, WriteMessage(c) PROVE RecordsInv'
    <3>1. AppendsOne(c)
      BY <2>3, AppendPieceAppends DEF WriteMessage, Parts, Threads
    <3> QED
      BY <2>3, <3>1, RecordsAppend DEF WriteMessage, Move, TypeOK, Threads
  <2>4. ASSUME NEW c \in Conns, WriteNewline(c) PROVE RecordsInv'
    <3>1. AppendsOne(c)
      BY <2>4, AppendPieceAppends DEF WriteNewline, Parts, Threads
    <3> QED
      BY <2>4, <3>1, RecordsAppend DEF WriteNewline, Move, TypeOK, Threads
  <2>5. ASSUME NEW c \in Conns, SocketWriteFails(c) PROVE RecordsInv'
    <3>1. /\ UNCHANGED step \/ step' = [step EXCEPT ![c] = "seekend"]
          /\ UNCHANGED <<file, served>>
      BY <2>5 DEF SocketWriteFails
    <3> QED
      BY <3>1, RecordsKept DEF TypeOK, Threads
  <2>6. ASSUME NEW c \in Conns, SeekFails(c) \/ PeerChanges(c) PROVE RecordsInv'
    BY <2>6, RecordsKept DEF SeekFails, PeerChanges
  <2>7. ASSUME NEW c \in Conns, UnlockAfterPacket(c) PROVE RecordsInv'
    BY <2>7, RecordsEnd DEF UnlockAfterPacket, Move, TypeOK, Threads
  <2>8. CASE TsLock
    BY <2>8, RecordsKept DEF TsLock, Move, TypeOK, Threads
  <2>9. CASE TsPrint
    <3>1. AppendsOne(TsThread)
      BY <2>9, AppendPieceAppends DEF TsPrint, Parts, Threads
    <3> QED
      BY <2>9, <3>1, RecordsAppend DEF TsPrint, Move, TypeOK, Threads
  <2>10. CASE TsUnlock
    BY <2>10, RecordsEnd DEF TsUnlock, Move, TypeOK, Threads
  <2>11. CASE ProcessEnds \/ Terminated
    BY <2>11, RecordsKept DEF ProcessEnds, Terminated, dfvars
  <2> QED
    BY <2>1, <2>2, <2>3, <2>4, <2>5, <2>6, <2>7, <2>8, <2>9, <2>10, <2>11
    DEF Next, PacketStep
<1>3. RecordsInv => RecordsContiguous
  BY DEF RecordsInv
<1> QED
  BY <1>1, <1>2, <1>3, TypeCorrect, MutexCorrect, PTL DEF Spec
=============================================================================
