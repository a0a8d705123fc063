-------------------------- MODULE LineBufferProofs --------------------------
(***************************************************************************)
(* TLAPS proofs about LineBuffer, for any chunk size and any data.         *)
(***************************************************************************)
EXTENDS LineBuffer, FiniteSetTheorems, WellFoundedInduction, TLAPS

(* Induction on natural numbers, as the fact that a set of them has a      *)
(* least element.                                                          *)
LEMMA Least ==
    ASSUME NEW T \in SUBSET Nat, T # {}
    PROVE  \E x \in T : \A y \in T : x <= y
<1> DEFINE R == OpToRel(<, Nat)
<1>1. IsWellFoundedOn(R, Nat)
  BY NatLessThanWellFounded
<1>2. \A x, y \in Nat : <<y, x>> \in R <=> y < x
  BY DEF OpToRel
<1> HIDE DEF R
<1>3. PICK x \in T : \A y \in T : ~(<<y, x>> \in R)
  BY <1>1, WFMin
<1>4. \A y \in T : ~(y < x)
  BY <1>2, <1>3
<1> QED
  BY <1>4

(* Copying into a buffer keeps its length.                                 *)
LEMMA OverwriteLength ==
    ASSUME NEW b \in Seq(Byte), NEW s \in Seq(Byte), NEW at \in Nat
    PROVE  Overwrite(b, at, s) \in Seq(Byte) /\ Len(Overwrite(b, at, s)) = Len(b)
<1>1. ASSUME NEW i \in 1..Len(b), i \in (at + 1)..(at + Len(s))
      PROVE  s[i - at] \in Byte
  <2>1. i - at \in 1..Len(s)
    BY <1>1
  <2> QED
    BY <2>1
<1> QED
  BY <1>1 DEF Overwrite

(* Cleared memory is a buffer of the length asked for.                     *)
LEMMA ZerosLength ==
    ASSUME NEW n \in Nat
    PROVE  Zeros(n) \in Seq(Byte) /\ Len(Zeros(n)) = n
BY DEF Zeros, Byte

(* Growing adds a chunk.                                                   *)
LEMMA GrowLength ==
    ASSUME NEW b \in Seq(Byte), NEW at \in Nat
    PROVE  Grow(b, at) \in Seq(Byte) /\ Len(Grow(b, at)) = Len(b) + buf_chunk_size
<1>1. buf_chunk_size \in Nat
  BY LineBufferAssumption
<1>2. /\ b \o Zeros(buf_chunk_size) \in Seq(Byte)
      /\ Len(b \o Zeros(buf_chunk_size)) = Len(b) + buf_chunk_size
  BY <1>1, ZerosLength
<1> QED
  BY <1>1, <1>2, ZerosLength, OverwriteLength DEF Grow

(* The first x among the first n bytes.                                    *)
IsFirst(b, n, x, i) == i \in 1..n /\ b[i] = x /\ \A j \in 1..(i-1) : b[j] # x

(* A byte that occurs in a buffer has a first occurrence.                  *)
LEMMA FirstOccurrence ==
    ASSUME NEW b, NEW n \in Nat, NEW x, NEW k \in 1..n, b[k] = x
    PROVE  \E i : IsFirst(b, n, x, i)
<1> DEFINE T == {i \in 1..n : b[i] = x}
<1>1. T \in SUBSET Nat /\ T # {}
  OBVIOUS
<1>2. PICK i \in T : \A j \in T : i <= j
  BY <1>1, Least
<1>3. \A j \in 1..(i-1) : j \notin T
  BY <1>2
<1> QED
  BY <1>2, <1>3 DEF IsFirst

(* The newline that is found, and the token before it, lie in the buffer.  *)
LEMMA FirstNewlineType ==
    ASSUME buf \in Seq(Byte), HasNewline
    PROVE  FirstNewline \in 1..Len(buf) /\ buf[FirstNewline] = "nl"
<1>1. PICK k \in 1..Len(buf) : buf[k] = "nl"
  BY DEF HasNewline, len
<1>2. \E i : IsFirst(buf, Len(buf), "nl", i)
  BY <1>1, FirstOccurrence
<1>3. \E i \in 1..Len(buf) : buf[i] = "nl" /\ \A j \in 1..(i-1) : buf[j] # "nl"
  BY <1>2 DEF IsFirst
<1> QED
  BY <1>3 DEF FirstNewline, len

(* What strlen() sees of a buffer is a string of bytes.                    *)
LEMMA CStringType ==
    ASSUME NEW b \in Seq(Byte), NEW n \in 0..Len(b)
    PROVE  CString(b, n) \in Seq(Byte)
<1>1. ASSUME NEW m \in 0..Len(b) PROVE SubSeq(b, 1, m) \in Seq(Byte)
  OBVIOUS
<1>2. CASE \E i \in 1..n : b[i] = "nul"
  <2> DEFINE z == CHOOSE i \in 1..n : b[i] = "nul" /\ \A j \in 1..(i-1) : b[j] # "nul"
  <2>1. PICK k \in 1..n : b[k] = "nul"
    BY <1>2
  <2>2. n \in Nat
    OBVIOUS
  <2>3. \E i : IsFirst(b, n, "nul", i)
    BY <2>1, <2>2, FirstOccurrence
  <2>4. \E i \in 1..n : b[i] = "nul" /\ \A j \in 1..(i-1) : b[j] # "nul"
    BY <2>3 DEF IsFirst
  <2>5. z \in 1..n
    BY <2>4
  <2>6. CString(b, n) = SubSeq(b, 1, z - 1)
    BY <1>2 DEF CString
  <2> HIDE DEF z
  <2>7. z - 1 \in 0..Len(b)
    BY <2>5
  <2> QED
    BY <1>1, <2>6, <2>7
<1>3. CASE ~(\E i \in 1..n : b[i] = "nul")
  BY <1>1, <1>3 DEF CString
<1> QED
  BY <1>2, <1>3

(* Moving the rest of the buffer to its beginning keeps its length.        *)
LEMMA ScootchType ==
    ASSUME NEW b \in Seq(Byte), NEW i \in 1..Len(b)
    PROVE  Scootch(b, i) \in Seq(Byte) /\ Len(Scootch(b, i)) = Len(b)
<1>1. ASSUME NEW j \in 1..Len(b), j + i <= Len(b) PROVE b[j + i] \in Byte
  BY <1>1
<1> QED
  BY <1>1 DEF Scootch, Byte

-----------------------------------------------------------------------------
(* While the loop receives, there is exactly one chunk of room behind what *)
(* it has received.                                                        *)
RoomInv ==
    pc = "recv" =>
        /\ buf \in Seq(Byte)
        /\ index \in Nat
        /\ index + buf_chunk_size = Len(buf)

(* A full recv() makes as much room as it used.                            *)
LEMMA RoomStep == RoomInv /\ [Next]_vars => RoomInv'
<1> USE LineBufferAssumption
<1> SUFFICES ASSUME RoomInv, [Next]_vars PROVE RoomInv'
  OBVIOUS
<1>1. CASE UNCHANGED vars \/ Returned
  BY <1>1 DEF vars, Returned, RoomInv
<1>2. CASE RecvFull
  <2>1. PICK data \in [1..buf_chunk_size -> Data] :
          /\ index' = index + buf_chunk_size
          /\ buf' = Grow(Overwrite(buf, index, data), index')
          /\ pc = "recv" /\ UNCHANGED pc
    BY <1>2 DEF RecvFull
  <2>2. data \in Seq(Byte)
    BY DEF Byte
  <2>3. /\ Overwrite(buf, index, data) \in Seq(Byte)
        /\ Len(Overwrite(buf, index, data)) = Len(buf)
        /\ index' \in Nat
    BY <2>1, <2>2, OverwriteLength DEF RoomInv
  <2>4. buf' \in Seq(Byte) /\ Len(buf') = Len(buf) + buf_chunk_size
    BY <2>1, <2>3, GrowLength
  <2> QED
    BY <2>1, <2>3, <2>4 DEF RoomInv
<1>3. CASE RecvShort \/ RecvEnds \/ ExtractToken \/ NoMoreTokens
  <2>1. pc' # "recv"
    BY <1>3 DEF RecvShort, RecvEnds, ExtractToken, NoMoreTokens
  <2> QED
    BY <2>1 DEF RoomInv
<1> QED
  BY <1>1, <1>2, <1>3 DEF Next

(* No recv() writes behind the end of the buffer, however much it returns. *)
THEOREM NeverOverruns == Spec => []NoOverrun
<1> USE LineBufferAssumption
<1>1. Init => RoomInv
  BY ZerosLength DEF Init, RoomInv
<1>2. RoomInv /\ [Next]_vars => RoomInv'
  BY RoomStep
<1>3. RoomInv => NoOverrun
  BY DEF RoomInv, NoOverrun, len
<1> QED
  BY <1>1, <1>2, <1>3, PTL DEF Spec

-----------------------------------------------------------------------------
(* The buffer holds bytes, and every token is a string of bytes: what is   *)
(* given to handle_packet() lies inside the buffer.                        *)
THEOREM TypeCorrect == Spec => []TypeOK
<1> USE LineBufferAssumption
<1>1. Init => RoomInv /\ TypeOK
  BY ZerosLength DEF Init, RoomInv, TypeOK
<1>2. TypeOK /\ RoomInv /\ [Next]_vars => TypeOK'
  <2> SUFFICES ASSUME TypeOK, RoomInv, [Next]_vars PROVE TypeOK'
    OBVIOUS
  <2> USE DEF TypeOK
  <2>1. CASE UNCHANGED vars \/ Returned
    BY <2>1 DEF vars, Returned
  <2>2. CASE RecvFull \/ RecvShort
    <3>1. PICK n \in Nat : \E data \in [1..n -> Data] :
            /\ received' = received \o data
            /\ index' \in {index, index + n}
            /\ \/ buf' = Overwrite(buf, index, data)
               \/ buf' = Grow(Overwrite(buf, index, data), index')
      <4>1. CASE RecvFull
        BY <4>1 DEF RecvFull
      <4>2. CASE RecvShort
        <5>1. PICK n \in 1..(buf_chunk_size - 1) : \E data \in [1..n -> Data] :
                /\ received' = received \o data
                /\ index' \in {index, index + n}
                /\ \/ buf' = Overwrite(buf, index, data)
                   \/ buf' = Grow(Overwrite(buf, index, data), index')
          BY <4>2 DEF RecvShort
        <5>2. n \in Nat
          OBVIOUS
        <5> QED
          BY <5>1, <5>2
      <4> QED
        BY <2>2, <4>1, <4>2
    <3>0. pc' \in {"recv", "tokens"} /\ UNCHANGED <<packets, calls>>
      BY <2>2 DEF RecvFull, RecvShort
    <3>6. PICK data \in [1..n -> Data] :
            /\ received' = received \o data
            /\ index' \in {index, index + n}
            /\ \/ buf' = Overwrite(buf, index, data)
               \/ buf' = Grow(Overwrite(buf, index, data), index')
      BY <3>1
    <3>2. data \in Seq(Data) /\ data \in Seq(Byte)
      BY DEF Byte
    <3>3. received' \in Seq(Data) /\ index' \in Nat
      BY <3>6, <3>2
    <3>4. Overwrite(buf, index, data) \in Seq(Byte)
      BY <3>2, OverwriteLength
    <3>5. Grow(Overwrite(buf, index, data), index') \in Seq(Byte)
      BY <3>3, <3>4, GrowLength
    <3> QED
      BY <3>0, <3>6, <3>3, <3>4, <3>5
  <2>3. CASE RecvEnds \/ NoMoreTokens
    BY <2>3 DEF RecvEnds, NoMoreTokens
  <2>4. CASE ExtractToken
    <3>1. FirstNewline \in 1..Len(buf)
      BY <2>4, FirstNewlineType DEF ExtractToken
    <3>2. buf' \in Seq(Byte)
      BY <2>4, <3>1, ScootchType DEF ExtractToken
    <3>3. CString(buf, FirstNewline - 1) \in Seq(Byte)
      BY <3>1, CStringType
    <3>4. packets' \in Seq(Seq(Byte))
      BY <2>4, <3>3 DEF ExtractToken
    <3>5. calls' \in {0, 1} /\ UNCHANGED <<pc, index, received>>
      BY <2>4 DEF ExtractToken
    <3> QED
      BY <3>2, <3>4, <3>5
  <2> QED
    BY <2>1, <2>2, <2>3, <2>4 DEF Next
<1>3. RoomInv /\ [Next]_vars => RoomInv'
  BY RoomStep
<1> QED
  BY <1>1, <1>2, <1>3, PTL DEF Spec

-----------------------------------------------------------------------------
(* Where lines end.  Before(i) is how many newlines there are up to i.     *)
Before(i) == Cardinality({j \in Newlines : j <= i})

(* Each byte adds one if it is a newline.                                  *)
LEMMA BeforeCounts ==
    ASSUME received \in Seq(Data)
    PROVE  /\ LineCount \in Nat /\ LineCount <= Len(received)
           /\ Before(0) = 0
           /\ Before(Len(received)) = LineCount
           /\ \A i \in Nat :
                /\ Before(i) \in Nat /\ Before(i) <= LineCount
                /\ Before(i + 1) = IF i + 1 \in Newlines THEN Before(i) + 1
                                   ELSE Before(i)
<1> DEFINE U(i) == {j \in Newlines : j <= i}
<1>1. IsFiniteSet(Newlines) /\ LineCount \in Nat /\ LineCount <= Len(received)
  <2>0. Len(received) \in Nat
    OBVIOUS
  <2>1. IsFiniteSet(1..Len(received)) /\ Cardinality(1..Len(received)) = Len(received)
    <3>1. /\ IsFiniteSet(1..Len(received))
          /\ Cardinality(1..Len(received)) =
               IF 1 > Len(received) THEN 0 ELSE Len(received) - 1 + 1
      BY <2>0, FS_Interval
    <3> QED
      BY <2>0, <3>1
  <2>2. Newlines \in SUBSET (1..Len(received))
    BY DEF Newlines
  <2>3. IsFiniteSet(Newlines) /\ Cardinality(Newlines) <= Len(received)
    BY <2>1, <2>2, FS_Subset
  <2>4. Cardinality(Newlines) \in Nat
    BY <2>3, FS_CardinalityType
  <2> QED
    BY <2>3, <2>4 DEF LineCount
<1>2. Before(0) = 0
  <2>1. U(0) = {}
    BY DEF Newlines
  <2> QED
    BY <2>1, FS_EmptySet DEF Before
<1>3. Before(Len(received)) = LineCount
  <2>1. U(Len(received)) = Newlines
    BY DEF Newlines
  <2> QED
    BY <2>1 DEF Before, LineCount
<1>4. ASSUME NEW i \in Nat
      PROVE  /\ Before(i) \in Nat /\ Before(i) <= LineCount
             /\ Before(i + 1) = IF i + 1 \in Newlines THEN Before(i) + 1 ELSE Before(i)
  <2>1. IsFiniteSet(U(i)) /\ Cardinality(U(i)) <= LineCount
    BY <1>1, FS_Subset DEF LineCount
  <2>2. Before(i) \in Nat /\ Before(i) <= LineCount
    BY <1>1, <2>1, FS_CardinalityType DEF Before
  <2>3. CASE i + 1 \in Newlines
    <3>1. U(i + 1) = U(i) \cup {i + 1} /\ i + 1 \notin U(i)
      BY <2>3 DEF Newlines
    <3> HIDE DEF U
    <3>2. Cardinality(U(i + 1)) = Cardinality(U(i)) + 1
      BY <2>1, <3>1, FS_AddElement
    <3> QED
      BY <2>2, <2>3, <3>2 DEF Before, U
  <2>4. CASE i + 1 \notin Newlines
    <3>1. U(i + 1) = U(i)
      BY <2>4 DEF Newlines
    <3> QED
      BY <2>2, <2>4, <3>1 DEF Before
  <2> QED
    BY <2>2, <2>3, <2>4
<1> QED
  BY <1>1, <1>2, <1>3, <1>4

(* The count of newlines never falls, and rises at each of them.           *)
LEMMA BeforeGrows ==
    ASSUME received \in Seq(Data), NEW i \in Nat, NEW j \in Nat, i < j
    PROVE  Before(i) <= Before(j) /\ (j \in Newlines => Before(i) < Before(j))
<1> DEFINE Grows(m) == Before(i) <= Before(i + m)
           T == {m \in Nat : ~Grows(m)}
<1>0. \A m \in Nat : Before(m) \in Nat
  BY BeforeCounts
<1>1. T = {}
  <2> SUFFICES ASSUME T # {} PROVE FALSE
    OBVIOUS
  <2>1. T \in SUBSET Nat
    OBVIOUS
  <2>2. PICK m \in T : \A l \in T : m <= l
    <3> HIDE DEF T
    <3> QED
      BY <2>1, Least
  <2>3. m \in Nat /\ ~Grows(m)
    BY <2>2
  <2>8. m # 0
    <3>1. i + 0 = i
      OBVIOUS
    <3>2. Before(i) \in Nat
      BY <1>0
    <3>3. Grows(0)
      BY <3>1, <3>2
    <3> HIDE DEF Grows
    <3> QED
      BY <2>3, <3>3
  <2>4. m - 1 \in Nat /\ Grows(m - 1)
    <3>1. m - 1 \in Nat /\ m - 1 < m
      BY <2>3, <2>8
    <3>2. m - 1 \notin T
      <4> HIDE DEF T
      <4>1. m - 1 \in T => m <= m - 1
        BY <2>2
      <4> QED
        BY <3>1, <4>1, <2>3
    <3> HIDE DEF Grows
    <3> QED
      BY <3>1, <3>2
  <2>5. Before((i + (m - 1)) + 1) >= Before(i + (m - 1))
    <3> DEFINE p == i + (m - 1)
    <3>1. p \in Nat
      BY <2>4
    <3> HIDE DEF p
    <3>2. /\ Before(p) \in Nat
          /\ Before(p + 1) = IF p + 1 \in Newlines THEN Before(p) + 1 ELSE Before(p)
      BY <3>1, BeforeCounts
    <3>3. Before(p + 1) >= Before(p)
      BY <3>2
    <3> QED
      BY <3>3 DEF p
  <2>6. (i + (m - 1)) + 1 = i + m
    BY <2>3
  <2>7. Grows(m)
    <3>1. i + (m - 1) \in Nat /\ i + m \in Nat
      BY <2>3, <2>4
    <3>2. Before(i) \in Nat /\ Before(i + (m - 1)) \in Nat /\ Before(i + m) \in Nat
      BY <1>0, <3>1
    <3>3. Before(i + m) >= Before(i + (m - 1))
      BY <2>5, <2>6
    <3>4. Before(i) <= Before(i + (m - 1))
      BY <2>4
    <3> QED
      BY <3>2, <3>3, <3>4
  <2> HIDE DEF Grows
  <2> QED
    BY <2>3, <2>7
<1>2. j - 1 - i \in Nat /\ j - i \in Nat /\ j - 1 \in Nat
  OBVIOUS
<1>3. Grows(j - 1 - i) /\ Grows(j - i)
  BY <1>1, <1>2
<1>4. Before(i) <= Before(j - 1) /\ Before(i) <= Before(j)
  <2>1. i + (j - 1 - i) = j - 1 /\ i + (j - i) = j
    OBVIOUS
  <2> QED
    BY <1>3, <2>1
<1>5. j \in Newlines => Before(j) = Before(j - 1) + 1
  <2>1. (j - 1) + 1 = j
    OBVIOUS
  <2> QED
    BY <1>2, <2>1, BeforeCounts
<1> QED
  BY <1>0, <1>2, <1>4, <1>5

(* The k-th newline is where it should be, and no other newline lies       *)
(* between two that follow each other, or behind the last one.             *)
LEMMA LineEnds ==
    ASSUME received \in Seq(Data)
    PROVE  /\ LineEnd(0) = 0
           /\ \A k \in 0..LineCount :
                /\ LineEnd(k) \in 0..Len(received)
                /\ k # 0 => LineEnd(k) \in Newlines
                /\ k # LineCount => LineEnd(k) < LineEnd(k + 1)
                /\ k # LineCount => LineEnd(k + 1) <= LineEnd(LineCount)
                /\ \A i \in Newlines :
                     /\ k # LineCount => ~(LineEnd(k) < i /\ i < LineEnd(k + 1))
                     /\ i <= LineEnd(LineCount)
<1>0. /\ \A i \in Nat : Before(i) \in Nat
      /\ LineCount \in Nat /\ Len(received) \in Nat
      /\ Newlines \subseteq 1..Len(received)
      /\ Before(0) = 0
  <2>1. Newlines \subseteq 1..Len(received)
    BY DEF Newlines
  <2>2. Len(received) \in Nat
    OBVIOUS
  <2> QED
    BY <2>1, <2>2, BeforeCounts
<1>1. LineEnd(0) = 0
  BY DEF LineEnd
<1>2. ASSUME NEW k \in 1..LineCount PROVE LineEnd(k) \in Newlines /\ Before(LineEnd(k)) = k
  <2> DEFINE T == {i \in Nat : Before(i) >= k}
  <2>1. T \in SUBSET Nat /\ T # {}
    <3>1. T \in SUBSET Nat
      OBVIOUS
    <3>2. Before(Len(received)) = LineCount
      BY BeforeCounts
    <3>3. LineCount >= k
      BY <1>0
    <3>4. Before(Len(received)) >= k
      BY <3>2, <3>3
    <3>5. Len(received) \in T
      BY <1>0, <3>4
    <3> HIDE DEF T
    <3> QED
      BY <3>1, <3>5
  <2>2. PICK i \in T : \A j \in T : i <= j
    <3> HIDE DEF T
    <3> QED
      BY <2>1, Least
  <2>3. i # 0
    BY <1>0, <2>2
  <2>4. i - 1 \in Nat /\ i - 1 \notin T
    BY <2>2, <2>3
  <2>5. Before(i - 1) < k /\ Before(i) >= k
    BY <1>0, <2>4
  <2>6. Before(i) = IF i \in Newlines THEN Before(i - 1) + 1 ELSE Before(i - 1)
    <3>1. (i - 1) + 1 = i
      OBVIOUS
    <3> QED
      BY <2>4, <3>1, BeforeCounts
  <2>7. i \in Newlines /\ Before(i) = k
    BY <1>0, <2>4, <2>5, <2>6
  <2>8. \E m \in Newlines : Before(m) = k
    BY <2>7
  <2>9. LineEnd(k) = CHOOSE m \in Newlines : Before(m) = k
    <3>1. k # 0
      OBVIOUS
    <3> QED
      BY <3>1 DEF LineEnd, Before
  <2>10. LineEnd(k) \in Newlines /\ Before(LineEnd(k)) = k
    BY <2>8, <2>9
  <2> QED
    BY <2>10
<1>3. ASSUME NEW k \in 0..LineCount
      PROVE  /\ LineEnd(k) \in 0..Len(received) /\ Before(LineEnd(k)) = k
             /\ k # 0 => LineEnd(k) \in Newlines
  <2>1. CASE k = 0
    BY <1>0, <1>1, <2>1
  <2>2. CASE k # 0
    <3>1. k \in 1..LineCount
      BY <1>0, <2>2
    <3>2. LineEnd(k) \in Newlines /\ Before(LineEnd(k)) = k
      BY <1>2, <3>1
    <3>3. LineEnd(k) \in 1..Len(received)
      BY <1>0, <3>2
    <3>4. LineEnd(k) \in 0..Len(received)
      BY <1>0, <3>3
    <3> QED
      BY <3>2, <3>4
  <2> QED
    BY <2>1, <2>2
<1>4. ASSUME NEW k \in 0..LineCount, NEW l \in 0..LineCount, k < l
      PROVE  LineEnd(k) < LineEnd(l)
  <2>1. LineEnd(k) \in Nat /\ LineEnd(l) \in Nat /\ Before(LineEnd(k)) = k
        /\ Before(LineEnd(l)) = l
    BY <1>3
  <2>2. CASE LineEnd(l) < LineEnd(k)
    BY <1>4, <2>1, <2>2, BeforeGrows
  <2>3. CASE LineEnd(l) = LineEnd(k)
    BY <1>4, <2>1, <2>3
  <2> QED
    BY <2>1, <2>2, <2>3
<1>5. ASSUME NEW k \in 0..LineCount, k # LineCount, NEW i \in Newlines,
             LineEnd(k) < i, i < LineEnd(k + 1)
      PROVE  FALSE
  <2>1. k + 1 \in 0..LineCount /\ k + 1 # 0
    BY <1>0, <1>5
  <2>2. /\ LineEnd(k) \in Nat /\ LineEnd(k + 1) \in Nat /\ i \in Nat
        /\ Before(LineEnd(k)) = k /\ Before(LineEnd(k + 1)) = k + 1
        /\ LineEnd(k + 1) \in Newlines
    BY <1>0, <1>3, <2>1
  <2>3. k < Before(i) /\ Before(i) < k + 1
    BY <1>5, <2>2, BeforeGrows
  <2> QED
    BY <1>0, <2>2, <2>3
<1>6. ASSUME NEW i \in Newlines PROVE i <= LineEnd(LineCount)
  <2>1. LineEnd(LineCount) \in Nat /\ Before(LineEnd(LineCount)) = LineCount /\ i \in Nat
    BY <1>0, <1>3
  <2>2. Before(i) <= LineCount
    BY <1>0, <2>1, BeforeCounts
  <2>3. LineEnd(LineCount) < i => LineCount < Before(i)
    BY <2>1, BeforeGrows
  <2> QED
    BY <1>0, <2>1, <2>2, <2>3
<1>7. ASSUME NEW k \in 0..LineCount, k # LineCount
      PROVE  LineEnd(k) < LineEnd(k + 1) /\ LineEnd(k + 1) <= LineEnd(LineCount)
  <2>1. k + 1 \in 0..LineCount /\ k < k + 1
    BY <1>0, <1>7
  <2>2. LineEnd(k) < LineEnd(k + 1)
    BY <1>4, <2>1
  <2>3. LineEnd(k + 1) \in Newlines
    BY <1>3, <2>1
  <2> QED
    BY <1>6, <2>2, <2>3
<1> QED
  BY <1>1, <1>3, <1>5, <1>6, <1>7

-----------------------------------------------------------------------------
(* The tokens.  The buffer holds what has been received, and zeros, until  *)
(* the first token is taken out.                                           *)
Fresh ==
    /\ packets = <<>>
    /\ Len(received) <= Len(buf)
    /\ \A i \in 1..Len(buf) : buf[i] = IF i <= Len(received) THEN received[i] ELSE "nul"

(* After the first j lines it begins with what lies between the end of the *)
(* j-th line and that of the last one, and no newline lies behind.         *)
Taken(j) ==
    /\ j \in 0..LineCount
    /\ Len(packets) = j
    /\ \A k \in 1..j : packets[k] = Lines[k]
    /\ LineEnd(LineCount) - LineEnd(j) <= Len(buf)
    /\ \A i \in 1..(LineEnd(LineCount) - LineEnd(j)) : buf[i] = received[LineEnd(j) + i]
    /\ \A i \in 1..Len(buf) : buf[i] = "nl" => i <= LineEnd(LineCount) - LineEnd(j)

(* There are as many lines as newlines.                                    *)
LEMMA LinesType ==
    ASSUME received \in Seq(Data)
    PROVE  Len(Lines) = LineCount /\ DOMAIN Lines = 1..LineCount
<1>1. LineCount \in Nat
  BY BeforeCounts
<1>2. DOMAIN Lines = 1..LineCount
  BY DEF Lines
<1>3. Lines = [k \in 1..LineCount |-> SubSeq(received, LineEnd(k - 1) + 1, LineEnd(k) - 1)]
  BY DEF Lines
<1>4. Len([k \in 1..LineCount |-> SubSeq(received, LineEnd(k - 1) + 1, LineEnd(k) - 1)])
        = LineCount
  BY <1>1
<1> QED
  BY <1>2, <1>3, <1>4

(* Before the first token none has been taken out.                         *)
LEMMA FreshTaken ==
    ASSUME TypeOK, Fresh
    PROVE  Taken(0)
<1>1. received \in Seq(Data) /\ buf \in Seq(Byte)
  BY DEF TypeOK
<1>2. /\ LineCount \in Nat /\ Len(received) \in Nat /\ Len(buf) \in Nat
      /\ Newlines \subseteq 1..Len(received)
  <2>1. Newlines \subseteq 1..Len(received)
    BY DEF Newlines
  <2>2. LineCount \in Nat
    BY <1>1, BeforeCounts
  <2> QED
    BY <1>1, <2>1, <2>2
<1>3. /\ LineEnd(0) = 0
      /\ LineEnd(LineCount) \in 0..Len(received)
      /\ \A i \in Newlines : i <= LineEnd(LineCount)
  <2>1. LineCount \in 0..LineCount
    BY <1>2
  <2> QED
    BY <1>1, <2>1, LineEnds
<1>4. \A i \in 1..LineEnd(LineCount) : buf[i] = received[0 + i]
  BY <1>2, <1>3 DEF Fresh
<1>5. ASSUME NEW i \in 1..Len(buf), buf[i] = "nl" PROVE i <= LineEnd(LineCount)
  <2>1. i <= Len(received)
    BY <1>5 DEF Fresh
  <2>2. i \in Newlines
    BY <1>5, <2>1 DEF Fresh, Newlines
  <2> QED
    BY <1>3, <2>2
<1>6. packets = <<>> /\ Len(received) <= Len(buf)
  BY DEF Fresh
<1> DEFINE e == LineEnd(LineCount)
<1>7. /\ e \in Nat /\ e - 0 = e /\ e <= Len(buf)
      /\ \A i \in 1..e : buf[i] = received[0 + i]
      /\ \A i \in 1..Len(buf) : buf[i] = "nl" => i <= e
  BY <1>2, <1>3, <1>4, <1>5, <1>6
<1> HIDE DEF e
<1>8. Len(packets) = 0 /\ \A k \in 1..0 : packets[k] = Lines[k]
  BY <1>6
<1> QED
  BY <1>2, <1>3, <1>7, <1>8 DEF Taken, e

(* The first newline is the end of the next line; none is found when the   *)
(* last line has been taken out.                                           *)
LEMMA NextLine ==
    ASSUME TypeOK, NEW j, Taken(j)
    PROVE  /\ HasNewline <=> j # LineCount
           /\ j # LineCount =>
                /\ j + 1 \in 1..LineCount
                /\ LineEnd(j) \in 0..Len(received)
                /\ LineEnd(j + 1) \in 0..Len(received)
                /\ LineEnd(LineCount) \in 0..Len(received)
                /\ LineEnd(j) < LineEnd(j + 1)
                /\ LineEnd(j + 1) <= LineEnd(LineCount)
                /\ FirstNewline = LineEnd(j + 1) - LineEnd(j)
                /\ \A i \in 1..(FirstNewline - 1) : buf[i] # "nl" /\ buf[i] # "nul"
                /\ FirstNewline <= Len(buf)
<1>1. received \in Seq(Data) /\ buf \in Seq(Byte)
  BY DEF TypeOK
<1>2. /\ LineCount \in Nat /\ Len(received) \in Nat /\ Len(buf) \in Nat
      /\ Newlines \subseteq 1..Len(received)
      /\ \A i \in Newlines : received[i] = "nl"
      /\ \A i \in 1..Len(received) : received[i] = "nl" => i \in Newlines
  <2>1. /\ Newlines \subseteq 1..Len(received) /\ \A i \in Newlines : received[i] = "nl"
        /\ \A i \in 1..Len(received) : received[i] = "nl" => i \in Newlines
    BY DEF Newlines
  <2>2. LineCount \in Nat
    BY <1>1, BeforeCounts
  <2> QED
    BY <1>1, <2>1, <2>2
<1>3. /\ j \in 0..LineCount
      /\ LineEnd(LineCount) - LineEnd(j) <= Len(buf)
      /\ \A i \in 1..(LineEnd(LineCount) - LineEnd(j)) : buf[i] = received[LineEnd(j) + i]
      /\ \A i \in 1..Len(buf) : buf[i] = "nl" => i <= LineEnd(LineCount) - LineEnd(j)
  BY DEF Taken
<1>4. CASE j = LineCount
  <2>1. LineEnd(j) \in Nat
    BY <1>1, <1>2, <1>3, LineEnds
  <2>2. LineEnd(LineCount) - LineEnd(j) = 0
    BY <1>4, <2>1
  <2>3. ~HasNewline
    BY <1>2, <1>3, <2>2 DEF HasNewline, len
  <2> QED
    BY <1>4, <2>3
<1>5. CASE j # LineCount
  <2>0. j + 1 \in 0..LineCount /\ j + 1 \in 1..LineCount /\ j + 1 # 0 /\ LineCount \in 0..LineCount
    BY <1>2, <1>3, <1>5
  <2>1. /\ LineEnd(j) \in 0..Len(received)
        /\ LineEnd(j) < LineEnd(j + 1)
        /\ LineEnd(j + 1) <= LineEnd(LineCount)
        /\ \A i \in Newlines : ~(LineEnd(j) < i /\ i < LineEnd(j + 1))
    BY <1>1, <1>3, <1>5, LineEnds
  <2>2. /\ LineEnd(j + 1) \in 0..Len(received) /\ LineEnd(j + 1) \in Newlines
        /\ LineEnd(LineCount) \in 0..Len(received)
    BY <1>1, <2>0, LineEnds
  <2> DEFINE a == LineEnd(j)
             b == LineEnd(j + 1)
             e == LineEnd(LineCount)
  <2>3. /\ a \in 0..Len(received) /\ b \in 0..Len(received) /\ e \in 0..Len(received)
        /\ a < b /\ b <= e /\ b \in Newlines
        /\ \A i \in Newlines : ~(a < i /\ i < b)
        /\ e - a <= Len(buf)
        /\ \A i \in 1..(e - a) : buf[i] = received[a + i]
    BY <1>3, <2>1, <2>2
  <2> HIDE DEF a, b, e
  <2>4. b - a \in 1..Len(buf) /\ b - a \in 1..(e - a) /\ a + (b - a) = b
    BY <1>2, <2>3
  <2>5. buf[b - a] = "nl"
    <3>1. buf[b - a] = received[a + (b - a)]
      BY <2>3, <2>4
    <3>2. received[b] = "nl"
      BY <1>2, <2>3
    <3> QED
      BY <2>4, <3>1, <3>2
  <2>6. ASSUME NEW i \in 1..((b - a) - 1) PROVE buf[i] # "nl" /\ buf[i] # "nul"
    <3>1. i \in 1..(e - a) /\ a + i \in 1..Len(received) /\ a < a + i /\ a + i < b
      BY <1>2, <2>3
    <3>2. buf[i] = received[a + i]
      BY <2>3, <3>1
    <3>3. a + i \notin Newlines
      BY <2>3, <3>1
    <3>4. received[a + i] # "nl"
      BY <1>2, <3>1, <3>3
    <3>5. received[a + i] \in Data
      BY <1>1, <3>1
    <3>6. received[a + i] # "nul"
      BY <3>5, LineBufferAssumption
    <3> QED
      BY <3>2, <3>4, <3>6
  <2>7. HasNewline
    BY <2>4, <2>5 DEF HasNewline, len
  <2>8. FirstNewline = b - a
    <3>1. FirstNewline \in 1..Len(buf) /\ buf[FirstNewline] = "nl"
          /\ \A i \in 1..(FirstNewline - 1) : buf[i] # "nl"
      <4>1. \E i \in 1..Len(buf) : buf[i] = "nl" /\ \A l \in 1..(i-1) : buf[l] # "nl"
        BY <2>4, <2>5, <2>6
      <4> QED
        BY <4>1 DEF FirstNewline, len
    <3> DEFINE f == FirstNewline
    <3>2. f \in 1..Len(buf) /\ buf[f] = "nl" /\ \A i \in 1..(f - 1) : buf[i] # "nl"
      BY <3>1
    <3> HIDE DEF f
    <3>3. ~(f < b - a)
      BY <2>4, <2>6, <3>2
    <3>4. ~(b - a < f)
      BY <2>4, <2>5, <3>2
    <3>5. f = b - a
      BY <2>4, <3>2, <3>3, <3>4
    <3> QED
      BY <3>5 DEF f
  <2> QED
    BY <1>5, <2>0, <2>3, <2>4, <2>6, <2>7, <2>8 DEF a, b, e
<1> QED
  BY <1>4, <1>5

(* Nothing but recv() changes where lines end.                             *)
LEMMA SameLines ==
    ASSUME received' = received
    PROVE  /\ LineCount' = LineCount
           /\ \A k \in Nat : LineEnd(k)' = LineEnd(k)
           /\ Lines' = Lines
           /\ Len(buf)' = Len(buf) => (WellSpaced' <=> WellSpaced)
<1>1. Newlines' = Newlines
  BY DEF Newlines
<1>2. LineCount' = LineCount
  BY <1>1 DEF LineCount
<1>3. ASSUME NEW k PROVE LineEnd(k)' = LineEnd(k)
  BY <1>1 DEF LineEnd
<1>4. Lines' = Lines
  BY <1>2, <1>3 DEF Lines
<1>5. ASSUME Len(buf)' = Len(buf) PROVE WellSpaced' <=> WellSpaced
  BY <1>2, <1>3, <1>5 DEF WellSpaced, len
<1> QED
  BY <1>2, <1>3, <1>4, <1>5

(* The token is the next line.                                             *)
LEMMA TokenIsLine ==
    ASSUME TypeOK, NEW j, Taken(j), j # LineCount
    PROVE  CString(buf, FirstNewline - 1) = Lines[j + 1]
<1> DEFINE a == LineEnd(j)
           b == LineEnd(j + 1)
           e == LineEnd(LineCount)
           f == FirstNewline
<1>1. received \in Seq(Data) /\ buf \in Seq(Byte)
  BY DEF TypeOK
<1>2. /\ j + 1 \in 1..LineCount /\ (j + 1) - 1 = j
      /\ a \in 0..Len(received) /\ b \in 0..Len(received) /\ e \in 0..Len(received)
      /\ a < b /\ b <= e /\ f = b - a /\ f <= Len(buf)
      /\ \A i \in 1..(f - 1) : buf[i] # "nul"
  BY NextLine DEF Taken
<1>3. \A i \in 1..(e - a) : buf[i] = received[a + i]
  BY DEF Taken
<1>4. Lines[j + 1] = SubSeq(received, a + 1, b - 1)
  BY <1>2 DEF Lines
<1>5. CString(buf, f - 1) = SubSeq(buf, 1, f - 1)
  BY <1>2 DEF CString
<1> HIDE DEF a, b, e, f
<1>6. SubSeq(buf, 1, f - 1) = [i \in 1..(f - 1) |-> buf[i]]
  BY <1>1, <1>2
<1>7. SubSeq(received, a + 1, b - 1) = [i \in 1..(f - 1) |-> received[a + i]]
  BY <1>1, <1>2
<1>8. \A i \in 1..(f - 1) : buf[i] = received[a + i]
  BY <1>2, <1>3
<1>9. SubSeq(buf, 1, f - 1) = SubSeq(received, a + 1, b - 1)
  BY <1>6, <1>7, <1>8
<1> QED
  BY <1>4, <1>5, <1>9 DEF f

(* Taking a line out leaves the lines behind it, and among the bytes that  *)
(* keep their old values no newline: that is what well spaced means.       *)
LEMMA TakeStep ==
    ASSUME TypeOK, NEW j, Taken(j), WellSpaced, ExtractToken, LineCount <= MaxPackets
    PROVE  Taken(j + 1)'
<1> DEFINE a == LineEnd(j)
           b == LineEnd(j + 1)
           e == LineEnd(LineCount)
           f == FirstNewline
<1>0. j # LineCount
  BY NextLine DEF ExtractToken
<1>1. received \in Seq(Data) /\ buf \in Seq(Byte) /\ packets \in Seq(Seq(Byte))
      /\ MaxPackets \in Nat
  BY LineBufferAssumption DEF TypeOK
<1>2. LineCount \in Nat /\ j \in 0..LineCount /\ j + 1 \in 0..LineCount /\ j + 1 \in Nat
  <2>1. LineCount \in Nat
    BY <1>1, BeforeCounts
  <2> QED
    BY <1>0, <2>1 DEF Taken
<1>3. /\ a \in 0..Len(received) /\ b \in 0..Len(received) /\ e \in 0..Len(received)
      /\ a < b /\ b <= e /\ f = b - a /\ f <= Len(buf) /\ f \in Nat
      /\ \A i \in 1..(f - 1) : buf[i] # "nl"
  <2>1. /\ a \in 0..Len(received) /\ b \in 0..Len(received) /\ e \in 0..Len(received)
        /\ a < b /\ b <= e /\ f = b - a /\ f <= Len(buf)
        /\ \A i \in 1..(f - 1) : buf[i] # "nl"
    BY <1>0, NextLine
  <2> HIDE DEF a, b, e, f
  <2> QED
    BY <1>1, <2>1
<1>4. /\ Len(packets) = j
      /\ \A k \in 1..j : packets[k] = Lines[k]
      /\ e - a <= Len(buf)
      /\ \A i \in 1..(e - a) : buf[i] = received[a + i]
      /\ \A i \in 1..Len(buf) : buf[i] = "nl" => i <= e - a
  BY DEF Taken
<1>5. CString(buf, f - 1) = Lines[j + 1]
  BY <1>0, TokenIsLine
<1>6. packets' = Append(packets, Lines[j + 1])
  <2>1. Len(packets) < MaxPackets
    BY <1>0, <1>1, <1>2, <1>4
  <2> QED
    BY <1>5, <2>1 DEF ExtractToken
<1>7. Len(packets') = j + 1 /\ \A k \in 1..(j + 1) : packets'[k] = Lines[k]
  <2>1. Len(packets') = j + 1 /\ packets'[j + 1] = Lines[j + 1]
        /\ \A k \in 1..j : packets'[k] = packets[k]
    BY <1>1, <1>2, <1>4, <1>6
  <2> QED
    BY <1>2, <1>4, <2>1
<1>8. buf' = Scootch(buf, f) /\ received' = received
  BY DEF ExtractToken
<1>9. j + 1 # LineCount => (e - a) + f <= Len(buf)
  <2> SUFFICES ASSUME j + 1 # LineCount PROVE (e - a) + f <= Len(buf)
    OBVIOUS
  <2>1. j + 1 \in 1..(LineCount - 1) /\ (j + 1) - 1 = j
    BY <1>2
  <2>2. (e - a) + (b - a) <= Len(buf)
    BY <2>1 DEF WellSpaced, len
  <2> QED
    BY <1>3, <2>2
<1>10. j + 1 = LineCount => b = e
  OBVIOUS
<1> HIDE DEF a, b, e, f
<1>11. Len(buf') = Len(buf)
  <2>1. f \in 1..Len(buf)
    BY <1>1, <1>3
  <2> QED
    BY <1>1, <1>8, <2>1, ScootchType
<1>12. \A i \in 1..Len(buf) :
         buf'[i] = IF i + f <= Len(buf) THEN buf[i + f]
                   ELSE IF i = f THEN "nul" ELSE buf[i]
  BY <1>8 DEF Scootch
<1>13. ASSUME NEW i \in 1..(e - b) PROVE buf'[i] = received[b + i]
  <2>1. i \in 1..Len(buf) /\ i + f <= Len(buf) /\ i + f \in 1..(e - a) /\ a + (i + f) = b + i
    BY <1>1, <1>3, <1>4
  <2> QED
    BY <1>4, <1>12, <2>1
<1>14. ASSUME NEW i \in 1..Len(buf), buf'[i] = "nl" PROVE i <= e - b
  <2>1. CASE i + f <= Len(buf)
    <3>1. buf[i + f] = "nl" /\ i + f \in 1..Len(buf)
      BY <1>1, <1>3, <1>12, <1>14, <2>1
    <3>2. i + f <= e - a
      BY <1>4, <3>1
    <3> QED
      BY <1>3, <3>2
  <2>2. CASE ~(i + f <= Len(buf))
    <3>1. i # f /\ buf[i] = "nl"
      BY <1>12, <1>14, <2>2
    <3>2. i <= e - a
      BY <1>4, <3>1
    <3>3. CASE j + 1 # LineCount
      BY <1>1, <1>3, <1>9, <2>2, <3>2, <3>3
    <3>4. CASE j + 1 = LineCount
      <4>1. i \in 1..(f - 1)
        BY <1>1, <1>3, <1>10, <3>1, <3>2, <3>4
      <4> QED
        BY <1>3, <3>1, <4>1
    <3> QED
      BY <3>3, <3>4
  <2> QED
    BY <2>1, <2>2
<1>15. /\ LineCount' = LineCount /\ LineEnd(LineCount)' = e /\ LineEnd(j + 1)' = b
       /\ Lines' = Lines
  <2>1. LineCount' = LineCount /\ Lines' = Lines /\ \A k \in Nat : LineEnd(k)' = LineEnd(k)
    BY <1>8, SameLines
  <2> QED
    BY <1>2, <2>1 DEF e, b
<1>16. e - b <= Len(buf)
  BY <1>1, <1>3, <1>4
<1> QED
  BY <1>2, <1>7, <1>8, <1>11, <1>13, <1>14, <1>15, <1>16 DEF Taken

(* What has been received is in the buffer while the loop receives.        *)
RecvInv ==
    pc = "recv" =>
        /\ Fresh
        /\ index = Len(received)
        /\ \E m \in 0..MaxRecvs : index = m * buf_chunk_size

TokensInv ==
    /\ pc = "tokens" =>
         /\ Len(received) < (MaxRecvs + 1) * buf_chunk_size
         /\ Fresh \/ (WellSpaced => \E j \in Nat : Taken(j))
    /\ pc \in {"return", "failed"} =>
         \/ packets = <<>>
         \/ pc = "return" /\ (WellSpaced => packets = Lines)

PacketsInv == TypeOK /\ RoomInv /\ RecvInv /\ TokensInv

(* Bytes copied behind those received: the zeros there are replaced.       *)
LEMMA OverwriteFresh ==
    ASSUME TypeOK, Fresh, index = Len(received),
           NEW n \in Nat, NEW data \in [1..n -> Data], index + n <= Len(buf)
    PROVE  /\ received \o data \in Seq(Data)
           /\ Len(received \o data) = index + n
           /\ Overwrite(buf, index, data) \in Seq(Byte)
           /\ Len(Overwrite(buf, index, data)) = Len(buf)
           /\ \A i \in 1..Len(buf) : Overwrite(buf, index, data)[i] =
                IF i <= index + n THEN (received \o data)[i] ELSE "nul"
<1>1. /\ data \in Seq(Data) /\ data \in Seq(Byte) /\ Len(data) = n
      /\ received \in Seq(Data) /\ buf \in Seq(Byte) /\ index \in Nat
  BY DEF TypeOK, Byte
<1>2. /\ Overwrite(buf, index, data) \in Seq(Byte)
      /\ Len(Overwrite(buf, index, data)) = Len(buf)
  BY <1>1, OverwriteLength
<1>3. /\ received \o data \in Seq(Data) /\ Len(received \o data) = index + n
      /\ \A i \in 1..index : (received \o data)[i] = received[i]
      /\ \A i \in (index + 1)..(index + n) : (received \o data)[i] = data[i - index]
  BY <1>1
<1>4. ASSUME NEW i \in 1..Len(buf)
      PROVE  Overwrite(buf, index, data)[i] =
               IF i <= index + n THEN (received \o data)[i] ELSE "nul"
  <2>1. Overwrite(buf, index, data)[i] =
          IF i \in (index + 1)..(index + n) THEN data[i - index] ELSE buf[i]
    BY <1>1 DEF Overwrite
  <2>2. buf[i] = IF i <= index THEN received[i] ELSE "nul"
    BY DEF Fresh
  <2>3. CASE i <= index
    BY <1>1, <1>3, <2>1, <2>2, <2>3
  <2>4. CASE i \in (index + 1)..(index + n)
    BY <1>1, <1>3, <2>1, <2>4
  <2>5. CASE i > index + n
    BY <1>1, <2>1, <2>2, <2>5
  <2> QED
    BY <1>1, <2>3, <2>4, <2>5
<1> QED
  BY <1>2, <1>3, <1>4

(* Growing adds zeros and clears what was behind the bytes received.       *)
LEMMA GrowAppends ==
    ASSUME NEW b \in Seq(Byte), buf_chunk_size \in Nat
    PROVE  \A i \in 1..(Len(b) + buf_chunk_size) :
             Grow(b, Len(b))[i] = IF i <= Len(b) THEN b[i] ELSE "nul"
<1> DEFINE g == b \o Zeros(buf_chunk_size)
<1>1. Zeros(buf_chunk_size) \in Seq(Byte) /\ Len(Zeros(buf_chunk_size)) = buf_chunk_size
      /\ \A i \in 1..buf_chunk_size : Zeros(buf_chunk_size)[i] = "nul"
  BY ZerosLength DEF Zeros
<1>2. g \in Seq(Byte) /\ Len(g) = Len(b) + buf_chunk_size
      /\ \A i \in 1..Len(b) : g[i] = b[i]
  BY <1>1
<1> HIDE DEF g
<1>3. ASSUME NEW i \in 1..(Len(b) + buf_chunk_size)
      PROVE  Overwrite(g, Len(b), Zeros(buf_chunk_size))[i] =
               IF i <= Len(b) THEN b[i] ELSE "nul"
  <2>1. Overwrite(g, Len(b), Zeros(buf_chunk_size))[i] =
          IF i \in (Len(b) + 1)..(Len(b) + buf_chunk_size)
          THEN Zeros(buf_chunk_size)[i - Len(b)] ELSE g[i]
    BY <1>1, <1>2 DEF Overwrite
  <2>2. CASE i <= Len(b)
    BY <1>2, <2>1, <2>2
  <2>3. CASE i > Len(b)
    <3>1. i - Len(b) \in 1..buf_chunk_size /\ i \in (Len(b) + 1)..(Len(b) + buf_chunk_size)
      BY <2>3
    <3> QED
      BY <1>1, <2>1, <2>3, <3>1
  <2> QED
    BY <2>2, <2>3
<1> QED
  BY <1>3 DEF Grow, g

(* The chunks fit, and those that have been received are whole.            *)
LEMMA NextChunk ==
    ASSUME NEW c \in Nat \ {0}, NEW M \in Nat, NEW m \in 0..M, m * c < M * c
    PROVE  m + 1 \in 0..M /\ m * c + c = (m + 1) * c
<1>1. m # M
  OBVIOUS
<1>2. m \in Nat /\ m + 1 \in 0..M
  BY <1>1
<1>3. m * c + c = (m + 1) * c
  BY <1>2
<1> QED
  BY <1>2, <1>3

(* The last, short recv() stays within one more chunk.                     *)
LEMMA ChunksFit ==
    ASSUME NEW c \in Nat, NEW M \in Nat, NEW m \in 0..M
    PROVE  m * c + c <= (M + 1) * c
<1>1. M - m \in Nat
  OBVIOUS
<1>2. (M - m) * c \in Nat
  BY <1>1
<1>3. (M + 1) * c = m * c + c + (M - m) * c
  OBVIOUS
<1>4. m * c \in Nat
  OBVIOUS
<1> QED
  BY <1>2, <1>3, <1>4

(* Each recv() keeps the buffer fresh and each token takes one line out.   *)
LEMMA PacketsStep ==
    ASSUME PacketsInv, [Next]_vars, MaxPackets >= (MaxRecvs + 1) * buf_chunk_size - 1
    PROVE  (RecvInv /\ TokensInv)'
<1> DEFINE c == buf_chunk_size
<1>0. /\ TypeOK /\ RoomInv /\ RecvInv /\ TokensInv
      /\ received \in Seq(Data) /\ buf \in Seq(Byte) /\ index \in Nat
      /\ packets \in Seq(Seq(Byte))
      /\ c \in Nat \ {0} /\ MaxRecvs \in Nat /\ MaxPackets \in Nat
  BY LineBufferAssumption DEF PacketsInv, TypeOK
<1>1. CASE UNCHANGED vars \/ Returned
  <2>1. UNCHANGED vars
    BY <1>1 DEF Returned
  <2>2. received' = received /\ packets' = packets /\ buf' = buf /\ pc' = pc /\ index' = index
    BY <2>1 DEF vars
  <2>3. /\ LineCount' = LineCount /\ Lines' = Lines /\ (WellSpaced' <=> WellSpaced)
        /\ \A k \in Nat : LineEnd(k)' = LineEnd(k)
    BY <2>2, SameLines
  <2>4. Fresh' <=> Fresh
    BY <2>2 DEF Fresh
  <2>5. ASSUME NEW j \in Nat, Taken(j) PROVE Taken(j)'
    <3>1. LineCount \in Nat
      BY <1>0, BeforeCounts
    <3>2. LineEnd(LineCount)' = LineEnd(LineCount) /\ LineEnd(j)' = LineEnd(j)
      BY <2>3, <3>1
    <3> QED
      BY <2>2, <2>3, <2>5, <3>2 DEF Taken
  <2>6. RecvInv'
    BY <1>0, <2>2, <2>4 DEF RecvInv
  <2>7. TokensInv'
    BY <1>0, <2>2, <2>3, <2>4, <2>5 DEF TokensInv
  <2> QED
    BY <2>6, <2>7
<1>2. CASE RecvFull
  <2>1. PICK data \in [1..c -> Data] :
          /\ index' = index + c
          /\ buf' = Grow(Overwrite(buf, index, data), index')
          /\ received' = received \o data
    BY <1>2 DEF RecvFull
  <2>2. pc = "recv" /\ pc' = "recv" /\ packets' = packets /\ index < MaxRecvs * c
    BY <1>2 DEF RecvFull
  <2>3. Fresh /\ index = Len(received) /\ index + c = Len(buf)
    BY <1>0, <2>2 DEF RecvInv, RoomInv
  <2> DEFINE b == Overwrite(buf, index, data)
  <2>4. /\ Len(received') = index + c /\ b \in Seq(Byte) /\ Len(b) = index + c
        /\ \A i \in 1..Len(buf) :
             b[i] = IF i <= index + c THEN received'[i] ELSE "nul"
    <3>1. index + c <= Len(buf) /\ c \in Nat
      BY <1>0, <2>3
    <3> HIDE DEF c
    <3>2. /\ Len(received \o data) = index + c
          /\ Overwrite(buf, index, data) \in Seq(Byte)
          /\ Len(Overwrite(buf, index, data)) = Len(buf)
          /\ \A i \in 1..Len(buf) : Overwrite(buf, index, data)[i] =
                IF i <= index + c THEN (received \o data)[i] ELSE "nul"
      BY <1>0, <2>3, <3>1, OverwriteFresh
    <3> QED
      BY <2>1, <2>3, <3>2
  <2>5. buf' = Grow(b, Len(b))
    BY <2>1, <2>4
  <2> HIDE DEF b
  <2>6. /\ Len(buf') = Len(b) + c
        /\ \A i \in 1..(Len(b) + c) : buf'[i] = IF i <= Len(b) THEN b[i] ELSE "nul"
    <3>1. c \in Nat /\ b \in Seq(Byte) /\ Len(b) \in Nat
      BY <1>0, <2>4
    <3>2. Len(Grow(b, Len(b))) = Len(b) + c
      BY <3>1, GrowLength
    <3>3. \A i \in 1..(Len(b) + c) :
            Grow(b, Len(b))[i] = IF i <= Len(b) THEN b[i] ELSE "nul"
      BY <3>1, GrowAppends
    <3> QED
      BY <2>5, <3>2, <3>3
  <2>7. Fresh'
    <3>1. packets' = <<>>
      BY <2>2, <2>3 DEF Fresh
    <3>2. Len(received') <= Len(buf')
      BY <1>0, <2>4, <2>6
    <3>3. \A i \in 1..Len(buf') : buf'[i] = IF i <= Len(received') THEN received'[i] ELSE "nul"
      BY <1>0, <2>3, <2>4, <2>6
    <3> QED
      BY <3>1, <3>2, <3>3 DEF Fresh
  <2>8. PICK m \in 0..MaxRecvs : index = m * c
    BY <1>0, <2>2 DEF RecvInv
  <2>9. m + 1 \in 0..MaxRecvs /\ index' = (m + 1) * c
    BY <1>0, <2>1, <2>2, <2>8, NextChunk
  <2>10. \E l \in 0..MaxRecvs : index' = l * c
    BY <2>9
  <2> QED
    BY <2>1, <2>2, <2>4, <2>7, <2>10 DEF RecvInv, TokensInv
<1>3. CASE RecvShort
  <2>0. pc = "recv" /\ pc' = "tokens" /\ packets' = packets
    BY <1>3 DEF RecvShort
  <2>1. Fresh /\ index = Len(received) /\ index + c = Len(buf)
    BY <1>0, <2>0 DEF RecvInv, RoomInv
  <2>2. PICK n \in 1..(c - 1) : \E data \in [1..n -> Data] :
          /\ received' = received \o data
          /\ IF n + index >= len
             THEN /\ index' = index + n
                  /\ buf' = Grow(Overwrite(buf, index, data), index')
             ELSE /\ buf' = Overwrite(buf, index, data)
                  /\ UNCHANGED index
    BY <1>3 DEF RecvShort
  <2>3. n \in Nat /\ n < c /\ ~(n + index >= len) /\ index + n <= Len(buf)
    BY <1>0, <2>1 DEF len
  <2>4. PICK data \in [1..n -> Data] :
          received' = received \o data /\ buf' = Overwrite(buf, index, data)
    BY <2>2, <2>3
  <2>5. /\ Len(received') = index + n /\ Len(buf') = Len(buf)
        /\ \A i \in 1..Len(buf) :
             buf'[i] = IF i <= index + n THEN received'[i] ELSE "nul"
    BY <1>0, <2>1, <2>3, <2>4, OverwriteFresh
  <2>6. Fresh'
    <3>1. packets' = <<>>
      BY <2>0, <2>1 DEF Fresh
    <3>2. Len(received') <= Len(buf')
      BY <2>3, <2>5
    <3>3. \A i \in 1..Len(buf') : buf'[i] = IF i <= Len(received') THEN received'[i] ELSE "nul"
      BY <2>5
    <3> QED
      BY <3>1, <3>2, <3>3 DEF Fresh
  <2>7. PICK m \in 0..MaxRecvs : index = m * c
    BY <1>0, <2>0 DEF RecvInv
  <2>8. m * c + c <= (MaxRecvs + 1) * c
    BY <1>0, ChunksFit
  <2>9. Len(received') < (MaxRecvs + 1) * c
    <3> DEFINE p == (MaxRecvs + 1) * c
               q == m * c
    <3>1. q = index /\ q + c <= p
      BY <2>7, <2>8
    <3>2. p \in Int
      BY <1>0
    <3> HIDE DEF p, q
    <3>3. Len(received') < p
      BY <1>0, <2>3, <2>5, <3>1, <3>2
    <3> QED
      BY <3>3 DEF p
  <2> QED
    BY <2>0, <2>6, <2>9 DEF RecvInv, TokensInv
<1>4. CASE RecvEnds
  <2>1. pc = "recv" /\ pc' \in {"return", "failed"} /\ packets' = packets
    BY <1>4 DEF RecvEnds
  <2>2. packets' = <<>>
    BY <1>0, <2>1 DEF RecvInv, Fresh
  <2> QED
    BY <2>1, <2>2 DEF RecvInv, TokensInv
<1>5. CASE ExtractToken
  <2>1. pc = "tokens" /\ pc' = "tokens" /\ received' = received
        /\ buf' = Scootch(buf, FirstNewline)
    BY <1>5 DEF ExtractToken
  <2>2. Len(received') < (MaxRecvs + 1) * c
    BY <1>0, <2>1 DEF TokensInv
  <2>3. Len(buf') = Len(buf)
    BY <1>0, <1>5, <2>1, FirstNewlineType, ScootchType DEF ExtractToken
  <2>4. WellSpaced' <=> WellSpaced
    BY <2>1, <2>3, SameLines
  <2>5. LineCount <= MaxPackets
    <3> DEFINE p == (MaxRecvs + 1) * c
    <3>1. p \in Int /\ MaxPackets >= p - 1 /\ Len(received) < p
      BY <1>0, <2>1 DEF TokensInv
    <3> HIDE DEF p
    <3>2. LineCount \in Nat /\ LineCount <= Len(received) /\ Len(received) \in Nat
      BY <1>0, BeforeCounts
    <3> QED
      BY <1>0, <3>1, <3>2
  <2>6. ASSUME WellSpaced PROVE \E j \in Nat : Taken(j)'
    <3>1. PICK j \in Nat : Taken(j)
      BY <1>0, <2>1, <2>6, FreshTaken DEF TokensInv
    <3>2. Taken(j + 1)'
      BY <1>0, <1>5, <2>5, <2>6, <3>1, TakeStep
    <3> QED
      BY <3>2
  <2> QED
    BY <2>1, <2>2, <2>4, <2>6 DEF RecvInv, TokensInv
<1>6. CASE NoMoreTokens
  <2>1. pc = "tokens" /\ pc' = "return" /\ ~HasNewline
        /\ received' = received /\ buf' = buf /\ packets' = packets
    BY <1>6 DEF NoMoreTokens
  <2>2. Lines' = Lines /\ (WellSpaced' <=> WellSpaced)
    BY <2>1, SameLines
  <2>3. ASSUME WellSpaced PROVE packets = Lines
    <3>1. PICK j \in Nat : Taken(j)
      BY <1>0, <2>1, <2>3, FreshTaken DEF TokensInv
    <3>2. j = LineCount
      BY <1>0, <2>1, <3>1, NextLine
    <3>3. /\ Len(packets) = LineCount /\ \A k \in 1..LineCount : packets[k] = Lines[k]
      BY <3>1, <3>2 DEF Taken
    <3>4. packets = [k \in 1..LineCount |-> packets[k]]
      BY <1>0, <3>3
    <3>5. Lines = [k \in 1..LineCount |-> Lines[k]]
      BY DEF Lines
    <3> QED
      BY <3>3, <3>4, <3>5
  <2> QED
    BY <2>1, <2>2, <2>3 DEF RecvInv, TokensInv
<1> QED
  BY <1>1, <1>2, <1>3, <1>4, <1>5, <1>6 DEF Next

(* The invariants say what the property does.                              *)
LEMMA PacketsAreLines ==
    ASSUME PacketsInv
    PROVE  WellSpacedPackets
<1>0. TypeOK /\ RecvInv /\ TokensInv
      /\ received \in Seq(Data) /\ packets \in Seq(Seq(Byte))
  BY DEF PacketsInv, TypeOK
<1>1. LineCount \in Nat /\ Len(Lines) = LineCount /\ DOMAIN Lines = 1..LineCount
  BY <1>0, BeforeCounts, LinesType
<1>2. ASSUME NEW j \in 0..LineCount, Len(packets) = j, \A k \in 1..j : packets[k] = Lines[k]
      PROVE  IsPrefix(packets, Lines)
  <2>1. SubSeq(packets, 1, j) = [k \in 1..j |-> packets[k]]
    BY <1>0, <1>2
  <2>2. SubSeq(Lines, 1, j) = [k \in 1..j |-> Lines[k]]
    <3>1. Lines = [k \in 1..LineCount |-> Lines[k]]
      BY DEF Lines
    <3> DEFINE S == {Lines[k] : k \in 1..LineCount}
    <3>2. Lines \in Seq(S)
      BY <1>1, <3>1
    <3> HIDE DEF S
    <3> QED
      BY <1>1, <3>2
  <2>3. SubSeq(packets, 1, j) = SubSeq(Lines, 1, j)
    BY <1>2, <2>1, <2>2
  <2> QED
    BY <1>1, <1>2, <2>3 DEF IsPrefix
<1>3. packets = <<>> => IsPrefix(packets, Lines)
  <2>1. 0 \in 0..LineCount
    BY <1>1
  <2>2. packets = <<>> => Len(packets) = 0 /\ \A k \in 1..0 : packets[k] = Lines[k]
    OBVIOUS
  <2> QED
    BY <1>2, <2>1, <2>2
<1>4. packets = Lines => IsPrefix(packets, Lines)
  <2>1. LineCount \in 0..LineCount
    BY <1>1
  <2> QED
    BY <1>1, <1>2, <2>1
<1>5. ASSUME NEW j \in Nat, Taken(j) PROVE IsPrefix(packets, Lines)
  BY <1>2, <1>5 DEF Taken
<1>6. pc \in {"recv", "tokens", "return", "failed"}
  BY <1>0 DEF TypeOK
<1>7. CASE pc = "recv"
  BY <1>0, <1>3, <1>7 DEF RecvInv, Fresh, WellSpacedPackets
<1>8. CASE pc = "tokens"
  <2>1. Fresh \/ (WellSpaced => \E j \in Nat : Taken(j))
    BY <1>0, <1>8 DEF TokensInv
  <2> QED
    BY <1>3, <1>5, <1>8, <2>1 DEF Fresh, WellSpacedPackets
<1>9. CASE pc \in {"return", "failed"}
  BY <1>0, <1>3, <1>4, <1>9 DEF TokensInv, WellSpacedPackets
<1> QED
  BY <1>6, <1>7, <1>8, <1>9

(* For well-spaced data the tokens are the lines the client sent, in order *)
(* and each once: extract_token_and_consolidate_buffer() loses, repeats    *)
(* and invents none.  The bound on tokens must let them all be recorded.   *)
THEOREM WellSpacedCorrect ==
    ASSUME MaxPackets >= (MaxRecvs + 1) * buf_chunk_size - 1
    PROVE  Spec => []WellSpacedPackets
<1>1. Init => RoomInv /\ RecvInv /\ TokensInv
  <2> SUFFICES ASSUME Init PROVE RoomInv /\ RecvInv /\ TokensInv
    OBVIOUS
  <2> DEFINE c == buf_chunk_size
  <2>1. c \in Nat \ {0} /\ MaxRecvs \in Nat
    BY LineBufferAssumption
  <2>2. pc = "recv" /\ buf = Zeros(c) /\ index = 0 /\ received = <<>> /\ packets = <<>>
    BY DEF Init
  <2>3. Zeros(c) \in Seq(Byte) /\ Len(Zeros(c)) = c /\ \A i \in 1..c : Zeros(c)[i] = "nul"
    BY <2>1, ZerosLength DEF Zeros
  <2>4. RoomInv
    BY <2>1, <2>2, <2>3 DEF RoomInv
  <2>5. Fresh /\ index = Len(received)
    BY <2>1, <2>2, <2>3 DEF Fresh
  <2>6. 0 \in 0..MaxRecvs /\ index = 0 * c
    BY <2>1, <2>2
  <2>7. RecvInv
    BY <2>5, <2>6 DEF RecvInv
  <2>8. TokensInv
    BY <2>2 DEF TokensInv
  <2> QED
    BY <2>4, <2>7, <2>8
<1>2. TypeOK /\ RoomInv /\ RecvInv /\ TokensInv /\ [Next]_vars => (RecvInv /\ TokensInv)'
  BY PacketsStep DEF PacketsInv
<1>3. RoomInv /\ [Next]_vars => RoomInv'
  BY RoomStep
<1>4. TypeOK /\ RoomInv /\ RecvInv /\ TokensInv => WellSpacedPackets
  BY PacketsAreLines DEF PacketsInv
<1> QED
  BY <1>1, <1>2, <1>3, <1>4, TypeCorrect, PTL DEF Spec
=============================================================================
