-------------------------- MODULE WriteLoopsProofs --------------------------
(***************************************************************************)
(* Proofs about WriteLoops, for content of any size and any number of      *)
(* failures put up with: both loops implement WriteContract.               *)
(***************************************************************************)
EXTENDS WriteLoops, SequenceTheorems, TLAPS

(* What the file holds of the content: everything up to the pointer.       *)
Start == IF prog = "write_all" THEN before ELSE <<>>

LoopInv ==
    /\ TypeOK
    /\ opened => file = Start \o Bytes(0, buf)
    /\ ~opened => prog = "writer" /\ file = before /\ buf = 0
    /\ prog = "write_all" => buf + bytes_left = len
    /\ prog = "writer" => bytes_written = buf /\ (buf = 0 \/ buf < 2 * len)

(* n bytes from the b-th on, in order.                                     *)
LEMMA BytesProperties ==
    ASSUME NEW b \in Nat, NEW n \in Nat
    PROVE  /\ Bytes(b, n) \in Seq(Nat)
           /\ Len(Bytes(b, n)) = n
           /\ \A i \in 1..n : Bytes(b, n)[i] = b + i
<1>1. Bytes(b, n) \in [1..n -> Nat]
  BY DEF Bytes
<1>2. Bytes(b, n) \in Seq(Nat)
  BY <1>1, SeqDef
<1>3. DOMAIN Bytes(b, n) = 1..n
  BY DEF Bytes
<1>4. Len(Bytes(b, n)) = n
  BY <1>2, <1>3, LenProperties
<1>5. \A i \in 1..n : Bytes(b, n)[i] = b + i
  BY DEF Bytes
<1> QED BY <1>2, <1>4, <1>5

(* What the file held before is a sequence of bytes.                       *)
LEMMA BeforeType ==
    ASSUME NEW s \in {<<>>, << 0 >>}
    PROVE  s \in Seq(Nat)
<1>1. <<>> \in Seq(Nat) /\ <<0>> \in Seq(Nat)
  OBVIOUS
<1> QED BY <1>1

(* Writing on from where the pointer is leaves neither gap nor overlap.    *)
LEMMA BytesAdjoin ==
    ASSUME NEW b \in Nat, NEW n \in Nat, NEW m \in Nat, m = b + n
    PROVE  Bytes(0, b) \o Bytes(b, n) = Bytes(0, m)
<1> DEFINE first == Bytes(0, b)
           second == Bytes(b, n)
           both == Bytes(0, m)
<1>1. /\ first \in Seq(Nat) /\ Len(first) = b
      /\ \A i \in 1..b : first[i] = 0 + i
  BY BytesProperties, 0 \in Nat
<1>2. /\ second \in Seq(Nat) /\ Len(second) = n
      /\ \A i \in 1..n : second[i] = b + i
  BY BytesProperties
<1>3. /\ both \in Seq(Nat) /\ Len(both) = m
      /\ \A i \in 1..m : both[i] = 0 + i
  BY BytesProperties, 0 \in Nat
<1> HIDE DEF first, second, both
<1>4. /\ first \o second \in Seq(Nat)
      /\ Len(first \o second) = m
      /\ \A i \in 1..m : (first \o second)[i] =
                            IF i <= b THEN first[i] ELSE second[i - b]
  BY <1>1, <1>2, ConcatProperties
<1>5. \A i \in 1..m : (first \o second)[i] = both[i]
  BY <1>1, <1>2, <1>3, <1>4
<1>6. first \o second = both
  BY <1>3, <1>4, <1>5, SeqEqual
<1> QED BY <1>6 DEF first, second, both

(* Two adjacent ranges of bytes make one.                                  *)
LEMMA BytesConcat ==
    ASSUME NEW s \in Seq(Nat), NEW b \in Nat, NEW n \in Nat
    PROVE  (s \o Bytes(0, b)) \o Bytes(b, n) = s \o Bytes(0, b + n)
<1> DEFINE first == Bytes(0, b)
           second == Bytes(b, n)
<1>1. first \in Seq(Nat) /\ second \in Seq(Nat)
  BY BytesProperties, 0 \in Nat
<1>2. first \o second = Bytes(0, b + n)
  BY BytesAdjoin, b + n \in Nat
<1> HIDE DEF first, second
<1>3. (s \o first) \o second = s \o (first \o second)
  <2>1. \A t, u \in Seq(Nat) : (s \o t) \o u = s \o (t \o u)
    BY ConcatAssociative
  <2> QED BY <1>1, <2>1, Zenon
<1> QED BY <1>2, <1>3 DEF first, second

(* What the file holds after some writes is a sequence of bytes.           *)
LEMMA BytesType ==
    ASSUME NEW s \in {<<>>, << 0 >>}, NEW b \in Nat
    PROVE  s \o Bytes(0, b) \in Seq(Nat) /\ s \o Bytes(0, 0) = s
<1>1. Bytes(0, b) \in Seq(Nat) /\ s \in Seq(Nat)
  BY BytesProperties, BeforeType
<1>2. Bytes(0, 0) = <<>>
  BY BytesProperties, EmptySeq
<1> QED BY <1>1, <1>2, ConcatProperties, ConcatEmptySeq

(* The pointer, the counters and the file move together.                   *)
LEMMA LoopInvInit == Init => LoopInv
<1> SUFFICES ASSUME Init PROVE LoopInv
  OBVIOUS
<1>1. /\ prog \in {"write_all", "writer"} /\ before \in {<<>>, <<0>>}
      /\ len \in Nat /\ readable \in Nat /\ bytes_left \in Nat
      /\ buf = 0 /\ bytes_written = 0 /\ fail_count = 0 /\ bytes_left = len
      /\ result \in {"running", "ok", "failed"}
  BY WriteLoopsAssumption DEF Init
<1>2. opened \in BOOLEAN /\ turn \in BOOLEAN /\ opened = (prog = "write_all")
  BY Zenon DEF Init
<1>3. file = before /\ file \in Seq(Nat)
  BY <1>1, BeforeType DEF Init
<1>4. TypeOK
  BY <1>1, <1>2, <1>3 DEF TypeOK
<1>5. opened => file = Start \o Bytes(0, buf)
  BY <1>1, <1>2, <1>3, BytesType DEF Start
<1>6. ~opened => prog = "writer" /\ file = before /\ buf = 0
  <2>1. ~opened => prog = "writer"
    BY <1>1, <1>2, Zenon
  <2> QED BY <1>1, <1>3, <2>1
<1>7. /\ prog = "write_all" => buf + bytes_left = len
      /\ prog = "writer" => bytes_written = buf /\ (buf = 0 \/ buf < 2 * len)
  BY <1>1
<1> QED BY <1>4, <1>5, <1>6, <1>7 DEF LoopInv

(* However a write is cut, pointer, bytes left and file agree.             *)
LEMMA LoopInvStep == LoopInv /\ [Next]_vars => LoopInv'
<1> SUFFICES ASSUME LoopInv, [Next]_vars PROVE LoopInv'
  OBVIOUS
<1> USE WriteLoopsAssumption
<1>1. Start \in {<<>>, <<0>>}
  BY DEF LoopInv, TypeOK, Start
<1>2. ASSUME NEW n \in Nat, Write(n), opened
      PROVE  file' = Start \o Bytes(0, buf') /\ file' \in Seq(Nat) /\ buf' \in Nat
  <2>1. file' = (Start \o Bytes(0, buf)) \o Bytes(buf, n)
    BY <1>2 DEF LoopInv, Write
  <2>2. buf \in Nat /\ buf' = buf + n
    BY <1>2 DEF LoopInv, TypeOK, Write
  <2>3. file' = Start \o Bytes(0, buf')
    BY <1>1, <2>1, <2>2, BytesConcat, BeforeType
  <2>4. buf' \in Nat
    BY <2>2
  <2>5. Start \o Bytes(0, buf') \in Seq(Nat)
    BY <1>1, <2>4, BytesType
  <2> QED BY <2>3, <2>4, <2>5
<1>3. CASE WriteAllWrites
  <2> PICK n \in 1..bytes_left : Write(n) /\ bytes_left' = bytes_left - n
    BY <1>3 DEF WriteAllWrites
  <2>1. n \in Nat /\ opened /\ bytes_left' \in Nat
    BY <1>3 DEF LoopInv, TypeOK, WriteAllWrites, InWriteAll
  <2>2. file' = Start \o Bytes(0, buf') /\ file' \in Seq(Nat) /\ buf' \in Nat
    BY <1>2, <2>1
  <2>3. turn' \in BOOLEAN
    BY DEF Write, LoopInv, TypeOK
  <2>4. Start' = Start
    BY <1>3 DEF WriteAllWrites, inputs, Start
  <2>5. buf' + bytes_left' = len /\ prog = "write_all"
    BY <1>3 DEF LoopInv, TypeOK, WriteAllWrites, InWriteAll, Write
  <2>6. UNCHANGED <<inputs, opened, bytes_written, fail_count, result>>
    BY <1>3 DEF WriteAllWrites
  <2>7. TypeOK'
    BY <2>1, <2>2, <2>3, <2>6 DEF LoopInv, TypeOK, inputs
  <2> QED BY <2>1, <2>2, <2>4, <2>5, <2>6, <2>7 DEF LoopInv, inputs
<1>4. CASE WriteAllFails
  BY <1>4 DEF LoopInv, TypeOK, WriteAllFails, InWriteAll, WriteNothing, inputs, Start
<1>5. CASE WriteAllReturns
  BY <1>5 DEF LoopInv, TypeOK, WriteAllReturns, InWriteAll, inputs, Start
<1>6. CASE WriterRefuses
  BY <1>6 DEF LoopInv, TypeOK, WriterRefuses, InWriter, inputs, Start
<1>7. CASE WriterOpens
  <2>1. file' = Start' \o Bytes(0, buf') /\ file' \in Seq(Nat)
    BY <1>7, BytesType DEF LoopInv, TypeOK, WriterOpens, InWriter, inputs, Start
  <2> QED BY <1>7, <2>1 DEF LoopInv, TypeOK, WriterOpens, InWriter, inputs
<1>8. CASE WriterWrites
  <2> PICK n \in 1..len : Write(n) /\ bytes_written' = bytes_written + n
    BY <1>8 DEF WriterWrites
  <2>1. n \in Nat /\ opened
    BY <1>8 DEF LoopInv, TypeOK, WriterWrites
  <2>2. file' = Start \o Bytes(0, buf') /\ file' \in Seq(Nat) /\ buf' \in Nat
    BY <1>2, <2>1
  <2>3. Start' = Start /\ turn' \in BOOLEAN
    BY <1>8 DEF WriterWrites, inputs, Start, Write, LoopInv, TypeOK
  <2>4. bytes_written' = buf' /\ buf' < 2 * len
    BY <1>8 DEF WriterWrites, InWriter, LoopInv, TypeOK, Write
  <2> QED BY <1>8, <2>1, <2>2, <2>3, <2>4
          DEF LoopInv, TypeOK, WriterWrites, InWriter, inputs
<1>9. CASE WriterWritesNothing
  BY <1>9 DEF LoopInv, TypeOK, WriterWritesNothing, WriteNothing, inputs, Start
<1>10. CASE WriterFails
  BY <1>10 DEF LoopInv, TypeOK, WriterFails, WriteNothing, inputs, Start
<1>11. CASE WriterExits
  BY <1>11 DEF LoopInv, TypeOK, WriterExits, inputs, Start
<1>12. CASE UNCHANGED vars
  BY <1>12 DEF LoopInv, TypeOK, vars, inputs, Start
<1> QED BY <1>3, <1>4, <1>5, <1>6, <1>7, <1>8, <1>9, <1>10, <1>11, <1>12
        DEF Next, WriteAll, WriterProgress, Terminated

(* They always do.                                                         *)
LEMMA LoopInvCorrect == Spec => []LoopInv
<1> QED BY LoopInvInit, LoopInvStep, PTL DEF Spec

-----------------------------------------------------------------------------
(* The abstract file is the one before until the loop has ended.           *)
LEMMA ContractInit == Init => Contract!Init
<1> QED BY WriteLoopsAssumption DEF Init, Contract!Init

(* A step of a loop is a step of the contract, or none that shows.         *)
LEMMA ContractStep ==
    LoopInv /\ [Next]_vars => [Contract!Next]_(Contract!vars)
<1> SUFFICES ASSUME LoopInv, [Next]_vars
             PROVE  [Contract!Next]_(Contract!vars)
  OBVIOUS
<1>1. CASE WriteAllWrites
  BY <1>1 DEF WriteAllWrites, InWriteAll, inputs, Contract!vars
<1>2. CASE WriteAllFails
  <2>1. CASE result' = "running"
    BY <1>2, <2>1 DEF WriteAllFails, InWriteAll, inputs, Contract!vars
  <2>2. CASE result' # "running"
    <3>1. /\ prog = "write_all" /\ result = "running" /\ result' = "failed"
          /\ file' = before \o Bytes(0, buf)
          /\ buf \in 0..len /\ buf # len
          /\ prog' = prog /\ len' = len /\ before' = before
      BY <1>2, <2>2 DEF WriteAllFails, WriteNothing, InWriteAll, inputs, LoopInv,
                        TypeOK, Start
    <3>2. Bytes(0, buf) = Contract!Bytes(0, buf)
      BY DEF Bytes, Contract!Bytes
    <3>3. Contract!WriteAllReturns
      BY <3>1, <3>2 DEF Contract!WriteAllReturns
    <3> QED BY <3>1, <3>3 DEF Contract!Next
  <2> QED BY <2>1, <2>2
<1>3. CASE WriteAllReturns
  <2>1. /\ prog = "write_all" /\ result = "running" /\ result' = "ok"
        /\ file' = before \o Bytes(0, len) /\ len \in 0..len
        /\ prog' = prog /\ len' = len /\ before' = before
    BY <1>3 DEF WriteAllReturns, InWriteAll, inputs, LoopInv, TypeOK, Start
  <2>2. Bytes(0, len) = Contract!Bytes(0, len)
    BY DEF Bytes, Contract!Bytes
  <2>3. Contract!WriteAllReturns
    BY <2>1, <2>2 DEF Contract!WriteAllReturns
  <2> QED BY <2>1, <2>3 DEF Contract!Next
<1>4. CASE WriterRefuses
  <2>1. Contract!WriterRefuses /\ result = "running" /\ UNCHANGED <<prog, len>>
    BY <1>4 DEF WriterRefuses, InWriter, inputs, LoopInv, Contract!WriterRefuses
  <2> QED BY <2>1 DEF Contract!Next
<1>5. CASE WriterOpens
  BY <1>5 DEF WriterOpens, InWriter, inputs, Contract!vars
<1>6. CASE WriterWrites
  BY <1>6 DEF WriterWrites, InWriter, inputs, Contract!vars
<1>7. CASE WriterWritesNothing
  BY <1>7 DEF WriterWritesNothing, InWriter, inputs, Contract!vars
<1>8. CASE WriterFails
  <2>1. /\ prog = "writer" /\ result = "running" /\ result' = "failed"
        /\ file' = <<>> \o Bytes(0, buf) /\ Bytes(0, buf) \in Seq(Nat)
        /\ buf \in 0..(2 * len) /\ buf < 2 * len /\ buf < len
        /\ prog' = prog /\ len' = len
    BY <1>8 DEF WriterFails, WriteNothing, InWriter, inputs, LoopInv, TypeOK,
                Start, Bytes
  <2>2. file' = Contract!Bytes(0, buf)
    BY <2>1 DEF Bytes, Contract!Bytes
  <2>3. Contract!WriterExits
    <3> DEFINE b == buf
    <3>1. /\ b \in 0..(2 * len) /\ (b = 0 \/ b < 2 * len)
          /\ (IF result = "running" THEN before ELSE file)' = Contract!Bytes(0, b)
          /\ result' = IF b >= len THEN "ok" ELSE "failed"
      BY <2>1, <2>2 DEF LoopInv, TypeOK
    <3> HIDE DEF b
    <3> QED BY <2>1, <3>1, Zenon DEF Contract!WriterExits
  <2> QED BY <2>1, <2>3 DEF Contract!Next
<1>9. CASE WriterExits
  <2>1. /\ prog = "writer" /\ result = "running" /\ result' = "ok"
        /\ file' = <<>> \o Bytes(0, buf) /\ Bytes(0, buf) \in Seq(Nat)
        /\ buf \in 0..(2 * len) /\ (buf = 0 \/ buf < 2 * len) /\ buf >= len
        /\ prog' = prog /\ len' = len
    BY <1>9 DEF WriterExits, InWriter, inputs, LoopInv, TypeOK, Start, Bytes
  <2>2. file' = Contract!Bytes(0, buf)
    BY <2>1 DEF Bytes, Contract!Bytes
  <2>3. Contract!WriterExits
    <3> DEFINE b == buf
    <3>1. /\ b \in 0..(2 * len) /\ (b = 0 \/ b < 2 * len)
          /\ (IF result = "running" THEN before ELSE file)' = Contract!Bytes(0, b)
          /\ result' = IF b >= len THEN "ok" ELSE "failed"
      BY <2>1, <2>2
    <3> HIDE DEF b
    <3> QED BY <2>1, <3>1, Zenon DEF Contract!WriterExits
  <2> QED BY <2>1, <2>3 DEF Contract!Next
<1>10. CASE UNCHANGED vars
  BY <1>10 DEF vars, inputs, Contract!vars
<1> QED BY <1>1, <1>2, <1>3, <1>4, <1>5, <1>6, <1>7, <1>8, <1>9, <1>10
        DEF Next, WriteAll, WriterProgress, Terminated

(* Whatever write() does, write_all() appends a beginning of its buffer in *)
(* order and returns 0 only for all of it, and a writer that exits with 0  *)
(* has the content at the beginning of its file.                           *)
THEOREM LoopsMeetContract == Spec => MeetsContract
<1> QED BY LoopInvCorrect, ContractInit, ContractStep, PTL
        DEF Spec, MeetsContract, Contract!Spec, Contract!vars
=============================================================================
