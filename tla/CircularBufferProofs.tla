------------------------ MODULE CircularBufferProofs ------------------------
(***************************************************************************)
(* TLAPS proofs about CircularBuffer, for a buffer of any size.            *)
(***************************************************************************)
EXTENDS CircularBuffer, WellFoundedInduction, TLAPS

USE CircularBufferAssumption DEF CircularBufferAssumption

(* Induction on natural numbers, as the fact that a set of them has a      *)
(* least element.                                                          *)
LEMMA Least ==
    ASSUME NEW T \in SUBSET Nat, T # {}
    PROVE  \E x \in T : \A y \in T : x <= y
<1> DEFINE R == OpToRel(<, Nat)
<1>1. IsWellFoundedOn(R, Nat)
  BY NatLessThanWellFounded
<1>2. \A x, y \in Nat : <<y, x>> \in R <=> y < x
  BY DEF OpToRel
<1> HIDE DEF R
<1>3. PICK x \in T : \A y \in T : ~(<<y, x>> \in R)
  BY <1>1, WFMin
<1>4. \A y \in T : ~(y < x)
  BY <1>2, <1>3
<1> QED
  BY <1>4

(* Slot arithmetic: one turn around the ring.                              *)
LEMMA ModRing ==
    ASSUME NEW i \in 0..(2 * N - 1)
    PROVE  i % N = IF i < N THEN i ELSE i - N
<1>1. CASE i < N
  BY <1>1
<1>2. CASE i >= N
  <2>1. i - N \in 0..(N - 1) /\ i = N + (i - N)
    BY <1>2
  <2> QED
    BY <1>2, <2>1
<1> QED
  BY <1>1, <1>2

(* Going on by up to N slots wraps around once or not at all.              *)
LEMMA RingSum ==
    ASSUME NEW i \in Slots, NEW k \in 1..N
    PROVE  (i + k - 1) % N = IF i + k - 1 < N THEN i + k - 1 ELSE i + k - 1 - N
BY ModRing DEF Slots

(* The offset after an offset is an offset.                                *)
LEMMA NextSlot ==
    ASSUME NEW i \in Slots
    PROVE  /\ Next1(i) = IF i + 1 < N THEN i + 1 ELSE 0
           /\ Next1(i) \in Slots
BY ModRing DEF Slots, Next1

-----------------------------------------------------------------------------
(* The offsets stay inside the array and fit together with the flag; the   *)
(* two facts need each other.                                              *)
Inv == TypeOK /\ OffsetsAgree

(* A cleared ring has the type of a ring.                                  *)
LEMMA ZeroedType ==
    /\ [i \in Slots |-> Zeroed] \in [Slots -> Entry \cup {Zeroed}]
    /\ 0 \in Slots
<1>1. 0 \in Slots
  BY DEF Slots
<1> QED
  BY <1>1

(* Adding, rejecting and clearing keep offsets in the array and the flag   *)
(* right.                                                                  *)
LEMMA InvStep == Inv /\ [Next]_vars => Inv'
<1> SUFFICES ASSUME Inv, [Next]_vars PROVE Inv'
  OBVIOUS
<1>1. CASE UNCHANGED vars
  BY <1>1 DEF vars, Inv, TypeOK, OffsetsAgree
<1>2. CASE Zero
  BY <1>2, ZeroedType DEF Zero, Inv, TypeOK, OffsetsAgree
<1>3. ASSUME NEW e \in Entry, AddEntry(e) PROVE Inv'
  <2>1. /\ Next1(in_offs) \in Slots
        /\ Next1(out_offs) \in Slots
        /\ Next1(in_offs) = IF in_offs + 1 < N THEN in_offs + 1 ELSE 0
    BY NextSlot DEF Inv, TypeOK
  <2>2. TypeOK'
    BY <1>3, <2>1 DEF AddEntry, Inv, TypeOK
  <2>3. OffsetsAgree'
    <3>1. full' = (in_offs' = out_offs') /\ in_offs' = Next1(in_offs)
      BY <1>3 DEF AddEntry
    <3>2. CASE full
      <4>1. in_offs = out_offs /\ out_offs' = Next1(out_offs)
        BY <1>3, <3>2 DEF AddEntry, Inv, OffsetsAgree
      <4> QED
        BY <3>1, <4>1 DEF OffsetsAgree
    <3>3. CASE ~full
      <4>1. out_offs' = 0
        BY <1>3, <3>3 DEF AddEntry, Inv, OffsetsAgree
      <4> QED
        BY <3>1, <4>1 DEF OffsetsAgree
    <3> QED
      BY <3>2, <3>3
  <2> QED
    BY <2>2, <2>3 DEF Inv
<1>4. CASE RejectEntry(Zeroed)
  BY <1>4 DEF RejectEntry, vars, Inv, TypeOK, OffsetsAgree
<1> QED
  BY <1>1, <1>2, <1>3, <1>4 DEF Next

(* The cleared ring is empty and not full.                                 *)
LEMMA InvInit == Init => Inv
BY ZeroedType DEF Init, Inv, TypeOK, OffsetsAgree

(* No call sequence puts an offset outside the array.                      *)
THEOREM TypeCorrect == Spec => []TypeOK
<1>1. Inv => TypeOK
  BY DEF Inv
<1> QED
  BY <1>1, InvInit, InvStep, PTL DEF Spec

(* The flag and the offsets always say the same about what is in use.      *)
THEOREM OffsetsCorrect == Spec => []OffsetsAgree
<1>1. Inv => OffsetsAgree
  BY DEF Inv
<1> QED
  BY <1>1, InvInit, InvStep, PTL DEF Spec

-----------------------------------------------------------------------------
(* Where the k-th oldest entry is.                                         *)
LEMMA LiveSlots ==
    ASSUME Inv, NEW k \in 1..Count
    PROVE  /\ LiveSlot(k) = IF out_offs + k - 1 < N THEN out_offs + k - 1
                                                    ELSE out_offs + k - 1 - N
           /\ LiveSlot(k) \in Slots
<1>1. out_offs \in 0..(N - 1) /\ Count \in 0..N
  BY DEF Inv, TypeOK, Slots, Count
<1>2. out_offs + k - 1 \in 0..(2 * N - 1)
  BY <1>1
<1> QED
  BY <1>1, <1>2, ModRing DEF LiveSlot, Slots

-----------------------------------------------------------------------------
(* The slots that are in use hold entries, the others null pointers: a     *)
(* slot is used from the first time the write offset passes it, until the  *)
(* struct is zeroed.                                                       *)
SlotsInv == \A i \in Slots : (entry[i] \in Entry) <=> (full \/ i < in_offs)

(* A cleared slot cannot be mistaken for an entry.                         *)
LEMMA ZeroedIsNoEntry == Zeroed \notin Entry
BY DEF Zeroed, Entry

(* AddEntry fills the slots in turn, and only zeroing empties them.        *)
LEMMA SlotsStep == Inv /\ SlotsInv /\ [Next]_vars => SlotsInv'
<1> SUFFICES ASSUME Inv, SlotsInv, [Next]_vars PROVE SlotsInv'
  OBVIOUS
<1>1. CASE UNCHANGED vars \/ RejectEntry(Zeroed)
  BY <1>1 DEF vars, RejectEntry, SlotsInv
<1>2. CASE Zero
  BY <1>2, ZeroedIsNoEntry DEF Zero, SlotsInv, Slots
<1>3. ASSUME NEW e \in Entry, AddEntry(e) PROVE SlotsInv'
  <2>1. /\ in_offs \in 0..(N - 1)
        /\ in_offs' = IF in_offs + 1 < N THEN in_offs + 1 ELSE 0
        /\ full' = (in_offs' = out_offs')
    BY <1>3, NextSlot DEF AddEntry, Inv, TypeOK, Slots
  <2>2. \A i \in Slots : entry'[i] = IF i = in_offs THEN e ELSE entry[i]
    BY <1>3 DEF AddEntry, Inv, TypeOK
  <2>3. CASE full
    <3>1. full'
      BY <1>3, <2>1, <2>3 DEF AddEntry, Inv, OffsetsAgree
    <3> QED
      BY <2>2, <2>3, <3>1 DEF SlotsInv
  <2>4. CASE ~full
    <3>1. out_offs' = 0
      BY <1>3, <2>4 DEF AddEntry, Inv, OffsetsAgree
    <3>2. \A i \in Slots : (entry'[i] \in Entry) <=> i <= in_offs
      BY <2>1, <2>2, <2>4 DEF SlotsInv, Slots
    <3>3. CASE in_offs + 1 < N
      <4>1. in_offs' = in_offs + 1 /\ in_offs' # out_offs'
        BY <2>1, <3>1, <3>3
      <4>2. ~full'
        BY <2>1, <4>1
      <4>3. \A i \in Slots : i < in_offs' <=> i <= in_offs
        BY <2>1, <4>1 DEF Slots
      <4> QED
        BY <3>2, <4>2, <4>3 DEF SlotsInv
    <3>4. CASE in_offs + 1 >= N
      <4>1. in_offs' = out_offs'
        BY <2>1, <3>1, <3>4
      <4>2. full'
        BY <2>1, <4>1
      <4>3. \A i \in Slots : i <= in_offs
        BY <2>1, <3>4 DEF Slots
      <4> QED
        BY <3>2, <4>2, <4>3 DEF SlotsInv
    <3> QED
      BY <2>1, <3>3, <3>4
  <2> QED
    BY <2>3, <2>4
<1> QED
  BY <1>1, <1>2, <1>3 DEF Next

(* AESD_CIRCULAR_BUFFER_FOREACH finds each entry that was added, and       *)
(* nothing in the slots that are not in use.                               *)
THEOREM ForeachCorrect == Spec => []ForeachFreesLive
<1>1. Init => SlotsInv
  BY ZeroedIsNoEntry DEF Init, SlotsInv, Slots
<1>2. Inv /\ SlotsInv => ForeachFreesLive
  <2> SUFFICES ASSUME Inv, SlotsInv, NEW i \in Slots
               PROVE  (full \/ i < in_offs) <=> (\E k \in 1..Count : i = LiveSlot(k))
    BY DEF SlotsInv, ForeachFreesLive
  <2>1. out_offs \in 0..(N - 1) /\ in_offs \in 0..(N - 1) /\ i \in 0..(N - 1)
    BY DEF Inv, TypeOK, Slots
  <2>2. CASE full
    <3>1. Count = N
      BY <2>2 DEF Count
    <3> DEFINE k == IF i >= out_offs THEN i - out_offs + 1 ELSE i - out_offs + 1 + N
    <3>2. k \in 1..Count
      BY <2>1, <3>1
    <3>3. LiveSlot(k) = IF out_offs + k - 1 < N THEN out_offs + k - 1
                                                ELSE out_offs + k - 1 - N
      BY <3>2, LiveSlots
    <3>4. i = LiveSlot(k)
      BY <2>1, <3>3
    <3> QED
      BY <2>2, <3>2, <3>4
  <2>3. CASE ~full
    <3>1. Count = in_offs /\ out_offs = 0
      BY <2>3 DEF Inv, OffsetsAgree, Count
    <3>2. \A k \in 1..Count : LiveSlot(k) = k - 1
      BY <2>1, <3>1, LiveSlots
    <3>3. i < in_offs => i + 1 \in 1..Count /\ LiveSlot(i + 1) = i
      BY <2>1, <3>1, <3>2
    <3> QED
      BY <2>1, <2>3, <3>1, <3>2, <3>3
  <2> QED
    BY <2>2, <2>3
<1> QED
  BY <1>1, <1>2, InvInit, InvStep, SlotsStep, PTL DEF Spec

(* After an entry was added to a buffer with room, it is the last one and  *)
(* the others are where they were.                                         *)
LEMMA AddWithRoom ==
    ASSUME Inv, NEW e \in Entry, AddEntry(e), ~full
    PROVE  /\ Count' = Count + 1
           /\ \A k \in 1..Count : History'[k] = History[k]
           /\ History'[Count + 1] = e
<1>1. Inv'
  BY InvStep DEF Next
<1>2. /\ out_offs = 0 /\ out_offs' = 0
      /\ Count = in_offs /\ in_offs \in Slots
      /\ entry' = [entry EXCEPT ![in_offs] = e]
      /\ in_offs' = IF in_offs + 1 < N THEN in_offs + 1 ELSE 0
      /\ full' = (in_offs' = out_offs')
  BY NextSlot DEF AddEntry, Inv, TypeOK, OffsetsAgree, Count
<1>3. Count' = Count + 1
  <2>1. CASE in_offs + 1 < N
    <3>1. in_offs' = in_offs + 1 /\ in_offs' # out_offs'
      BY <1>2, <2>1 DEF Slots
    <3>2. ~full'
      BY <1>2, <3>1
    <3> QED
      BY <1>2, <3>1, <3>2 DEF Count
  <2>2. CASE in_offs + 1 >= N
    <3>1. in_offs' = out_offs' /\ in_offs + 1 = N
      BY <1>2, <2>2 DEF Slots
    <3>2. full'
      BY <1>2, <3>1
    <3> QED
      BY <1>2, <3>1, <3>2 DEF Count
  <2> QED
    BY <1>2, <2>1, <2>2 DEF Slots
<1>4. ASSUME NEW k \in 1..(Count + 1)
      PROVE  LiveSlot(k)' = k - 1 /\ History'[k] = entry'[k - 1]
  <2>1. k \in 1..Count'
    BY <1>3
  <2>2. LiveSlot(k)' = k - 1
    BY <1>1, <1>2, <2>1, ModRing DEF LiveSlot, Slots
  <2> QED
    BY <2>1, <2>2 DEF History
<1>5. ASSUME NEW k \in 1..Count PROVE History[k] = entry[k - 1]
  BY <1>2, LiveSlots DEF History, Slots
<1>6. entry \in [Slots -> Entry \cup {Zeroed}]
  BY DEF Inv, TypeOK
<1> QED
  BY <1>2, <1>3, <1>4, <1>5, <1>6 DEF Slots

(* After an entry was added to a full buffer, it is the last one, and the  *)
(* oldest one is forgotten.                                                *)
LEMMA AddWhenFull ==
    ASSUME Inv, NEW e \in Entry, AddEntry(e), full
    PROVE  /\ Count = N /\ Count' = N
           /\ \A k \in 1..(N - 1) : History'[k] = History[k + 1]
           /\ History'[N] = e
<1>1. Inv'
  BY InvStep DEF Next
<1>2. /\ in_offs = out_offs /\ in_offs' = out_offs' /\ full'
      /\ out_offs \in Slots
      /\ entry' = [entry EXCEPT ![out_offs] = e]
      /\ out_offs' = IF out_offs + 1 < N THEN out_offs + 1 ELSE 0
      /\ entry \in [Slots -> Entry \cup {Zeroed}]
  BY NextSlot DEF AddEntry, Inv, TypeOK, OffsetsAgree
<1>3. Count = N /\ Count' = N
  BY <1>2 DEF Count
<1>4. ASSUME NEW k \in 1..N
      PROVE  /\ LiveSlot(k)' = IF out_offs + k < N THEN out_offs + k ELSE out_offs + k - N
             /\ History'[k] = entry'[LiveSlot(k)']
  <2>1. out_offs' + k - 1 \in 0..(2 * N - 1)
    BY <1>2 DEF Slots
  <2>2. LiveSlot(k)' = IF out_offs' + k - 1 < N THEN out_offs' + k - 1
                                              ELSE out_offs' + k - 1 - N
    <3>1. out_offs' \in Slots
      BY <1>1 DEF Inv, TypeOK
    <3> QED
      BY <3>1, RingSum DEF LiveSlot
  <2>3. LiveSlot(k)' = IF out_offs + k < N THEN out_offs + k ELSE out_offs + k - N
    <3>1. CASE out_offs + 1 < N
      BY <1>2, <2>2, <3>1 DEF Slots
    <3>2. CASE out_offs + 1 >= N
      <4>1. out_offs = N - 1 /\ out_offs' = 0
        BY <1>2, <3>2 DEF Slots
      <4> QED
        BY <2>2, <4>1
    <3> QED
      BY <1>2, <3>1, <3>2 DEF Slots
  <2>4. History'[k] = entry'[LiveSlot(k)']
    BY <1>3 DEF History
  <2> QED
    BY <2>3, <2>4
<1>5. ASSUME NEW k \in 1..(N - 1) PROVE History'[k] = History[k + 1]
  <2>1. LiveSlot(k + 1) = LiveSlot(k)' /\ LiveSlot(k + 1) \in Slots
    BY <1>2, <1>3, <1>4, LiveSlots DEF Slots
  <2>2. LiveSlot(k)' # out_offs
    BY <1>2, <1>4 DEF Slots
  <2>3. History[k + 1] = entry[LiveSlot(k + 1)]
    BY <1>3 DEF History
  <2> QED
    BY <1>2, <1>4, <2>1, <2>2, <2>3
<1>6. History'[N] = e
  <2>1. LiveSlot(N)' = out_offs
    BY <1>2, <1>4 DEF Slots
  <2> QED
    BY <1>2, <1>4, <2>1
<1> QED
  BY <1>3, <1>5, <1>6

(* The history the ring stands for is a sequence of entries.               *)
LEMMA HistoryIsSeq ==
    ASSUME Inv
    PROVE  Count \in 0..N /\ History \in Seq(Entry \cup {Zeroed}) /\ Len(History) = Count
<1>1. Count \in 0..N
  BY DEF Inv, TypeOK, Slots, Count
<1>2. \A k \in 1..Count : entry[LiveSlot(k)] \in Entry \cup {Zeroed}
  BY LiveSlots DEF Inv, TypeOK
<1> QED
  BY <1>1, <1>2 DEF History

(* Two sequences with the same elements are the same.                      *)
LEMMA SameElements ==
    ASSUME NEW S, NEW s \in Seq(S), NEW t \in Seq(S), Len(s) = Len(t),
           \A k \in 1..Len(s) : s[k] = t[k]
    PROVE  s = t
OBVIOUS

(* The buffer is a correct implementation of "the last N writes".          *)
THEOREM BufferRemembers == Spec => RemembersLastWrites
<1>1. Init => WH!Init
  <2> SUFFICES ASSUME Init PROVE History = <<>>
    BY DEF WH!Init
  <2>1. Count = 0
    BY DEF Init, Count
  <2> QED
    BY <2>1, InvInit, HistoryIsSeq
<1>2. Inv /\ [Next]_vars => [WH!Next]_History
  <2> SUFFICES ASSUME Inv, [Next]_vars PROVE WH!Next \/ UNCHANGED History
    OBVIOUS
  <2>1. Inv'
    BY InvStep
  <2>2. /\ Count' \in 0..N
        /\ History' \in Seq(Entry \cup {Zeroed})
        /\ Len(History') = Count'
    <3>1. (Inv => /\ Count \in 0..N
                  /\ History \in Seq(Entry \cup {Zeroed})
                  /\ Len(History) = Count)'
      BY HistoryIsSeq, PTL
    <3> QED
      BY <2>1, <3>1
  <2>3. /\ Count \in 0..N
        /\ History \in Seq(Entry \cup {Zeroed})
        /\ Len(History) = Count
    BY HistoryIsSeq
  <2>4. CASE UNCHANGED vars
    BY <2>4 DEF vars, History, Count, LiveSlot
  <2>5. CASE Zero
    <3>1. Count' = 0
      BY <2>5 DEF Zero, Count
    <3>2. History' = <<>>
      BY <2>2, <3>1
    <3> QED
      BY <3>2 DEF WH!Next, WH!Reset
  <2>6. ASSUME NEW e \in Entry, AddEntry(e) PROVE WH!Add(e)
    <3>1. CASE full
      <4>1. /\ Count = N /\ Count' = N
            /\ \A k \in 1..(N - 1) : History'[k] = History[k + 1]
            /\ History'[N] = e
        BY <2>6, <3>1, AddWhenFull
      <4>2. /\ Append(Tail(History), e) \in Seq(Entry \cup {Zeroed})
            /\ Len(Append(Tail(History), e)) = N
            /\ \A k \in 1..(N - 1) : Append(Tail(History), e)[k] = History[k + 1]
            /\ Append(Tail(History), e)[N] = e
        BY <2>3, <4>1
      <4>3. History' = Append(Tail(History), e)
        BY <2>2, <4>1, <4>2, SameElements
      <4> QED
        BY <2>3, <4>1, <4>3 DEF WH!Add
    <3>2. CASE ~full
      <4>1. /\ Count' = Count + 1
            /\ \A k \in 1..Count : History'[k] = History[k]
            /\ History'[Count + 1] = e
        BY <2>6, <3>2, AddWithRoom
      <4>2. /\ Append(History, e) \in Seq(Entry \cup {Zeroed})
            /\ Len(Append(History, e)) = Count + 1
            /\ \A k \in 1..Count : Append(History, e)[k] = History[k]
            /\ Append(History, e)[Count + 1] = e
        BY <2>3
      <4>3. History' = Append(History, e)
        BY <2>2, <2>3, <4>1, <4>2, SameElements
      <4> QED
        BY <2>2, <2>3, <4>1, <4>3 DEF WH!Add
    <3> QED
      BY <3>1, <3>2
  <2>7. CASE RejectEntry(Zeroed)
    BY <2>7 DEF RejectEntry, vars, History, Count, LiveSlot
  <2> QED
    BY <2>4, <2>5, <2>6, <2>7 DEF Next, WH!Next
<1> QED
  BY <1>1, <1>2, InvInit, InvStep, PTL DEF Spec, RemembersLastWrites, WH!Spec

-----------------------------------------------------------------------------
(* What aesd_circular_buffer_find_entry_offset_for_fpos() finds.           *)

(* BytesBefore, by its recursion equation: there is a function that solves *)
(* it for the first n arguments, whatever n is.                            *)
BytesBody(f, k) == IF k = 1 THEN 0 ELSE f[k - 1] + entry[LiveSlot(k - 1)].size

(* The recursion equation of BytesBefore, which sums the sizes of entries. *)
LEMMA BytesBeforeDef ==
    BytesBefore = [k \in 1..(N + 1) |-> BytesBody(BytesBefore, k)]
<1> DEFINE S == 1..(N + 1)
           Solves(f, n) == \A k \in S : k <= n => f[k] = BytesBody(f, k)
           T == {n \in Nat : ~\E f : f = [k \in S |-> f[k]] /\ Solves(f, n)}
<1>1. T = {}
  <2> SUFFICES ASSUME T # {} PROVE FALSE
    OBVIOUS
  <2>1. PICK n \in T : \A m \in T : n <= m
    BY Least
  <2>2. n # 0
    <3> DEFINE g == [k \in S |-> 0]
    <3>1. g = [k \in S |-> g[k]] /\ Solves(g, 0)
      OBVIOUS
    <3> QED
      BY <3>1
  <2>3. n - 1 \in Nat /\ n - 1 \notin T
    BY <2>1, <2>2
  <2>4. PICK f : f = [k \in S |-> f[k]] /\ Solves(f, n - 1)
    BY <2>3
  <2> DEFINE g == [k \in S |-> BytesBody(f, k)]
  <2>5. \A k \in S : k <= n => g[k] = BytesBody(g, k)
    <3> SUFFICES ASSUME NEW k \in S, k <= n PROVE g[k] = BytesBody(g, k)
      OBVIOUS
    <3>1. CASE k = 1
      BY <3>1 DEF BytesBody
    <3>2. CASE k # 1
      <4>1. k - 1 \in S /\ k - 1 <= n - 1
        BY <3>2, <2>1
      <4>2. f[k - 1] = g[k - 1]
        BY <2>4, <4>1
      <4> QED
        BY <3>2, <4>2 DEF BytesBody
    <3> QED
      BY <3>1, <3>2
  <2>6. g = [k \in S |-> g[k]]
    OBVIOUS
  <2> QED
    BY <2>1, <2>5, <2>6
<1>2. PICK f : f = [k \in S |-> f[k]] /\ Solves(f, N + 1)
  <2>1. N + 1 \in Nat /\ N + 1 \notin T
    BY <1>1
  <2> QED
    BY <2>1
<1>3. f = [k \in S |-> BytesBody(f, k)]
  <2>1. \A k \in S : k <= N + 1
    OBVIOUS
  <2>2. \A k \in S : f[k] = BytesBody(f, k)
    BY <1>2, <2>1, Zenon
  <2> QED
    BY <1>2, <2>2
<1> QED
  BY <1>3 DEF BytesBefore, BytesBody

(* Each entry adds its size.                                               *)
LEMMA BytesBeforeNext ==
    /\ BytesBefore[1] = 0
    /\ \A k \in 1..N : BytesBefore[k + 1] = BytesBefore[k] + entry[LiveSlot(k)].size
<1>1. ASSUME NEW k \in 1..(N + 1) PROVE BytesBefore[k] = BytesBody(BytesBefore, k)
  BY BytesBeforeDef
<1>2. BytesBefore[1] = 0
  BY <1>1 DEF BytesBody
<1>3. ASSUME NEW k \in 1..N
      PROVE  BytesBefore[k + 1] = BytesBefore[k] + entry[LiveSlot(k)].size
  <2>1. k + 1 \in 1..(N + 1) /\ k + 1 # 1 /\ (k + 1) - 1 = k
    OBVIOUS
  <2> QED
    BY <1>1, <2>1 DEF BytesBody
<1> QED
  BY <1>2, <1>3

(* No sum of sizes reaches SIZE_MOD: a size_t never wraps around.          *)
LEMMA BytesBound ==
    ASSUME Inv
    PROVE  \A k \in 1..(N + 1) :
             BytesBefore[k] \in 0..(SIZE_MOD - 1)
<1> DEFINE Low(k) == /\ BytesBefore[k] \in Nat
                     /\ BytesBefore[k] + (N + 1 - k) * MaxSize <= N * MaxSize
           T == {k \in 1..(N + 1) : ~Low(k)}
<1>1. T = {}
  <2> SUFFICES ASSUME T # {} PROVE FALSE
    OBVIOUS
  <2>0. T \in SUBSET Nat
    OBVIOUS
  <2>1. PICK k \in T : \A m \in T : k <= m
    <3> HIDE DEF T
    <3> QED
      BY <2>0, Least
  <2>2. k # 1
    BY BytesBeforeNext
  <2>3. k - 1 \in 1..N /\ Low(k - 1)
    BY <2>1, <2>2
  <2>4. entry[LiveSlot(k - 1)].size \in 0..MaxSize
    <3>1. LiveSlot(k - 1) \in Slots
      BY <2>3, RingSum DEF LiveSlot, Inv, TypeOK, Slots
    <3> QED
      BY <3>1 DEF Inv, TypeOK, Entry, Zeroed
  <2>5. BytesBefore[k] = BytesBefore[k - 1] + entry[LiveSlot(k - 1)].size
    <3>1. (k - 1) + 1 = k
      BY <2>3
    <3> QED
      BY <2>3, <3>1, BytesBeforeNext
  <2>6. (N + 1 - (k - 1)) * MaxSize = (N + 1 - k) * MaxSize + MaxSize
    BY <2>3
  <2>7. (N + 1 - k) * MaxSize \in Nat /\ N * MaxSize \in Nat
    BY <2>1
  <2>8. Low(k)
    BY <2>3, <2>4, <2>5, <2>6, <2>7
  <2> QED
    BY <2>1, <2>8
<1>2. ASSUME NEW k \in 1..(N + 1) PROVE BytesBefore[k] \in 0..(SIZE_MOD - 1)
  <2>1. Low(k)
    BY <1>1
  <2>2. (N + 1 - k) * MaxSize \in Nat /\ N * MaxSize \in Nat
    OBVIOUS
  <2> QED
    BY <2>1, <2>2, WidthAssumption
<1> QED
  BY <1>2

(* The loop of Find() turns less than once more around the ring: what is   *)
(* left of the turn decreases until in_offs is reached, for a full buffer  *)
(* for the second time.                                                    *)
TurnsLeft(v) ==
    IF v.i = in_offs THEN (IF full /\ v.once_flag THEN N ELSE 0)
    ELSE IF v.i < in_offs THEN in_offs - v.i ELSE in_offs - v.i + N

(* The loop's variables keep their types ...                               *)
LEMMA NextVisitType ==
    ASSUME Inv, NEW v \in Visit
    PROVE  NextVisit(v) \in Visit
<1>1. v.i \in Slots /\ v.once_flag \in BOOLEAN /\ v.acc \in Nat
  BY DEF Visit
<1>2. Next1(v.i) \in Slots
  BY <1>1, NextSlot
<1>3. entry[v.i].size \in Nat
  BY <1>1 DEF Inv, TypeOK, Entry, Zeroed
<1>4. SIZE_MOD \in Nat \ {0}
  <2>1. N * MaxSize \in Nat
    OBVIOUS
  <2> QED
    BY <2>1, WidthAssumption
<1>5. (v.acc + entry[v.i].size) % SIZE_MOD \in 0..(SIZE_MOD - 1)
  BY <1>1, <1>3, <1>4
<1>6. (v.once_flag /\ ~(full /\ out_offs = in_offs)) \in BOOLEAN
  OBVIOUS
<1> QED
  BY <1>2, <1>5, <1>6 DEF NextVisit, Visit

(* ... each turn brings them closer to the end ...                         *)
LEMMA TurnsDecrease ==
    ASSUME Inv, NEW v \in Visit, Visits(v)
    PROVE  TurnsLeft(NextVisit(v)) \in Nat /\ TurnsLeft(NextVisit(v)) < TurnsLeft(v)
<1> DEFINE w == NextVisit(v)
<1>1. /\ v.i \in 0..(N - 1) /\ in_offs \in 0..(N - 1)
      /\ w.i = IF v.i + 1 < N THEN v.i + 1 ELSE 0
  BY NextSlot DEF Visit, Inv, TypeOK, NextVisit, Slots
<1>2. ~(full /\ w.once_flag)
  BY DEF NextVisit, Inv, OffsetsAgree
<1>3. TurnsLeft(w) = IF w.i = in_offs THEN 0
                     ELSE IF w.i < in_offs THEN in_offs - w.i ELSE in_offs - w.i + N
  BY <1>2 DEF TurnsLeft
<1>4. TurnsLeft(v) = IF v.i = in_offs THEN N
                     ELSE IF v.i < in_offs THEN in_offs - v.i ELSE in_offs - v.i + N
  BY DEF TurnsLeft, Visits
<1> HIDE DEF w
<1>5. TurnsLeft(w) \in Nat /\ TurnsLeft(w) < TurnsLeft(v)
  BY <1>1, <1>3, <1>4
<1> QED
  BY <1>5 DEF w

(* ... from which they are never far.                                      *)
LEMMA TurnsBound ==
    ASSUME Inv, NEW v \in Visit
    PROVE  TurnsLeft(v) \in 0..N
<1>1. v.i \in 0..(N - 1) /\ in_offs \in 0..(N - 1)
  BY DEF Visit, Inv, TypeOK, Slots
<1>2. CASE full /\ v.once_flag
  BY <1>1, <1>2 DEF TurnsLeft
<1>3. CASE ~(full /\ v.once_flag)
  BY <1>1, <1>3 DEF TurnsLeft
<1> QED
  BY <1>2, <1>3

(* Hence the loop's equation has a solution, and Find() is one.            *)
LoopBody(p, f, v) ==
    IF ~Visits(v) THEN NULL
    ELSE IF (p + 1) % SIZE_MOD <= NextVisit(v).acc
    THEN [slot |-> v.i, byte |-> (p - v.acc) % SIZE_MOD]
    ELSE f[NextVisit(v)]

(* The recursion equation of the search loop.                              *)
LEMMA LoopDef ==
    ASSUME Inv, NEW p
    PROVE  \E f : /\ f = [v \in Visit |-> LoopBody(p, f, v)]
                  /\ Find(p) = f[FirstVisit]
<1> DEFINE Solves(f, n) == \A v \in Visit : TurnsLeft(v) < n => f[v] = LoopBody(p, f, v)
           T == {n \in Nat : ~\E f : f = [v \in Visit |-> f[v]] /\ Solves(f, n)}
<1>1. T = {}
  <2> SUFFICES ASSUME T # {} PROVE FALSE
    OBVIOUS
  <2>1. PICK n \in T : \A m \in T : n <= m
    BY Least
  <2>2. n # 0
    <3> DEFINE g == [v \in Visit |-> NULL]
    <3>1. \A v \in Visit : ~(TurnsLeft(v) < 0)
      BY TurnsBound
    <3>2. g = [v \in Visit |-> g[v]] /\ Solves(g, 0)
      BY <3>1
    <3> QED
      BY <3>2
  <2>3. n - 1 \in Nat /\ n - 1 \notin T
    BY <2>1, <2>2
  <2>4. PICK f : f = [v \in Visit |-> f[v]] /\ Solves(f, n - 1)
    BY <2>3
  <2> DEFINE g == [v \in Visit |-> LoopBody(p, f, v)]
  <2>5. \A v \in Visit : TurnsLeft(v) < n => g[v] = LoopBody(p, g, v)
    <3> SUFFICES ASSUME NEW v \in Visit, TurnsLeft(v) < n PROVE g[v] = LoopBody(p, g, v)
      OBVIOUS
    <3>1. g[v] = LoopBody(p, f, v)
      OBVIOUS
    <3>2. CASE ~Visits(v)
      BY <3>1, <3>2 DEF LoopBody
    <3>3. CASE Visits(v)
      <4>1. NextVisit(v) \in Visit /\ TurnsLeft(NextVisit(v)) < n - 1
        <5>1. TurnsLeft(v) \in Nat /\ n \in Nat
          BY TurnsBound
        <5> QED
          BY <3>3, <5>1, NextVisitType, TurnsDecrease
      <4>2. f[NextVisit(v)] = g[NextVisit(v)]
        BY <2>4, <4>1
      <4> HIDE DEF g
      <4> QED
        BY <3>1, <4>2 DEF LoopBody
    <3> QED
      BY <3>2, <3>3
  <2>6. g = [v \in Visit |-> g[v]]
    OBVIOUS
  <2> QED
    BY <2>1, <2>5, <2>6
<1>2. PICK f : f = [v \in Visit |-> f[v]] /\ Solves(f, N + 1)
  <2>1. N + 1 \in Nat /\ N + 1 \notin T
    BY <1>1
  <2> QED
    BY <2>1
<1>3. f = [v \in Visit |-> LoopBody(p, f, v)]
  <2>1. \A v \in Visit : TurnsLeft(v) < N + 1
    BY TurnsBound
  <2>2. \A v \in Visit : f[v] = LoopBody(p, f, v)
    BY <1>2, <2>1, Zenon
  <2> QED
    BY <1>2, <2>2
<1> DEFINE L == CHOOSE g : g = [v \in Visit |-> LoopBody(p, g, v)]
<1>4. L = [v \in Visit |-> LoopBody(p, L, v)]
  BY <1>3
<1>5. Find(p) = L[FirstVisit]
  BY DEF Find, LoopBody
<1> QED
  BY <1>4, <1>5

(* The loop reaches the k-th oldest entry, and the place behind the last   *)
(* one, with the bytes that lie before it added up.                        *)
VisitOf(k) ==
    [i |-> (out_offs + k - 1) % N, once_flag |-> (k = 1 \/ ~full),
     acc |-> BytesBefore[k]]

(* The loop's condition holds as long as an entry is left.                 *)
LEMMA VisitOfType ==
    ASSUME Inv, NEW k \in 1..(Count + 1)
    PROVE  /\ VisitOf(k) \in Visit
           /\ Visits(VisitOf(k)) <=> k <= Count
<1>1. out_offs \in 0..(N - 1) /\ in_offs \in 0..(N - 1) /\ Count \in 0..N
  BY DEF Inv, TypeOK, Slots, Count
<1>2. BytesBefore[k] \in 0..(SIZE_MOD - 1)
  BY <1>1, BytesBound
<1>3. (out_offs + k - 1) % N = IF out_offs + k - 1 < N THEN out_offs + k - 1
                                                       ELSE out_offs + k - 1 - N
  BY <1>1, ModRing
<1>4. (out_offs + k - 1) % N \in Slots /\ (k = 1 \/ ~full) \in BOOLEAN
  BY <1>1, <1>3 DEF Slots
<1>5. VisitOf(k) \in Visit
  BY <1>2, <1>4 DEF VisitOf, Visit
<1>6. Visits(VisitOf(k)) <=> (out_offs + k - 1) % N # in_offs \/ (full /\ k = 1)
  <2>1. /\ VisitOf(k).i = (out_offs + k - 1) % N
        /\ VisitOf(k).once_flag = (k = 1 \/ ~full)
    BY DEF VisitOf
  <2>2. CASE full
    BY <2>1, <2>2, <1>1, <1>3 DEF Visits, Inv, OffsetsAgree
  <2>3. CASE ~full
    BY <2>1, <2>3 DEF Visits
  <2> QED
    BY <2>2, <2>3
<1>7. CASE full
  <2>1. Count = N /\ in_offs = out_offs
    BY <1>7 DEF Count, Inv, OffsetsAgree
  <2>2. (out_offs + k - 1) % N = in_offs <=> k = 1 \/ k = N + 1
    BY <1>1, <1>3, <2>1
  <2>3. (out_offs + k - 1) % N # in_offs \/ k = 1 <=> k <= Count
    BY <2>1, <2>2
  <2> QED
    BY <1>5, <1>6, <1>7, <2>3
<1>8. CASE ~full
  <2>1. Count = in_offs /\ out_offs = 0
    BY <1>8 DEF Count, Inv, OffsetsAgree
  <2>2. (out_offs + k - 1) % N # in_offs <=> k <= Count
    BY <1>1, <1>3, <2>1
  <2> QED
    BY <1>5, <1>6, <1>8, <2>2
<1> QED
  BY <1>7, <1>8

(* One turn of the loop goes from one entry to the next.                   *)
LEMMA VisitOfNext ==
    ASSUME Inv, NEW k \in 1..Count
    PROVE  NextVisit(VisitOf(k)) = VisitOf(k + 1)
<1>1. out_offs \in 0..(N - 1) /\ Count \in 0..N
  BY DEF Inv, TypeOK, Slots, Count
<1>2. Next1((out_offs + k - 1) % N) = (out_offs + k) % N
  <2>1. (out_offs + k - 1) % N = IF out_offs + k - 1 < N THEN out_offs + k - 1
                                                         ELSE out_offs + k - 1 - N
    BY <1>1, ModRing
  <2>2. (out_offs + k) % N = IF out_offs + k < N THEN out_offs + k
                             ELSE out_offs + k - N
    BY <1>1, ModRing
  <2>3. (out_offs + k - 1) % N \in Slots
    BY <1>1, <2>1 DEF Slots
  <2> QED
    BY <1>1, <2>1, <2>2, <2>3, NextSlot
<1>3. ((k = 1 \/ ~full) /\ ~(full /\ out_offs = in_offs)) = (k + 1 = 1 \/ ~full)
  <2>1. k + 1 # 1
    OBVIOUS
  <2> QED
    BY <2>1 DEF Inv, OffsetsAgree
<1>4. (BytesBefore[k] + entry[LiveSlot(k)].size) % SIZE_MOD = BytesBefore[k + 1]
  <2>1. BytesBefore[k] + entry[LiveSlot(k)].size = BytesBefore[k + 1]
    BY <1>1, BytesBeforeNext
  <2>2. BytesBefore[k + 1] \in 0..(SIZE_MOD - 1)
    BY <1>1, BytesBound
  <2> QED
    BY <2>1, <2>2
<1>5. out_offs + (k + 1) - 1 = out_offs + k
  BY <1>1
<1>6. /\ VisitOf(k).i = (out_offs + k - 1) % N
      /\ VisitOf(k).once_flag = (k = 1 \/ ~full)
      /\ VisitOf(k).acc = BytesBefore[k]
  BY DEF VisitOf
<1>7. NextVisit(VisitOf(k)) =
        [i |-> Next1((out_offs + k - 1) % N),
         once_flag |-> (k = 1 \/ ~full) /\ ~(full /\ out_offs = in_offs),
         acc |-> (BytesBefore[k] + entry[LiveSlot(k)].size) % SIZE_MOD]
  BY <1>6 DEF NextVisit, LiveSlot
<1>8. VisitOf(k + 1) = [i |-> (out_offs + k) % N, once_flag |-> (k + 1 = 1 \/ ~full),
                        acc |-> BytesBefore[k + 1]]
  BY <1>5 DEF VisitOf
<1> QED
  BY <1>2, <1>3, <1>4, <1>7, <1>8

(* Sums of sizes only grow.                                                *)
LEMMA BytesGrow ==
    ASSUME Inv
    PROVE  \A k \in 1..(Count + 1) : BytesBefore[k] <= BytesBefore[Count + 1]
<1> DEFINE Below(j) == BytesBefore[Count + 1 - j] <= BytesBefore[Count + 1]
           T == {j \in 0..Count : ~Below(j)}
<1>1. Count \in 0..N
  BY DEF Inv, TypeOK, Slots, Count
<1>2. T \in SUBSET Nat
  OBVIOUS
<1>3. T = {}
  <2> SUFFICES ASSUME T # {} PROVE FALSE
    OBVIOUS
  <2>1. PICK j \in T : \A m \in T : j <= m
    <3> HIDE DEF T
    <3> QED
      BY <1>2, Least
  <2>2. BytesBefore[Count + 1] \in Nat
    BY <1>1, BytesBound
  <2>3. j # 0
    <3>1. Below(0)
      BY <1>1, <2>2
    <3> QED
      BY <3>1
  <2> DEFINE k == Count + 1 - j
  <2>4. k \in 1..Count /\ k + 1 = Count + 1 - (j - 1) /\ j - 1 \in 0..Count
    BY <1>1, <2>3
  <2>5. Below(j - 1)
    BY <2>1, <2>4
  <2>6. BytesBefore[k + 1] = BytesBefore[k] + entry[LiveSlot(k)].size
    BY <1>1, <2>4, BytesBeforeNext
  <2>7. entry[LiveSlot(k)].size \in Nat
    BY <2>4, LiveSlots DEF Inv, TypeOK, Entry, Zeroed
  <2>8. BytesBefore[k] \in Nat
    BY <1>1, <2>4, BytesBound
  <2>9. BytesBefore[k + 1] <= BytesBefore[Count + 1]
    BY <2>4, <2>5
  <2> HIDE DEF k
  <2>10. BytesBefore[k] <= BytesBefore[Count + 1]
    BY <2>2, <2>6, <2>7, <2>8, <2>9
  <2> QED
    BY <2>10 DEF k
<1>4. ASSUME NEW k \in 1..(Count + 1)
      PROVE  BytesBefore[k] <= BytesBefore[Count + 1]
  <2>1. Count + 1 - k \in 0..Count /\ Count + 1 - (Count + 1 - k) = k
    BY <1>1
  <2>2. Below(Count + 1 - k)
    BY <1>3, <2>1
  <2> QED
    BY <2>1, <2>2
<1> QED
  BY <1>4

(* Find() on a sound buffer, for every position.                           *)
LEMMA FindIsExact ==
    ASSUME Inv, NEW p \in 0..(SIZE_MOD - 2)
    PROVE  IF p >= BytesBefore[Count + 1]
           THEN Find(p) = NULL
           ELSE \E k \in 1..Count :
                  /\ Find(p) = [slot |-> LiveSlot(k), byte |-> p - BytesBefore[k]]
                  /\ p - BytesBefore[k] \in 0..(entry[LiveSlot(k)].size - 1)
<1>1. PICK f : f = [v \in Visit |-> LoopBody(p, f, v)] /\ Find(p) = f[FirstVisit]
  BY LoopDef
<1>2. ASSUME NEW v \in Visit PROVE f[v] = LoopBody(p, f, v)
  BY <1>1
<1>3. Count \in 0..N /\ SIZE_MOD \in Nat /\ (p + 1) % SIZE_MOD = p + 1
  <2>1. p + 1 \in 0..(SIZE_MOD - 1)
    OBVIOUS
  <2> QED
    BY <2>1 DEF Inv, TypeOK, Slots, Count
<1>4. \A k \in 1..(Count + 1) : BytesBefore[k] \in 0..(SIZE_MOD - 1)
  BY <1>3, BytesBound
<1>5. \A k \in 1..Count : entry[LiveSlot(k)].size \in Nat
  BY LiveSlots DEF Inv, TypeOK, Entry, Zeroed
<1> DEFINE Sum(k) == BytesBefore[k]
           Reaches(k) == Find(p) = f[VisitOf(k)]
<1>6. Reaches(1)
  <2>1. out_offs % N = out_offs
    BY ModRing DEF Inv, TypeOK, Slots
  <2>2. VisitOf(1) = FirstVisit
    <3>1. out_offs + 1 - 1 = out_offs
      BY DEF Inv, TypeOK, Slots
    <3> QED
      BY <2>1, <3>1, BytesBeforeNext DEF VisitOf, FirstVisit
  <2> QED
    BY <1>1, <2>2
<1>7. ASSUME NEW k \in 1..Count, Reaches(k)
      PROVE  /\ p >= Sum(k + 1) => Reaches(k + 1)
             /\ p < Sum(k + 1) =>
                  Find(p) = [slot |-> LiveSlot(k), byte |-> (p - Sum(k)) % SIZE_MOD]
  <2>1. VisitOf(k) \in Visit /\ Visits(VisitOf(k))
    BY <1>3, VisitOfType
  <2>2. NextVisit(VisitOf(k)) = VisitOf(k + 1)
    BY VisitOfNext
  <2>3. /\ VisitOf(k).i = LiveSlot(k)
        /\ VisitOf(k).acc = Sum(k)
        /\ VisitOf(k + 1).acc = Sum(k + 1)
    BY DEF VisitOf, LiveSlot
  <2>4. Find(p) = IF p + 1 <= Sum(k + 1)
                  THEN [slot |-> LiveSlot(k), byte |-> (p - Sum(k)) % SIZE_MOD]
                  ELSE f[VisitOf(k + 1)]
    BY <1>2, <1>3, <1>7, <2>1, <2>2, <2>3 DEF LoopBody
  <2>5. Sum(k + 1) \in Nat
    BY <1>3, <1>4
  <2> QED
    BY <2>4, <2>5
<1>8. \A k \in 1..(Count + 1) : (\A m \in 1..k : p >= Sum(m)) => Reaches(k)
  <2> DEFINE Holds(k) == (\A m \in 1..k : p >= Sum(m)) => Reaches(k)
             T == {k \in 1..(Count + 1) : ~Holds(k)}
  <2>1. SUFFICES ASSUME T # {} PROVE FALSE
    OBVIOUS
  <2>2. T \in SUBSET Nat
    OBVIOUS
  <2>3. PICK k \in T : \A m \in T : k <= m
    <3> HIDE DEF T
    <3> QED
      BY <2>1, <2>2, Least
  <2>4. k \in 1..(Count + 1) /\ ~Holds(k) /\ k # 1
    BY <1>6
  <2>5. k - 1 \in 1..Count /\ k - 1 \notin T
    BY <2>3, <2>4, <1>3
  <2>6. Holds(k - 1)
    BY <2>5, <1>3
  <2>7. Reaches(k - 1) /\ p >= Sum(k)
    BY <2>4, <2>5, <2>6
  <2>8. Reaches(k)
    <3>1. (k - 1) + 1 = k
      BY <2>4
    <3> HIDE DEF Reaches, Sum
    <3> QED
      BY <1>7, <2>5, <2>7, <3>1
  <2> QED
    BY <2>4, <2>8
<1> HIDE DEF Reaches
<1>9. CASE p >= Sum(Count + 1)
  <2>0. \A m \in 1..(Count + 1) : p >= Sum(m)
    BY <1>3, <1>4, <1>9, BytesGrow
  <2>1. Reaches(Count + 1)
    BY <1>3, <1>8, <2>0
  <2>2. VisitOf(Count + 1) \in Visit /\ ~Visits(VisitOf(Count + 1))
    BY <1>3, VisitOfType
  <2>3. Find(p) = NULL
    BY <1>2, <2>1, <2>2 DEF LoopBody, Reaches
  <2> QED
    BY <1>3, <1>9, <2>3
<1>10. CASE p < Sum(Count + 1)
  <2> DEFINE T == {m \in 1..(Count + 1) : p < Sum(m)}
  <2>1. T \in SUBSET Nat /\ T # {}
    BY <1>3, <1>10
  <2>2. PICK n \in T : \A m \in T : n <= m
    <3> HIDE DEF T
    <3> QED
      BY <2>1, Least
  <2>3. n \in 1..(Count + 1) /\ p < Sum(n) /\ n # 1
    BY BytesBeforeNext
  <2> DEFINE k == n - 1
  <2>4. k \in 1..Count /\ n = k + 1
    BY <1>3, <2>3
  <2>5. \A m \in 1..k : p >= Sum(m)
    <3>1. \A m \in 1..k : m \in 1..(Count + 1) /\ m \notin T
      BY <2>2, <2>3, <2>4, <1>3
    <3> QED
      BY <3>1, <1>4
  <2>6. Reaches(k)
    BY <1>8, <2>4, <2>5, <1>3
  <2>7. Find(p) = [slot |-> LiveSlot(k), byte |-> (p - Sum(k)) % SIZE_MOD]
    BY <1>7, <2>3, <2>4, <2>6
  <2>8. /\ Sum(k + 1) = Sum(k) + entry[LiveSlot(k)].size
        /\ Sum(k) <= p /\ p < Sum(k + 1) /\ Sum(k) \in Nat
    BY <1>3, <1>4, <2>3, <2>4, <2>5, BytesBeforeNext
  <2>9. (p - Sum(k)) % SIZE_MOD = p - Sum(k)
    <3>1. p - Sum(k) \in 0..(SIZE_MOD - 1)
      BY <1>3, <2>8
    <3> QED
      BY <1>3, <3>1
  <2>10. p - Sum(k) \in 0..(entry[LiveSlot(k)].size - 1)
    BY <1>5, <2>4, <2>8
  <2> QED
    BY <1>3, <1>4, <1>10, <2>4, <2>7, <2>9, <2>10
<1> QED
  BY <1>3, <1>4, <1>9, <1>10

(* Whatever was written, a position in the concatenation of all entries is *)
(* found in its entry, at its byte, and a position behind it is not found, *)
(* although the sizes are added up in a size_t and the loop goes once      *)
(* around a ring.                                                          *)
THEOREM FindCorrect == Spec => []FindsPosition
<1>1. Inv => FindsPosition
  BY FindIsExact DEF FindsPosition
<1> QED
  BY <1>1, InvInit, InvStep, PTL DEF Spec
=============================================================================
