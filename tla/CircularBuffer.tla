--------------------------- MODULE CircularBuffer ---------------------------
(***************************************************************************)
(* aesd-char-driver/aesd-circular-buffer.c: a ring of the last N writes.   *)
(* Locking is the callers' business, so the operations are atomic here.    *)
(***************************************************************************)
EXTENDS Integers, Sequences

CONSTANTS
    N,          \* AESDCHAR_MAX_WRITE_OPERATIONS_SUPPORTED
    Buffers,    \* the memory callers put into entries
    NULL,       \* the null pointer
    MaxSize,    \* bound: the size of one entry
    SIZE_MOD    \* 2^w for a size_t of w bits

ASSUME CircularBufferAssumption ==
    /\ N \in Nat \ {0}
    /\ NULL \notin Buffers
    /\ MaxSize \in Nat
    /\ SIZE_MOD \in Nat

(* The sizes of N entries never add up to more than a size_t holds, since  *)
(* they are the sizes of memory that exists; offsets index a uint8_t.      *)
ASSUME WidthAssumption ==
    /\ N < 256
    /\ N * MaxSize < SIZE_MOD

VARIABLES entry, in_offs, out_offs, full
vars == <<entry, in_offs, out_offs, full>>

Slots == 0..(N - 1)
Entry == [buffptr : Buffers, size : 0..MaxSize]
Zeroed == [buffptr |-> NULL, size |-> 0]

Next1(i) == (i + 1) % N

-----------------------------------------------------------------------------
(* Mutant: only the offsets are cleared.                                   *)
ZeroOffsets ==
    /\ in_offs' = 0
    /\ out_offs' = 0
    /\ full' = FALSE
    /\ UNCHANGED entry

(* aesd_circular_buffer_init(): memset() of the whole struct.              *)
Zero ==
    /\ entry' = [i \in Slots |-> Zeroed]
    /\ in_offs' = 0
    /\ out_offs' = 0
    /\ full' = FALSE

Init ==
    /\ entry = [i \in Slots |-> Zeroed]
    /\ in_offs = 0
    /\ out_offs = 0
    /\ full = FALSE

(* The parameter checks of aesd_circular_buffer_add_entry().               *)
Accepts(e) == e.buffptr # NULL /\ out_offs <= N /\ in_offs <= N

(* Mutants: the offset does not wrap around; the oldest entry stays the    *)
(* oldest; the first write moves out_offs, too.                            *)
AddEntryNoWrap(e) ==
    /\ Accepts(e)
    /\ entry' = [entry EXCEPT ![in_offs] = e]
    /\ out_offs' = IF in_offs = out_offs /\ full THEN Next1(out_offs) ELSE out_offs
    /\ in_offs' = in_offs + 1
    /\ full' = (in_offs' = out_offs')

AddEntryKeepOldest(e) ==
    /\ Accepts(e)
    /\ entry' = [entry EXCEPT ![in_offs] = e]
    /\ in_offs' = Next1(in_offs)
    /\ full' = (full \/ in_offs' = out_offs)
    /\ UNCHANGED out_offs

AddEntryIgnoreFull(e) ==
    /\ Accepts(e)
    /\ entry' = [entry EXCEPT ![in_offs] = e]
    /\ out_offs' = IF in_offs = out_offs THEN Next1(out_offs) ELSE out_offs
    /\ in_offs' = Next1(in_offs)
    /\ full' = (in_offs' = out_offs')

(* aesd_circular_buffer_add_entry(): write at in_offs; if that slot held   *)
(* the oldest entry of a full buffer, the next one is now the oldest.      *)
AddEntry(e) ==
    /\ Accepts(e)
    /\ entry' = [entry EXCEPT ![in_offs] = e]
    /\ out_offs' = IF in_offs = out_offs /\ full THEN Next1(out_offs) ELSE out_offs
    /\ in_offs' = Next1(in_offs)
    /\ full' = (in_offs' = out_offs')

RejectEntry(e) == ~Accepts(e) /\ UNCHANGED vars

Next ==
    \/ Zero
    \/ \E e \in Entry : AddEntry(e)
    \/ RejectEntry(Zeroed)

Spec == Init /\ [][Next]_vars

-----------------------------------------------------------------------------
(* aesd_circular_buffer_find_entry_offset_for_fpos(): the variables of the *)
(* loop, its condition, and one turn of it.  It starts at out_offs and     *)
(* goes on until in_offs is reached, for a full buffer until it is reached *)
(* once more, and adds up sizes.  All the sums are sums of size_t.         *)
Visit == [i : Slots, once_flag : BOOLEAN, acc : 0..(SIZE_MOD - 1)]
FirstVisit == [i |-> out_offs, once_flag |-> TRUE, acc |-> 0]
Visits(v) == v.i # in_offs \/ (full /\ v.i = in_offs /\ v.once_flag)
NextVisit(v) ==
    [i |-> Next1(v.i),
     once_flag |-> v.once_flag /\ ~(full /\ out_offs = in_offs),
     acc |-> (v.acc + entry[v.i].size) % SIZE_MOD]

(* Mutant: off by one.                                                     *)
FindOneEarly(char_offset) ==
    LET Loop[v \in Visit] ==
          IF ~Visits(v) THEN NULL
          ELSE IF char_offset <= NextVisit(v).acc
          THEN [slot |-> v.i, byte |-> (char_offset - v.acc) % SIZE_MOD]
          ELSE Loop[NextVisit(v)]
    IN  Loop[FirstVisit]

Find(char_offset) ==
    LET Loop[v \in Visit] ==
          IF ~Visits(v) THEN NULL
          ELSE IF (char_offset + 1) % SIZE_MOD <= NextVisit(v).acc
          THEN [slot |-> v.i, byte |-> (char_offset - v.acc) % SIZE_MOD]
          ELSE Loop[NextVisit(v)]
    IN  Loop[FirstVisit]

-----------------------------------------------------------------------------
(* The entries in the buffer, oldest first.                                *)
Count == IF full THEN N ELSE in_offs
LiveSlot(k) == (out_offs + k - 1) % N
History == [k \in 1..Count |-> entry[LiveSlot(k)]]

WH == INSTANCE WriteHistory WITH history <- History

(* The bytes that lie before the k-th oldest entry when all entries are    *)
(* concatenated end to end.                                                *)
BytesBefore[k \in 1..(N + 1)] ==
    IF k = 1 THEN 0 ELSE BytesBefore[k - 1] + entry[LiveSlot(k - 1)].size

-----------------------------------------------------------------------------
(* Properties                                                              *)

TypeOK ==
    /\ entry \in [Slots -> Entry \cup {Zeroed}]
    /\ in_offs \in Slots
    /\ out_offs \in Slots
    /\ full \in BOOLEAN

(* What the two offsets and the flag say fits together: a full buffer is   *)
(* written where it is read; before that nothing has been overwritten, and *)
(* reading starts at the first slot.                                       *)
OffsetsAgree ==
    IF full THEN in_offs = out_offs ELSE out_offs = 0

(* AESD_CIRCULAR_BUFFER_FOREACH visits all slots, and its users free what  *)
(* they find: every slot that is not in use must hold a null pointer, and  *)
(* every slot in use an entry that was added.                              *)
ForeachFreesLive ==
    \A i \in Slots :
        (entry[i] \in Entry) <=> (\E k \in 1..Count : i = LiveSlot(k))

(* Find() returns the entry and byte of a position of the concatenation of *)
(* all entries, and NULL for a position behind it (for every position but  *)
(* SIZE_MAX).                                                              *)
FindsPosition ==
    \A p \in 0..(SIZE_MOD - 2) :
        IF p >= BytesBefore[Count + 1]
        THEN Find(p) = NULL
        ELSE \E k \in 1..Count :
               /\ Find(p) = [slot |-> LiveSlot(k), byte |-> p - BytesBefore[k]]
               /\ p - BytesBefore[k] \in 0..(entry[LiveSlot(k)].size - 1)

(* The buffer implements the promise of WriteHistory.                      *)
RemembersLastWrites == WH!Spec
=============================================================================
