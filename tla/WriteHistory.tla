---------------------------- MODULE WriteHistory ----------------------------
(***************************************************************************)
(* What aesd_circular_buffer promises its callers: it remembers the last N *)
(* entries that were added, in the order in which they were added.         *)
(***************************************************************************)
EXTENDS Naturals, Sequences

CONSTANTS
    N,         \* how many entries are remembered
    Entry      \* the entries that may be added

VARIABLE history

Init == history = <<>>

(* The oldest entry is forgotten when there is no room for another.        *)
Add(e) ==
    history' = IF Len(history) < N
               THEN Append(history, e)
               ELSE Append(Tail(history), e)

Reset == history' = <<>>

Next == Reset \/ \E e \in Entry : Add(e)

Spec == Init /\ [][Next]_history
=============================================================================
