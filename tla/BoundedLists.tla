---------------------------- MODULE BoundedLists ----------------------------
(* The lists of the archived bus and context manager: numbered entries,    *)
(* oldest first, of which the last few are kept.                           *)
EXTENDS Integers, Sequences

LastOf(seq, n) == SubSeq(seq, IF Len(seq) > n THEN Len(seq) - n + 1 ELSE 1, Len(seq))

Increasing(seq) == \A i, j \in 1..Len(seq) : i < j => seq[i] < seq[j]
=============================================================================
