----------------------------- MODULE FourWayHeap ----------------------------
(***************************************************************************)
(* FourWayHeap (include/base/fourwayheap.hpp), as BinaryHeap with four     *)
(* children to a pair.                                                     *)
(***************************************************************************)
EXTENDS Integers, Sequences, SequencesExt

LOCAL B == INSTANCE BinaryHeap

parent(i) == (i - 1) \div 4
child(i, k) == i * 4 + k

RECURSIVE sift_up(_, _)
sift_up(h, i) ==
    IF i > 0 /\ B!Less(B!At(h, i), B!At(h, parent(i)))
    THEN sift_up(B!Swapped(h, i, parent(i)), parent(i))
    ELSE h

\* The loop over the children of i.
Smallest(h, i, children) ==
    FoldLeft(LAMBDA m, k : B!Smaller(h, m, child(i, k)), i, children)
SmallestOf_Three(h, i) == Smallest(h, i, <<1, 2, 3>>)
SmallestOf(h, i) == Smallest(h, i, <<1, 2, 3, 4>>)

RECURSIVE sift_down(_, _)
sift_down(h, i) ==
    LET mi == SmallestOf(h, i)
    IN  IF i # mi THEN sift_down(B!Swapped(h, i, mi), mi) ELSE h

push(h, kv) == sift_up(Append(h, kv), Len(h))

min_pair(h) == h[1]

extract_min_pair(h) ==
    LET rest == SubSeq(h, 1, Len(h) - 1)
    IN  IF rest = <<>> THEN rest ELSE sift_down([rest EXCEPT ![1] = h[Len(h)]], 0)
=============================================================================
