----------------------------- MODULE BinaryHeap -----------------------------
(***************************************************************************)
(* BinaryHeap (include/base/binaryheap.hpp).  m_data is a sequence h of    *)
(* pairs, records with a key; position i of the vector is h[i + 1].        *)
(***************************************************************************)
EXTENDS Integers, Sequences

size(h) == Len(h)
At(h, i) == h[i + 1]
Less(a, b) == a.key < b.key
Swapped(h, i, j) == [h EXCEPT ![i + 1] = At(h, j), ![j + 1] = At(h, i)]

parent(i) == (i - 1) \div 2
left(i) == i * 2 + 1
right(i) == i * 2 + 2

RECURSIVE sift_up(_, _)
sift_up(h, i) ==
    IF i > 0 /\ Less(At(h, i), At(h, parent(i)))
    THEN sift_up(Swapped(h, i, parent(i)), parent(i))
    ELSE h

\* The child c takes the place of m when it is there and smaller.
Smaller(h, m, c) == IF c < size(h) /\ Less(At(h, c), At(h, m)) THEN c ELSE m

RECURSIVE sift_down(_, _)
sift_down(h, i) ==
    LET mi == Smaller(h, Smaller(h, i, left(i)), right(i))
    IN  IF i # mi THEN sift_down(Swapped(h, i, mi), mi) ELSE h

push(h, kv) == sift_up(Append(h, kv), size(h))

min_pair(h) == At(h, 0)

\* What is left of a heap that is not empty; the last pair goes to the root.
extract_min_pair(h) ==
    LET rest == SubSeq(h, 1, size(h) - 1)
    IN  IF rest = <<>> THEN rest ELSE sift_down([rest EXCEPT ![1] = h[size(h)]], 0)
=============================================================================
