------------------------------ MODULE MinHeap -------------------------------
(***************************************************************************)
(* MinHeap (include/base/minheap.hpp) over either heap, and the programs   *)
(* example_2xHeap.cpp and example_4xHeap.cpp, which push keys and then     *)
(* extract them all.                                                       *)
(***************************************************************************)
EXTENDS Integers, Sequences, SequencesExt, TLC

CONSTANTS
    Keys,      \* the keys that are pushed
    MaxPushes  \* bound on the keys of one program

B == INSTANCE BinaryHeap
F == INSTANCE FourWayHeap

HeapTypes == {"binary", "fourway"}    \* the template parameter

VARIABLES
    heapType,  \* which heap the program uses
    bhp,       \* the heap
    pushed,    \* history: the keys pushed, in order
    extracted  \* history: the keys extracted, in order

-----------------------------------------------------------------------------
(* The operations of MinHeap on a heap h of type ty. *)

push(ty, h, kv) == IF ty = "binary" THEN B!push(h, kv) ELSE F!push(h, kv)
min_pair(ty, h) == IF ty = "binary" THEN B!min_pair(h) ELSE F!min_pair(h)
extract_min_pair(ty, h) ==
    IF ty = "binary" THEN B!extract_min_pair(h) ELSE F!extract_min_pair(h)
parent(ty, i) == IF ty = "binary" THEN B!parent(i) ELSE F!parent(i)

-----------------------------------------------------------------------------
Init ==
    /\ heapType \in HeapTypes
    /\ bhp = <<>> /\ pushed = <<>> /\ extracted = <<>>

\* The first loop of test2x and test4x.
PushKey ==
    /\ extracted = <<>> /\ Len(pushed) < MaxPushes
    /\ \E k \in Keys :
          /\ bhp' = push(heapType, bhp, [key |-> k])
          /\ pushed' = Append(pushed, k)
    /\ UNCHANGED <<heapType, extracted>>

\* The second: while the heap has a pair, the least is taken and its task run.
test2x_Extract ==
    /\ heapType = "binary" /\ bhp # <<>>
    /\ extracted' = Append(extracted, min_pair(heapType, bhp).key)
    /\ bhp' = extract_min_pair(heapType, bhp)
    /\ UNCHANGED <<heapType, pushed>>

test4x_Extract ==
    /\ heapType = "fourway" /\ bhp # <<>>
    /\ extracted' = Append(extracted, min_pair(heapType, bhp).key)
    /\ bhp' = extract_min_pair(heapType, bhp)
    /\ UNCHANGED <<heapType, pushed>>

Next == PushKey \/ test2x_Extract \/ test4x_Extract

-----------------------------------------------------------------------------
(* Properties *)

\* No pair of a heap is less than its parent.
HeapOrdered(ty, h) ==
    \A i \in 1 .. Len(h) - 1 : h[parent(ty, i) + 1].key <= h[i + 1].key

\* The keys come out as a sort of the sequence pushed, whatever their order and
\* whichever heap: sift_up and sift_down restore the order from any state the
\* other left, and no pair is lost or doubled when the last one is moved to the root.
ExtractsSorted ==
    extracted # <<>> =>
        LET keys == extracted \o [i \in DOMAIN SortSeq(bhp, B!Less) |-> SortSeq(bhp, B!Less)[i].key]
        IN  keys = SortSeq(pushed, <)
=============================================================================
