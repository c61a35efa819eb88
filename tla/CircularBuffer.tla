--------------------------- MODULE CircularBuffer ---------------------------
(***************************************************************************)
(* The algorithms of include/base/circleque.hpp as operators on the        *)
(* object: a vector, the index m_current of the next free slot and the     *)
(* index m_head of the oldest element.  The buffer grows before it is      *)
(* full, so m_head = m_current means empty.                                *)
(***************************************************************************)
EXTENDS Integers, Sequences

CONSTANTS
    Element,        \* the element type T
    Default,      \* what a slot holds after resize: T{}
    MinCapacity   \* least number of slots of a constructed object: 16

ASSUME DefaultAssumption == Default \in Element
ASSUME MinCapacityAssumption == MinCapacity \in Nat /\ MinCapacity >= 2

\* vec is indexed from 0 as in the code; size is m_vec.size().
Object(vec, size, head, current) ==
    [vec |-> vec, size |-> size, head |-> head, current |-> current]

\* m_vec.resize(n)
Resize(vec, size, n) ==
    [i \in 0 .. n - 1 |-> IF i < size THEN vec[i] ELSE Default]

\* The slots from head to the end, then those from 0 to head.
Rotate(vec, size, head) ==
    [i \in 0 .. size - 1 |->
        IF head + i < size THEN vec[head + i] ELSE vec[head + i - size]]

Constructed(presize) ==
    LET n == IF presize > MinCapacity THEN presize ELSE MinCapacity IN
    Object([i \in 0 .. n - 1 |-> Default], n, 0, 0)

empty(q) == q.head = q.current

Size(q) ==
    IF q.current >= q.head
    THEN q.current - q.head
    ELSE q.size - (q.head - q.current)

\* front() does not test for emptiness.
front(q) == q.vec[q.head]

Cleared(q) == Object([i \in 0 .. q.size - 1 |-> Default], q.size, 0, 0)

\* One slot further, back to 0 after the last.
Step(k, size) == IF k = size - 1 THEN 0 ELSE k + 1

\* Mutant: the slots are not turned when the head moves to 0.
add_NoRotate(q, v) ==
    LET stored == [q.vec EXCEPT ![q.current] = v] IN
    IF q.head < q.current /\ q.current = q.size - 1 /\ q.head = 0
    THEN Object(Resize(stored, q.size, 2 * q.size), 2 * q.size,
                q.head, q.current + 1)
    ELSE IF q.head > q.current /\ q.current = q.head - 1
    THEN Object(Resize(stored, q.size, 2 * q.size), 2 * q.size, 0, q.size)
    ELSE Object(stored, q.size, q.head, Step(q.current, q.size))

add(q, v) ==
    LET stored == [q.vec EXCEPT ![q.current] = v] IN
    IF q.head < q.current /\ q.current = q.size - 1 /\ q.head = 0
    THEN \* the last slot is taken and the first is in use: grow in place
         Object(Resize(stored, q.size, 2 * q.size), 2 * q.size,
                q.head, q.current + 1)
    ELSE IF q.head > q.current /\ q.current = q.head - 1
    THEN \* the last free slot is taken: grow, with the head moved to 0
         Object(Resize(Rotate(stored, q.size, q.head), q.size, 2 * q.size),
                2 * q.size, 0, q.size)
    ELSE Object(stored, q.size, q.head, Step(q.current, q.size))

pop(q) ==
    IF empty(q)
    THEN q
    ELSE Object(q.vec, q.size, Step(q.head, q.size), q.current)

-----------------------------------------------------------------------------
\* What the object stands for: its elements, oldest first.
Contents(q) ==
    [i \in 1 .. Size(q) |->
        q.vec[IF q.head + i - 1 < q.size THEN q.head + i - 1
                                         ELSE q.head + i - 1 - q.size]]

\* An object on which every operation is defined.
Sound(q) ==
    /\ q.size \in Nat /\ q.size >= 2
    /\ q.vec \in [0 .. q.size - 1 -> Element]
    /\ q.head \in 0 .. q.size - 1
    /\ q.current \in 0 .. q.size - 1
    /\ q = Object(q.vec, q.size, q.head, q.current)

=============================================================================
