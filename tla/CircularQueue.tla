--------------------------- MODULE CircularQueue ---------------------------
(***************************************************************************)
(* CircularQueue objects of include/base/circleque.hpp and every operation *)
(* a program can call on them, built from the algorithms of                *)
(* CircularBuffer.                                                         *)
(***************************************************************************)
EXTENDS CircularBuffer

CONSTANTS
    Objects,
    NoValue,     \* std::nullopt
    Presizes,    \* the arguments of the constructor
    Pushed,      \* the elements the program pushes
    MaxElements  \* bound on the elements of one object

VARIABLES
    que,  \* que[o]: the object o
    ret   \* what the last pop_front / take returned

vars == <<que, ret>>

Init ==
    /\ que \in [Objects -> {Constructed(n) : n \in Presizes}]
    /\ ret = NoValue

\* After a move the source has an empty vector: to push would index nothing,
\* and so would to pop when the move left its indexes apart.
Usable(o) == que[o].size > 0

push_back(o) ==
    /\ Usable(o)
    /\ Size(que[o]) < MaxElements
    /\ \E v \in Pushed : que' = [que EXCEPT ![o] = add(@, v)]
    /\ UNCHANGED ret

pop_front(o) ==
    /\ Usable(o) \/ empty(que[o])
    /\ que' = [que EXCEPT ![o] = pop(@)]
    /\ ret' = IF empty(que[o]) THEN NoValue ELSE front(que[o])

clear(o) ==
    /\ que' = [que EXCEPT ![o] = Cleared(@)]
    /\ UNCHANGED ret

swap(o, p) ==
    /\ que' = [que EXCEPT ![o] = que[p], ![p] = que[o]]
    /\ UNCHANGED ret

\* Copy construction and copy assignment.
copy(o, p) ==
    /\ que' = [que EXCEPT ![o] = que[p]]
    /\ UNCHANGED ret

\* Move assignment resets the indexes of the source, move construction
\* leaves them; its vector is gone in both.
MovedFrom(head, current) == Object(<<>>, 0, head, current)

moveAssign(o, p) ==
    /\ que' = [que EXCEPT ![o] = que[p], ![p] = MovedFrom(0, 0)]
    /\ UNCHANGED ret

moveConstruct(o, p) ==
    /\ que' = [que EXCEPT ![o] = que[p],
                          ![p] = MovedFrom(que[p].head, que[p].current)]
    /\ UNCHANGED ret

Next ==
    \/ \E o \in Objects : push_back(o) \/ pop_front(o) \/ clear(o)
    \/ \E o \in Objects : \E p \in Objects \ {o} :
          swap(o, p) \/ copy(o, p) \/ moveAssign(o, p) \/ moveConstruct(o, p)

Spec == Init /\ [][Next]_vars

-----------------------------------------------------------------------------
(* Every object that was not moved from is sound: its indexes are inside the *)
(* vector after any sequence of operations.                                  *)
TypeOK ==
    /\ \A o \in Objects : Sound(que[o]) \/ que[o].size = 0
    /\ ret \in Element \cup {NoValue}

Elements(o) == IF Usable(o) THEN Contents(que[o]) ELSE <<>>

P == INSTANCE PlainQueue WITH seq <- [o \in Objects |-> Elements(o)]

(* The circular buffer is a queue: through every wrap of the two indexes,    *)
(* both ways of growing, clearing, swapping, copying and moving, each pop    *)
(* returns the oldest element, and nothing is lost, repeated or reordered.   *)
ImplementsQueue == P!Spec

=============================================================================
