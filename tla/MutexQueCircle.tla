--------------------------- MODULE MutexQueCircle ---------------------------
(***************************************************************************)
(* MutexQueCircle of include/base/mutex_que.hpp: the double-buffered queue *)
(* of MutexQue over two circular buffers.  It has pushBack and takeOne.    *)
(* Swapping exchanges the buffers with their capacities and indexes, so    *)
(* each of them wraps and grows on either side.                            *)
(*                                                                         *)
(* Whatever T is, the buffers are CircularQueue<int>: push_back converts a *)
(* T to int and takeOne makes a T of the int again.  T is an integer type  *)
(* here; its values are the serials, and the producer they are tagged with *)
(* is history.                                                             *)
(***************************************************************************)
EXTENDS CircularBuffer

CONSTANTS
    Producers,
    MaxPush,   \* bound on the values of one producer
    Presize,   \* slots of a new buffer: 128
    IntRange   \* how many values an int has: 2^32

VARIABLES m_front, m_tail, pc, held, last, handled, sent

vars == <<m_front, m_tail, pc, held, last, handled, sent>>

Init ==
    /\ m_front = Constructed(Presize)
    /\ m_tail = Constructed(Presize)
    /\ pc = "idle"
    /\ held = <<>>
    /\ last = "none"
    /\ handled = <<>>
    /\ sent = [p \in Producers |-> 0]

\* What the buffers keep of p's value k: the conversion to int is modulo its
\* width.
Stored(p, k) == <<p, k % IntRange>>

pushBack(p) ==
    /\ sent[p] < MaxPush
    /\ m_tail' = add(m_tail, Stored(p, sent[p] + 1))
    /\ sent' = [sent EXCEPT ![p] = @ + 1]
    /\ UNCHANGED <<m_front, pc, held, last, handled>>

\* Mutant: the buffers are swapped without the test that m_front ran dry.
CallTake_Untested ==
    /\ pc = "idle"
    /\ held = <<>>
    /\ pc' = "swap"
    /\ UNCHANGED <<m_front, m_tail, held, last, handled, sent>>

\* takeOne: the unlocked test, the swap under the lock, the second test.
CallTake ==
    /\ pc = "idle"
    /\ held = <<>>
    /\ pc' = IF empty(m_front) THEN "swap" ELSE "take"
    /\ UNCHANGED <<m_front, m_tail, held, last, handled, sent>>

Swap ==
    /\ pc = "swap"
    /\ m_front' = m_tail
    /\ m_tail' = m_front
    /\ pc' = "retest"
    /\ UNCHANGED <<held, last, handled, sent>>

ReturnNone ==
    /\ pc = "retest"
    /\ empty(m_front)
    /\ pc' = "idle"
    /\ last' = "none"
    /\ UNCHANGED <<m_front, m_tail, held, handled, sent>>

takeOne ==
    /\ \/ pc = "take"
       \/ pc = "retest" /\ ~empty(m_front)
    /\ held' = <<front(m_front)>>
    /\ m_front' = pop(m_front)
    /\ pc' = "idle"
    /\ last' = "some"
    /\ UNCHANGED <<m_tail, handled, sent>>

\* The caller deals with the value.
Handle ==
    /\ pc = "idle"
    /\ held # <<>>
    /\ handled' = Append(handled, Head(held))
    /\ held' = Tail(held)
    /\ UNCHANGED <<m_front, m_tail, pc, last, sent>>

Next ==
    \/ \E p \in Producers : pushBack(p)
    \/ CallTake \/ Swap \/ ReturnNone \/ takeOne \/ Handle

Spec == Init /\ [][Next]_vars

-----------------------------------------------------------------------------
TypeOK ==
    /\ Sound(m_front)
    /\ Sound(m_tail)
    /\ pc \in {"idle", "swap", "retest", "take"}
    /\ held \in Seq(Element)
    /\ last \in {"none", "some"}
    /\ handled \in Seq(Element)
    /\ sent \in [Producers -> 0 .. MaxPush]

M == INSTANCE MutexQue WITH
        m_front <- Contents(m_front),
        m_tail <- Contents(m_tail),
        op <- "takeOne",
        Inserters <- {}

(* The circular variant is a MutexQue of ints: every step is a step of that  *)
(* module on the buffers' contents, with pushBack(t) putting in the int that *)
(* t converts to; so none of these is lost, repeated or reordered while the  *)
(* two buffers change sides, wrap and grow.  The T that was pushed comes     *)
(* back only if an int can hold it.                                          *)
PushConverted == \E p \in Producers : M!Push(p, Stored(p, sent[p] + 1))
ImplementsMutexQue == M!Init /\ [][PushConverted \/ M!Consume]_(M!vars)

=============================================================================
