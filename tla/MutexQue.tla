------------------------------ MODULE MutexQue ------------------------------
(***************************************************************************)
(* The double-buffered MPSC queue of include/base/mutex_que.hpp.           *)
(*                                                                         *)
(* Producers write m_tail under m_mut; the consumer reads m_front without  *)
(* the lock, and takes the lock only to swap the buffers when m_front has  *)
(* run dry.  A lock_guard scope is one step; everything the consumer does  *)
(* outside it is a step of its own.  A value is <<producer, serial>>, so   *)
(* losses, repetitions and reorderings are visible.                        *)
(***************************************************************************)
EXTENDS Naturals, Sequences

CONSTANTS
    Producers,
    Inserters,  \* the producers that also call appendFromDeque
    MaxPush     \* bound on the values of one producer

ASSUME InsertersAssumption == Inserters \subseteq Producers
ASSUME MaxPushAssumption == MaxPush \in Nat

Value == Producers \X (1 .. MaxPush)

VARIABLES
    m_front,  \* the consumer's buffer
    m_tail,   \* the producers' buffer
    pc,       \* where the consumer is in takeOne / takeMulti
    op,       \* which of the two it called last
    held,     \* what the call returned and the consumer has not dealt with
    last,     \* whether the last call that returned found something
    handled,  \* what the consumer has dealt with
    sent      \* sent[p]: how many values p has put into the queue

qvars == <<m_front, m_tail>>
cvars == <<pc, op, held, last, handled>>
vars == <<m_front, m_tail, pc, op, held, last, handled, sent>>

Init ==
    /\ m_front = <<>>
    /\ m_tail = <<>>
    /\ pc = "idle"
    /\ op = "takeOne"
    /\ held = <<>>
    /\ last = "none"
    /\ handled = <<>>
    /\ sent = [p \in Producers |-> 0]

-----------------------------------------------------------------------------
(* Producers. *)

\* The next value of p goes in; v is what is stored for it.
Push(p, v) ==
    /\ sent[p] < MaxPush
    /\ m_tail' = Append(m_tail, v)
    /\ sent' = [sent EXCEPT ![p] = @ + 1]
    /\ UNCHANGED m_front
    /\ UNCHANGED cvars

pushBack(p) == Push(p, <<p, sent[p] + 1>>)

\* insert(m_tail.begin(), ...): the batch goes in front of the other
\* producers' values, but behind what the consumer has swapped out already.
appendFromDeque(p) ==
    /\ sent[p] + 1 < MaxPush
    /\ m_tail' = << <<p, sent[p] + 1>>, <<p, sent[p] + 2>> >> \o m_tail
    /\ sent' = [sent EXCEPT ![p] = @ + 2]
    /\ UNCHANGED m_front
    /\ UNCHANGED cvars

-----------------------------------------------------------------------------
(* The consumer. *)

\* The call, and its unlocked test of m_front.
CallTake(o) ==
    /\ pc = "idle"
    /\ held = <<>>
    /\ op' = o
    /\ pc' = IF m_front = <<>> THEN "swap" ELSE "take"
    /\ UNCHANGED <<held, last, handled, sent>>
    /\ UNCHANGED qvars

\* Mutant: m_tail is copied and not exchanged.
Swap_Copies ==
    /\ pc = "swap"
    /\ m_front' = m_tail
    /\ pc' = "retest"
    /\ UNCHANGED <<m_tail, op, held, last, handled, sent>>

Swap ==
    /\ pc = "swap"
    /\ m_front' = m_tail
    /\ m_tail' = m_front
    /\ pc' = "retest"
    /\ UNCHANGED <<op, held, last, handled, sent>>

\* The second test, after the unlock: still nothing, the early return.
ReturnNone ==
    /\ pc = "retest"
    /\ m_front = <<>>
    /\ pc' = "idle"
    /\ last' = "none"
    /\ UNCHANGED <<op, held, handled, sent>>
    /\ UNCHANGED qvars

takeOne ==
    /\ op = "takeOne"
    /\ pc \in {"retest", "take"}
    /\ m_front # <<>>
    /\ held' = <<Head(m_front)>>
    /\ m_front' = Tail(m_front)
    /\ pc' = "idle"
    /\ last' = "some"
    /\ UNCHANGED <<m_tail, op, handled, sent>>

\* Mutant: the batch is copied and m_front keeps it.
takeMulti_Copies ==
    /\ op = "takeMulti"
    /\ pc \in {"retest", "take"}
    /\ m_front # <<>>
    /\ held' = m_front
    /\ pc' = "idle"
    /\ last' = "some"
    /\ UNCHANGED <<m_front, m_tail, op, handled, sent>>

takeMulti ==
    /\ op = "takeMulti"
    /\ pc \in {"retest", "take"}
    /\ m_front # <<>>
    /\ held' = m_front
    /\ m_front' = <<>>
    /\ pc' = "idle"
    /\ last' = "some"
    /\ UNCHANGED <<m_tail, op, handled, sent>>

\* The caller's side: deal with the next value, or throw the rest of a batch
\* back ("appendFromDeque: throw a bunch of elements back").
Handle ==
    /\ pc = "idle"
    /\ held # <<>>
    /\ handled' = Append(handled, Head(held))
    /\ held' = Tail(held)
    /\ UNCHANGED <<pc, op, last, sent>>
    /\ UNCHANGED qvars

\* Mutant: the rest of the batch goes to the end of m_tail.
putBack_AtEnd ==
    /\ pc = "idle"
    /\ op = "takeMulti"
    /\ held # <<>>
    /\ m_tail' = m_tail \o held
    /\ held' = <<>>
    /\ UNCHANGED <<m_front, pc, op, last, handled, sent>>

putBack ==
    /\ pc = "idle"
    /\ op = "takeMulti"
    /\ held # <<>>
    /\ m_tail' = held \o m_tail
    /\ held' = <<>>
    /\ UNCHANGED <<m_front, pc, op, last, handled, sent>>

-----------------------------------------------------------------------------
Produce ==
    \/ \E p \in Producers : pushBack(p)
    \/ \E p \in Inserters : appendFromDeque(p)

Consume ==
    \/ \E o \in {"takeOne", "takeMulti"} : CallTake(o)
    \/ Swap
    \/ ReturnNone
    \/ takeOne
    \/ takeMulti
    \/ Handle
    \/ putBack

Next == Produce \/ Consume

Spec == Init /\ [][Next]_vars

-----------------------------------------------------------------------------
TypeOK ==
    /\ m_front \in Seq(Value)
    /\ m_tail \in Seq(Value)
    /\ pc \in {"idle", "swap", "retest", "take"}
    /\ op \in {"takeOne", "takeMulti"}
    /\ held \in Seq(Value)
    /\ last \in {"none", "some"}
    /\ handled \in Seq(Value)
    /\ sent \in [Producers -> 0 .. MaxPush]

\* Every value there has ever been, from the first dealt with to the last
\* accepted.
Pending == m_front \o m_tail
All == handled \o (held \o Pending)

\* s holds each of the n[p] values of every producer p, once, and no other.
Once(s, n) ==
    /\ \A p \in Producers : \A k \in 1 .. n[p] :
          \E i \in 1 .. Len(s) : s[i] = <<p, k>>
    /\ \A i \in 1 .. Len(s) : s[i][2] <= n[s[i][1]]
    /\ \A i, j \in 1 .. Len(s) : s[i] = s[j] => i = j

\* s keeps the serials of a producer that does not insert increasing.
Ordered(s) ==
    \A i, j \in 1 .. Len(s) :
        /\ i < j
        /\ s[i][1] = s[j][1]
        /\ s[i][1] \notin Inserters
        => s[i][2] < s[j][2]

(* Exactly once: at every step, each value a producer has put in is in       *)
(* exactly one place among the two buffers, the consumer's hands and what it *)
(* has dealt with, and nothing else is; whatever the interleaving of pushes  *)
(* with the unlocked tests, the swap and a batch thrown back.                *)
ExactlyOnce == Once(All, sent)

(* Producer order: the values of a producer that only uses pushBack stay in  *)
(* the order of its calls, through swaps, partial takes, batches thrown back *)
(* and other producers' insertions.                                          *)
ProducerOrder == Ordered(All)

\* The facts about the consumer's position that make the two above, and the
\* refinement, inductive: m_front is empty where the code relies on it.
ConsumerInv ==
    /\ pc = "swap" => m_front = <<>>
    /\ pc = "take" => m_front # <<>>
    /\ pc # "idle" => held = <<>>
    /\ (held # <<>> /\ op = "takeMulti") => m_front = <<>>

-----------------------------------------------------------------------------
\* A call that will find nothing does so at the swap, under the lock; the
\* local steps after it only report it.
LastSeen == IF pc = "retest" /\ m_front = <<>> THEN "none" ELSE last

F == INSTANCE Fifo WITH
        queue <- Pending,
        held <- held,
        handled <- handled,
        last <- LastSeen

(* The double buffer is a FIFO queue: every step of producers and consumer   *)
(* is a step of Fifo on m_front \o m_tail; in particular take comes back     *)
(* empty only if the queue was empty at the swap, and a batch thrown back    *)
(* returns to the head of the queue.                                         *)
ImplementsFifo == F!Spec

=============================================================================
