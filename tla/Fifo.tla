-------------------------------- MODULE Fifo --------------------------------
(***************************************************************************)
(* What a queue of the library promises to its one consumer: the values    *)
(* accepted from the producers come out in the order in which they stand   *)
(* in the queue, each of them once, and a take finds nothing only when     *)
(* nothing was there.  MutexQue and MutexQueCircle implement it.           *)
(***************************************************************************)
EXTENDS Naturals, Sequences

CONSTANT Value

VARIABLES
    queue,    \* accepted and not handed out, oldest first
    held,     \* handed out by the last take, not yet dealt with
    handled,  \* dealt with by the consumer, in order
    last      \* outcome of the last completed take: "some" or "none"

vars == <<queue, held, handled, last>>

Init ==
    /\ queue = <<>>
    /\ held = <<>>
    /\ handled = <<>>
    /\ last = "none"

Push ==
    /\ \E v \in Value : queue' = Append(queue, v)
    /\ UNCHANGED <<held, handled, last>>

\* A batch enters as a block; where, only the implementation knows.
Insert ==
    /\ \E n \in 0 .. Len(queue), b \in Value \X Value :
          queue' = SubSeq(queue, 1, n) \o b \o SubSeq(queue, n + 1, Len(queue))
    /\ UNCHANGED <<held, handled, last>>

\* A take hands out a non-empty prefix of the queue ...
Take ==
    /\ held = <<>>
    /\ \E n \in 1 .. Len(queue) :
          /\ held' = SubSeq(queue, 1, n)
          /\ queue' = SubSeq(queue, n + 1, Len(queue))
    /\ last' = "some"
    /\ UNCHANGED handled

\* ... and returns empty-handed only from an empty queue.
TakeNone ==
    /\ queue = <<>>
    /\ held = <<>>
    /\ last' = "none"
    /\ UNCHANGED <<queue, held, handled>>

Handle ==
    /\ held # <<>>
    /\ handled' = Append(handled, Head(held))
    /\ held' = Tail(held)
    /\ UNCHANGED <<queue, last>>

\* What was taken and not dealt with goes back to where it was taken from.
PutBack ==
    /\ held # <<>>
    /\ queue' = held \o queue
    /\ held' = <<>>
    /\ UNCHANGED <<handled, last>>

Next == Push \/ Insert \/ Take \/ TakeNone \/ Handle \/ PutBack

Spec == Init /\ [][Next]_vars
=============================================================================
