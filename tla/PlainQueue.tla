----------------------------- MODULE PlainQueue -----------------------------
(***************************************************************************)
(* Queue objects as their users see them: each is a sequence.  An object   *)
(* another one was moved from holds nothing.                               *)
(***************************************************************************)
EXTENDS Naturals, Sequences

CONSTANTS Objects, Element, NoValue

VARIABLES
    seq,  \* seq[o]: the elements of o, oldest first
    ret   \* what the last pop returned

vars == <<seq, ret>>

Init ==
    /\ seq = [o \in Objects |-> <<>>]
    /\ ret = NoValue

PushBack(o) ==
    /\ \E v \in Element : seq' = [seq EXCEPT ![o] = Append(@, v)]
    /\ UNCHANGED ret

PopFront(o) ==
    /\ seq[o] # <<>>
    /\ ret' = Head(seq[o])
    /\ seq' = [seq EXCEPT ![o] = Tail(@)]

PopNothing(o) ==
    /\ seq[o] = <<>>
    /\ ret' = NoValue
    /\ UNCHANGED seq

Clear(o) ==
    /\ seq' = [seq EXCEPT ![o] = <<>>]
    /\ UNCHANGED ret

Swap(o, p) ==
    /\ seq' = [seq EXCEPT ![o] = seq[p], ![p] = seq[o]]
    /\ UNCHANGED ret

Copy(o, p) ==
    /\ seq' = [seq EXCEPT ![o] = seq[p]]
    /\ UNCHANGED ret

Move(o, p) ==
    /\ seq' = [seq EXCEPT ![o] = seq[p], ![p] = <<>>]
    /\ UNCHANGED ret

Next ==
    \/ \E o \in Objects : PushBack(o) \/ PopFront(o) \/ PopNothing(o) \/ Clear(o)
    \/ \E o \in Objects : \E p \in Objects \ {o} :
          Swap(o, p) \/ Copy(o, p) \/ Move(o, p)

Spec == Init /\ [][Next]_vars
=============================================================================
