------------------------------- MODULE Queues -------------------------------
(***************************************************************************)
(* The queues of include/base: MutexQue and its variant over circular      *)
(* buffers (mutex_que.hpp), used by the same producers, and the circular   *)
(* buffers by themselves (circleque.hpp).  A behaviour is a program that   *)
(* uses one of them; the others stay as they were constructed.             *)
(***************************************************************************)
EXTENDS MutexQue, CircularBuffer, TLC

CONSTANTS
    Presize, IntRange,                               \* see MutexQueCircle
    Objects, NoValue, Presizes, MaxElements, Pushed  \* see CircularQueue

\* What is kept of a producer's value in an int.
Converted == Producers \X (0 .. IntRange - 1)

\* For TLC: the values of the producers and those pushed to a buffer alone.
ValueOrPushed == Value \cup Converted \cup Pushed

\* For TLC: nothing tells the objects apart.
ObjectsSymmetry == Permutations(Objects)

ASSUME PresizeAssumption == Presize \in Nat
ASSUME PresizesAssumption == Presizes \subseteq Nat /\ Presizes # {}
ASSUME IntRangeAssumption == IntRange \in Nat \ {0}
ASSUME ElementAssumption == Converted \subseteq Element /\ Pushed \subseteq Element
ASSUME NoValueAssumption == NoValue \notin Element

VARIABLES
    used,    \* the queue the program uses
    c_front, c_tail, c_pc, c_held, c_last, c_handled, c_sent,  \* MutexQueCircle's
    que, ret                                                   \* CircularQueue's

C == INSTANCE MutexQueCircle WITH
        m_front <- c_front, m_tail <- c_tail, pc <- c_pc, held <- c_held,
        last <- c_last, handled <- c_handled, sent <- c_sent

Q == INSTANCE CircularQueue

circleVars == <<c_front, c_tail, c_pc, c_held, c_last, c_handled, c_sent>>
bufferVars == <<que, ret>>

QueuesInit ==
    /\ used \in {"MutexQue", "MutexQueCircle", "CircularQueue"}
    /\ Init /\ C!Init /\ Q!Init

UsesMutexQue == used = "MutexQue" /\ Next /\ UNCHANGED <<used, circleVars, bufferVars>>
UsesCircle == used = "MutexQueCircle" /\ C!Next /\ UNCHANGED <<used, vars, bufferVars>>
UsesBuffer == used = "CircularQueue" /\ Q!Next /\ UNCHANGED <<used, vars, circleVars>>

QueuesNext == UsesMutexQue \/ UsesCircle \/ UsesBuffer

QueuesSpec == QueuesInit /\ [][QueuesNext]_<<used, vars, circleVars, bufferVars>>

-----------------------------------------------------------------------------
(* Properties: those of MutexQue, and *)

(* MutexQueCircle promises what a MutexQue of ints does, whatever T it is  *)
(* declared with: on the contents of the two circular buffers each step is *)
(* a step of MutexQue, and pushBack puts in the int its argument converts  *)
(* to.                                                                     *)
ImplementsMutexQue == C!ImplementsMutexQue

(* A CircularQueue is a queue: through every wrap of the two indexes, both *)
(* ways of growing, clearing, swapping, copying and moving, each pop       *)
(* returns the oldest element, and nothing is lost, repeated or reordered. *)
ImplementsQueue == Q!ImplementsQueue
=============================================================================
