---------------------------- MODULE TimerManager ----------------------------
(***************************************************************************)
(* TimerManger (include/base/timermanager.hpp) and the event loop of       *)
(* example_timer.cpp that uses it: tasks are created, then in each round   *)
(* check() takes the tasks that are due, proxy_exec runs them and arms the *)
(* ones that return true again, and the thread sleeps.                     *)
(***************************************************************************)
EXTENDS Integers, Sequences, SequencesExt

CONSTANTS
    Tasks,      \* the tasks, created in the order of their numbers
    Intervals,  \* the intervals they may have
    TimeRange,  \* external: the values of a uint64_t
    MaxClock    \* bound on the clock

VARIABLES
    timerHeap,  \* the type of the heap, a template parameter
    m_minHeap,
    clock,      \* external: what m_msecFunc returns
    interval,   \* the interval of each task
    waitList,   \* what check() returned, without the tasks already run
    created,    \* how many tasks have been created
    armedAt,    \* history: the time at which each task was last armed
    checkedAt,  \* history: the time check() last read
    fresh,      \* history: the tasks armed since
    ran,        \* history: the tasks that have been run
    dropped     \* history: the tasks clear() has removed

H == INSTANCE MinHeap WITH Keys <- {}, MaxPushes <- 0,
        heapType <- timerHeap, bhp <- m_minHeap, pushed <- <<>>, extracted <- <<>>

\* The first task returns true.
Periodic(t) == t = 1

Init ==
    /\ timerHeap \in H!HeapTypes
    /\ m_minHeap = <<>> /\ waitList = <<>>
    /\ interval \in [Tasks -> Intervals]
    /\ clock = 0 /\ created = 0 /\ checkedAt = -1
    /\ armedAt = [t \in Tasks |-> 0]
    /\ fresh = {} /\ ran = {} /\ dropped = {}

\* A pair of the heap: when the task is due, and the pair of interval and task.
Armed(t) == [key |-> (interval[t] + clock) % TimeRange, task |-> t]

create_task(h, t) == H!push(timerHeap, h, Armed(t))

NoteArmed(t) ==
    /\ armedAt' = [armedAt EXCEPT ![t] = clock]
    /\ fresh' = fresh \cup {t}

\* The loops of test_timer that create the tasks.  The time goes on meanwhile.
Create ==
    /\ created + 1 \in Tasks /\ checkedAt = -1
    /\ created' = created + 1
    /\ m_minHeap' = create_task(m_minHeap, created + 1)
    /\ NoteArmed(created + 1)
    /\ UNCHANGED <<timerHeap, clock, interval, waitList, checkedAt, ran, dropped>>

\* The loop of check(), on <<heap, waitList>>.
IsDue(key) == key <= clock

RECURSIVE TakeDue(_)
TakeDue(hw) ==
    IF hw[1] # <<>> /\ IsDue(H!min_pair(timerHeap, hw[1]).key)
    THEN TakeDue(<<H!extract_min_pair(timerHeap, hw[1]),
                   Append(hw[2], H!min_pair(timerHeap, hw[1]))>>)
    ELSE hw

check_OneOnly ==
    IF m_minHeap # <<>> /\ IsDue(H!min_pair(timerHeap, m_minHeap).key)
    THEN <<H!extract_min_pair(timerHeap, m_minHeap), <<H!min_pair(timerHeap, m_minHeap)>>>>
    ELSE <<m_minHeap, <<>>>>
check == TakeDue(<<m_minHeap, <<>>>>)

\* A round of the event loop begins once the tasks of the last one have run.
Check ==
    /\ created + 1 \notin Tasks /\ waitList = <<>>
    /\ \E hw \in {check} : m_minHeap' = hw[1] /\ waitList' = hw[2]
    /\ checkedAt' = clock
    /\ fresh' = {}
    /\ UNCHANGED <<timerHeap, clock, interval, created, armedAt, ran, dropped>>

AfterExec(t) == IF Periodic(t) THEN create_task(m_minHeap, t) ELSE m_minHeap

proxy_exec ==
    /\ waitList # <<>>
    /\ LET t == Head(waitList).task
       IN  /\ m_minHeap' = AfterExec(t)
           /\ ran' = ran \cup {t}
           /\ IF Periodic(t) THEN NoteArmed(t) ELSE UNCHANGED <<armedAt, fresh>>
    /\ waitList' = Tail(waitList)
    /\ UNCHANGED <<timerHeap, clock, interval, created, checkedAt, dropped>>

\* Not called by the example.  The tasks of the running round are not removed.
clear ==
    /\ m_minHeap # <<>> /\ checkedAt >= 0
    /\ m_minHeap' = <<>>
    /\ dropped' = dropped \cup {m_minHeap[i].task : i \in DOMAIN m_minHeap}
    /\ UNCHANGED <<timerHeap, clock, interval, waitList, created, armedAt, checkedAt, fresh, ran>>

\* Time passes, also while tasks are created and run.
Tick ==
    /\ clock < MaxClock
    /\ clock' = clock + 1
    /\ UNCHANGED <<timerHeap, m_minHeap, interval, waitList, created, armedAt, checkedAt, fresh, ran, dropped>>

Next == Create \/ Check \/ proxy_exec \/ clear \/ Tick

-----------------------------------------------------------------------------
(* Properties *)

\* When task t is due, unless the sum wraps around.
Due(t) == armedAt[t] + interval[t]

\* A task that check() returns is due by the time check() read, though it was
\* armed at a different reading; only an interval that overflows is early.
NeverEarly ==
    \A i \in DOMAIN waitList :
        LET t == waitList[i].task IN Due(t) <= checkedAt \/ Due(t) >= TimeRange

\* check() leaves no task that is due: what it looks at is only the root of the
\* heap, and it stops at the first one that is not due.  A task whose interval
\* is 0 is armed again after check() and waits for the next round.
DueTaken ==
    \A i \in DOMAIN m_minHeap :
        m_minHeap[i].task \in fresh \/ m_minHeap[i].key > checkedAt

\* The tasks of a round run in the order of their times.
RoundInOrder == \A i, j \in DOMAIN waitList : i < j => waitList[i].key <= waitList[j].key

\* A task that was created and not removed is in the heap or in the round, once,
\* or it has run and does not repeat.
TaskOnce ==
    \A t \in 1 .. created :
        LET all == m_minHeap \o waitList
            places == {i \in DOMAIN all : all[i].task = t}
        IN  /\ \A i, j \in places : i = j
            /\ places # {} \/ t \in dropped \/ (t \in ran /\ ~Periodic(t))
=============================================================================
