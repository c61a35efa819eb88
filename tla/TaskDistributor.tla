-------------------------- MODULE TaskDistributor --------------------------
(***************************************************************************)
(* The thread pool of source/extention/task_distributor.cpp: m_size worker *)
(* threads, one queue each, addTask and addTask_ASAP from any thread,      *)
(* start() and shutdown() from the owner's thread.                         *)
(*                                                                         *)
(* A task is a number, in the order in which tasks were accepted; what it  *)
(* does while it runs is left open, except that it may itself call addTask *)
(* and addTask_ASAP.  A queue is the Fifo that MutexQue is proved to be,   *)
(* and a takeMulti empties it in one step.  The condition variables are    *)
(* modelled as C++ has them: a notify wakes a thread that is waiting and   *)
(* is lost otherwise.                                                      *)
(***************************************************************************)
EXTENDS Integers, Sequences

CONSTANTS
    m_size,     \* number of workers, std::max(size, 1u)
    Clients,    \* the other threads that add tasks
    MaxTasks,   \* bound on the tasks accepted
    MaxStarts   \* bound on the calls of start()

ASSUME SizeAssumption == m_size \in Nat \ {0}
ASSUME BoundsAssumption == MaxTasks \in Nat /\ MaxStarts \in Nat
ASSUME ClientsAssumption == Clients \cap Nat = {}

Workers == 0 .. m_size - 1
Callers == Clients \cup Workers
NoIndex == -1

VARIABLES
    m_exit,   \* the exit flag
    m_tpool,  \* whether the array of threads has been allocated
    joinable, \* joinable[i]: m_tpool[i] is a thread that was not joined
    ques,     \* ques[i]: the tasks waiting in m_bqueForTask[i]
    thr,      \* thr[i]: where worker i is in startNextLoop / work
    batch,    \* batch[i]: the rest of the deque worker i took
    stack,    \* stack[i]: the tasks running on worker i, innermost first
    begun,    \* begun[i]: tasks of queue i in the order they began to run
    inlined,  \* inlined[i]: tasks run by addTask_ASAP on the spot
    pend,     \* pend[c]: the queue c has pushed to and not yet notified
    owner,    \* where the owner is in start / shutdown
    ownerI,   \* its loop index there
    accepted, \* number of tasks accepted so far
    starts    \* number of calls of start()

distributorVars == <<m_exit, m_tpool, joinable, ques, thr, batch, stack, begun, inlined,
          pend, owner, ownerI, accepted, starts>>

tasks == <<ques, batch, stack, begun, inlined, accepted>>
pool == <<m_exit, m_tpool, joinable, owner, ownerI, starts>>

DistributorInit ==
    /\ m_exit = FALSE
    /\ m_tpool = FALSE
    /\ joinable = [i \in Workers |-> FALSE]
    /\ ques = [i \in Workers |-> <<>>]
    /\ thr = [i \in Workers |-> "none"]
    /\ batch = [i \in Workers |-> <<>>]
    /\ stack = [i \in Workers |-> <<>>]
    /\ begun = [i \in Workers |-> <<>>]
    /\ inlined = [i \in Workers |-> {}]
    /\ pend = [c \in Callers |-> NoIndex]
    /\ owner = "idle"
    /\ ownerI = 0
    /\ accepted = 0
    /\ starts = 0

-----------------------------------------------------------------------------
(* Adding tasks. *)

\* A client calls whenever it is not inside a call; a worker, from the task
\* it is running.
CanCall(c) ==
    /\ pend[c] = NoIndex
    /\ c \in Workers => stack[c] # <<>>

Clamp(index) == IF index >= m_size THEN m_size - 1 ELSE index

\* The indexes addTask(task, type) may choose; FURTURE_TASK takes the clock
\* modulo m_size - 1.
IndexOfType(type) ==
    CASE type = "IO_TASK"       -> {0}
      [] type = "SHCEDULE_TASK" -> {IF m_size > 1 THEN 1 ELSE 0}
      [] type = "FURTURE_TASK"  -> IF m_size > 1 THEN 0 .. m_size - 2 ELSE {0}

\* Mutant: the task goes in front of those already waiting.
PushTask_InFront(c, i) ==
    /\ ques' = [ques EXCEPT ![i] = <<accepted + 1>> \o @]
    /\ accepted' = accepted + 1
    /\ pend' = [pend EXCEPT ![c] = i]
    /\ UNCHANGED <<thr, batch, stack, begun, inlined>>
    /\ UNCHANGED pool

\* pushBack, the first half of a call that is accepted.
PushTask(c, i) ==
    /\ ques' = [ques EXCEPT ![i] = Append(@, accepted + 1)]
    /\ accepted' = accepted + 1
    /\ pend' = [pend EXCEPT ![c] = i]
    /\ UNCHANGED <<thr, batch, stack, begun, inlined>>
    /\ UNCHANGED pool

addTask(c, index) ==
    /\ CanCall(c)
    /\ accepted < MaxTasks
    /\ m_tpool
    /\ PushTask(c, Clamp(index))

addTaskOfType(c, type) == \E i \in IndexOfType(type) : addTask(c, i)

\* threadId(i) == get_id(): the calling worker is thread i of the pool.
OnThread(c, i) == c = i /\ joinable[i]

\* Mutant: the else is missing, and the task that ran is queued as well.
addTask_ASAP_Twice(c, index) ==
    LET i == Clamp(index) IN
    /\ CanCall(c)
    /\ accepted < MaxTasks
    /\ m_tpool
    /\ \/ /\ OnThread(c, i)
          /\ stack' = [stack EXCEPT ![i] = <<accepted + 1>> \o @]
          /\ inlined' = [inlined EXCEPT ![i] = @ \cup {accepted + 1}]
          /\ ques' = [ques EXCEPT ![i] = Append(@, accepted + 1)]
          /\ accepted' = accepted + 1
          /\ UNCHANGED <<thr, batch, begun, pend>>
          /\ UNCHANGED pool
       \/ /\ ~OnThread(c, i)
          /\ PushTask(c, i)

addTask_ASAP(c, index) ==
    LET i == Clamp(index) IN
    /\ CanCall(c)
    /\ accepted < MaxTasks
    /\ m_tpool
    /\ \/ /\ OnThread(c, i)
          /\ stack' = [stack EXCEPT ![i] = <<accepted + 1>> \o @]
          /\ inlined' = [inlined EXCEPT ![i] = @ \cup {accepted + 1}]
          /\ accepted' = accepted + 1
          /\ UNCHANGED <<ques, thr, batch, begun, pend>>
          /\ UNCHANGED pool
       \/ /\ ~OnThread(c, i)
          /\ PushTask(c, i)

\* Notifying m_cv[i] releases worker i if it waits there at this moment.
Wake(i) == thr' = [thr EXCEPT ![i] = IF @ = "wait" THEN "loop" ELSE @]

\* notify_one, the second half of the call.  m_cvmut is not held.
Notify(c) ==
    /\ pend[c] # NoIndex
    /\ Wake(pend[c])
    /\ pend' = [pend EXCEPT ![c] = NoIndex]
    /\ UNCHANGED pool
    /\ UNCHANGED tasks

-----------------------------------------------------------------------------
(* The workers. *)

\* Mutant: the loop does not look at m_exit.
startNextLoop_Forever(i) ==
    /\ thr[i] = "loop"
    /\ thr' = [thr EXCEPT ![i] = "take"]
    /\ UNCHANGED pend
    /\ UNCHANGED pool
    /\ UNCHANGED tasks

startNextLoop(i) ==
    /\ thr[i] = "loop"
    /\ thr' = [thr EXCEPT ![i] = IF m_exit THEN "exited" ELSE "take"]
    /\ UNCHANGED pend
    /\ UNCHANGED pool
    /\ UNCHANGED tasks

work(i) ==
    /\ thr[i] = "take"
    /\ batch' = [batch EXCEPT ![i] = ques[i]]
    /\ ques' = [ques EXCEPT ![i] = <<>>]
    /\ thr' = [thr EXCEPT ![i] = IF ques[i] = <<>> THEN "dry" ELSE "run"]
    /\ UNCHANGED <<stack, begun, inlined, pend, accepted>>
    /\ UNCHANGED pool

\* The queue was dry: lock m_cvmut and wait.  A notify that came since the
\* takeMulti has been lost.
EnterWait(i) ==
    /\ thr[i] = "dry"
    /\ thr' = [thr EXCEPT ![i] = "wait"]
    /\ UNCHANGED pend
    /\ UNCHANGED pool
    /\ UNCHANGED tasks

\* Mutant: wait() in place of wait_for(): only a notify ends it.
WaitTimeout_Never(i) ==
    /\ FALSE
    /\ UNCHANGED distributorVars

\* wait_for ends after 100 microseconds, or spuriously.
WaitTimeout(i) ==
    /\ thr[i] = "wait"
    /\ thr' = [thr EXCEPT ![i] = "loop"]
    /\ UNCHANGED pend
    /\ UNCHANGED pool
    /\ UNCHANGED tasks

RunNext(i) ==
    /\ thr[i] = "run"
    /\ stack[i] = <<>>
    /\ batch[i] # <<>>
    /\ stack' = [stack EXCEPT ![i] = <<Head(batch[i])>>]
    /\ begun' = [begun EXCEPT ![i] = Append(@, Head(batch[i]))]
    /\ batch' = [batch EXCEPT ![i] = Tail(@)]
    /\ UNCHANGED <<ques, thr, inlined, pend, accepted>>
    /\ UNCHANGED pool

\* task() returns, to work or to the task that ran it inline.
TaskReturns(i) ==
    /\ stack[i] # <<>>
    /\ pend[i] = NoIndex
    /\ stack' = [stack EXCEPT ![i] = Tail(@)]
    /\ UNCHANGED <<ques, thr, batch, begun, inlined, pend, accepted>>
    /\ UNCHANGED pool

BatchDone(i) ==
    /\ thr[i] = "run"
    /\ stack[i] = <<>>
    /\ batch[i] = <<>>
    /\ thr' = [thr EXCEPT ![i] = "loop"]
    /\ UNCHANGED pend
    /\ UNCHANGED pool
    /\ UNCHANGED tasks

-----------------------------------------------------------------------------
(* The owner: start, shutdown, and start again. *)

\* The next index of the loop over the threads, or the end of the call.
Advance(at) ==
    IF ownerI + 1 < m_size
    THEN owner' = at /\ ownerI' = ownerI + 1
    ELSE owner' = "idle" /\ ownerI' = 0

\* start() is called on a pool that is not running: it does not look.
start ==
    /\ owner = "idle"
    /\ starts < MaxStarts
    /\ ~m_tpool \/ m_exit
    /\ m_exit' = FALSE
    /\ m_tpool' = TRUE
    /\ joinable' = [i \in Workers |-> FALSE]
    /\ owner' = "spawn"
    /\ ownerI' = 0
    /\ starts' = starts + 1
    /\ UNCHANGED <<thr, pend>>
    /\ UNCHANGED tasks

\* The thread runs before it is moved into m_tpool[i].
Spawn ==
    /\ owner = "spawn"
    /\ thr' = [thr EXCEPT ![ownerI] = "loop"]
    /\ owner' = "assign"
    /\ UNCHANGED ownerI
    /\ UNCHANGED <<m_exit, m_tpool, joinable, pend, starts>>
    /\ UNCHANGED tasks

AssignThread ==
    /\ owner = "assign"
    /\ joinable' = [joinable EXCEPT ![ownerI] = TRUE]
    /\ Advance("spawn")
    /\ UNCHANGED <<m_exit, m_tpool, thr, pend, starts>>
    /\ UNCHANGED tasks

\* Mutant: the threads are not joined.
shutdown_NoJoin ==
    /\ owner = "idle"
    /\ ~m_exit
    /\ m_exit' = TRUE
    /\ UNCHANGED <<owner, ownerI, m_tpool, joinable, thr, pend, starts>>
    /\ UNCHANGED tasks

\* A second call, as the destructor makes it, finds nothing to join.
shutdown ==
    /\ owner = "idle"
    /\ m_exit' = TRUE
    /\ owner' = IF m_tpool THEN "notify" ELSE "idle"
    /\ ownerI' = 0
    /\ UNCHANGED <<m_tpool, joinable, thr, pend, starts>>
    /\ UNCHANGED tasks

NotifyAll ==
    /\ owner = "notify"
    /\ Wake(ownerI)
    /\ owner' = "join"
    /\ UNCHANGED ownerI
    /\ UNCHANGED <<m_exit, m_tpool, joinable, pend, starts>>
    /\ UNCHANGED tasks

Join ==
    /\ owner = "join"
    /\ thr[ownerI] = "exited"
    /\ joinable' = [joinable EXCEPT ![ownerI] = FALSE]
    /\ Advance("notify")
    /\ UNCHANGED <<m_exit, m_tpool, thr, pend, starts>>
    /\ UNCHANGED tasks

-----------------------------------------------------------------------------
Adding(c) ==
    \/ \E index \in 0 .. m_size : addTask(c, index)
    \/ \E type \in {"IO_TASK", "SHCEDULE_TASK", "FURTURE_TASK"} :
          addTaskOfType(c, type)
    \/ \E index \in 0 .. m_size : addTask_ASAP(c, index)
    \/ Notify(c)

Working(i) ==
    \/ startNextLoop(i)
    \/ work(i)
    \/ EnterWait(i)
    \/ WaitTimeout(i)
    \/ RunNext(i)
    \/ TaskReturns(i)
    \/ BatchDone(i)

Owning == start \/ Spawn \/ AssignThread \/ shutdown \/ NotifyAll \/ Join

DistributorNext ==
    \/ \E c \in Callers : Adding(c)
    \/ \E i \in Workers : Working(i)
    \/ Owning

(* Fairness: a thread that can take a step eventually takes it (the         *)
(* operating system schedules it, a timed wait ends, a task returns, a call *)
(* of start or shutdown goes on).  Whether anyone adds a task, starts or    *)
(* shuts down is left open.                                                 *)
DistributorFairness ==
    /\ \A c \in Callers : WF_distributorVars(Notify(c))
    /\ \A i \in Workers : WF_distributorVars(Working(i))
    /\ WF_distributorVars(Spawn \/ AssignThread \/ NotifyAll \/ Join)

DistributorSpec == DistributorInit /\ [][DistributorNext]_distributorVars

DistributorFairSpec == DistributorSpec /\ DistributorFairness

-----------------------------------------------------------------------------
Task == 1 .. accepted

DistributorTypeOK ==
    /\ m_exit \in BOOLEAN
    /\ m_tpool \in BOOLEAN
    /\ joinable \in [Workers -> BOOLEAN]
    /\ ques \in [Workers -> Seq(Nat)]
    /\ thr \in [Workers -> {"none", "loop", "take", "dry", "wait", "run",
                            "exited"}]
    /\ batch \in [Workers -> Seq(Nat)]
    /\ stack \in [Workers -> Seq(Nat)]
    /\ begun \in [Workers -> Seq(Nat)]
    /\ inlined \in [Workers -> SUBSET Nat]
    /\ pend \in [Callers -> Workers \cup {NoIndex}]
    /\ owner \in {"idle", "spawn", "assign", "notify", "join"}
    /\ ownerI \in Workers
    /\ accepted \in 0 .. MaxTasks
    /\ starts \in 0 .. MaxStarts

\* The tasks queue i was given, from the first begun to the last pushed.
Given(i) == begun[i] \o (batch[i] \o ques[i])

(* Order per thread: each queue's tasks begin in the order in which they      *)
(* were accepted, across batches, nested inline runs, shutdown and restart.   *)
QueueOrder ==
    \A i \in Workers : \A j, k \in 1 .. Len(Given(i)) :
        j < k => Given(i)[j] < Given(i)[k]

(* No task is lost or run twice: every accepted task is either with exactly   *)
(* one queue (begun, taken or waiting) or was run on the spot, not both, and  *)
(* no other task exists.                                                      *)
AcceptedOnce ==
    /\ \A t \in Task : \E i \in Workers :
          t \in inlined[i] \/ \E k \in 1 .. Len(Given(i)) : Given(i)[k] = t
    /\ \A i \in Workers : \A k \in 1 .. Len(Given(i)) :
          /\ Given(i)[k] \in Task
          /\ \A j \in Workers : Given(i)[k] \notin inlined[j]
          /\ \A j \in Workers \ {i} : \A l \in 1 .. Len(Given(j)) :
                Given(j)[l] # Given(i)[k]
    /\ \A i \in Workers :
          /\ inlined[i] \subseteq Task
          /\ \A j \in Workers \ {i} : inlined[i] \cap inlined[j] = {}

(* shutdown() returns only when no worker is left: no task is running, and    *)
(* no taken batch is left half run, whatever was added meanwhile; tasks may   *)
(* be left over in the queues only.                                           *)
QuietAfterShutdown ==
    m_exit /\ owner = "idle" =>
        \A i \in Workers :
            /\ thr[i] \in {"none", "exited"}
            /\ batch[i] = <<>>
            /\ stack[i] = <<>>

\* Where shutdown and start stand when the owner is in the middle of them.
OwnerInv ==
    /\ owner # "idle" => m_tpool
    /\ ~m_tpool => \A i \in Workers : thr[i] = "none"
    /\ owner \in {"spawn", "assign"} =>
          /\ ~m_exit
          /\ \A k \in Workers :
                ownerI < k \/ (ownerI = k /\ owner = "spawn") =>
                    thr[k] \in {"none", "exited"}
    /\ owner \in {"notify", "join"} =>
          m_exit /\ \A k \in Workers : k < ownerI => thr[k] = "exited"
    /\ owner = "idle" /\ m_exit =>
          \A i \in Workers : thr[i] \in {"none", "exited"}

(* Tasks run one at a time per worker, and only inside its loop: a task is on *)
(* the stack, or left in a batch, only while the worker runs a batch.         *)
RunsInLoop ==
    \A i \in Workers :
        thr[i] # "run" => batch[i] = <<>> /\ stack[i] = <<>>

\* t waits in a queue or in a batch.
Waiting(t) ==
    \E i \in Workers : \E k \in 1 .. Len(batch[i] \o ques[i]) :
        (batch[i] \o ques[i])[k] = t

(* Every accepted task begins to run, unless shutdown comes first: although a *)
(* notify can be lost between takeMulti and the wait, and nothing re-tests    *)
(* the queue under m_cvmut.                                                   *)
AcceptedRuns ==
    \A t \in 1 .. MaxTasks : Waiting(t) ~> (~Waiting(t) \/ m_exit)

(* shutdown() comes back: each worker sees m_exit and can be joined, however  *)
(* many tasks go on adding tasks.                                             *)
ShutdownReturns == owner \in {"notify", "join"} ~> owner = "idle"

=============================================================================
