----------------------------- MODULE ThreadPool -----------------------------
(***************************************************************************)
(* The two pools of threadpool.hh: detached threads, each with a queue, a  *)
(* mutex and a condition variable, all in data that the threads keep       *)
(* alive.  ThreadPool is on pthreads, ThreadPoolPortable on std::thread.   *)
(* A worker holds its mutex exactly while it is "locked".  Tasks may call  *)
(* exec themselves, as the servers of the examples do.                     *)
(***************************************************************************)
EXTENDS Integers, Sequences, FiniteSets, SequencesExt

CONSTANTS
    thread_count,
    Owner, NoTask,
    MaxTasks    \* bound on the tasks accepted

ASSUME ThreadsAssumption == thread_count \in Nat \ {0} /\ MaxTasks \in Nat /\ Owner \notin Nat

Workers == 0 .. thread_count - 1
Callers == {Owner} \cup Workers

VARIABLES
    kind,       \* which of the two pools
    pool,       \* the pool object: alive or gone
    isExit,
    tasks,      \* the queue of each worker
    taken,      \* what a worker has moved out of its queue
    runs,       \* the task a worker runs, or NoTask
    thr,        \* new, locked, run, wait or exited
    pend,       \* an exec under way: where to, and what it does next
    by,         \* history: who gave each accepted task
    ran         \* history: the tasks that each worker began

poolVars == <<kind, pool, isExit, tasks, taken, runs, thr, pend, by, ran>>
queues == <<tasks, taken, runs, by, ran>>

PoolInit ==
    /\ kind \in {"ThreadPool", "ThreadPoolPortable"}
    /\ pool = "alive" /\ isExit = FALSE
    /\ tasks = [i \in Workers |-> <<>>]
    /\ taken = [i \in Workers |-> <<>>]
    /\ runs = [i \in Workers |-> NoTask]
    /\ thr = [i \in Workers |-> "new"]
    /\ pend = [c \in Callers |-> NoTask]
    /\ by = <<>>
    /\ ran = [i \in Workers |-> <<>>]

-----------------------------------------------------------------------------
(* exec *)

CanCall(c) ==
    /\ pend[c] = NoTask
    /\ IF c = Owner THEN pool = "alive" ELSE runs[c] # NoTask

\* The tests come before the lock.
ExecTest(c, i) ==
    /\ CanCall(c) /\ ~isExit /\ i < thread_count
    /\ Len(by) + Cardinality({d \in Callers : pend[d] # NoTask /\ pend[d].next = "emplace"}) < MaxTasks
    /\ pend' = [pend EXCEPT ![c] = [to |-> i, next |-> "emplace"]]
    /\ UNCHANGED <<kind, pool, isExit, queues, thr>>

ExecEmplace(c) ==
    /\ pend[c] # NoTask /\ pend[c].next = "emplace"
    /\ thr[pend[c].to] # "locked"
    /\ tasks' = [tasks EXCEPT ![pend[c].to] = Append(@, Len(by) + 1)]
    /\ by' = Append(by, c)
    /\ pend' = [pend EXCEPT ![c].next = "notify"]
    /\ UNCHANGED <<kind, pool, isExit, taken, runs, thr, ran>>

\* notify_one; a worker that waits takes its mutex again.
ExecNotify(c) ==
    /\ pend[c] # NoTask /\ pend[c].next = "notify"
    /\ thr' = [thr EXCEPT ![pend[c].to] = IF @ = "wait" THEN "locked" ELSE @]
    /\ pend' = [pend EXCEPT ![c] = NoTask]
    /\ UNCHANGED <<kind, pool, isExit, queues>>

\* notifyThread; index = thread_count passes the test too, and is past the array.
notifyThread(i) ==
    /\ CanCall(Owner) /\ ~isExit
    /\ thr[i] = "wait"
    /\ thr' = [thr EXCEPT ![i] = "locked"]
    /\ UNCHANGED <<kind, pool, isExit, queues, pend>>

exec(c) == (\E i \in 0 .. thread_count : ExecTest(c, i)) \/ ExecEmplace(c) \/ ExecNotify(c)

\* ~ThreadPool: nobody is notified.
Destroy ==
    /\ CanCall(Owner)
    /\ pool' = "gone" /\ isExit' = TRUE
    /\ UNCHANGED <<kind, queues, thr, pend>>

-----------------------------------------------------------------------------
(* The loop of a worker *)

Lock(i) ==
    /\ thr[i] = "new" \/ (thr[i] = "run" /\ runs[i] = NoTask /\ taken[i] = <<>>)
    /\ thr' = [thr EXCEPT ![i] = "locked"]
    /\ UNCHANGED <<kind, pool, isExit, queues, pend>>

\* The whole queue is moved out, then the mutex is unlocked.
TakeTasks_Copy(i) ==
    /\ thr[i] = "locked" /\ tasks[i] # <<>>
    /\ taken' = [taken EXCEPT ![i] = tasks[i]]
    /\ thr' = [thr EXCEPT ![i] = "run"]
    /\ UNCHANGED <<kind, pool, isExit, tasks, runs, by, ran, pend>>
TakeTasks(i) ==
    /\ thr[i] = "locked" /\ tasks[i] # <<>>
    /\ taken' = [taken EXCEPT ![i] = tasks[i]]
    /\ tasks' = [tasks EXCEPT ![i] = <<>>]
    /\ thr' = [thr EXCEPT ![i] = "run"]
    /\ UNCHANGED <<kind, pool, isExit, runs, by, ran, pend>>

RunTask(i) ==
    /\ thr[i] = "run" /\ runs[i] = NoTask /\ taken[i] # <<>>
    /\ runs' = [runs EXCEPT ![i] = Head(taken[i])]
    /\ ran' = [ran EXCEPT ![i] = Append(@, Head(taken[i]))]
    /\ taken' = [taken EXCEPT ![i] = Tail(@)]
    /\ UNCHANGED <<kind, pool, isExit, tasks, by, thr, pend>>

TaskReturns(i) ==
    /\ runs[i] # NoTask /\ pend[i] = NoTask
    /\ runs' = [runs EXCEPT ![i] = NoTask]
    /\ UNCHANGED <<kind, pool, isExit, tasks, taken, by, ran, thr, pend>>

\* Only when there is no task does it look whether to exit.
ExitThread_First(i) ==
    /\ thr[i] = "locked" /\ isExit
    /\ thr' = [thr EXCEPT ![i] = "exited"]
    /\ UNCHANGED <<kind, pool, isExit, queues, pend>>
ExitThread(i) ==
    /\ thr[i] = "locked" /\ tasks[i] = <<>> /\ isExit
    /\ thr' = [thr EXCEPT ![i] = "exited"]
    /\ UNCHANGED <<kind, pool, isExit, queues, pend>>

Wait(i) ==
    /\ thr[i] = "locked" /\ tasks[i] = <<>> /\ ~isExit
    /\ thr' = [thr EXCEPT ![i] = "wait"]
    /\ UNCHANGED <<kind, pool, isExit, queues, pend>>

\* wait_for: 10 or 5 milliseconds, or spuriously.
WaitTimeout_Never(i) == FALSE /\ UNCHANGED poolVars
WaitTimeout(i) ==
    /\ thr[i] = "wait"
    /\ thr' = [thr EXCEPT ![i] = "locked"]
    /\ UNCHANGED <<kind, pool, isExit, queues, pend>>

Loop(i) ==
    \/ Lock(i) \/ TakeTasks(i) \/ RunTask(i) \/ TaskReturns(i)
    \/ ExitThread(i) \/ Wait(i) \/ WaitTimeout(i)

\* The two classes have the same loop, each its own copy.
PosixWorker(i) == kind = "ThreadPool" /\ Loop(i)
PortableWorker(i) == kind = "ThreadPoolPortable" /\ Loop(i)

-----------------------------------------------------------------------------
PoolNext ==
    \/ \E c \in Callers : exec(c)
    \/ \E i \in Workers : PosixWorker(i) \/ PortableWorker(i) \/ notifyThread(i)
    \/ Destroy

\* Threads are scheduled, timed waits end, tasks return and a call of exec goes
\* on; a mutex that is free again and again, as during the waits, is got.
PoolFairness ==
    /\ \A i \in Workers : WF_poolVars(PosixWorker(i) \/ PortableWorker(i))
    /\ \A c \in Callers : SF_poolVars(ExecEmplace(c)) /\ WF_poolVars(ExecNotify(c))

PoolSpec == PoolInit /\ [][PoolNext]_poolVars /\ PoolFairness

-----------------------------------------------------------------------------
PoolTypeOK ==
    /\ pool \in {"alive", "gone"} /\ isExit \in BOOLEAN
    /\ thr \in [Workers -> {"new", "locked", "run", "wait", "exited"}]
    /\ \A i \in Workers : tasks[i] \in Seq(1 .. MaxTasks) /\ runs[i] \in {NoTask} \cup 1 .. MaxTasks
    /\ \A c \in Callers : pend[c] # NoTask => pend[c].to \in Workers
    /\ Range(by) \subseteq Callers

\* The tasks worker i was given, in the order it begins them.
Given(i) == ran[i] \o taken[i] \o tasks[i]

\* exec, from any thread, gives a task to one worker once, and each worker begins
\* its tasks in the order in which exec emplaced them.
EachTaskOnce ==
    /\ \A i \in Workers : \A j, k \in DOMAIN Given(i) : j < k => Given(i)[j] < Given(i)[k]
    /\ \A i, j \in Workers : i # j => Range(Given(i)) \cap Range(Given(j)) = {}
    /\ UNION {Range(Given(i)) : i \in Workers} = DOMAIN by

\* A task exec has accepted is left behind by a worker that exited only when a
\* task of another worker gave it, having tested isExit before the destructor set
\* it: never when the owner or the worker itself did.
LostOnlyByOthers ==
    \A i \in Workers : thr[i] = "exited" =>
        /\ taken[i] = <<>>
        /\ \A t \in Range(tasks[i]) : by[t] \in Workers \ {i}

\* exec's tasks have one place and keep their turn, and the exit of a worker
\* leaves behind none that it must run.
TasksPlaced == PoolTypeOK /\ EachTaskOnce /\ LostOnlyByOthers

\* What the owner gave runs, also when the pool is destroyed at once.
OwnerTasksRun ==
    \A t \in 1 .. MaxTasks :
        (t \in DOMAIN by /\ by[t] = Owner) ~> \E i \in Workers : t \in Range(ran[i])

\* After the destructor the detached threads end, although it notifies nobody.
WorkersEnd == pool = "gone" ~> \A i \in Workers : thr[i] = "exited"
=============================================================================
