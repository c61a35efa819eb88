----------------------------- MODULE EventLoop ------------------------------
(***************************************************************************)
(* EventLoop on its Executor: one task queue per thread (what the          *)
(* TaskDistributor guarantees of it is used here), a map of services per   *)
(* thread, and on every thread a task that lets each service of the thread *)
(* process its events and puts itself back.                                *)
(***************************************************************************)
EXTENDS Integers, Sequences, FiniteSets, SequencesExt

CONSTANTS
    NThreads,   \* threads of the Executor
    Keys,       \* service keys, as int64_t
    Nowhere,    \* no service
    Width       \* stands for 64: a key as uint64_t is key % 2^Width

ASSUME LoopAssumption ==
    /\ NThreads \in Nat \ {0}
    /\ Width \in Nat /\ 2^Width \in Nat \ {0}
    /\ Keys \subseteq Int /\ \A key \in Keys : key < 2^Width
    /\ Nowhere \notin Keys

Threads == 0 .. NThreads - 1

VARIABLES
    tasks,      \* the queue of each thread
    batch,      \* what a thread has taken from its queue and not yet run
    cursor,     \* the service whose events a thread processes
    services,   \* m_services of each thread, as a set of keys
    m_exit,     \* shutdown_all has begun
    main,       \* the thread that owns the loop: new, run, join or end
    wanted,     \* history: the keys main() has added and not deleted, by its calls
    failures    \* history: keys that were not found where they should be

loopVars == <<tasks, batch, cursor, services, m_exit, main, wanted, failures>>

LoopInit ==
    /\ tasks = [t \in Threads |-> <<>>]
    /\ batch = [t \in Threads |-> <<>>]
    /\ cursor = [t \in Threads |-> Nowhere]
    /\ services = [t \in Threads |-> {}]
    /\ m_exit = FALSE
    /\ main = "new"
    /\ wanted = {}
    /\ failures = {}

-----------------------------------------------------------------------------
(* Schedule and Executor *)

\* doSchedule(uint64_t) and doSchedule(int64_t) are different functions.
doScheduleU(key) == (key % 2^Width) % NThreads
doSchedule_Mixed(key) == (key + 1) % NThreads
doSchedule(key) == (IF key < 0 THEN -key ELSE key) % NThreads

Step == [op |-> "step", key |-> 0, want |-> FALSE]

addTask(Q, t, task) == [Q EXCEPT ![t] = Append(@, task)]

\* The body of a configuration task that runs on thread t.
Config(t, task) ==
    LET found == task.key \in services[t]
    IN  CASE task.op = "add"  -> services' = [services EXCEPT ![t] = @ \cup {task.key}]
                                    /\ UNCHANGED failures
          [] task.op = "del"  -> services' = [services EXCEPT ![t] = @ \ {task.key}]
                                    /\ failures' = failures \cup (IF found THEN {} ELSE {task.key})
          [] task.op = "find" -> failures' = failures \cup (IF found = task.want THEN {} ELSE {task.key})
                                    /\ UNCHANGED services

-----------------------------------------------------------------------------
(* Calls by the thread that owns the loop; it is none of the loop's, so     *)
(* addTask_ASAP queues the task.                                            *)

start ==
    /\ main = "new"
    /\ main' = "run"
    /\ tasks' = [t \in Threads |-> Append(tasks[t], Step)]
    /\ UNCHANGED <<batch, cursor, services, m_exit, wanted, failures>>

addServiceConfigTask(t, op, key) ==
    /\ main = "run"
    /\ tasks' = addTask(tasks, t, [op |-> op, key |-> key, want |-> key \in wanted])
    /\ UNCHANGED <<batch, cursor, services, m_exit, main, failures>>

addService(key) ==
    /\ key \notin wanted
    /\ addServiceConfigTask(doScheduleU(key), "add", key)
    /\ wanted' = wanted \cup {key}

\* For a service that was added: the code does not test that it is there.
delService(key) ==
    /\ key \in wanted
    /\ addServiceConfigTask(doSchedule(key), "del", key)
    /\ wanted' = wanted \ {key}

modService(key) ==
    /\ key \in wanted
    /\ addServiceConfigTask(doSchedule(key), "add", key)
    /\ UNCHANGED wanted

findService(key) ==
    /\ addServiceConfigTask(doSchedule(key), "find", key)
    /\ UNCHANGED wanted

\* findService called by a task of thread t for a service of this thread runs at
\* once, in front of what is queued.
findServiceInline(t, key) ==
    /\ doSchedule(key) = t
    /\ Config(t, [op |-> "find", key |-> key, want |-> TRUE])
    /\ UNCHANGED <<tasks, batch, cursor, m_exit, main, wanted>>

\* ~EventLoop, operator=: the exit flag, then the joins.
Destroy ==
    /\ main \in {"new", "run"}
    /\ main' = "join" /\ m_exit' = TRUE
    /\ UNCHANGED <<tasks, batch, cursor, services, wanted, failures>>

\* The queues, and what is left in them, are freed when no thread uses them.
Joined ==
    /\ main = "join"
    /\ \A t \in Threads : batch[t] = <<>>
    /\ main' = "end"
    /\ tasks' = [t \in Threads |-> <<>>]
    /\ UNCHANGED <<batch, cursor, services, m_exit, wanted, failures>>

-----------------------------------------------------------------------------
(* The threads *)

Take(t) ==
    /\ ~m_exit /\ batch[t] = <<>> /\ tasks[t] # <<>>
    /\ batch' = [batch EXCEPT ![t] = tasks[t]]
    /\ tasks' = [tasks EXCEPT ![t] = <<>>]
    /\ UNCHANGED <<cursor, services, m_exit, main, wanted, failures>>

Runs(t, op) == batch[t] # <<>> /\ Head(batch[t]).op = op

RunConfig(t) ==
    /\ batch[t] # <<>> /\ Head(batch[t]) # Step
    /\ Config(t, Head(batch[t]))
    /\ batch' = [batch EXCEPT ![t] = Tail(@)]
    /\ UNCHANGED <<tasks, cursor, m_exit, main, wanted>>

\* The service after key in the order of the map, or the end of the loop: then
\* the thread gives itself the next step.
startNextStep_Drops(t, key) ==
    LET later == {k \in services[t] : k > key}
    IN  IF later # {}
        THEN /\ cursor' = [cursor EXCEPT ![t] = CHOOSE k \in later : \A l \in later : k <= l]
             /\ UNCHANGED <<batch, tasks>>
        ELSE /\ cursor' = [cursor EXCEPT ![t] = Nowhere]
             /\ batch' = [batch EXCEPT ![t] = Tail(@)]
             /\ tasks' = IF batch[t] = <<Step>> THEN addTask(tasks, t, Step) ELSE tasks
startNextStep(t, key) ==
    LET later == {k \in services[t] : k > key}
    IN  IF later # {}
        THEN /\ cursor' = [cursor EXCEPT ![t] = CHOOSE k \in later : \A l \in later : k <= l]
             /\ UNCHANGED <<batch, tasks>>
        ELSE /\ cursor' = [cursor EXCEPT ![t] = Nowhere]
             /\ batch' = [batch EXCEPT ![t] = Tail(@)]
             /\ tasks' = addTask(tasks, t, Step)

processEvents(t) ==
    /\ Runs(t, "step") /\ cursor[t] = Nowhere
    /\ startNextStep(t, -2^Width)
    /\ UNCHANGED <<services, m_exit, main, wanted, failures>>

\* The service at the cursor has processed its events.
Processed(t) ==
    /\ cursor[t] # Nowhere
    /\ startNextStep(t, cursor[t])
    /\ UNCHANGED <<services, m_exit, main, wanted, failures>>
=============================================================================
