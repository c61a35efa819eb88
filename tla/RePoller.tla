------------------------------ MODULE RePoller ------------------------------
(***************************************************************************)
(* The event notifier of source/extention/repoller.cpp.  Polling is a      *)
(* chain of tasks on the IO thread of a TaskDistributor: each task runs    *)
(* work() once and, unless m_shutdown is set, adds the next one.  work()   *)
(* takes the events sent by hand (m_customEvents), merges them with what   *)
(* epoll_wait reports and calls the callback of every descriptor that has  *)
(* an event.  The callbacks, and the other tasks of the IO thread, call    *)
(* append, modify, cancle, notifyEvents and setReadyCallback; start() and  *)
(* stop() come from the owner's thread.                                    *)
(*                                                                         *)
(* A bit mask of events is a set of events, a std::map keyed by descriptor *)
(* a function whose domain is the set of keys, and a callback is known by  *)
(* its descriptor only.                                                    *)
(***************************************************************************)
EXTENDS Integers, FiniteSets, FiniteSetsExt, Functions

CONSTANTS
    Fds,         \* descriptors in use: > 0 the kernel's, < -1 the user's own
    Events,      \* the bits of an event mask
    EpollEvents, \* those the kernel knows; the others are the users' own
    Masks,       \* the masks that are sent with notifyEvents
    MaxEvents,   \* the size of the EventContain given to epoll_wait
    MaxStarts,   \* bound on the calls of start()
    NoFd         \* below every descriptor: a loop that has not begun

ASSUME FdsAssumption == Fds \subseteq Int /\ IsFiniteSet(Fds)
ASSUME EventsAssumption == EpollEvents \subseteq Events /\ Masks \subseteq SUBSET Events
ASSUME BoundsAssumption == MaxEvents \in Nat \ {0} /\ MaxStarts \in Nat
ASSUME NoFdAssumption == NoFd \in Int /\ \A f \in Fds : NoFd < f

SystemFds == {f \in Fds : f > 0}
NoEvents == [f \in {} |-> {}]  \* the empty map
IsEventMap(map) == DOMAIN map \subseteq Fds /\ map \in [DOMAIN map -> SUBSET Events]

VARIABLES
    m_shutdown,     \* the flag that ends the chain of polls
    m_callbacks,    \* descriptors with a callback
    m_customEvents, \* events sent by hand and not taken by a poll yet
    interest,       \* external: the epoll instance's list
    ready,          \* external: the events the kernel sees on a descriptor
    ticks,          \* polls waiting in the queue of the IO thread
    pc,             \* where the IO thread is in the task it runs
    current,        \* currentEventsMap of the poll that runs
    byCallbacks,    \* whether its loop runs over m_callbacks
    at,             \* the descriptor that loop has reached
    dangling,       \* the loop's iterator points to an erased node
    owner,          \* where the owner is in start / stop
    starts,         \* number of calls of start()
    newest          \* newest[f]: the last events sent by hand, undelivered

poller == <<m_shutdown, owner, starts, ticks>>
loop == <<pc, current, byCallbacks, at, dangling>>
kernel == <<interest, ready>>
vars == <<poller, loop, kernel, newest, m_callbacks, m_customEvents>>

\* map[key] = value
Put(map, key, value) ==
    [k \in DOMAIN map \cup {key} |-> IF k = key THEN value ELSE map[k]]

\* map.erase(key), for each key of a set
Erase(map, keys) == Restrict(map, DOMAIN map \ keys)

At(map, key) == IF key \in DOMAIN map THEN map[key] ELSE {}

Init ==
    /\ m_shutdown = FALSE
    /\ m_callbacks = {}
    /\ m_customEvents = NoEvents
    /\ interest = NoEvents
    /\ ready = [f \in SystemFds |-> {}]
    /\ ticks = 0
    /\ pc = "idle"
    /\ current = NoEvents
    /\ byCallbacks = FALSE
    /\ at = NoFd
    /\ dangling = FALSE
    /\ owner = "stopped"
    /\ starts = 0
    /\ newest = NoEvents

-----------------------------------------------------------------------------
(* The owner's thread. *)

start ==
    /\ owner = "stopped"
    /\ starts < MaxStarts
    /\ starts' = starts + 1
    /\ m_shutdown' = FALSE
    /\ owner' = "starting"
    /\ UNCHANGED <<ticks, loop, kernel, newest, m_callbacks, m_customEvents>>

\* The call of workNextTick at the end of start().
FirstTick ==
    /\ owner = "starting"
    /\ ticks' = ticks + 1
    /\ owner' = "started"
    /\ UNCHANGED <<m_shutdown, starts, loop, kernel, newest, m_callbacks, m_customEvents>>

stop ==
    /\ owner = "started"
    /\ m_shutdown' = TRUE
    /\ owner' = "stopped"
    /\ UNCHANGED <<starts, ticks, loop, kernel, newest, m_callbacks, m_customEvents>>

-----------------------------------------------------------------------------
(* Operations of the IO thread: in a task between two polls, or in a       *)
(* callback.                                                               *)

OnIOThread == pc \in {"idle", "callback"}

append(f, events) ==
    /\ OnIOThread
    /\ f \in SystemFds \ DOMAIN interest
    /\ interest' = Put(interest, f, events)
    /\ UNCHANGED <<poller, loop, ready, newest, m_callbacks, m_customEvents>>

modify(f, events) ==
    /\ OnIOThread
    /\ f \in DOMAIN interest
    /\ interest' = Put(interest, f, events)
    /\ UNCHANGED <<poller, loop, ready, newest, m_callbacks, m_customEvents>>

cancle(f) ==
    /\ OnIOThread
    /\ m_callbacks' = m_callbacks \ {f}
    /\ interest' = Erase(interest, {f})
    /\ newest' = Erase(newest, {f})
    /\ dangling' = (dangling \/ (pc = "callback" /\ byCallbacks /\ f = at
                                    /\ f \in m_callbacks))
    /\ UNCHANGED <<poller, pc, current, byCallbacks, at, ready, m_customEvents>>

notifyEvents(f, events) ==
    /\ OnIOThread
    /\ f \notin {0, -1}
    /\ f \in m_callbacks
    /\ m_customEvents' = Put(m_customEvents, f, events)
    /\ newest' = Put(newest, f, events)
    /\ UNCHANGED <<poller, loop, kernel, m_callbacks>>

setReadyCallback(f) ==
    /\ OnIOThread
    /\ f \notin {0, -1}
    /\ m_callbacks' = m_callbacks \cup {f}
    /\ UNCHANGED <<poller, loop, kernel, newest, m_customEvents>>

-----------------------------------------------------------------------------
(* work(), in the task that workNextTick added. *)

BeginTick ==
    /\ pc = "idle"
    /\ ticks > 0
    /\ ticks' = ticks - 1
    /\ current' = m_customEvents
    /\ m_customEvents' = NoEvents
    /\ byCallbacks' = ~(Cardinality(DOMAIN m_customEvents) < Cardinality(m_callbacks))
    /\ pc' = "wait"
    /\ UNCHANGED <<m_shutdown, owner, starts, at, dangling, kernel, newest, m_callbacks>>

Report(f) == At(ready, f) \cap interest[f]
Reported == {f \in DOMAIN interest : Report(f) # {}}

\* What epoll_wait may return: at most MaxEvents of the ready descriptors.
Batches ==
    {B \in SUBSET Reported :
        Cardinality(B) = Min({MaxEvents, Cardinality(Reported)})}

\* The events of epoll_wait replace the ones sent by hand.
WaitReturns_Replaces ==
    /\ pc = "wait"
    /\ \E B \in Batches :
           current' = [f \in DOMAIN current \cup B |->
                           IF f \in B THEN Report(f) ELSE current[f]]
    /\ at' = NoFd
    /\ pc' = "dispatch"
    /\ UNCHANGED <<poller, byCallbacks, dangling, kernel, newest, m_callbacks, m_customEvents>>

\* epoll_wait returned, with descriptors or on its timeout; the events of
\* its answer are merged into the ones sent by hand.
WaitReturns ==
    /\ pc = "wait"
    /\ \E B \in Batches :
           current' = [f \in DOMAIN current \cup B |->
                           At(current, f) \cup (IF f \in B THEN Report(f) ELSE {})]
    /\ at' = NoFd
    /\ pc' = "dispatch"
    /\ UNCHANGED <<poller, byCallbacks, dangling, kernel, newest, m_callbacks, m_customEvents>>

\* An interrupted wait ends the task instead of the poll.
WaitInterrupted_EndsTask ==
    /\ pc = "wait"
    /\ current' = NoEvents
    /\ pc' = "idle"
    /\ UNCHANGED <<poller, byCallbacks, at, dangling, kernel, newest,
                   m_callbacks, m_customEvents>>

\* EINTR: num is -1, nothing is merged and the loop goes on.
WaitInterrupted ==
    /\ pc = "wait"
    /\ at' = NoFd
    /\ pc' = "dispatch"
    /\ UNCHANGED <<poller, current, byCallbacks, dangling, kernel, newest,
                   m_callbacks, m_customEvents>>

\* Any other error: work() gives up and takes the events it holds with it.
WaitFails ==
    /\ pc = "wait"
    /\ m_shutdown' = TRUE
    /\ newest' = Erase(newest, DOMAIN current)
    /\ current' = NoEvents
    /\ pc' = "endtick"
    /\ UNCHANGED <<owner, starts, ticks, byCallbacks, at, dangling, kernel,
                   m_callbacks, m_customEvents>>

\* Both loops visit, in ascending order, the descriptors that are in both
\* maps when the loop gets there.
Ahead == {f \in DOMAIN current \cap m_callbacks : f > at}

Call ==
    /\ pc = "dispatch"
    /\ \E f \in Ahead :
           /\ \A g \in Ahead : f <= g
           /\ at' = f
           /\ newest' = IF At(newest, f) \subseteq current[f]
                        THEN Erase(newest, {f}) ELSE newest
    /\ pc' = "callback"
    /\ UNCHANGED <<poller, current, byCallbacks, dangling, kernel,
                   m_callbacks, m_customEvents>>

\* Empties m_customEvents at the end of a poll, not when it takes them.
LoopEnds_Clears ==
    /\ pc = "dispatch"
    /\ Ahead = {}
    /\ current' = NoEvents
    /\ m_customEvents' = NoEvents
    /\ pc' = "endtick"
    /\ UNCHANGED <<poller, byCallbacks, at, dangling, kernel, newest, m_callbacks>>

LoopEnds ==
    /\ pc = "dispatch"
    /\ Ahead = {}
    /\ current' = NoEvents
    /\ pc' = "endtick"
    /\ UNCHANGED <<poller, byCallbacks, at, dangling, kernel, newest,
                   m_callbacks, m_customEvents>>

CallbackReturns ==
    /\ pc = "callback"
    /\ ~dangling
    /\ pc' = "dispatch"
    /\ UNCHANGED <<poller, current, byCallbacks, at, dangling, kernel, newest,
                   m_callbacks, m_customEvents>>

\* The loop increments an iterator to an erased node: undefined.  What the
\* freed memory holds decides: the loop goes on, ends early, or crashes; from
\* here on every return from a callback may.
ReturnToErased ==
    /\ pc = "callback"
    /\ dangling
    /\ pc' \in {"dispatch", "endtick", "crashed"}
    /\ current' = IF pc' = "dispatch" THEN current ELSE NoEvents
    /\ UNCHANGED <<poller, byCallbacks, at, dangling, kernel, newest,
                   m_callbacks, m_customEvents>>

EndTick_IgnoresStop ==
    /\ pc = "endtick"
    /\ ticks' = ticks + 1
    /\ pc' = "idle"
    /\ at' = NoFd
    /\ byCallbacks' = FALSE
    /\ UNCHANGED <<m_shutdown, owner, starts, current, dangling,
                   kernel, newest, m_callbacks, m_customEvents>>

EndTick ==
    /\ pc = "endtick"
    /\ ticks' = IF m_shutdown THEN ticks ELSE ticks + 1
    /\ pc' = "idle"
    /\ at' = NoFd
    /\ byCallbacks' = FALSE
    /\ UNCHANGED <<m_shutdown, owner, starts, current, dangling,
                   kernel, newest, m_callbacks, m_customEvents>>

-----------------------------------------------------------------------------
(* The kernel, and whoever holds the descriptors. *)

KernelReady(f, e) ==
    /\ e \notin ready[f]
    /\ ready' = [ready EXCEPT ![f] = @ \cup {e}]
    /\ UNCHANGED <<poller, loop, interest, newest, m_callbacks, m_customEvents>>

\* The callback, or another task of the IO thread, reads all there is.
Drain(f) ==
    /\ OnIOThread
    /\ ready[f] # {}
    /\ ready' = [ready EXCEPT ![f] = {}]
    /\ UNCHANGED <<poller, loop, interest, newest, m_callbacks, m_customEvents>>

\* close() takes a descriptor off the epoll list; the callback stays.
CloseFd(f) ==
    /\ OnIOThread
    /\ f \in DOMAIN interest
    /\ interest' = Erase(interest, {f})
    /\ ready' = [ready EXCEPT ![f] = {}]
    /\ UNCHANGED <<poller, loop, newest, m_callbacks, m_customEvents>>

-----------------------------------------------------------------------------
Operation ==
    \/ \E f \in Fds : cancle(f) \/ setReadyCallback(f)
    \/ \E f \in Fds, events \in SUBSET EpollEvents : append(f, events) \/ modify(f, events)
    \/ \E f \in Fds, events \in Masks : notifyEvents(f, events)

Environment ==
    \E f \in SystemFds :
        \/ \E e \in EpollEvents : KernelReady(f, e)
        \/ Drain(f)
        \/ CloseFd(f)

Work ==
    \/ BeginTick \/ WaitReturns \/ WaitInterrupted \/ WaitFails
    \/ Call \/ LoopEnds \/ CallbackReturns \/ ReturnToErased \/ EndTick

Crashed == pc = "crashed" /\ UNCHANGED vars

Next == start \/ FirstTick \/ stop \/ Operation \/ Work \/ Environment \/ Crashed

Spec == Init /\ [][Next]_vars

\* The IO thread runs its tasks, callbacks return, a call of start() goes
\* on, and not every epoll_wait is interrupted.
Fairness ==
    /\ WF_vars(FirstTick)
    /\ WF_vars(BeginTick)
    /\ WF_vars(WaitReturns \/ WaitInterrupted)
    /\ SF_vars(WaitReturns)
    /\ WF_vars(Call \/ LoopEnds)
    /\ WF_vars(CallbackReturns \/ ReturnToErased)
    /\ WF_vars(EndTick)

FairSpec == Spec /\ Fairness

-----------------------------------------------------------------------------
(* Every variable stays within its type (the members of _private and the   *)
(* locals of work()).                                                      *)
TypeOK ==
    /\ m_shutdown \in BOOLEAN
    /\ m_callbacks \subseteq Fds \ {0, -1}
    /\ IsEventMap(m_customEvents)
    /\ IsEventMap(current)
    /\ IsEventMap(newest)
    /\ IsEventMap(interest) /\ DOMAIN interest \subseteq SystemFds
    /\ ready \in [SystemFds -> SUBSET EpollEvents]
    /\ ticks \in Nat
    /\ pc \in {"idle", "wait", "dispatch", "callback", "endtick", "crashed"}
    /\ byCallbacks \in BOOLEAN
    /\ dangling \in BOOLEAN
    /\ at \in Fds \cup {NoFd}
    /\ owner \in {"stopped", "starting", "started"}
    /\ starts \in 0 .. MaxStarts

InTick == pc \in {"wait", "dispatch", "callback", "endtick"}

(* Chains of polls: the ones in the queue and the one that runs. *)
Chains == ticks + IF InTick THEN 1 ELSE 0

(* A started poller that is not shut down always has a next poll queued or *)
(* running (repoller.cpp start and workNextTick), however start(), stop()  *)
(* and a failing epoll_wait interleave with the end of a poll: events are  *)
(* never left behind by a chain that ended unnoticed.                      *)
ChainAlive ==
    owner = "started" /\ ~m_shutdown /\ pc # "crashed" => Chains >= 1

(* The last events an accepted notifyEvents sent to a descriptor are kept  *)
(* until a callback has them: they wait in m_customEvents, or the poll     *)
(* that took them has the descriptor still ahead of it.  Callbacks that    *)
(* cancel, register and notify in the middle of the loop do not lose them. *)
NewestKept ==
    ~dangling =>
        \A f \in DOMAIN newest :
            \/ f \in DOMAIN m_customEvents /\ m_customEvents[f] = newest[f]
            \/ /\ f \in DOMAIN current
               /\ newest[f] \subseteq current[f]
               /\ pc = "wait" \/ f \in Ahead

(* cancle may be called by a callback (repoller.hh:57 asks only for the IO *)
(* thread), and the loop of work() that runs over m_callbacks must survive *)
(* it: its iterator never points to an erased node.                        *)
IteratorValid == ~dangling

Polling == owner = "started" /\ ~m_shutdown /\ pc # "crashed"
Called(f) == pc = "callback" /\ at = f

Waiting(f) == f \in m_callbacks /\ f \in Reported /\ Polling
CustomWaiting(f) == f \in DOMAIN m_customEvents /\ f \in m_callbacks /\ Polling

(* Events reach their callback while polling goes on.  An event epoll can  *)
(* report does, unless somebody takes it or the registration away (the     *)
(* loop of work()); events sent by hand do when the callback stays         *)
(* registered, even when a callback of the same descriptor sent them       *)
(* (notifyEvents and the move of m_customEvents at the start of work()).   *)
EventsReach ==
    /\ \A f \in SystemFds : Waiting(f) ~> (Called(f) \/ ~Waiting(f) \/ dangling)
    /\ \A f \in Fds :
          CustomWaiting(f) ~> (Called(f) \/ f \notin m_callbacks \/ ~Polling \/ dangling)

(* After a stop() that no start() follows, polling ends (repoller.cpp      *)
(* stop() and the test of m_shutdown after work()).                        *)
StopEnds == <>[](owner = "stopped") => <>[](Chains = 0 \/ dangling)
=============================================================================
