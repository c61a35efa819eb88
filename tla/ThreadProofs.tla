---------------------------- MODULE ThreadProofs -----------------------------
(***************************************************************************)
(* Proofs about the components in which threads or processes meet: the      *)
(* event notifier and its store of objects, for every set of descriptors,  *)
(* events and ids and any number of requests; the shared-memory channel     *)
(* without a lock, for every width of its numbers and any number of         *)
(* messages, when the end that does not own the memory is opened once; and  *)
(* the thread pools, for any number of threads and tasks.                   *)
(***************************************************************************)
EXTENDS RePoller, ObjectStore, FreeLock, ThreadPool, FiniteSetTheorems,
        SequenceTheorems, TLAPS

-----------------------------------------------------------------------------
(* The event notifier, RePoller. *)

(* operator[] keeps a map of events one: notifyEvents, append, modify. *)
LEMMA PutMap ==
    ASSUME NEW map, IsEventMap(map), NEW f \in Fds, NEW e \in SUBSET Events
    PROVE  IsEventMap(Put(map, f, e))
BY DEF IsEventMap, Put

(* erase keeps a map of events one: cancle, and delivery. *)
LEMMA EraseMap ==
    ASSUME NEW map, IsEventMap(map), NEW F
    PROVE  IsEventMap(Erase(map, F)) /\ DOMAIN Erase(map, F) = DOMAIN map \ F
BY DEF IsEventMap, Erase, Restrict

(* The empty map is one. *)
LEMMA EmptyMap == IsEventMap(NoEvents) /\ DOMAIN NoEvents = {}
BY DEF IsEventMap, NoEvents

(* Merging the answer of epoll_wait keeps the map of events of a poll one. *)
LEMMA MergeMap ==
    ASSUME TypeOK, NEW B \in SUBSET Reported
    PROVE  IsEventMap([f \in DOMAIN current \cup B |->
                          At(current, f) \cup (IF f \in B THEN Report(f) ELSE {})])
<1>1. Reported \subseteq Fds
  BY DEF TypeOK, Reported, SystemFds
<1>2. \A f : At(current, f) \in SUBSET Events /\ At(ready, f) \in SUBSET Events
  BY EventsAssumption DEF TypeOK, At, IsEventMap
<1>3. \A f \in B : Report(f) \in SUBSET Events
  BY <1>2 DEF Report
<1> QED BY <1>1, <1>2, <1>3 DEF TypeOK, IsEventMap

(* Each step of the poller keeps the types. *)
LEMMA TypeStep == TypeOK /\ [Next]_vars => TypeOK'
<1> SUFFICES ASSUME TypeOK, [Next]_vars PROVE TypeOK'
  OBVIOUS
<1> USE FdsAssumption, EventsAssumption, BoundsAssumption, NoFdAssumption
<1>1. CASE start \/ FirstTick \/ stop
  <2>1. UNCHANGED <<loop, kernel, newest, m_callbacks, m_customEvents>>
    BY <1>1 DEF start, FirstTick, stop
  <2>2. m_shutdown' \in BOOLEAN
    BY <1>1 DEF start, FirstTick, stop, TypeOK
  <2>3. ticks' \in Nat /\ starts' \in 0 .. MaxStarts
        /\ owner' \in {"stopped", "starting", "started"}
    BY <1>1 DEF start, FirstTick, stop, TypeOK
  <2> QED BY <2>1, <2>2, <2>3 DEF TypeOK, loop, kernel
<1>2. ASSUME NEW f \in Fds, cancle(f) PROVE TypeOK'
  <2>1. IsEventMap(interest') /\ DOMAIN interest' \subseteq SystemFds
    BY <1>2, EraseMap DEF cancle, TypeOK
  <2>2. IsEventMap(newest')
    BY <1>2, EraseMap DEF cancle, TypeOK
  <2>3. dangling' \in BOOLEAN
    BY <1>2 DEF cancle, TypeOK
  <2> QED BY <1>2, <2>1, <2>2, <2>3 DEF cancle, TypeOK, poller
<1>3. ASSUME NEW f \in Fds, setReadyCallback(f) PROVE TypeOK'
  BY <1>3 DEF setReadyCallback, TypeOK, poller, loop, kernel
<1>4. ASSUME NEW f \in Fds, NEW e \in SUBSET EpollEvents, append(f, e) \/ modify(f, e) PROVE TypeOK'
  <2>1. IsEventMap(interest')
    BY <1>4, PutMap DEF append, modify, TypeOK
  <2>2. DOMAIN interest' \subseteq SystemFds
    BY <1>4 DEF append, modify, TypeOK, Put
  <2> QED BY <1>4, <2>1, <2>2 DEF append, modify, TypeOK, poller, loop
<1>5. ASSUME NEW f \in Fds, NEW e \in Masks, notifyEvents(f, e) PROVE TypeOK'
  <2>1. IsEventMap(m_customEvents') /\ IsEventMap(newest')
    BY <1>5, PutMap DEF notifyEvents, TypeOK
  <2> QED BY <1>5, <2>1 DEF notifyEvents, TypeOK, poller, loop, kernel
<1>6. CASE BeginTick
  BY <1>6, EmptyMap DEF BeginTick, TypeOK, kernel
<1>7. CASE WaitReturns
  <2>1. IsEventMap(current')
    <3>1. PICK B \in Batches :
            current' = [f \in DOMAIN current \cup B |->
                           At(current, f) \cup (IF f \in B THEN Report(f) ELSE {})]
      BY <1>7 DEF WaitReturns
    <3>2. B \in SUBSET Reported
      BY DEF Batches
    <3> QED BY <3>1, <3>2, MergeMap
  <2> QED BY <1>7, <2>1 DEF WaitReturns, TypeOK, poller, kernel
<1>8. CASE WaitInterrupted
  BY <1>8 DEF WaitInterrupted, TypeOK, poller, kernel
<1>9. CASE WaitFails
  BY <1>9, EraseMap, EmptyMap DEF WaitFails, TypeOK, kernel
<1>10. CASE Call
  <2>1. PICK f \in Ahead :
          /\ at' = f
          /\ newest' = IF At(newest, f) \subseteq current[f]
                       THEN Erase(newest, {f}) ELSE newest
    BY <1>10 DEF Call
  <2>2. f \in Fds
    BY DEF Ahead, TypeOK
  <2>3. IsEventMap(newest')
    BY <2>1, EraseMap DEF TypeOK
  <2> QED BY <1>10, <2>1, <2>2, <2>3 DEF Call, TypeOK, poller, kernel
<1>11. CASE LoopEnds \/ CallbackReturns \/ ReturnToErased
  <2>1. UNCHANGED <<poller, byCallbacks, at, dangling, kernel, newest,
                    m_callbacks, m_customEvents>>
    BY <1>11 DEF LoopEnds, CallbackReturns, ReturnToErased
  <2>2. IsEventMap(current')
    BY <1>11, EmptyMap DEF LoopEnds, CallbackReturns, ReturnToErased, TypeOK
  <2>3. pc' \in {"dispatch", "endtick", "crashed"}
    BY <1>11 DEF LoopEnds, CallbackReturns, ReturnToErased
  <2> QED BY <2>1, <2>2, <2>3 DEF TypeOK, poller, kernel
<1>12. CASE EndTick
  <2>1. UNCHANGED <<m_shutdown, owner, starts, current, dangling,
                    kernel, newest, m_callbacks, m_customEvents>>
    BY <1>12 DEF EndTick
  <2>2. ticks' \in Nat /\ pc' = "idle" /\ at' = NoFd
    BY <1>12 DEF EndTick, TypeOK
  <2>3. byCallbacks' \in BOOLEAN
    BY <1>12 DEF EndTick
  <2> QED BY <2>1, <2>2, <2>3 DEF TypeOK, kernel
<1>13. ASSUME NEW f \in SystemFds, NEW e \in EpollEvents, KernelReady(f, e) PROVE TypeOK'
  BY <1>13 DEF KernelReady, TypeOK, poller, loop
<1>14. ASSUME NEW f \in SystemFds, Drain(f) PROVE TypeOK'
  BY <1>14 DEF Drain, TypeOK, poller, loop
<1>15. ASSUME NEW f \in SystemFds, CloseFd(f) PROVE TypeOK'
  <2>1. IsEventMap(interest') /\ DOMAIN interest' \subseteq SystemFds
    BY <1>15, EraseMap DEF CloseFd, TypeOK
  <2> QED BY <1>15, <2>1 DEF CloseFd, TypeOK, poller, loop
<1>16. CASE UNCHANGED vars
  BY <1>16 DEF TypeOK, vars, poller, loop, kernel
<1> QED
  BY <1>1, <1>2, <1>3, <1>4, <1>5, <1>6, <1>7, <1>8, <1>9, <1>10, <1>11, <1>12,
     <1>13, <1>14, <1>15, <1>16
  DEF Next, Operation, Environment, Work, Crashed

(* The constructor establishes the types. *)
LEMMA TypeInit == Init => TypeOK
<1> SUFFICES ASSUME Init PROVE TypeOK
  OBVIOUS
<1>1. /\ IsEventMap(m_customEvents) /\ IsEventMap(current)
      /\ IsEventMap(newest)
      /\ IsEventMap(interest) /\ DOMAIN interest \subseteq SystemFds
  BY EmptyMap DEF Init
<1>2. m_shutdown \in BOOLEAN /\ byCallbacks \in BOOLEAN /\ dangling \in BOOLEAN
  BY DEF Init
<1>3. ready \in [SystemFds -> SUBSET Events]
  BY DEF Init
<1>4. ticks \in Nat /\ starts \in 0 .. MaxStarts
  BY BoundsAssumption DEF Init
<1> QED BY <1>1, <1>2, <1>3, <1>4 DEF Init, TypeOK

(* Type correctness of the poller: the members of RePoller::_private and   *)
(* the locals of work() keep their types.                                  *)
THEOREM TypeCorrect == Spec => []TypeOK
BY TypeInit, TypeStep, PTL DEF Spec

-----------------------------------------------------------------------------
(* However start(), stop(), failing waits and the end of a poll interleave, *)
(* a started poller that is not shut down has its next poll.               *)
THEOREM ChainCorrect == Spec => []ChainAlive
<1>1. Init => ChainAlive
  BY DEF Init, ChainAlive
<1>2. TypeOK /\ ChainAlive /\ [Next]_vars => ChainAlive'
  <2> SUFFICES ASSUME TypeOK, ChainAlive, [Next]_vars PROVE ChainAlive'
    OBVIOUS
  <2> USE DEF TypeOK, ChainAlive, Chains, InTick
  <2>1. CASE start \/ FirstTick \/ stop
    BY <2>1 DEF start, FirstTick, stop, loop
  <2>2. CASE Operation
    BY <2>2 DEF Operation, cancle, setReadyCallback, append, modify, notifyEvents,
                poller, loop
  <2>3. CASE Environment
    BY <2>3 DEF Environment, KernelReady, Drain, CloseFd, poller, loop
  <2>4. CASE BeginTick \/ WaitReturns \/ WaitInterrupted \/ WaitFails
    BY <2>4 DEF BeginTick, WaitReturns, WaitInterrupted, WaitFails, poller
  <2>5. CASE Call \/ LoopEnds \/ CallbackReturns \/ ReturnToErased
    BY <2>5 DEF Call, LoopEnds, CallbackReturns, ReturnToErased, poller
  <2>6. CASE EndTick
    BY <2>6 DEF EndTick
  <2>7. CASE UNCHANGED vars
    BY <2>7 DEF vars, poller, loop
  <2> QED
    BY <2>1, <2>2, <2>3, <2>4, <2>5, <2>6, <2>7 DEF Next, Work, Crashed
<1> QED BY <1>1, <1>2, TypeCorrect, PTL DEF Spec
-----------------------------------------------------------------------------
(* Between polls no events are held, and a descriptor that was sent events *)
(* by hand has a callback: with NewestKept this is inductive.              *)
NewestInv ==
    /\ pc \in {"idle", "endtick", "crashed"} => current = NoEvents
    /\ DOMAIN newest \subseteq m_callbacks
    /\ NewestKept

(* Operations of the IO thread and calls of the owner leave a poll that    *)
(* runs where it is.                                                       *)
LEMMA NewestUndisturbed ==
    ASSUME TypeOK, NewestInv,
           UNCHANGED <<pc, current, at, m_customEvents, newest>>,
           m_callbacks \subseteq m_callbacks',
           dangling' = dangling
    PROVE  NewestInv'
BY DEF NewestInv, NewestKept, Ahead

(* Each step of the poller keeps the newest events. *)
LEMMA NewestStep == TypeOK /\ NewestInv /\ [Next]_vars => NewestInv'
<1> SUFFICES ASSUME TypeOK, NewestInv, [Next]_vars PROVE NewestInv'
  OBVIOUS
<1> USE FdsAssumption, NoFdAssumption
<1>1. CASE start \/ FirstTick \/ stop
  BY <1>1, NewestUndisturbed DEF start, FirstTick, stop, loop
<1>2. CASE Environment
  BY <1>2, NewestUndisturbed DEF Environment, KernelReady, Drain, CloseFd, loop
<1>3. ASSUME NEW f \in Fds, setReadyCallback(f) PROVE NewestInv'
  BY <1>3, NewestUndisturbed DEF setReadyCallback, loop
<1>4. ASSUME NEW f \in Fds, NEW e \in SUBSET EpollEvents, append(f, e) \/ modify(f, e)
      PROVE  NewestInv'
  BY <1>4, NewestUndisturbed DEF append, modify, loop
<1>5. ASSUME NEW f \in Fds, cancle(f) PROVE NewestInv'
  <2>1. DOMAIN newest' = DOMAIN newest \ {f}
    BY <1>5 DEF cancle, Erase, Restrict
  <2>2. \A g \in DOMAIN newest' : newest'[g] = newest[g]
    BY <1>5 DEF cancle, Erase, Restrict
  <2>3. UNCHANGED <<pc, current, at, m_customEvents>> /\ m_callbacks' = m_callbacks \ {f}
    BY <1>5 DEF cancle
  <2>4. ~dangling' => ~dangling
    BY <1>5 DEF cancle
  <2>5. NewestKept'
    <3> SUFFICES ASSUME ~dangling', NEW g \in DOMAIN newest'
                 PROVE  \/ g \in DOMAIN m_customEvents /\ m_customEvents[g] = newest[g]
                        \/ /\ g \in DOMAIN current
                           /\ newest[g] \subseteq current[g]
                           /\ pc = "wait" \/ g \in Ahead'
      BY <2>2, <2>3 DEF NewestKept
    <3> QED BY <2>1, <2>3, <2>4 DEF NewestInv, NewestKept, Ahead
  <2> QED BY <2>1, <2>3, <2>5 DEF NewestInv
<1>6. ASSUME NEW f \in Fds, NEW e \in Masks, notifyEvents(f, e) PROVE NewestInv'
  <2>1. /\ UNCHANGED <<pc, current, at, dangling, m_callbacks>>
        /\ DOMAIN newest' = DOMAIN newest \cup {f}
        /\ newest'[f] = e /\ \A g \in DOMAIN newest \ {f} : newest'[g] = newest[g]
        /\ f \in DOMAIN m_customEvents' /\ m_customEvents'[f] = e
        /\ \A g \in DOMAIN m_customEvents \ {f} :
               g \in DOMAIN m_customEvents' /\ m_customEvents'[g] = m_customEvents[g]
        /\ f \in m_callbacks
    BY <1>6 DEF notifyEvents, Put, loop
  <2>2. NewestKept'
    <3> SUFFICES ASSUME ~dangling, NEW g \in DOMAIN newest'
                 PROVE  \/ g \in DOMAIN m_customEvents' /\ m_customEvents'[g] = newest'[g]
                        \/ /\ g \in DOMAIN current
                           /\ newest'[g] \subseteq current[g]
                           /\ pc = "wait" \/ g \in Ahead'
      BY <2>1 DEF NewestKept
    <3>1. CASE g = f
      BY <2>1, <3>1
    <3>2. CASE g # f
      BY <2>1, <3>2 DEF NewestInv, NewestKept, Ahead
    <3> QED BY <3>1, <3>2
  <2> QED BY <2>1, <2>2 DEF NewestInv
<1>7. CASE BeginTick
  <2>1. ~dangling => \A f \in DOMAIN newest :
            f \in DOMAIN m_customEvents /\ m_customEvents[f] = newest[f]
    BY <1>7, EmptyMap DEF BeginTick, NewestInv, NewestKept, Ahead
  <2> QED BY <1>7, <2>1 DEF BeginTick, NewestInv, NewestKept
<1>8. CASE WaitReturns \/ WaitInterrupted
  <2>1. /\ UNCHANGED <<dangling, m_callbacks, m_customEvents, newest>>
        /\ pc = "wait" /\ pc' = "dispatch" /\ at' = NoFd
    BY <1>8 DEF WaitReturns, WaitInterrupted
  <2>2. \A f \in DOMAIN current : f \in DOMAIN current' /\ current[f] \subseteq current'[f]
    BY <1>8 DEF WaitReturns, WaitInterrupted, At
  <2>3. \A f \in DOMAIN current \cap m_callbacks : f \in Ahead'
    BY <2>1, <2>2 DEF TypeOK, Ahead
  <2>4. \A f \in DOMAIN newest : f \in m_callbacks
    BY DEF NewestInv
  <2>5. NewestKept'
    <3> SUFFICES ASSUME ~dangling, NEW f \in DOMAIN newest
                 PROVE  \/ f \in DOMAIN m_customEvents /\ m_customEvents[f] = newest[f]
                        \/ /\ f \in DOMAIN current'
                           /\ newest[f] \subseteq current'[f]
                           /\ f \in Ahead'
      BY <2>1 DEF NewestKept
    <3> QED BY <2>1, <2>2, <2>3, <2>4 DEF NewestInv, NewestKept
  <2> QED BY <2>1, <2>4, <2>5 DEF NewestInv
<1>9. CASE WaitFails
  <2>1. /\ DOMAIN newest' = DOMAIN newest \ DOMAIN current
        /\ \A f \in DOMAIN newest' : newest'[f] = newest[f]
    BY <1>9 DEF WaitFails, Erase, Restrict
  <2> QED BY <1>9, <2>1 DEF WaitFails, NewestInv, NewestKept, Ahead
<1>10. CASE Call
  <2>1. PICK f \in Ahead :
          /\ \A g \in Ahead : f <= g
          /\ at' = f
          /\ newest' = IF At(newest, f) \subseteq current[f]
                       THEN Erase(newest, {f}) ELSE newest
    BY <1>10 DEF Call
  <2>2. /\ UNCHANGED <<dangling, m_callbacks, m_customEvents, current>>
        /\ pc = "dispatch" /\ pc' = "callback"
    BY <1>10 DEF Call
  <2>3. /\ DOMAIN newest' \subseteq DOMAIN newest
        /\ \A g \in DOMAIN newest' : newest'[g] = newest[g]
    BY <2>1 DEF Erase, Restrict
  <2>4. f \in DOMAIN newest' => ~(newest[f] \subseteq current[f])
    BY <2>1 DEF Erase, Restrict, At
  <2>5. \A g \in Ahead \ {f} : g \in Ahead'
    <3>1. Ahead \subseteq Int
      BY DEF Ahead, TypeOK
    <3>2. \A g \in Ahead \ {f} : g > f
      BY <2>1, <3>1
    <3> QED BY <2>1, <2>2, <3>2 DEF Ahead
  <2>6. NewestKept'
    <3> SUFFICES ASSUME ~dangling, NEW g \in DOMAIN newest'
                 PROVE  \/ g \in DOMAIN m_customEvents /\ m_customEvents[g] = newest[g]
                        \/ /\ g \in DOMAIN current
                           /\ newest[g] \subseteq current[g]
                           /\ g \in Ahead'
      BY <2>2, <2>3 DEF NewestKept
    <3> QED BY <2>2, <2>3, <2>4, <2>5 DEF NewestInv, NewestKept
  <2> QED BY <2>2, <2>3, <2>6 DEF NewestInv
<1>11. CASE LoopEnds
  BY <1>11 DEF LoopEnds, NewestInv, NewestKept
<1>12. CASE CallbackReturns
  BY <1>12 DEF CallbackReturns, NewestInv, NewestKept, Ahead
<1>13. CASE ReturnToErased
  BY <1>13 DEF ReturnToErased, NewestInv, NewestKept
<1>14. CASE EndTick
  BY <1>14, EmptyMap DEF EndTick, NewestInv, NewestKept, Ahead
<1>15. CASE UNCHANGED vars
  BY <1>15, NewestUndisturbed DEF vars, loop
<1> QED
  BY <1>1, <1>2, <1>3, <1>4, <1>5, <1>6, <1>7, <1>8, <1>9, <1>10, <1>11, <1>12,
     <1>13, <1>14, <1>15
  DEF Next, Operation, Work, Crashed

(* The last events sent by hand to a descriptor are kept until its         *)
(* callback has them, whatever callbacks do in the middle of a poll.       *)
THEOREM NewestCorrect == Spec => []NewestKept
<1>1. Init => NewestInv
  BY EmptyMap DEF Init, NewestInv, NewestKept
<1>2. NewestInv => NewestKept
  BY DEF NewestInv
<1> QED BY <1>1, <1>2, NewestStep, TypeCorrect, PTL DEF Spec

-----------------------------------------------------------------------------
(* Its object store, ObjectStore. *)

Save(n) == log[n].op = "save"
Take(k) == log[k].op = "find" /\ log[k].flag
Stored(n) == log[n].id \in DOMAIN m_objects /\ m_objects[log[n].id] = n

\* The queue holds the requests that have no answer yet.
InTurn ==
    /\ \A k \in DOMAIN answers : answers[k].n = k
    /\ Len(answers) + Len(que) = Len(log)
    /\ \A k \in DOMAIN que : que[k] = Len(answers) + k

\* A save under way is the last one answered; its id is free.
SaveUnderWay ==
    saving # None =>
        saving = Len(answers) /\ Save(saving) /\ log[saving].id \notin DOMAIN m_objects

\* The map holds objects of saves that were answered, under their own ids.
Mapped ==
    \A id \in DOMAIN m_objects :
        /\ m_objects[id] \in 1 .. Len(answers)
        /\ Save(m_objects[id]) /\ log[m_objects[id]].id = id

\* A taker was handed the object of a save that was answered, or nothing; no two
\* takers were handed the same.
Handed ==
    /\ \A k \in DOMAIN answers : Take(k) => answers[k].obj \in {None} \cup 1 .. Len(answers)
    /\ \A k, l \in DOMAIN answers :
          Take(k) /\ Take(l) /\ answers[k].obj = answers[l].obj /\ answers[k].obj # None => k = l

HasTaker(n) == \E k \in DOMAIN answers : Take(k) /\ answers[k].obj = n

\* The object of a save that was answered has exactly one place.
Placed ==
    /\ dropped \subseteq 1 .. Len(answers)
    /\ \A n \in 1 .. Len(answers) : Save(n) =>
          \/ saving = n /\ ~Stored(n) /\ ~HasTaker(n) /\ n \notin dropped
          \/ saving # n /\ Stored(n) /\ ~HasTaker(n) /\ n \notin dropped
          \/ saving # n /\ ~Stored(n) /\ HasTaker(n) /\ n \notin dropped
          \/ saving # n /\ ~Stored(n) /\ ~HasTaker(n) /\ n \in dropped

StoreIInv == ObjectsTypeOK /\ InTurn /\ SaveUnderWay /\ Mapped /\ Handed /\ Placed


(* A sequence over a set is one over a larger set. *)
LEMMA SeqGrows == ASSUME NEW S, NEW T, S \subseteq T PROVE Seq(S) \subseteq Seq(T)
OBVIOUS

(* A request in the log is a save or a find of some id. *)
LEMMA LogEntry ==
    ASSUME ObjectsTypeOK, NEW n \in DOMAIN log
    PROVE  log[n] \in [op : {"save", "find"}, id : Ids, flag : BOOLEAN]
<1> DEFINE Req == [op : {"save", "find"}, id : Ids, flag : BOOLEAN]
<1>1. log \in Seq(Req) /\ n \in 1 .. Len(log)
  BY DEF ObjectsTypeOK
<1> HIDE DEF Req
<1>2. log[n] \in Req
  BY <1>1, ElementOfSeq
<1> QED BY <1>2 DEF Req

(* At the start nothing was asked and nothing is kept. *)
LEMMA StoreInit == ObjectsInit => StoreIInv
<1> SUFFICES ASSUME ObjectsInit PROVE StoreIInv
  OBVIOUS
<1>1. DOMAIN m_objects = {} /\ DOMAIN que = {} /\ DOMAIN answers = {} /\ DOMAIN log = {}
      /\ Len(answers) = 0 /\ Len(que) = 0 /\ Len(log) = 0
  BY DEF ObjectsInit
<1>2. ObjectsTypeOK
  BY <1>1 DEF ObjectsInit, ObjectsTypeOK, None, Range
<1> QED BY <1>1, <1>2 DEF ObjectsInit, StoreIInv, InTurn, SaveUnderWay, Mapped, Handed, Placed

(* The IO thread answers the first request that has no answer yet. *)
LEMMA RunsNext ==
    ASSUME ObjectsTypeOK, InTurn, NEW op, Run(op)
    PROVE  /\ Head(que) = Len(answers) + 1 /\ Head(que) \in DOMAIN log
           /\ log[Head(que)].op = op /\ Len(answers) \in Nat
           /\ que' \in Seq(DOMAIN log) /\ Len(answers) + 1 + Len(que') = Len(log)
           /\ \A k \in DOMAIN que' : que'[k] = Len(answers) + 1 + k
<1>1. que \in Seq(DOMAIN log) /\ que # <<>> /\ que' = Tail(que)
  BY DEF ObjectsTypeOK, Run
<1>2. Len(que) \in Nat \ {0} /\ Head(que) = que[1] /\ 1 \in DOMAIN que
  BY <1>1
<1>3. Head(que) \in DOMAIN log /\ Head(que) = Len(answers) + 1
  BY <1>1, <1>2 DEF InTurn
<1>4. que' \in Seq(DOMAIN log) /\ Len(que') = Len(que) - 1
      /\ \A k \in DOMAIN que' : k + 1 \in DOMAIN que /\ que'[k] = que[k + 1]
  BY <1>1, <1>2
<1>5. Len(answers) \in Nat /\ Len(log) \in Nat
  BY DEF ObjectsTypeOK
<1>6. \A k \in DOMAIN que' : que'[k] = Len(answers) + 1 + k
  <2> SUFFICES ASSUME NEW k \in DOMAIN que' PROVE que'[k] = Len(answers) + 1 + k
    OBVIOUS
  <2>1. k \in Nat
    BY <1>4
  <2> QED BY <1>4, <1>5, <2>1 DEF InTurn
<1> QED BY <1>2, <1>3, <1>4, <1>5, <1>6 DEF InTurn, Run

(* A callback adds an answer and leaves the others. *)
LEMMA AddsAnswer ==
    ASSUME ObjectsTypeOK, NEW n \in DOMAIN log, NEW ret \in BOOLEAN, NEW obj \in DOMAIN log \cup {None},
           CallBack(n, ret, obj)
    PROVE  /\ answers' \in Seq([n : DOMAIN log, ret : BOOLEAN, obj : DOMAIN log \cup {None}])
           /\ Len(answers') = Len(answers) + 1
           /\ DOMAIN answers' = 1 .. Len(answers) + 1 /\ DOMAIN answers = 1 .. Len(answers)
           /\ Len(answers) \in Nat
           /\ \A k \in DOMAIN answers : answers'[k] = answers[k]
           /\ answers'[Len(answers) + 1] = [n |-> n, ret |-> ret, obj |-> obj]
BY DEF ObjectsTypeOK, CallBack

(* A request that is accepted disturbs no object. *)
LEMMA AcceptStep ==
    ASSUME StoreIInv, NEW id \in Ids, NEW flag \in BOOLEAN,
           saveObject(id, flag) \/ findObject(id, flag)
    PROVE  StoreIInv'
<1> DEFINE Req == [op : {"save", "find"}, id : Ids, flag : BOOLEAN]
<1>1. PICK r \in Req : Accept(r)
  BY DEF saveObject, findObject
<1>2. log \in Seq(Req) /\ log' = Append(log, r) /\ que \in Seq(DOMAIN log)
      /\ que' = Append(que, Len(log) + 1)
      /\ UNCHANGED <<m_objects, saving, running, answers, dropped>>
  BY <1>1 DEF Accept, StoreIInv, ObjectsTypeOK
<1> HIDE DEF Req
<1>3. /\ log' \in Seq(Req) /\ Len(log') = Len(log) + 1 /\ Len(log) \in Nat
      /\ DOMAIN log = 1 .. Len(log) /\ DOMAIN log' = 1 .. Len(log) + 1
      /\ \A n \in DOMAIN log : log'[n] = log[n]
  BY <1>2
<1>4. /\ que \in Seq(DOMAIN log') /\ que' \in Seq(DOMAIN log')
      /\ Len(que') = Len(que) + 1 /\ Len(que) \in Nat
      /\ \A k \in DOMAIN que' : que'[k] = IF k = Len(que) + 1 THEN Len(log) + 1 ELSE que[k]
      /\ DOMAIN que = 1 .. Len(que) /\ DOMAIN que' = 1 .. Len(que) + 1
  BY <1>2, <1>3
<1>5. ObjectsTypeOK'
  <2>1. answers \in Seq([n : DOMAIN log', ret : BOOLEAN, obj : DOMAIN log' \cup {None}])
    <3>1. [n : DOMAIN log, ret : BOOLEAN, obj : DOMAIN log \cup {None}]
             \subseteq [n : DOMAIN log', ret : BOOLEAN, obj : DOMAIN log' \cup {None}]
      BY <1>3
    <3> QED BY <3>1, SeqGrows DEF StoreIInv, ObjectsTypeOK
  <2> QED BY <1>2, <1>3, <1>4, <2>1 DEF StoreIInv, ObjectsTypeOK, Req
<1>6. InTurn'
  <2>1. /\ Len(answers) \in Nat /\ Len(answers) + Len(que) = Len(log)
        /\ \A k \in DOMAIN answers : answers[k].n = k
        /\ \A k \in DOMAIN que : que[k] = Len(answers) + k
    BY DEF StoreIInv, InTurn, ObjectsTypeOK
  <2>2. ASSUME NEW k \in DOMAIN que' PROVE que'[k] = Len(answers) + k
    <3>1. k \in 1 .. Len(que) + 1 /\ que'[k] = IF k = Len(que) + 1 THEN Len(log) + 1 ELSE que[k]
      BY <1>4
    <3>2. CASE k = Len(que) + 1
      BY <1>4, <2>1, <3>1, <3>2
    <3>3. CASE k # Len(que) + 1
      <4>1. k \in DOMAIN que
        BY <1>4, <3>1, <3>3
      <4>2. que[k] = Len(answers) + k
        BY <2>1, <4>1
      <4> QED BY <3>1, <3>3, <4>2
    <3> QED BY <3>2, <3>3
  <2> QED BY <1>2, <1>3, <1>4, <2>1, <2>2 DEF InTurn
<1>7. /\ Len(answers) \in Nat /\ Len(answers) <= Len(log)
      /\ DOMAIN answers = 1 .. Len(answers)
  BY <1>3, <1>4 DEF StoreIInv, InTurn, ObjectsTypeOK
<1>8. \A n \in 1 .. Len(answers) : n \in DOMAIN log /\ log'[n] = log[n]
  BY <1>3, <1>7
<1>9. SaveUnderWay' /\ Mapped' /\ Handed'
  BY <1>2, <1>3, <1>7, <1>8 DEF StoreIInv, SaveUnderWay, Mapped, Handed, Save, Take, ObjectsTypeOK, None
<1>10. Placed'
  <2>1. answers' = answers /\ saving' = saving /\ dropped' = dropped
    BY <1>2
  <2>2. \A n \in 1 .. Len(answers) : (Save(n)' <=> Save(n)) /\ (Stored(n)' <=> Stored(n))
    BY <1>2, <1>8 DEF Save, Stored
  <2>3. \A n : HasTaker(n)' <=> HasTaker(n)
    BY <1>7, <1>8, <2>1 DEF HasTaker, Take
  <2>4. Placed
    BY DEF StoreIInv
  <2> QED BY <2>1, <2>2, <2>3, <2>4 DEF Placed
<1> QED BY <1>5, <1>6, <1>9, <1>10 DEF StoreIInv

(* The step of an answer, apart from what it does with the objects. *)
LEMMA AnswerStep ==
    ASSUME StoreIInv, NEW op, Run(op), NEW ret \in BOOLEAN, NEW obj \in DOMAIN log \cup {None},
           CallBack(Head(que), ret, obj), UNCHANGED log
    PROVE  /\ InTurn' /\ Head(que) = Len(answers) + 1
           /\ Head(que) \in DOMAIN log /\ log[Head(que)].op = op
           /\ Len(answers) \in Nat /\ Len(answers') = Len(answers) + 1
           /\ DOMAIN answers' = 1 .. Len(answers) + 1 /\ DOMAIN answers = 1 .. Len(answers)
           /\ \A k \in DOMAIN answers : answers'[k] = answers[k] /\ k \in DOMAIN answers' /\ k # Head(que)
           /\ answers'[Head(que)] = [n |-> Head(que), ret |-> ret, obj |-> obj]
           /\ answers' \in Seq([n : DOMAIN log, ret : BOOLEAN, obj : DOMAIN log \cup {None}])
           /\ que' \in Seq(DOMAIN log)
<1> DEFINE n == Head(que)
<1>1. ObjectsTypeOK /\ InTurn
  BY DEF StoreIInv
<1>2. /\ n = Len(answers) + 1 /\ n \in DOMAIN log
      /\ log[n].op = op /\ Len(answers) \in Nat
      /\ que' \in Seq(DOMAIN log) /\ Len(answers) + 1 + Len(que') = Len(log)
      /\ \A k \in DOMAIN que' : que'[k] = Len(answers) + 1 + k
  BY <1>1, RunsNext
<1> HIDE DEF n
<1>3. /\ answers' \in Seq([n : DOMAIN log, ret : BOOLEAN, obj : DOMAIN log \cup {None}])
      /\ Len(answers') = Len(answers) + 1
      /\ DOMAIN answers' = 1 .. Len(answers) + 1 /\ DOMAIN answers = 1 .. Len(answers)
      /\ \A k \in DOMAIN answers : answers'[k] = answers[k]
      /\ answers'[Len(answers) + 1] = [n |-> n, ret |-> ret, obj |-> obj]
  BY <1>1, <1>2, AddsAnswer DEF n
<1>4. \A k \in DOMAIN answers : k \in DOMAIN answers' /\ k # n
  BY <1>2, <1>3
<1>5. \A k \in DOMAIN answers' : answers'[k].n = k
  <2> SUFFICES ASSUME NEW k \in 1 .. Len(answers) + 1 PROVE answers'[k].n = k
    BY <1>3
  <2>1. CASE k = Len(answers) + 1
    BY <1>2, <1>3, <2>1
  <2>2. CASE k # Len(answers) + 1
    <3>1. k \in DOMAIN answers
      BY <1>2, <1>3, <2>2
    <3> QED BY <1>1, <1>3, <3>1 DEF InTurn
  <2> QED BY <2>1, <2>2
<1>6. InTurn'
  BY <1>2, <1>3, <1>5 DEF InTurn
<1> QED BY <1>2, <1>3, <1>4, <1>6 DEF n

(* The answer to a request that takes nothing gives no object away. *)
LEMMA SameTakers ==
    ASSUME Handed, NEW n, n = Len(answers) + 1, ~Take(n), UNCHANGED log, Len(answers) \in Nat,
           Len(answers') = Len(answers) + 1,
           DOMAIN answers' = 1 .. Len(answers) + 1, DOMAIN answers = 1 .. Len(answers),
           \A k \in DOMAIN answers : answers'[k] = answers[k]
    PROVE  Handed' /\ \A m : HasTaker(m)' <=> HasTaker(m)
<1>1. \A k : Take(k)' <=> Take(k)
  BY DEF Take
<1>2. \A k \in DOMAIN answers' : Take(k) => k \in DOMAIN answers
  OBVIOUS
<1>3. \A k \in DOMAIN answers : k \in DOMAIN answers'
  OBVIOUS
<1>4. 1 .. Len(answers) \subseteq 1 .. Len(answers')
  OBVIOUS
<1> QED BY <1>1, <1>2, <1>3, <1>4 DEF Handed, HasTaker

(* saveObject when the id is in use: the new object replaces the old one, or *)
(* is dropped.                                                               *)
LEMMA SaveAgainStep == ASSUME StoreIInv, SaveAgain PROVE StoreIInv'
<1>0. ObjectsTypeOK /\ InTurn /\ Mapped /\ Handed /\ Placed
  BY DEF StoreIInv
<1>1. PICK n \in DOMAIN log : n = Head(que) /\ log[n].op = "save"
  BY <1>0, RunsNext DEF SaveAgain
<1>2. PICK id \in Ids, force \in BOOLEAN : id = log[n].id /\ force = log[n].flag
  BY <1>0, LogEntry
<1>3. /\ Run("save") /\ id \in DOMAIN m_objects
      /\ m_objects' = IF force THEN [m_objects EXCEPT ![id] = n] ELSE m_objects
      /\ dropped' = dropped \cup {IF force THEN m_objects[id] ELSE n}
      /\ CallBack(Head(que), force, n) /\ UNCHANGED <<saving, running, log>> /\ saving = None
  BY <1>1, <1>2 DEF SaveAgain, Run
<1>4. /\ InTurn' /\ n = Len(answers) + 1
      /\ Len(answers) \in Nat /\ Len(answers') = Len(answers) + 1
      /\ DOMAIN answers' = 1 .. Len(answers) + 1 /\ DOMAIN answers = 1 .. Len(answers)
      /\ \A k \in DOMAIN answers : answers'[k] = answers[k] /\ k \in DOMAIN answers' /\ k # n
      /\ answers'[n] = [n |-> n, ret |-> force, obj |-> n]
      /\ answers' \in Seq([n : DOMAIN log, ret : BOOLEAN, obj : DOMAIN log \cup {None}])
      /\ que' \in Seq(DOMAIN log)
  BY <1>1, <1>3, AnswerStep
<1>5. PICK old \in 1 .. Len(answers) :
         old = m_objects[id] /\ Save(old) /\ log[old].id = id
  BY <1>0, <1>3 DEF Mapped
<1>6. old # n /\ old \in DOMAIN log /\ Save(n) /\ ~Take(n)
  BY <1>0, <1>1, <1>3, <1>4, <1>5 DEF ObjectsTypeOK, Range, Save, Take
<1>7. /\ DOMAIN m_objects' = DOMAIN m_objects
      /\ force => m_objects'[id] = n
      /\ ~force => m_objects'[id] = old
      /\ \A i \in DOMAIN m_objects \ {id} : m_objects'[i] = m_objects[i]
  BY <1>3, <1>5
<1>8. ObjectsTypeOK'
  <2>1. \A i \in DOMAIN m_objects : m_objects'[i] \in DOMAIN log
    BY <1>0, <1>1, <1>6, <1>7 DEF ObjectsTypeOK, Range
  <2>2. Range(m_objects') \subseteq DOMAIN log
    BY <1>7, <2>1 DEF Range
  <2>3. dropped' \subseteq DOMAIN log
    BY <1>0, <1>3, <1>5, <1>6 DEF ObjectsTypeOK
  <2> QED BY <1>0, <1>3, <1>4, <1>7, <2>2, <2>3 DEF ObjectsTypeOK
<1>9. SaveUnderWay' /\ Mapped'
  <2>1. SaveUnderWay'
    BY <1>3 DEF SaveUnderWay
  <2>2. ASSUME NEW i \in DOMAIN m_objects
        PROVE  m_objects'[i] \in 1 .. Len(answers') /\ Save(m_objects'[i]) /\ log[m_objects'[i]].id = i
    <3>1. CASE i = id
      BY <1>2, <1>4, <1>5, <1>6, <1>7, <3>1
    <3>2. CASE i # id
      BY <1>0, <1>4, <1>7, <3>2 DEF Mapped
    <3> QED BY <3>1, <3>2
  <2> QED BY <1>3, <1>7, <2>1, <2>2 DEF Mapped, Save
<1>10. Handed' /\ \A m : HasTaker(m)' <=> HasTaker(m)
  BY <1>0, <1>3, <1>4, <1>6, SameTakers
<1>11. ~HasTaker(n) /\ n \notin dropped /\ dropped' \subseteq 1 .. Len(answers')
  BY <1>0, <1>3, <1>4, <1>5 DEF Handed, HasTaker, None, Placed
<1>12. /\ Stored(old)
       /\ force => Stored(n)' /\ ~Stored(old)'
       /\ ~force => ~Stored(n)'
       /\ \A m \in 1 .. Len(answers) : m # old \/ ~force => (Stored(m)' <=> Stored(m))
  <2>1. Stored(old)
    BY <1>3, <1>5 DEF Stored
  <2>2. force => Stored(n)' /\ ~Stored(old)'
    BY <1>2, <1>3, <1>5, <1>6, <1>7 DEF Stored
  <2>3. ~force => ~Stored(n)'
    BY <1>2, <1>3, <1>5, <1>6, <1>7 DEF Stored
  <2>4. ASSUME NEW m \in 1 .. Len(answers), m # old \/ ~force PROVE Stored(m)' <=> Stored(m)
    <3>1. m # n
      BY <1>4
    <3> QED BY <1>3, <1>5, <1>7, <2>4, <3>1 DEF Stored
  <2> QED BY <2>1, <2>2, <2>3, <2>4
<1>13. Placed'
  <2> SUFFICES ASSUME NEW m \in 1 .. Len(answers) + 1, Save(m)
               PROVE  \/ saving = m /\ ~Stored(m)' /\ ~HasTaker(m) /\ m \notin dropped'
                      \/ saving # m /\ Stored(m)' /\ ~HasTaker(m) /\ m \notin dropped'
                      \/ saving # m /\ ~Stored(m)' /\ HasTaker(m) /\ m \notin dropped'
                      \/ saving # m /\ ~Stored(m)' /\ ~HasTaker(m) /\ m \in dropped'
    BY <1>3, <1>4, <1>10, <1>11 DEF Placed, Save
  <2>0. saving # m
    BY <1>3, <1>4 DEF None
  <2>1. CASE m = n
    <3>1. (~force => n \in dropped') /\ (force => n \notin dropped')
      BY <1>3, <1>5, <1>6, <1>11
    <3> QED BY <1>11, <1>12, <2>0, <2>1, <3>1
  <2>2. CASE m # n
    <3>0. n = Len(answers) + 1 /\ Len(answers) \in Nat
      BY <1>4
    <3>1. m \in 1 .. Len(answers)
      BY <2>2, <3>0
    <3>2. \/ Stored(m) /\ ~HasTaker(m) /\ m \notin dropped
          \/ ~Stored(m) /\ HasTaker(m) /\ m \notin dropped
          \/ ~Stored(m) /\ ~HasTaker(m) /\ m \in dropped
      BY <1>0, <2>0, <3>1 DEF Placed
    <3>3. /\ force /\ m = old => m \in dropped'
          /\ m # old \/ ~force => (m \in dropped' <=> m \in dropped)
      BY <1>3, <1>5, <2>2
    <3> QED BY <1>12, <2>0, <3>1, <3>2, <3>3
  <2> QED BY <2>1, <2>2
<1> QED BY <1>4, <1>8, <1>9, <1>10, <1>13 DEF StoreIInv

(* saveObject when the id is free: the callback comes first. *)
LEMMA SaveNewStep == ASSUME StoreIInv, SaveNew PROVE StoreIInv'
<1>0. ObjectsTypeOK /\ InTurn /\ Mapped /\ Handed /\ Placed
  BY DEF StoreIInv
<1>1. PICK n \in DOMAIN log : n = Head(que) /\ log[n].op = "save"
  BY <1>0, RunsNext DEF SaveNew
<1>2. /\ Run("save") /\ log[n].id \notin DOMAIN m_objects /\ saving = None /\ saving' = n
      /\ CallBack(Head(que), TRUE, n) /\ UNCHANGED <<m_objects, running, log, dropped>>
  BY <1>1 DEF SaveNew, Run
<1>3. /\ InTurn' /\ n = Len(answers) + 1
      /\ Len(answers) \in Nat /\ Len(answers') = Len(answers) + 1
      /\ DOMAIN answers' = 1 .. Len(answers) + 1 /\ DOMAIN answers = 1 .. Len(answers)
      /\ \A k \in DOMAIN answers : answers'[k] = answers[k] /\ k \in DOMAIN answers' /\ k # n
      /\ answers' \in Seq([n : DOMAIN log, ret : BOOLEAN, obj : DOMAIN log \cup {None}])
      /\ que' \in Seq(DOMAIN log)
  BY <1>1, <1>2, AnswerStep
<1>4. ObjectsTypeOK'
  BY <1>0, <1>2, <1>3 DEF ObjectsTypeOK
<1>5. SaveUnderWay'
  BY <1>1, <1>2, <1>3 DEF SaveUnderWay, Save
<1>6. Mapped'
  <2>1. \A k \in 1 .. Len(answers) : k \in 1 .. Len(answers')
    BY <1>3
  <2> QED BY <1>0, <1>2, <2>1 DEF Mapped, Save
<1>7. ~Take(n)
  BY <1>1 DEF Take
<1>8. Handed' /\ \A m : HasTaker(m)' <=> HasTaker(m)
  BY <1>0, <1>2, <1>3, <1>7, SameTakers
<1>9. ~HasTaker(n) /\ n \notin dropped /\ dropped' \subseteq 1 .. Len(answers')
  BY <1>0, <1>2, <1>3 DEF Handed, HasTaker, None, Placed
<1>10. ~Stored(n) /\ \A m : Stored(m)' <=> Stored(m)
  BY <1>2 DEF Stored
<1>11. Placed'
  <2> SUFFICES ASSUME NEW m \in 1 .. Len(answers) + 1, Save(m)
               PROVE  \/ n = m /\ ~Stored(m) /\ ~HasTaker(m) /\ m \notin dropped
                      \/ n # m /\ Stored(m) /\ ~HasTaker(m) /\ m \notin dropped
                      \/ n # m /\ ~Stored(m) /\ HasTaker(m) /\ m \notin dropped
                      \/ n # m /\ ~Stored(m) /\ ~HasTaker(m) /\ m \in dropped
    BY <1>2, <1>3, <1>8, <1>9, <1>10 DEF Placed, Save
  <2>1. CASE m = n
    BY <1>9, <1>10, <2>1
  <2>2. CASE m # n
    <3>0. n = Len(answers) + 1 /\ Len(answers) \in Nat
      BY <1>3
    <3>1. m \in 1 .. Len(answers) /\ m # None
      BY <2>2, <3>0 DEF None
    <3> QED BY <1>0, <1>2, <2>2, <3>1 DEF Placed
  <2> QED BY <2>1, <2>2
<1> QED BY <1>3, <1>4, <1>5, <1>6, <1>8, <1>11 DEF StoreIInv

(* ... and the object is stored when it has returned. *)
LEMMA StoreNewStep == ASSUME StoreIInv, StoreNew PROVE StoreIInv'
<1>0. ObjectsTypeOK /\ InTurn /\ SaveUnderWay /\ Mapped /\ Handed /\ Placed
  BY DEF StoreIInv
<1>1. PICK n \in DOMAIN log, id \in Ids :
         n = saving /\ n # None /\ id = log[n].id
  <2>1. saving \in DOMAIN log /\ saving # None
    BY <1>0 DEF StoreNew, ObjectsTypeOK
  <2>2. log[saving] \in [op : {"save", "find"}, id : Ids, flag : BOOLEAN]
    BY <1>0, <2>1, LogEntry
  <2> QED BY <2>1, <2>2
<1>2. /\ saving' = None /\ UNCHANGED <<que, running, log, answers, dropped>>
      /\ DOMAIN m_objects' = DOMAIN m_objects \cup {id}
      /\ m_objects'[id] = n
      /\ \A i \in DOMAIN m_objects \ {id} : m_objects'[i] = m_objects[i]
  BY <1>1 DEF StoreNew
<1>3. n = Len(answers) /\ Save(n) /\ id \notin DOMAIN m_objects /\ Len(answers) \in Nat
  BY <1>0, <1>1 DEF SaveUnderWay, ObjectsTypeOK
<1>4. ObjectsTypeOK'
  <2>1. \A i \in DOMAIN m_objects' : m_objects'[i] \in DOMAIN log
    BY <1>0, <1>1, <1>2 DEF ObjectsTypeOK, Range
  <2>2. Range(m_objects') \subseteq DOMAIN log /\ DOMAIN m_objects' \subseteq Ids
    BY <1>0, <1>2, <2>1 DEF Range, ObjectsTypeOK
  <2> QED BY <1>0, <1>2, <2>2 DEF ObjectsTypeOK
<1>5. InTurn' /\ SaveUnderWay' /\ Handed' /\ \A m : HasTaker(m)' <=> HasTaker(m)
  BY <1>0, <1>2 DEF InTurn, SaveUnderWay, Handed, HasTaker, Take
<1>6. Mapped'
  <2> SUFFICES ASSUME NEW i \in DOMAIN m_objects'
               PROVE  m_objects'[i] \in 1 .. Len(answers) /\ Save(m_objects'[i]) /\ log[m_objects'[i]].id = i
    BY <1>2 DEF Mapped, Save
  <2>1. CASE i = id
    <3>1. n \in 1 .. Len(answers)
      BY <1>1, <1>3 DEF None
    <3> QED BY <1>1, <1>2, <1>3, <2>1, <3>1
  <2>2. CASE i # id
    BY <1>0, <1>2, <2>2 DEF Mapped
  <2> QED BY <2>1, <2>2
<1>7. Stored(n)' /\ \A m : m # n => (Stored(m)' <=> Stored(m))
  BY <1>1, <1>2, <1>3 DEF Stored
<1>8. Placed'
  <2> SUFFICES ASSUME NEW m \in 1 .. Len(answers), Save(m)
               PROVE  \/ Stored(m)' /\ ~HasTaker(m) /\ m \notin dropped
                      \/ ~Stored(m)' /\ HasTaker(m) /\ m \notin dropped
                      \/ ~Stored(m)' /\ ~HasTaker(m) /\ m \in dropped
    <3>1. \A m \in 1 .. Len(answers) : m # None
      BY <1>3 DEF None
    <3> QED BY <1>0, <1>2, <1>5, <3>1 DEF Placed, Save
  <2>1. CASE m = n
    BY <1>0, <1>1, <1>7, <2>1 DEF Placed
  <2>2. CASE m # n
    BY <1>0, <1>1, <1>7, <2>2 DEF Placed
  <2> QED BY <2>1, <2>2
<1> QED BY <1>4, <1>5, <1>6, <1>8 DEF StoreIInv

(* findObject: what it finds is taken out of the map, or left there. *)
LEMMA FindStep == ASSUME StoreIInv, Find PROVE StoreIInv'
<1>0. ObjectsTypeOK /\ InTurn /\ Mapped /\ Handed /\ Placed
  BY DEF StoreIInv
<1>1. PICK n \in DOMAIN log : n = Head(que) /\ log[n].op = "find"
  BY <1>0, RunsNext DEF Find
<1>2. PICK id \in Ids, take \in BOOLEAN : id = log[n].id /\ take = log[n].flag
  BY <1>0, LogEntry
<1>3. PICK found \in BOOLEAN, obj \in DOMAIN log \cup {None} :
         /\ found <=> id \in DOMAIN m_objects
         /\ obj = IF found THEN m_objects[id] ELSE None
  BY <1>0 DEF ObjectsTypeOK, Range
<1>4. /\ Run("find") /\ saving = None /\ CallBack(Head(que), found, obj)
      /\ m_objects' = IF found /\ take THEN Restrict(m_objects, DOMAIN m_objects \ {id}) ELSE m_objects
      /\ UNCHANGED <<saving, running, log, dropped>>
  BY <1>1, <1>2, <1>3 DEF Find, Run
<1>5. /\ InTurn' /\ n = Len(answers) + 1
      /\ Len(answers) \in Nat /\ Len(answers') = Len(answers) + 1
      /\ DOMAIN answers' = 1 .. Len(answers) + 1 /\ DOMAIN answers = 1 .. Len(answers)
      /\ \A k \in DOMAIN answers : answers'[k] = answers[k] /\ k \in DOMAIN answers' /\ k # n
      /\ answers'[n] = [n |-> n, ret |-> found, obj |-> obj]
      /\ answers' \in Seq([n : DOMAIN log, ret : BOOLEAN, obj : DOMAIN log \cup {None}])
      /\ que' \in Seq(DOMAIN log)
  BY <1>1, <1>4, AnswerStep
<1>6. ~Save(n) /\ (Take(n) <=> take) /\ \A k : (Take(k)' <=> Take(k)) /\ (Save(k)' <=> Save(k))
  BY <1>1, <1>2, <1>4 DEF Save, Take
<1>7. /\ found /\ take => DOMAIN m_objects' = DOMAIN m_objects \ {id}
      /\ ~(found /\ take) => DOMAIN m_objects' = DOMAIN m_objects
      /\ \A i \in DOMAIN m_objects' : i \in DOMAIN m_objects /\ m_objects'[i] = m_objects[i]
  BY <1>4 DEF Restrict
<1>8. ObjectsTypeOK'
  <2>1. Range(m_objects') \subseteq DOMAIN log /\ DOMAIN m_objects' \subseteq Ids
    BY <1>0, <1>7 DEF ObjectsTypeOK, Range
  <2> QED BY <1>0, <1>4, <1>5, <2>1 DEF ObjectsTypeOK
<1>9. \A k \in 1 .. Len(answers) : k \in 1 .. Len(answers')
  BY <1>5
<1>10. SaveUnderWay' /\ Mapped'
  BY <1>0, <1>4, <1>6, <1>7, <1>9 DEF SaveUnderWay, Mapped, Save
<1>11. found => obj \in 1 .. Len(answers) /\ Save(obj) /\ Stored(obj) /\ log[obj].id = id
  BY <1>0, <1>3 DEF Mapped, Stored
<1>12. \A k \in DOMAIN answers : Take(k) => answers[k].obj # obj \/ obj = None
  <2>1. CASE found
    <3>1. ~HasTaker(obj)
      BY <1>0, <1>11, <2>1 DEF Placed
    <3> QED BY <3>1 DEF HasTaker
  <2>2. CASE ~found
    BY <1>3, <2>2
  <2> QED BY <2>1, <2>2
<1>13. answers'[n].obj = obj /\ obj \in {None} \cup 1 .. Len(answers')
  <2>1. answers'[n].obj = obj
    BY <1>5
  <2>2. obj \in {None} \cup 1 .. Len(answers')
    BY <1>3, <1>9, <1>11
  <2> QED BY <2>1, <2>2
<1>14. Handed'
  <2>1. ASSUME NEW k \in DOMAIN answers', Take(k)
        PROVE  answers'[k].obj \in {None} \cup 1 .. Len(answers')
    <3>1. CASE k = n
      BY <1>13, <3>1
    <3>2. CASE k # n
      <4>1. k \in DOMAIN answers
        BY <1>5, <3>2
      <4> QED BY <1>0, <1>5, <1>9, <2>1, <4>1 DEF Handed
    <3> QED BY <3>1, <3>2
  <2>2. ASSUME NEW k \in DOMAIN answers', NEW l \in DOMAIN answers', Take(k), Take(l),
               answers'[k].obj = answers'[l].obj, answers'[k].obj # None
        PROVE  k = l
    <3>1. \A j \in DOMAIN answers' : j = n \/ j \in DOMAIN answers
      BY <1>5
    <3>2. CASE k = n
      BY <1>5, <1>12, <1>13, <2>2, <3>1, <3>2
    <3>3. CASE l = n
      BY <1>5, <1>12, <1>13, <2>2, <3>1, <3>3
    <3>4. CASE k # n /\ l # n
      BY <1>0, <1>5, <2>2, <3>1, <3>4 DEF Handed
    <3> QED BY <3>2, <3>3, <3>4
  <2> QED BY <1>6, <2>1, <2>2 DEF Handed
<1>15. ASSUME NEW m PROVE HasTaker(m)' <=> HasTaker(m) \/ (take /\ obj = m)
  <2>1. \A j \in DOMAIN answers' : j = n \/ j \in DOMAIN answers
    BY <1>5
  <2>2. n \in DOMAIN answers'
    BY <1>5
  <2> QED BY <1>5, <1>6, <1>13, <2>1, <2>2 DEF HasTaker
<1>16. Placed'
  <2>1. dropped' \subseteq 1 .. Len(answers')
    BY <1>0, <1>4, <1>9 DEF Placed
  <2> SUFFICES ASSUME NEW m \in 1 .. Len(answers'), Save(m)
               PROVE  \/ saving # m /\ Stored(m)' /\ ~HasTaker(m)' /\ m \notin dropped
                      \/ saving # m /\ ~Stored(m)' /\ HasTaker(m)' /\ m \notin dropped
                      \/ saving # m /\ ~Stored(m)' /\ ~HasTaker(m)' /\ m \in dropped
    BY <1>4, <1>6, <2>1 DEF Placed
  <2>2. m \in 1 .. Len(answers) /\ m # None /\ saving # m
    <3>1. n = Len(answers) + 1 /\ Len(answers) \in Nat /\ Len(answers') = Len(answers) + 1
      BY <1>5
    <3>2. m # n
      BY <1>6
    <3> QED BY <1>4, <3>1, <3>2 DEF None
  <2>3. \/ Stored(m) /\ ~HasTaker(m) /\ m \notin dropped
        \/ ~Stored(m) /\ HasTaker(m) /\ m \notin dropped
        \/ ~Stored(m) /\ ~HasTaker(m) /\ m \in dropped
    BY <1>0, <2>2 DEF Placed
  <2>4. CASE found /\ take /\ m = obj
    <3>1. ~Stored(m)' /\ HasTaker(m)'
      BY <1>4, <1>7, <1>11, <1>15, <2>4 DEF Stored
    <3>2. m \notin dropped
      BY <1>11, <2>3, <2>4
    <3> QED BY <2>2, <3>1, <3>2
  <2>5. CASE ~(found /\ take /\ m = obj)
    <3>1. Stored(m)' <=> Stored(m)
      BY <1>3, <1>4, <1>7, <2>5 DEF Stored
    <3>2. HasTaker(m)' <=> HasTaker(m)
      BY <1>3, <1>15, <2>2, <2>5
    <3> QED BY <2>2, <2>3, <3>1, <3>2
  <2> QED BY <2>4, <2>5
<1> QED BY <1>5, <1>8, <1>10, <1>14, <1>16 DEF StoreIInv

(* Leaving the loop, or doing nothing, moves no object. *)
LEMMA IdleStep == ASSUME StoreIInv, Shutdown \/ UNCHANGED objectsVars PROVE StoreIInv'
<1>1. UNCHANGED <<m_objects, que, saving, log, answers, dropped>> /\ running' \in BOOLEAN
  BY DEF Shutdown, objectsVars, StoreIInv, ObjectsTypeOK
<1>2. ObjectsTypeOK'
  BY <1>1 DEF StoreIInv, ObjectsTypeOK
<1>3. InTurn' /\ SaveUnderWay' /\ Mapped' /\ Handed'
  BY <1>1 DEF StoreIInv, InTurn, SaveUnderWay, Mapped, Handed, Save, Take
<1>4. Placed'
  BY <1>1 DEF StoreIInv, Placed, Save, Take, Stored, HasTaker
<1> QED BY <1>2, <1>3, <1>4 DEF StoreIInv

(* Each step of the object store keeps the invariant. *)
LEMMA StoreStep == StoreIInv /\ [ObjectsNext]_objectsVars => StoreIInv'
BY AcceptStep, SaveAgainStep, SaveNewStep, StoreNewStep, FindStep, IdleStep DEF ObjectsNext

(* The answered requests and the waiting ones together are the log. *)
LEMMA Answered ==
    ASSUME StoreIInv
    PROVE  /\ Len(answers) \in Nat /\ Len(que) \in Nat /\ Len(log) \in Nat
           /\ Len(answers) + Len(que) = Len(log)
           /\ DOMAIN answers = 1 .. Len(answers) /\ DOMAIN que = 1 .. Len(que)
           /\ DOMAIN log = 1 .. Len(log)
           /\ \A k \in DOMAIN answers : Request(k) = log[k]
           /\ \A k \in DOMAIN que : que[k] = Len(answers) + k
<1>1. ObjectsTypeOK /\ InTurn
  BY DEF StoreIInv
<1>2. /\ Len(answers) \in Nat /\ DOMAIN answers = 1 .. Len(answers)
      /\ Len(que) \in Nat /\ DOMAIN que = 1 .. Len(que)
      /\ Len(log) \in Nat /\ DOMAIN log = 1 .. Len(log)
  BY <1>1 DEF ObjectsTypeOK
<1> QED BY <1>1, <1>2 DEF InTurn, Request

(* An object whose request still waits is nowhere else. *)
LEMMA WaitingPlace ==
    ASSUME StoreIInv, NEW n \in DOMAIN log, n > Len(answers)
    PROVE  /\ {k \in DOMAIN que : que[k] = n} = {n - Len(answers)}
           /\ {id \in DOMAIN m_objects : m_objects[id] = n} = {}
           /\ Takers(n) = {} /\ saving # n /\ n \notin dropped
<1>1. /\ Len(answers) \in Nat /\ Len(que) \in Nat /\ Len(log) \in Nat
      /\ Len(answers) + Len(que) = Len(log)
      /\ DOMAIN que = 1 .. Len(que) /\ n \in 1 .. Len(log)
      /\ \A k \in DOMAIN que : que[k] = Len(answers) + k
  BY Answered
<1>2. n \notin 1 .. Len(answers) /\ n # None
  BY <1>1 DEF None
<1>3. {k \in DOMAIN que : que[k] = n} = {n - Len(answers)}
  <2>1. n - Len(answers) \in DOMAIN que /\ que[n - Len(answers)] = n
    BY <1>1
  <2>2. \A k \in DOMAIN que : que[k] = n => k = n - Len(answers)
    BY <1>1
  <2> QED BY <2>1, <2>2
<1>4. {id \in DOMAIN m_objects : m_objects[id] = n} = {}
  BY <1>2 DEF StoreIInv, Mapped
<1>5. Takers(n) = {}
  BY <1>2, Answered DEF StoreIInv, Handed, Takers, Take
<1>6. saving # n
  BY <1>1, <1>2 DEF StoreIInv, SaveUnderWay
<1>7. n \notin dropped
  BY <1>2 DEF StoreIInv, Placed
<1> QED BY <1>3, <1>4, <1>5, <1>6, <1>7

(* An object whose request was answered waits no longer; it is under its own *)
(* id if anywhere in the map, and has at most one taker.                     *)
LEMMA AnsweredPlace ==
    ASSUME StoreIInv, NEW n \in DOMAIN answers
    PROVE  /\ {k \in DOMAIN que : que[k] = n} = {}
           /\ Stored(n) => {id \in DOMAIN m_objects : m_objects[id] = n} = {log[n].id}
           /\ ~Stored(n) => {id \in DOMAIN m_objects : m_objects[id] = n} = {}
           /\ ~HasTaker(n) => Takers(n) = {}
           /\ HasTaker(n) => \E t : Takers(n) = {t}
<1>1. /\ Len(answers) \in Nat /\ Len(que) \in Nat /\ DOMAIN que = 1 .. Len(que)
      /\ DOMAIN answers = 1 .. Len(answers) /\ n # None
      /\ \A k \in DOMAIN que : que[k] = Len(answers) + k
  BY Answered DEF None
<1>2. {k \in DOMAIN que : que[k] = n} = {}
  BY <1>1
<1>3. \A id \in DOMAIN m_objects : m_objects[id] = n => id = log[n].id
  BY DEF StoreIInv, Mapped
<1>4. \A k : k \in Takers(n) <=> k \in DOMAIN answers /\ Take(k) /\ answers[k].obj = n
  BY Answered DEF Takers, Take
<1>5. \A k, l \in Takers(n) : k = l
  BY <1>1, <1>4 DEF StoreIInv, Handed
<1>6. ~HasTaker(n) => Takers(n) = {}
  BY <1>4 DEF HasTaker
<1>7. ASSUME HasTaker(n) PROVE \E t : Takers(n) = {t}
  <2>1. PICK t : t \in Takers(n)
    BY <1>4, <1>7 DEF HasTaker
  <2> QED BY <1>5, <2>1
<1>8. /\ Stored(n) => {id \in DOMAIN m_objects : m_objects[id] = n} = {log[n].id}
      /\ ~Stored(n) => {id \in DOMAIN m_objects : m_objects[id] = n} = {}
  BY <1>3 DEF Stored
<1> QED BY <1>2, <1>6, <1>7, <1>8

(* The strengthened invariant gives the one the run checks. *)
LEMMA StoreIInvImplies == StoreIInv => StoreInv
<1> SUFFICES ASSUME StoreIInv PROVE StoreInv
  OBVIOUS
<1>1. ObjectsTypeOK /\ AnsweredInOrder
  BY DEF StoreIInv, InTurn, AnsweredInOrder
<1>2. ASSUME NEW n \in DOMAIN log, log[n].op = "save"
      PROVE  Cardinality({k \in DOMAIN que : que[k] = n})
             + Cardinality({id \in DOMAIN m_objects : m_objects[id] = n})
             + Cardinality(Takers(n))
             + (IF saving = n THEN 1 ELSE 0) + (IF n \in dropped THEN 1 ELSE 0) = 1
  <2>0. Cardinality({}) = 0 /\ \A x : Cardinality({x}) = 1
    BY FS_EmptySet, FS_Singleton
  <2>1. CASE n > Len(answers)
    <3>1. /\ {k \in DOMAIN que : que[k] = n} = {n - Len(answers)}
          /\ {id \in DOMAIN m_objects : m_objects[id] = n} = {}
          /\ Takers(n) = {} /\ saving # n /\ n \notin dropped
      BY <2>1, WaitingPlace
    <3>2. /\ Cardinality({k \in DOMAIN que : que[k] = n}) = 1
          /\ Cardinality({id \in DOMAIN m_objects : m_objects[id] = n}) = 0
          /\ Cardinality(Takers(n)) = 0
      <4>1. Cardinality({n - Len(answers)}) = 1
        BY <2>0
      <4> QED BY <2>0, <3>1, <4>1
    <3> QED BY <3>1, <3>2
  <2>2. CASE ~(n > Len(answers))
    <3>1. n \in DOMAIN answers /\ n \in 1 .. Len(answers)
      BY <2>2, Answered
    <3>2. \/ saving = n /\ ~Stored(n) /\ ~HasTaker(n) /\ n \notin dropped
          \/ saving # n /\ Stored(n) /\ ~HasTaker(n) /\ n \notin dropped
          \/ saving # n /\ ~Stored(n) /\ HasTaker(n) /\ n \notin dropped
          \/ saving # n /\ ~Stored(n) /\ ~HasTaker(n) /\ n \in dropped
      BY <1>2, <3>1 DEF StoreIInv, Placed, Save
    <3>3. /\ Cardinality({k \in DOMAIN que : que[k] = n}) = 0
          /\ Stored(n) => Cardinality({id \in DOMAIN m_objects : m_objects[id] = n}) = 1
          /\ ~Stored(n) => Cardinality({id \in DOMAIN m_objects : m_objects[id] = n}) = 0
          /\ ~HasTaker(n) => Cardinality(Takers(n)) = 0
          /\ HasTaker(n) => Cardinality(Takers(n)) = 1
      <4> HIDE DEF Stored, HasTaker, Takers
      <4>1. Cardinality({k \in DOMAIN que : que[k] = n}) = 0
        BY <2>0, <3>1, AnsweredPlace
      <4>2. /\ Stored(n) => Cardinality({id \in DOMAIN m_objects : m_objects[id] = n}) = 1
            /\ ~Stored(n) => Cardinality({id \in DOMAIN m_objects : m_objects[id] = n}) = 0
        <5>1. PICK M : M = {id \in DOMAIN m_objects : m_objects[id] = n}
          OBVIOUS
        <5>2. (Stored(n) => M = {log[n].id}) /\ (~Stored(n) => M = {})
          BY <3>1, <5>1, AnsweredPlace
        <5>3. (Stored(n) => Cardinality(M) = 1) /\ (~Stored(n) => Cardinality(M) = 0)
          BY <2>0, <5>2
        <5> QED BY <5>1, <5>3
      <4>3. (~HasTaker(n) => Takers(n) = {}) /\ (HasTaker(n) => \E t : Takers(n) = {t})
        BY <3>1, AnsweredPlace
      <4>4. (~HasTaker(n) => Cardinality(Takers(n)) = 0) /\ (HasTaker(n) => Cardinality(Takers(n)) = 1)
        BY <2>0, <4>3
      <4> QED BY <4>1, <4>2, <4>4
    <3> HIDE DEF Stored, HasTaker
    <3> QED BY <3>2, <3>3
  <2> QED BY <2>1, <2>2
<1>3. \A S : Cardinality(S) = Cardinality(S)
  BY DEF Cardinality, Cardinality, IsFiniteSet, IsFiniteSet
<1> QED BY <1>1, <1>2, <1>3 DEF StoreInv, OnePlace

(* Whatever the ids, the bound on the requests and the order of the steps,  *)
(* each request of saveObject and findObject is called back once in its     *)
(* turn and each saved object has exactly one place.                        *)
THEOREM StoreCorrect == ObjectsSpec => []StoreInv
<1>1. ObjectsSpec => []StoreIInv
  BY StoreInit, StoreStep, PTL DEF ObjectsSpec
<1> QED BY <1>1, StoreIInvImplies, PTL

-----------------------------------------------------------------------------
\* What the IO thread would find under id, were the save under way finished.
Current(id) ==
    IF id \in DOMAIN m_objects THEN m_objects[id]
    ELSE IF saving # None /\ log[saving].id = id THEN saving
    ELSE None

\* The last change of id before the k-th callback left obj there.
Leaves(k, id, obj) ==
    \/ Changes(k, id) = {} /\ obj = None
    \/ \E j \in Changes(k, id) :
          /\ \A i \in Changes(k, id) : i <= j
          /\ obj = IF Request(j).op = "find" THEN None ELSE answers[j].obj

\* Each find was given what the last change had left; what is there now is
\* what the last change left.
Latest ==
    /\ \A k \in DOMAIN answers :
          Request(k).op = "find" => Leaves(k, Request(k).id, answers[k].obj)
    /\ \A id \in Ids : Leaves(Len(answers) + 1, id, Current(id))

(* The last change is the only one that no other follows. *)
LEMMA LatestImplies == StoreIInv /\ Latest => FindsLatest
<1> SUFFICES ASSUME StoreIInv, Latest, NEW k \in DOMAIN answers, Request(k).op = "find"
             PROVE  LET before == Changes(k, Request(k).id)
                        last == CHOOSE j \in before : \A i \in before : i <= j
                    IN  answers[k].obj =
                            IF before = {} \/ Request(last).op = "find"
                            THEN None ELSE answers[last].obj
  BY DEF FindsLatest
<1> DEFINE before == Changes(k, Request(k).id)
           last == CHOOSE j \in before : \A i \in before : i <= j
<1>1. Leaves(k, Request(k).id, answers[k].obj)
  BY DEF Latest
<1>2. before \subseteq Int
  BY Answered DEF Changes
<1>3. CASE before = {}
  BY <1>1, <1>3 DEF Leaves
<1>4. CASE before # {}
  <2>1. PICK j \in before :
           /\ \A i \in before : i <= j
           /\ answers[k].obj = IF Request(j).op = "find" THEN None ELSE answers[j].obj
    BY <1>1, <1>4 DEF Leaves
  <2>2. last \in before /\ \A i \in before : i <= last
    BY <2>1
  <2> HIDE DEF before, last
  <2>3. last = j
    BY <1>2, <2>1, <2>2
  <2> QED BY <1>4, <2>1, <2>3 DEF before, last
<1> QED BY <1>3, <1>4

(* What earlier callbacks left is not changed by later ones. *)
LEMMA SameLeaves ==
    ASSUME StoreIInv, StoreIInv',
           \A k \in DOMAIN answers :
              k \in DOMAIN answers' /\ answers'[k] = answers[k] /\ log'[k] = log[k],
           NEW k \in 1 .. Len(answers) + 1, NEW id, NEW obj
    PROVE  Leaves(k, id, obj)' <=> Leaves(k, id, obj)
<1>1. Len(answers) \in Nat /\ DOMAIN answers = 1 .. Len(answers)
  BY Answered
<1>2. \A j \in 1 .. k - 1 : j \in DOMAIN answers
  BY <1>1
<1>3. \A j \in DOMAIN answers : Request(j)' = Request(j)
  BY Answered DEF StoreIInv, InTurn, Request
<1>4. Changes(k, id)' = Changes(k, id) /\ Changes(k, id) \subseteq DOMAIN answers
  BY <1>2, <1>3 DEF Changes
<1> QED BY <1>3, <1>4 DEF Leaves

(* A callback is the last change of its id when it reports success and saves *)
(* or takes; otherwise it changes nothing.                                   *)
LEMMA LeavesAnswer ==
    ASSUME StoreIInv, StoreIInv', UNCHANGED log,
           NEW n \in DOMAIN log, n = Len(answers) + 1, NEW ret \in BOOLEAN, NEW obj,
           CallBack(n, ret, obj),
           NEW id
    PROVE  /\ \A k \in 1 .. n : \A i, x : Leaves(k, i, x)' <=> Leaves(k, i, x)
           /\ ret /\ log[n].id = id /\ (log[n].op = "save" \/ log[n].flag)
                => Leaves(n + 1, id, IF log[n].op = "find" THEN None ELSE obj)'
           /\ ~(ret /\ log[n].id = id /\ (log[n].op = "save" \/ log[n].flag))
                => \A x : Leaves(n + 1, id, x)' <=> Leaves(n, id, x)
<1>1. /\ Len(answers) \in Nat /\ n \in Nat /\ DOMAIN answers = 1 .. Len(answers)
      /\ DOMAIN answers' = 1 .. n
      /\ \A k \in DOMAIN answers : answers'[k] = answers[k] /\ k \in DOMAIN answers'
      /\ answers'[n] = [n |-> n, ret |-> ret, obj |-> obj]
  <2>1. answers \in Seq([n : DOMAIN log, ret : BOOLEAN, obj : DOMAIN log \cup {None}])
    BY DEF StoreIInv, ObjectsTypeOK
  <2>2. answers' = Append(answers, [n |-> n, ret |-> ret, obj |-> obj])
    BY DEF CallBack
  <2> QED BY <2>1, <2>2
<1>2. \A k \in 1 .. n : \A i, x : Leaves(k, i, x)' <=> Leaves(k, i, x)
  BY <1>1, SameLeaves
<1>3. Request(n)' = log[n] /\ n \in DOMAIN answers' /\ answers'[n].ret = ret /\ answers'[n].obj = obj
  BY <1>1 DEF Request
<1>4. \A k \in 1 .. n : k \in 1 .. n - 1 \/ k = n
  BY <1>1
<1>5. /\ n + 1 - 1 = n /\ n \in 1 .. n /\ n \notin 1 .. n - 1
      /\ \A j \in 1 .. n - 1 : j \in 1 .. n /\ j <= n
  BY <1>1
<1> DEFINE Change == ret /\ log[n].id = id /\ (log[n].op = "save" \/ log[n].flag)
<1>6. CASE Change
  <2>1. n \in Changes(n + 1, id)'
    <3>1. answers'[n].ret
      BY <1>3, <1>6
    <3>2. Request(n)'.id = id /\ (Request(n)'.op = "save" \/ Request(n)'.flag)
      BY <1>3, <1>6
    <3> QED BY <1>5, <3>1, <3>2 DEF Changes
  <2>2. \A i \in Changes(n + 1, id)' : i <= n
    BY <1>1 DEF Changes
  <2> QED BY <1>2, <1>3, <1>6, <2>1, <2>2 DEF Leaves
<1>7. CASE ~Change
  <2>1. Changes(n + 1, id)' = Changes(n, id)'
    BY <1>3, <1>4, <1>5, <1>7 DEF Changes
  <2>2. \A x : Leaves(n + 1, id, x)' <=> Leaves(n, id, x)'
    BY <2>1 DEF Leaves
  <2> QED BY <1>2, <1>5, <1>7, <2>2
<1> QED BY <1>6, <1>7

(* A callback that answers a find with what is there, and after which what *)
(* is there is what it reports, keeps the account right.                   *)
LEMMA LatestAnswer ==
    ASSUME StoreIInv, StoreIInv', Latest, UNCHANGED log,
           NEW op, Run(op), NEW n \in DOMAIN log, n = Head(que),
           NEW ret \in BOOLEAN, NEW obj, CallBack(n, ret, obj),
           op = "find" => obj = Current(log[n].id),
           NEW Change \in BOOLEAN,
           Change <=> ret /\ (log[n].op = "save" \/ log[n].flag),
           \A i \in Ids : Current(i)' = IF Change /\ i = log[n].id
                                        THEN IF op = "find" THEN None ELSE obj
                                        ELSE Current(i)
    PROVE  Latest'
<1>1. /\ n = Len(answers) + 1 /\ log[n].op = op /\ n \in Nat
      /\ DOMAIN answers = 1 .. n - 1
  <2>1. ObjectsTypeOK /\ InTurn
    BY DEF StoreIInv
  <2> QED BY <2>1, RunsNext, Answered
<1>2. /\ Len(answers') = n /\ DOMAIN answers' = 1 .. n
      /\ \A k \in DOMAIN answers : answers'[k] = answers[k]
      /\ answers'[n].obj = obj
  <2>1. answers \in Seq([n : DOMAIN log, ret : BOOLEAN, obj : DOMAIN log \cup {None}])
    BY DEF StoreIInv, ObjectsTypeOK
  <2>2. answers' = Append(answers, [n |-> n, ret |-> ret, obj |-> obj])
    BY DEF CallBack
  <2> QED BY <1>1, <2>1, <2>2
<1>3. log[n].id \in Ids
  BY LogEntry DEF StoreIInv
<1>4. \A k \in 1 .. n : \A i, x : Leaves(k, i, x)' <=> Leaves(k, i, x)
  BY <1>1, LeavesAnswer
<1>5. \A k \in DOMAIN answers' : Request(k)' = log[k]
  BY <1>2, Answered DEF StoreIInv, InTurn, Request
<1>6. ASSUME NEW k \in DOMAIN answers', log[k].op = "find"
      PROVE  Leaves(k, log[k].id, answers[k].obj)'
  <2>1. k \in 1 .. n
    BY <1>2
  <2>2. CASE k = n
    <3>1. Leaves(n, log[n].id, obj)
      BY <1>1, <1>3, <1>6, <2>2 DEF Latest
    <3>2. n \in 1 .. n
      BY <1>1
    <3> QED BY <1>2, <1>4, <2>2, <3>1, <3>2
  <2>3. CASE k # n
    <3>1. k \in DOMAIN answers
      BY <1>1, <2>1, <2>3
    <3>2. Request(k) = log[k]
      BY <3>1, Answered
    <3>3. Leaves(k, log[k].id, answers[k].obj)
      BY <1>6, <3>1, <3>2 DEF Latest
    <3> QED BY <1>2, <1>4, <2>1, <3>1, <3>3
  <2> QED BY <2>2, <2>3
<1>7. ASSUME NEW i \in Ids PROVE Leaves(n + 1, i, Current(i))'
  <2>1. CASE Change /\ i = log[n].id
    <3>1. Current(i)' = IF log[n].op = "find" THEN None ELSE obj
      BY <1>1, <2>1
    <3>2. Leaves(n + 1, i, IF log[n].op = "find" THEN None ELSE obj)'
      BY <1>1, <2>1, LeavesAnswer
    <3> QED BY <3>1, <3>2
  <2>2. CASE ~(Change /\ i = log[n].id)
    <3>1. Current(i)' = Current(i) /\ Leaves(n, i, Current(i))
      BY <1>1, <2>2 DEF Latest
    <3>2. \A x : Leaves(n + 1, i, x)' <=> Leaves(n, i, x)
      BY <1>1, <2>2, LeavesAnswer
    <3> QED BY <3>1, <3>2
  <2> QED BY <2>1, <2>2
<1> QED BY <1>2, <1>5, <1>6, <1>7 DEF Latest

(* Steps that call nobody back leave what was found and what is there. *)
LEMMA LatestQuiet ==
    ASSUME StoreIInv, StoreIInv', Latest, UNCHANGED answers,
           \A k \in DOMAIN answers : log'[k] = log[k],
           \A i \in Ids : Current(i)' = Current(i)
    PROVE  Latest'
<1>1. \A k \in 1 .. Len(answers) + 1 : \A i, x : Leaves(k, i, x)' <=> Leaves(k, i, x)
  BY SameLeaves
<1>2. \A k \in DOMAIN answers : k \in 1 .. Len(answers) + 1 /\ Request(k)' = Request(k)
  BY Answered DEF StoreIInv, InTurn, Request
<1>3. Len(answers) + 1 \in 1 .. Len(answers) + 1
  BY Answered
<1> QED BY <1>1, <1>2, <1>3 DEF Latest

(* Every step keeps the account: a refused save and a plain find change    *)
(* nothing, a save is what is there although it is stored later, and what  *)
(* was taken is gone.                                                      *)
LEMMA LatestStep == StoreIInv /\ StoreIInv' /\ Latest /\ [ObjectsNext]_objectsVars => Latest'
<1> SUFFICES ASSUME StoreIInv, StoreIInv', Latest, [ObjectsNext]_objectsVars PROVE Latest'
  OBVIOUS
<1>0. ObjectsTypeOK /\ InTurn /\ SaveUnderWay /\ Mapped
  BY DEF StoreIInv
<1>1. ASSUME NEW id \in Ids, NEW flag \in BOOLEAN, saveObject(id, flag) \/ findObject(id, flag)
      PROVE  Latest'
  <2> DEFINE Req == [op : {"save", "find"}, id : Ids, flag : BOOLEAN]
  <2>1. PICK r \in Req : Accept(r)
    BY <1>1 DEF saveObject, findObject
  <2>2. log \in Seq(Req) /\ log' = Append(log, r) /\ UNCHANGED <<m_objects, saving, answers>>
    BY <1>0, <2>1 DEF Accept, ObjectsTypeOK
  <2> HIDE DEF Req
  <2>3. \A k \in DOMAIN log : log'[k] = log[k]
    BY <2>2
  <2>4. \A k \in DOMAIN answers : k \in DOMAIN log
    BY Answered
  <2>5. \A i \in Ids : Current(i)' = Current(i)
    BY <1>0, <2>2, <2>3 DEF Current, ObjectsTypeOK
  <2> QED BY <2>2, <2>3, <2>4, <2>5, LatestQuiet
<1>2. ASSUME NEW op, Run(op), UNCHANGED log
      PROVE  \E n \in DOMAIN log, flag \in BOOLEAN :
                n = Head(que) /\ log[n].op = op /\ log[n].flag = flag /\ log[n].id \in Ids /\ n # None
  <2>1. Head(que) \in DOMAIN log /\ log[Head(que)].op = op /\ Head(que) # None
    BY <1>0, <1>2, RunsNext DEF None
  <2>2. log[Head(que)] \in [op : {"save", "find"}, id : Ids, flag : BOOLEAN]
    BY <1>0, <2>1, LogEntry
  <2> QED BY <2>1, <2>2
<1>3. CASE SaveAgain
  <2>1. Run("save") /\ UNCHANGED log
    BY <1>3 DEF SaveAgain
  <2>2. PICK n \in DOMAIN log, force \in BOOLEAN :
           n = Head(que) /\ log[n].op = "save" /\ log[n].flag = force /\ log[n].id \in Ids /\ n # None
    BY <1>2, <2>1
  <2>3. /\ log[n].id \in DOMAIN m_objects /\ saving = None /\ saving' = None
        /\ m_objects' = IF force THEN [m_objects EXCEPT ![log[n].id] = n] ELSE m_objects
        /\ CallBack(n, force, n)
    BY <1>3, <2>2 DEF SaveAgain, Run
  <2>4. force <=> force /\ (log[n].op = "save" \/ log[n].flag)
    BY <2>2
  <2>5. \A i \in Ids : Current(i)' = IF force /\ i = log[n].id
                                     THEN IF "save" = "find" THEN None ELSE n
                                     ELSE Current(i)
    BY <2>1, <2>2, <2>3 DEF Current
  <2> QED BY <2>1, <2>2, <2>3, <2>4, <2>5, LatestAnswer
<1>4. CASE SaveNew
  <2>1. Run("save") /\ UNCHANGED log
    BY <1>4 DEF SaveNew
  <2>2. PICK n \in DOMAIN log, force \in BOOLEAN :
           n = Head(que) /\ log[n].op = "save" /\ log[n].flag = force /\ log[n].id \in Ids /\ n # None
    BY <1>2, <2>1
  <2>3. /\ log[n].id \notin DOMAIN m_objects /\ saving = None /\ saving' = n
        /\ UNCHANGED m_objects /\ CallBack(n, TRUE, n)
    BY <1>4, <2>2 DEF SaveNew, Run
  <2>4. PICK yes \in BOOLEAN : yes
    OBVIOUS
  <2>5. CallBack(n, yes, n) /\ (yes <=> yes /\ (log[n].op = "save" \/ log[n].flag))
    BY <2>2, <2>3, <2>4
  <2>6. \A i \in Ids : Current(i)' = IF yes /\ i = log[n].id
                                     THEN IF "save" = "find" THEN None ELSE n
                                     ELSE Current(i)
    BY <2>1, <2>2, <2>3, <2>4 DEF Current
  <2> QED BY <2>1, <2>2, <2>5, <2>6, LatestAnswer
<1>5. CASE StoreNew
  <2>1. PICK n \in DOMAIN log : n = saving /\ n # None
    BY <1>0, <1>5 DEF StoreNew, ObjectsTypeOK
  <2>2. /\ saving' = None /\ UNCHANGED <<log, answers>>
        /\ m_objects' = [id \in DOMAIN m_objects \cup {log[n].id} |->
                             IF id = log[n].id THEN n ELSE m_objects[id]]
        /\ log[n].id \notin DOMAIN m_objects
    BY <1>0, <1>5, <2>1 DEF StoreNew, SaveUnderWay
  <2>3. \A i \in Ids : Current(i)' = Current(i)
    BY <2>1, <2>2 DEF Current
  <2> QED BY <2>2, <2>3, LatestQuiet
<1>6. CASE Find
  <2>1. Run("find") /\ UNCHANGED log
    BY <1>6 DEF Find
  <2>2. PICK n \in DOMAIN log, take \in BOOLEAN :
           n = Head(que) /\ log[n].op = "find" /\ log[n].flag = take /\ log[n].id \in Ids /\ n # None
    BY <1>2, <2>1
  <2>3. PICK found \in BOOLEAN : found <=> log[n].id \in DOMAIN m_objects
    OBVIOUS
  <2>4. /\ saving = None /\ saving' = None
        /\ CallBack(n, found, IF found THEN m_objects[log[n].id] ELSE None)
        /\ m_objects' = IF found /\ take
                        THEN Restrict(m_objects, DOMAIN m_objects \ {log[n].id}) ELSE m_objects
    BY <1>6, <2>2, <2>3 DEF Find, Run
  <2>5. PICK obj : obj = IF found THEN m_objects[log[n].id] ELSE None
    OBVIOUS
  <2>6. obj = Current(log[n].id) /\ CallBack(n, found, obj)
    BY <2>3, <2>4, <2>5 DEF Current
  <2>7. \A i \in Ids : Current(i)' = IF (found /\ take) /\ i = log[n].id THEN None ELSE Current(i)
    BY <2>1, <2>3, <2>4 DEF Current, Restrict
  <2>8. PICK Change \in BOOLEAN : Change <=> found /\ take
    OBVIOUS
  <2>9. Change <=> found /\ (log[n].op = "save" \/ log[n].flag)
    BY <2>2, <2>8
  <2> QED BY <2>1, <2>2, <2>6, <2>7, <2>8, <2>9, LatestAnswer
<1>7. CASE Shutdown \/ UNCHANGED objectsVars
  <2>1. UNCHANGED <<m_objects, saving, log, answers>>
    BY <1>7 DEF Shutdown, objectsVars
  <2>2. \A i \in Ids : Current(i)' = Current(i)
    BY <2>1 DEF Current
  <2> QED BY <2>1, <2>2, LatestQuiet
<1> QED BY <1>1, <1>3, <1>4, <1>5, <1>6, <1>7 DEF ObjectsNext

(* A find is given what the last successful save or take of its id left,    *)
(* in every interleaving of requests, callbacks and stores.                 *)
THEOREM FindsCorrect == ObjectsSpec => []FindsLatest
<1>1. ObjectsInit => Latest
  <2> SUFFICES ASSUME ObjectsInit PROVE Latest
    OBVIOUS
  <2>1. DOMAIN answers = {} /\ Len(answers) = 0 /\ DOMAIN m_objects = {} /\ saving = None
    BY DEF ObjectsInit
  <2>2. \A id \in Ids : Changes(1, id) = {} /\ Current(id) = None
    BY <2>1 DEF Changes, Current
  <2> QED BY <2>1, <2>2 DEF Latest, Leaves
<1>2. ObjectsSpec => [](StoreIInv /\ Latest)
  BY <1>1, StoreInit, StoreStep, LatestStep, PTL DEF ObjectsSpec
<1> QED BY <1>2, LatestImplies, PTL

-----------------------------------------------------------------------------
(* The shared-memory channel, FreeLock. *)

\* An end is there if it is open or may still be opened.
WriterThere == wpc # "closed" \/ (opener = "reader" /\ opens = 0)
ReaderThere == rpc # "closed" \/ (opener = "writer" /\ opens = 0)

\* The end that does not own the memory is closed until it is opened.
Opening ==
  /\ opener = "reader" /\ opens = 0 => wpc = "closed"
  /\ opener = "writer" /\ opens = 0 => rpc = "closed"

\* How the two numbers go with who is in the slot.
Numbers ==
  /\ wpc = "closed" => current_uid = -1
  /\ rpc = "closed" => already_uid = -1
  /\ WriterInSlot /\ ReaderThere => current_uid = already_uid
  /\ ReaderInSlot /\ WriterThere => current_uid = NextUid(already_uid)
  /\ rpc = "release" /\ WriterThere => rcur = current_uid

\* How far the two ends are, while neither is in the slot.
Outside ==
  (~WriterInSlot /\ WriterThere /\ ~ReaderInSlot /\ ReaderThere) =>
     \/ current_uid = already_uid /\ got = sent
     \/ current_uid = NextUid(already_uid) /\ got = sent - 1

\* What the slot holds and how far the two ends are, while one is in it.
Slot ==
  /\ WriterInSlot => sent < MaxMessages
  /\ WriterInSlot /\ ReaderThere => got = sent
  /\ rpc \in {"copyLo", "copyHi"} => got = sent - 1
  /\ rpc \in {"load", "release"} => got = sent
  /\ wpc \in {"closed", "open", "copyLo"} => lo = sent
  /\ wpc \in {"copyHi", "publish"} => lo = sent + 1
  /\ wpc \in {"closed", "open", "copyLo", "copyHi"} => hi = sent
  /\ wpc = "publish" => hi = sent + 1
  /\ rpc = "copyHi" => rlo = sent

\* The inductive invariant.
FreeLockInv == FreeLockTypeOK /\ Opening /\ NoOverlap /\ Numbers /\ Outside /\ Slot

LEMMA FreeLockInitInv == FreeLockInit => FreeLockInv
BY Int8Assumption, FreeLockBounds
   DEF FreeLockInit, FreeLockInv, FreeLockTypeOK, Opening, NoOverlap, Numbers, Outside, Slot,
       WriterInSlot, ReaderInSlot, WriterThere, ReaderThere, NextUid

LEMMA FreeLockTypeStep ==
  ASSUME FreeLockTypeOK, Slot, FreeLockNext
  PROVE  FreeLockTypeOK'
<1> USE Int8Assumption, FreeLockBounds DEF FreeLockTypeOK
<1>1. CASE OpenWriter \/ CloseWriter \/ writable
  BY <1>1 DEF OpenWriter, CloseWriter, writable
<1>2. CASE WriteLo \/ WriteHi \/ Publish
  BY <1>2 DEF WriteLo, WriteHi, Publish, Slot, WriterInSlot, NextUid
<1>3. CASE OpenReader \/ CloseReader \/ readable
  BY <1>3 DEF OpenReader, CloseReader, readable
<1>4. CASE ReadLo \/ ReadHi \/ LoadUid \/ Release
  BY <1>4 DEF ReadLo, ReadHi, LoadUid, Release
<1> QED BY <1>1, <1>2, <1>3, <1>4 DEF FreeLockNext, Writing, Reading

LEMMA FreeLockStep ==
  ASSUME MaxOpens = 1, FreeLockInv, FreeLockNext
  PROVE  FreeLockInv'
<1>0. FreeLockTypeOK'
  BY FreeLockTypeStep DEF FreeLockInv
<1> USE Int8Assumption, FreeLockBounds
    DEF FreeLockInv, FreeLockTypeOK, Opening, NoOverlap, Numbers, Outside, Slot,
        WriterInSlot, ReaderInSlot, WriterThere, ReaderThere, NextUid
<1>1. CASE OpenWriter
  BY <1>0, <1>1 DEF OpenWriter
<1>2. CASE CloseWriter
  BY <1>0, <1>2 DEF CloseWriter
<1>3. CASE writable
  BY <1>0, <1>3 DEF writable
<1>4. CASE WriteLo
  BY <1>0, <1>4 DEF WriteLo
<1>5. CASE WriteHi
  BY <1>0, <1>5 DEF WriteHi
<1>6. CASE Publish
  BY <1>0, <1>6 DEF Publish
<1>7. CASE OpenReader
  BY <1>0, <1>7 DEF OpenReader
<1>8. CASE CloseReader
  BY <1>0, <1>8 DEF CloseReader
<1>9. CASE readable
  BY <1>0, <1>9 DEF readable, IsReadable
<1>10. CASE ReadLo
  BY <1>0, <1>10 DEF ReadLo
<1>11. CASE ReadHi
  BY <1>0, <1>11 DEF ReadHi
<1>12. CASE LoadUid
  BY <1>0, <1>12 DEF LoadUid
<1>13. CASE Release
  BY <1>0, <1>13 DEF Release
<1> QED
  BY <1>1, <1>2, <1>3, <1>4, <1>5, <1>6, <1>7, <1>8, <1>9, <1>10, <1>11,
     <1>12, <1>13 DEF FreeLockNext, Writing, Reading

LEMMA FreeLockStutter == ASSUME FreeLockInv, UNCHANGED freeLockVars PROVE FreeLockInv'
BY DEF FreeLockInv, FreeLockTypeOK, Opening, NoOverlap, Numbers, Outside, Slot, freeLockVars,
       WriterInSlot, ReaderInSlot, WriterThere, ReaderThere

LEMMA FreeLockInvariance == ASSUME MaxOpens = 1 PROVE FreeLockSpec => []FreeLockInv
<1>1. FreeLockInv /\ [FreeLockNext]_freeLockVars => FreeLockInv'
  BY FreeLockStep, FreeLockStutter
<1> QED BY <1>1, FreeLockInitInv, PTL DEF FreeLockSpec

(* The numbers keep their range: current_uid, added to without a test other  *)
(* than the one for 127, never leaves -1 .. 127.                             *)
THEOREM FreeLockTypeCorrect == ASSUME MaxOpens = 1 PROVE FreeLockSpec => []FreeLockTypeOK
<1>1. FreeLockInv => FreeLockTypeOK
  BY DEF FreeLockInv
<1> QED BY <1>1, FreeLockInvariance, PTL

(* Writer and reader exclude each other from the slot, and the writer is at  *)
(* most one message ahead, for every width of the numbers.                   *)
THEOREM SlotCorrect ==
  ASSUME MaxOpens = 1
  PROVE  FreeLockSpec => [](NoOverlap /\ OneInFlight)
<1>1. FreeLockInv => NoOverlap /\ OneInFlight
  BY DEF FreeLockInv, FreeLockTypeOK, NoOverlap, OneInFlight, Outside, Slot, WriterInSlot,
         ReaderInSlot, WriterThere, ReaderThere
<1> QED BY <1>1, FreeLockInvariance, PTL

(* Every read returns the whole next message.                                *)
THEOREM OrderCorrect == ASSUME MaxOpens = 1 PROVE FreeLockSpec => ReadsInOrder
<1>1. ASSUME FreeLockInv, [FreeLockNext]_freeLockVars
      PROVE  [rpc = "copyHi" /\ rpc' = "load" => got' = got + 1 /\ rlo = got']_freeLockVars
  <2> SUFFICES ASSUME rpc = "copyHi", rpc' = "load"
               PROVE  got' = got + 1 /\ rlo = got'
    OBVIOUS
  <2>1. got' = hi
    BY <1>1 DEF freeLockVars, FreeLockNext, Writing, Reading, OpenWriter, CloseWriter, writable,
                WriteLo, WriteHi, Publish, OpenReader, CloseReader, readable,
                ReadLo, ReadHi, LoadUid, Release
  <2>2. hi = sent /\ rlo = sent /\ got = sent - 1
    BY <1>1 DEF FreeLockInv, FreeLockTypeOK, NoOverlap, Slot, WriterInSlot, ReaderInSlot
  <2> QED BY <1>1, <2>1, <2>2 DEF FreeLockInv, FreeLockTypeOK
<1> QED BY <1>1, FreeLockInvariance, PTL DEF FreeLockSpec, ReadsInOrder

-----------------------------------------------------------------------------
(* The thread pools, ThreadPool. *)

Task == 1 .. MaxTasks

\* The callers that have passed the tests of exec and not emplaced yet.
Emplacing == {d \in Callers : pend[d] # NoTask /\ pend[d].next = "emplace"}

PoolTypes ==
    /\ pool \in {"alive", "gone"} /\ isExit \in BOOLEAN
    /\ thr \in [Workers -> {"new", "locked", "run", "wait", "exited"}]
    /\ tasks \in [Workers -> Seq(Task)]
    /\ taken \in [Workers -> Seq(Task)]
    /\ ran \in [Workers -> Seq(Task)]
    /\ runs \in [Workers -> {NoTask} \cup Task]
    /\ pend \in [Callers -> {NoTask} \cup [to : Workers, next : {"emplace", "notify"}]]
    /\ by \in Seq(Callers)

\* What was emplaced and what will be is within the bound.
Room == Len(by) + Cardinality(Emplacing) <= MaxTasks

\* A worker that is not at its tasks has none taken and none runs.
AtRest == \A i \in Workers : thr[i] # "run" => taken[i] = <<>> /\ runs[i] = NoTask

\* exec is called by the owner while the pool is there, and by a worker from a
\* task that runs.
Calling ==
    /\ pend[Owner] # NoTask => pool = "alive"
    /\ \A i \in Workers : pend[i] # NoTask => runs[i] # NoTask

\* Only after the destructor is there a worker that exited.
Ending ==
    /\ pool = "alive" <=> ~isExit
    /\ \A i \in Workers : thr[i] = "exited" => isExit

PoolIInv ==
    PoolTypes /\ Room /\ AtRest /\ Calling /\ Ending /\ EachTaskOnce /\ LostOnlyByOthers

-----------------------------------------------------------------------------
(* Emplacing adds a task after all that a worker was given ... *)
LEMMA AddLast ==
    ASSUME NEW S, NEW a \in Seq(S), NEW b \in Seq(S), NEW c \in Seq(S), NEW x \in S
    PROVE  a \o b \o Append(c, x) = Append(a \o b \o c, x)
<1>1. <<x>> \in Seq(S) /\ a \o b \in Seq(S) /\ a \o b \o c \in Seq(S)
  OBVIOUS
<1>2. Append(c, x) = c \o <<x>> /\ Append(a \o b \o c, x) = a \o b \o c \o <<x>>
  BY <1>1, AppendIsConcat
<1> QED BY <1>1, <1>2, ConcatAssociative

(* ... taking the queue out moves it to an empty place ... *)
LEMMA MoveQueue ==
    ASSUME NEW S, NEW a \in Seq(S), NEW c \in Seq(S)
    PROVE  a \o c \o <<>> = a \o <<>> \o c
<1>1. a \o c \in Seq(S)
  OBVIOUS
<1> QED BY <1>1, ConcatEmptySeq

(* ... and beginning a task moves it from what was taken to what was begun. *)
LEMMA MoveHead ==
    ASSUME NEW S, NEW a \in Seq(S), NEW b \in Seq(S), NEW c \in Seq(S), b # <<>>
    PROVE  /\ Head(b) \in S /\ Tail(b) \in Seq(S)
           /\ Append(a, Head(b)) \o Tail(b) \o c = a \o b \o c
<1>1. Head(b) \in S /\ Tail(b) \in Seq(S) /\ Len(b) \in Nat \ {0} /\ Head(b) = b[1]
  BY HeadTailProperties, EmptySeq
<1>2. <<Head(b)>> \in Seq(S)
  BY <1>1
<1>3. <<Head(b)>> \o Tail(b) = b
  <2>1. SubSeq(b, 1, Len(b)) = <<b[1]>> \o SubSeq(b, 1 + 1, Len(b))
    BY <1>1, SubSeqRecursiveFirst
  <2>2. Tail(b) = SubSeq(b, 2, Len(b)) /\ SubSeq(b, 1, Len(b)) = b
    BY <1>1, TailIsSubSeq, SubSeqFull
  <2> QED BY <1>1, <2>1, <2>2
<1>4. Append(a, Head(b)) = a \o <<Head(b)>>
  BY <1>1, AppendIsConcat
<1>5. a \o <<Head(b)>> \o Tail(b) = a \o b
  BY <1>1, <1>2, <1>3, ConcatAssociative
<1> QED BY <1>1, <1>4, <1>5

(* The callers are the owner and the workers, finitely many. *)
LEMMA CallerFacts ==
    /\ IsFiniteSet(Callers) /\ Workers \subseteq Callers /\ Owner \in Callers
    /\ Owner \notin Workers /\ MaxTasks \in Nat
<1>1. IsFiniteSet(Workers)
  BY ThreadsAssumption, FS_Interval DEF Workers
<1>2. IsFiniteSet({Owner})
  BY FS_Singleton
<1>3. IsFiniteSet(Callers)
  BY <1>1, <1>2, FS_Union DEF Callers
<1> QED BY <1>3, ThreadsAssumption DEF Callers, Workers

(* At the start nobody was given anything. *)
LEMMA PoolInitInv == PoolInit => PoolIInv
<1> SUFFICES ASSUME PoolInit PROVE PoolIInv
  OBVIOUS
<1>1. PoolTypes
  <2>1. <<>> \in Seq(Task) /\ <<>> \in Seq(Callers)
    OBVIOUS
  <2>2. tasks \in [Workers -> Seq(Task)] /\ taken \in [Workers -> Seq(Task)] /\ ran \in [Workers -> Seq(Task)]
    BY <2>1 DEF PoolInit
  <2>3. pend \in [Callers -> {NoTask} \cup [to : Workers, next : {"emplace", "notify"}]]
    BY DEF PoolInit
  <2> QED BY <2>1, <2>2, <2>3 DEF PoolInit, PoolTypes
<1>2. Emplacing = {} /\ Cardinality({}) = 0 /\ Len(by) = 0
  BY FS_EmptySet DEF PoolInit, Emplacing
<1>3. Room
  BY <1>2, CallerFacts DEF Room
<1>4. AtRest /\ Calling /\ Ending /\ LostOnlyByOthers
  BY CallerFacts DEF PoolInit, AtRest, Calling, Ending, LostOnlyByOthers
<1>5. \A i \in Workers : Given(i) = <<>>
  BY DEF PoolInit, Given
<1>6. EachTaskOnce
  BY <1>5 DEF EachTaskOnce, PoolInit, Range
<1> QED BY <1>1, <1>3, <1>4, <1>6 DEF PoolIInv

(* A step that only moves tasks of a worker keeps what each was given. *)
LEMMA SameGiven ==
    ASSUME EachTaskOnce, UNCHANGED by, \A i \in Workers : Given(i)' = Given(i)
    PROVE  EachTaskOnce'
BY DEF EachTaskOnce

(* exec tests and goes on to the mutex of the worker. *)
LEMMA ExecTestStep == ASSUME PoolIInv, NEW c \in Callers, NEW i \in 0 .. thread_count, ExecTest(c, i) PROVE PoolIInv'
<1>0. PoolTypes /\ Room /\ AtRest /\ Calling /\ Ending /\ EachTaskOnce /\ LostOnlyByOthers
  BY DEF PoolIInv
<1>1. /\ pend' = [pend EXCEPT ![c] = [to |-> i, next |-> "emplace"]] /\ pend[c] = NoTask /\ i \in Workers
      /\ UNCHANGED <<kind, pool, isExit, tasks, taken, runs, by, ran, thr>>
      /\ Len(by) + Cardinality(Emplacing) < MaxTasks
      /\ IF c = Owner THEN pool = "alive" ELSE runs[c] # NoTask
  BY ThreadsAssumption DEF ExecTest, CanCall, Emplacing, Workers, queues
<1>2. PoolTypes'
  BY <1>0, <1>1 DEF PoolTypes
<1>3. Room'
  <2>1. Emplacing' \subseteq Emplacing \cup {c} /\ c \notin Emplacing /\ Emplacing \subseteq Callers
    BY <1>0, <1>1 DEF Emplacing, PoolTypes
  <2>2. IsFiniteSet(Emplacing)
    BY <2>1, CallerFacts, FS_Subset
  <2>3. IsFiniteSet(Emplacing \cup {c}) /\ Cardinality(Emplacing \cup {c}) = Cardinality(Emplacing) + 1
    BY <2>1, <2>2, FS_AddElement
  <2>4. Cardinality(Emplacing') <= Cardinality(Emplacing \cup {c}) /\ Cardinality(Emplacing') \in Nat
        /\ Cardinality(Emplacing) \in Nat
    BY <2>1, <2>2, <2>3, FS_Subset, FS_CardinalityType
  <2>5. by \in Seq(Callers) /\ Len(by) \in Nat /\ MaxTasks \in Nat
    BY <1>0, CallerFacts DEF PoolTypes
  <2> QED BY <1>1, <2>3, <2>4, <2>5 DEF Room
<1>4. AtRest' /\ Ending' /\ LostOnlyByOthers'
  BY <1>0, <1>1 DEF AtRest, Ending, LostOnlyByOthers
<1>5. Calling'
  BY <1>0, <1>1, CallerFacts DEF Calling, PoolTypes
<1>6. EachTaskOnce'
  BY <1>0, <1>1, SameGiven DEF Given
<1> QED BY <1>2, <1>3, <1>4, <1>5, <1>6 DEF PoolIInv

(* exec emplaces under the worker's mutex: the owner only while the pool is  *)
(* there, a worker in its own queue only from a task that it runs.           *)
LEMMA ExecEmplaceStep == ASSUME PoolIInv, NEW c \in Callers, ExecEmplace(c) PROVE PoolIInv'
<1>0. PoolTypes /\ Room /\ AtRest /\ Calling /\ Ending /\ EachTaskOnce /\ LostOnlyByOthers
  BY DEF PoolIInv
<1>1. PICK i \in Workers, n \in Nat :
         /\ pend[c] = [to |-> i, next |-> "emplace"] /\ pend[c] # NoTask /\ n = Len(by) + 1
         /\ tasks' = [tasks EXCEPT ![i] = Append(@, n)]
         /\ by' = Append(by, c)
         /\ pend' = [pend EXCEPT ![c] = [to |-> i, next |-> "notify"]]
         /\ UNCHANGED <<kind, pool, isExit, taken, runs, thr, ran>>
  <2>1. pend[c] \in [to : Workers, next : {"emplace", "notify"}] /\ by \in Seq(Callers)
    BY <1>0 DEF PoolTypes, ExecEmplace
  <2>2. pend[c] # NoTask /\ pend[c].next = "emplace" /\ Len(by) + 1 \in Nat
    BY <2>1 DEF ExecEmplace
  <2>3. pend[c].to \in Workers /\ pend[c] = [to |-> pend[c].to, next |-> "emplace"]
    BY <2>1, <2>2
  <2>4. [pend EXCEPT ![c].next = "notify"] = [pend EXCEPT ![c] = [to |-> pend[c].to, next |-> "notify"]]
    <3>1. [pend[c] EXCEPT !.next = "notify"] = [to |-> pend[c].to, next |-> "notify"]
      BY <2>1
    <3> QED BY <3>1
  <2> QED BY <2>2, <2>3, <2>4 DEF ExecEmplace
<1>2. /\ by \in Seq(Callers) /\ Len(by) \in Nat /\ by' \in Seq(Callers) /\ Len(by') = n
      /\ DOMAIN by = 1 .. Len(by) /\ DOMAIN by' = 1 .. n /\ by'[n] = c
      /\ \A t \in DOMAIN by : by'[t] = by[t]
  BY <1>0, <1>1 DEF PoolTypes
<1>3. c \in Emplacing /\ Emplacing \subseteq Callers /\ Emplacing' \subseteq Emplacing \ {c}
  BY <1>0, <1>1 DEF Emplacing, PoolTypes
<1>4. Room' /\ n \in Task
  <2>2. IsFiniteSet(Emplacing)
    BY <1>3, CallerFacts, FS_Subset
  <2>3. IsFiniteSet(Emplacing \ {c}) /\ Cardinality(Emplacing \ {c}) = Cardinality(Emplacing) - 1
    BY <1>3, <2>2, FS_RemoveElement
  <2>4. /\ Cardinality(Emplacing') <= Cardinality(Emplacing \ {c}) /\ Cardinality(Emplacing') \in Nat
        /\ Cardinality(Emplacing) \in Nat
    BY <1>3, <2>2, <2>3, FS_Subset, FS_CardinalityType
  <2> QED BY <1>0, <1>1, <1>2, <2>3, <2>4, CallerFacts DEF Room, Task
<1>5. PoolTypes'
  <2>1. Append(tasks[i], n) \in Seq(Task)
    BY <1>0, <1>4 DEF PoolTypes
  <2>2. tasks' \in [Workers -> Seq(Task)]
    BY <1>0, <1>1, <2>1 DEF PoolTypes
  <2>3. pend' \in [Callers -> {NoTask} \cup [to : Workers, next : {"emplace", "notify"}]]
    BY <1>0, <1>1 DEF PoolTypes
  <2> QED BY <1>0, <1>1, <1>2, <2>2, <2>3 DEF PoolTypes
<1>6. AtRest' /\ Ending'
  BY <1>0, <1>1 DEF AtRest, Ending
<1>7. Calling'
  BY <1>0, <1>1 DEF Calling, PoolTypes
<1>8. Given(i)' = Append(Given(i), n) /\ Given(i) \in Seq(Task)
      /\ \A j \in Workers \ {i} : Given(j)' = Given(j)
  <2>1. ran[i] \in Seq(Task) /\ taken[i] \in Seq(Task) /\ tasks[i] \in Seq(Task)
    BY <1>0 DEF PoolTypes
  <2>2. tasks'[i] = Append(tasks[i], n) /\ \A j \in Workers \ {i} : tasks'[j] = tasks[j]
    BY <1>0, <1>1 DEF PoolTypes
  <2>3. ran[i] \o taken[i] \o Append(tasks[i], n) = Append(ran[i] \o taken[i] \o tasks[i], n)
    <3>1. n \in Task
      BY <1>4
    <3> DEFINE a == ran[i]
               b == taken[i]
               d == tasks[i]
    <3>2. a \in Seq(Task) /\ b \in Seq(Task) /\ d \in Seq(Task)
      BY <2>1
    <3> HIDE DEF a, b, d
    <3>3. a \o b \o Append(d, n) = Append(a \o b \o d, n)
      BY <3>1, <3>2, AddLast
    <3> QED BY <3>3 DEF a, b, d
  <2>4. ran[i] \o taken[i] \o tasks[i] \in Seq(Task)
    BY <2>1
  <2>5. Given(i)' = ran[i] \o taken[i] \o Append(tasks[i], n)
    BY <1>1, <2>2 DEF Given
  <2>6. \A j \in Workers \ {i} : Given(j)' = Given(j)
    BY <1>1, <2>2 DEF Given
  <2> QED BY <2>3, <2>4, <2>5, <2>6 DEF Given
<1>9. EachTaskOnce'
  <2>1. \A j \in Workers : Range(Given(j)) \subseteq 1 .. Len(by)
    BY <1>0, <1>2 DEF EachTaskOnce
  <2>2. /\ DOMAIN Given(i)' = DOMAIN Given(i) \cup {Len(Given(i)) + 1} /\ Len(Given(i)) \in Nat
        /\ Given(i)'[Len(Given(i)) + 1] = n
        /\ \A k \in DOMAIN Given(i) : Given(i)'[k] = Given(i)[k] /\ k < Len(Given(i)) + 1 /\ k \in Nat
    BY <1>8
  <2>3. Range(Given(i)') = Range(Given(i)) \cup {n}
    BY <2>2 DEF Range
  <2>4. \A k \in DOMAIN Given(i) : Given(i)[k] < n
    <3>1. \A k \in DOMAIN Given(i) : Given(i)[k] \in Range(Given(i))
      BY DEF Range
    <3>2. \A k \in DOMAIN Given(i) : Given(i)[k] \in 1 .. Len(by)
      BY <2>1, <3>1
    <3> QED BY <1>1, <1>2, <3>2
  <2>5. \A j \in Workers : \A k, l \in DOMAIN Given(j)' : k < l => Given(j)'[k] < Given(j)'[l]
    <3> SUFFICES ASSUME NEW j \in Workers, NEW k \in DOMAIN Given(j)', NEW l \in DOMAIN Given(j)', k < l
                 PROVE  Given(j)'[k] < Given(j)'[l]
      OBVIOUS
    <3>1. CASE j # i
      BY <1>0, <1>8, <3>1 DEF EachTaskOnce
    <3>2. CASE j = i
      <4>1. k \in DOMAIN Given(i)
        BY <2>2, <3>2
      <4>2. CASE l = Len(Given(i)) + 1
        BY <2>2, <2>4, <3>2, <4>1, <4>2
      <4>3. CASE l # Len(Given(i)) + 1
        BY <1>0, <2>2, <3>2, <4>1, <4>3 DEF EachTaskOnce
      <4> QED BY <4>2, <4>3
    <3> QED BY <3>1, <3>2
  <2>6. n \notin 1 .. Len(by)
    BY <1>1, <1>2
  <2>7. \A j, k \in Workers : j # k => Range(Given(j)') \cap Range(Given(k)') = {}
    <3>1. \A j, k \in Workers : j # k => Range(Given(j)) \cap Range(Given(k)) = {}
      BY <1>0 DEF EachTaskOnce
    <3>2. \A j \in Workers : n \notin Range(Given(j)) /\ (j # i => Range(Given(j)') = Range(Given(j)))
      BY <1>8, <2>1, <2>6
    <3> QED BY <2>3, <3>1, <3>2
  <2>8. (UNION {Range(Given(j)) : j \in Workers})' = (UNION {Range(Given(j)) : j \in Workers}) \cup {n}
    <3>1. \A j \in Workers : j # i => Range(Given(j)') = Range(Given(j))
      BY <1>8
    <3>2. \A x : (\E j \in Workers : x \in Range(Given(j)')) <=> (\E j \in Workers : x \in Range(Given(j))) \/ x = n
      BY <2>3, <3>1
    <3>3. \A x : x \in UNION {Range(Given(j)) : j \in Workers} <=> \E j \in Workers : x \in Range(Given(j))
      BY Zenon
    <3>4. \A x : x \in UNION {Range(Given(j)') : j \in Workers} <=> \E j \in Workers : x \in Range(Given(j)')
      BY Zenon
    <3> DEFINE before == UNION {Range(Given(j)) : j \in Workers}
               after == UNION {Range(Given(j)') : j \in Workers}
    <3>5. \A x : x \in after <=> x \in before \/ x = n
      BY <3>2, <3>3, <3>4
    <3> HIDE DEF before, after
    <3>6. after = before \cup {n}
      BY <3>5
    <3> QED BY <3>6 DEF before, after
  <2>9. DOMAIN by' = DOMAIN by \cup {n}
    BY <1>1, <1>2
  <2>10. UNION {Range(Given(j)) : j \in Workers} = DOMAIN by
    BY <1>0 DEF EachTaskOnce
  <2>11. (UNION {Range(Given(j)) : j \in Workers})' = DOMAIN by'
    BY <2>8, <2>9, <2>10
  <2> QED BY <2>5, <2>7, <2>11 DEF EachTaskOnce
<1>10. LostOnlyByOthers'
  <2> SUFFICES ASSUME NEW j \in Workers, thr[j] = "exited"
               PROVE  taken[j] = <<>> /\ \A t \in Range(tasks'[j]) : by'[t] \in Workers \ {j}
    BY <1>1 DEF LostOnlyByOthers
  <2>1. taken[j] = <<>> /\ isExit /\ runs[j] = NoTask /\ pool # "alive"
        /\ \A t \in Range(tasks[j]) : by[t] \in Workers \ {j}
    BY <1>0 DEF LostOnlyByOthers, Ending, AtRest
  <2>2. c \in Workers \ {j}
    BY <1>0, <1>1, <2>1 DEF Calling, Callers
  <2>3. Range(tasks'[j]) \subseteq Range(tasks[j]) \cup {n}
    <3>1. tasks[j] \in Seq(Task) /\ (tasks'[j] = tasks[j] \/ tasks'[j] = Append(tasks[j], n))
      BY <1>0, <1>1 DEF PoolTypes
    <3> QED BY <1>4, <3>1 DEF Range
  <2>4. Range(tasks[j]) \subseteq DOMAIN by
    <3>1. /\ ran[j] \in Seq(Task) /\ taken[j] = <<>> /\ tasks[j] \in Seq(Task)
      BY <1>0, <2>1 DEF PoolTypes
    <3>2. ran[j] \o taken[j] = ran[j]
      BY <3>1, ConcatEmptySeq
    <3>3. Range(tasks[j]) \subseteq Range(ran[j] \o tasks[j])
      BY <3>1, RangeConcatenation
    <3>4. Range(Given(j)) \subseteq DOMAIN by
      BY <1>0 DEF EachTaskOnce
    <3> QED BY <3>2, <3>3, <3>4 DEF Given
  <2> QED BY <1>2, <2>1, <2>2, <2>3, <2>4
<1> QED BY <1>4, <1>5, <1>6, <1>7, <1>9, <1>10 DEF PoolIInv

(* The steps of exec, of the owner and of a worker that move no task. *)
LEMMA QuietStep ==
    ASSUME PoolIInv,
           UNCHANGED <<kind, queues, pend>>,
           \/ /\ pend[Owner] = NoTask /\ pool' = "gone" /\ isExit' = TRUE /\ UNCHANGED thr
           \/ /\ UNCHANGED <<pool, isExit>>
              /\ \E i \in Workers, next \in {"locked", "wait", "exited"} :
                    /\ thr' = [thr EXCEPT ![i] = next]
                    /\ taken[i] = <<>> /\ runs[i] = NoTask
                    /\ next = "exited" => isExit /\ tasks[i] = <<>>
           \/ UNCHANGED <<pool, isExit, thr>>
    PROVE  PoolIInv'
<1>0. PoolTypes /\ Room /\ AtRest /\ Calling /\ Ending /\ EachTaskOnce /\ LostOnlyByOthers
  BY DEF PoolIInv
<1>1. UNCHANGED <<tasks, taken, runs, by, ran, pend>>
  BY DEF queues
<1>2. PoolTypes'
  BY <1>0, <1>1 DEF PoolTypes
<1>3. Room' /\ EachTaskOnce'
  BY <1>0, <1>1, SameGiven DEF Room, Emplacing, Given
<1>4. AtRest' /\ Calling' /\ Ending'
  BY <1>0, <1>1 DEF PoolTypes, AtRest, Calling, Ending
<1>5. \A j \in Workers : thr'[j] = "exited" => thr[j] = "exited" \/ (tasks[j] = <<>> /\ taken[j] = <<>>)
  BY <1>0 DEF PoolTypes
<1>6. Range(<<>>) = {}
  BY DEF Range
<1>7. LostOnlyByOthers'
  BY <1>0, <1>1, <1>5, <1>6 DEF LostOnlyByOthers
<1> QED BY <1>2, <1>3, <1>4, <1>7 DEF PoolIInv

(* exec's last step: the notification may wake the worker. *)
LEMMA ExecNotifyStep == ASSUME PoolIInv, NEW c \in Callers, ExecNotify(c) PROVE PoolIInv'
<1>0. PoolTypes /\ Room /\ AtRest /\ Calling /\ Ending /\ EachTaskOnce /\ LostOnlyByOthers
  BY DEF PoolIInv
<1>1. UNCHANGED <<kind, pool, isExit, tasks, taken, runs, by, ran>> /\ pend' = [pend EXCEPT ![c] = NoTask]
  BY DEF ExecNotify, queues
<1>2. PICK i \in Workers : thr' = [thr EXCEPT ![i] = IF @ = "wait" THEN "locked" ELSE @]
  BY <1>0 DEF ExecNotify, PoolTypes
<1>3. \A j \in Workers : thr'[j] = thr[j] \/ (thr[j] = "wait" /\ thr'[j] = "locked")
  BY <1>0, <1>2 DEF PoolTypes
<1>4. PoolTypes'
  BY <1>0, <1>1, <1>2 DEF PoolTypes
<1>5. Room'
  <2>1. Emplacing' = Emplacing
    BY <1>0, <1>1 DEF Emplacing, PoolTypes, ExecNotify
  <2> QED BY <1>0, <1>1, <2>1 DEF Room
<1>6. EachTaskOnce'
  BY <1>0, <1>1, SameGiven DEF Given
<1>7. AtRest' /\ Calling' /\ Ending' /\ LostOnlyByOthers'
  BY <1>0, <1>1, <1>3 DEF PoolTypes, AtRest, Calling, Ending, LostOnlyByOthers
<1> QED BY <1>4, <1>5, <1>6, <1>7 DEF PoolIInv

(* A worker takes its whole queue, having nothing left of the last one. *)
LEMMA TakeTasksStep == ASSUME PoolIInv, NEW i \in Workers, TakeTasks(i) PROVE PoolIInv'
<1>0. PoolTypes /\ Room /\ AtRest /\ Calling /\ Ending /\ EachTaskOnce /\ LostOnlyByOthers
  BY DEF PoolIInv
<1>1. /\ thr[i] = "locked" /\ taken' = [taken EXCEPT ![i] = tasks[i]] /\ tasks' = [tasks EXCEPT ![i] = <<>>]
      /\ thr' = [thr EXCEPT ![i] = "run"]
      /\ UNCHANGED <<pool, isExit, runs, by, ran, pend>>
  BY DEF TakeTasks
<1>2. PoolTypes'
  <2>1. <<>> \in Seq(Task)
    OBVIOUS
  <2> QED BY <1>0, <1>1, <2>1 DEF PoolTypes
<1>3. Room' /\ AtRest' /\ Calling' /\ Ending' /\ LostOnlyByOthers'
  <2>1. \A j \in Workers : j # i => thr'[j] = thr[j] /\ taken'[j] = taken[j] /\ tasks'[j] = tasks[j]
    BY <1>0, <1>1 DEF PoolTypes
  <2>2. thr'[i] = "run"
    BY <1>0, <1>1 DEF PoolTypes
  <2> QED BY <1>0, <1>1, <2>1, <2>2 DEF Room, Emplacing, AtRest, Calling, Ending, LostOnlyByOthers
<1>4. ASSUME NEW j \in Workers PROVE Given(j)' = Given(j)
  <2>1. CASE j = i
    <3>1. taken[i] = <<>> /\ taken'[i] = tasks[i] /\ tasks'[i] = <<>>
      BY <1>0, <1>1 DEF PoolTypes, AtRest
    <3>2. ran[i] \in Seq(Task) /\ tasks[i] \in Seq(Task)
      BY <1>0 DEF PoolTypes
    <3> DEFINE a == ran[i]
               d == tasks[i]
    <3>3. a \in Seq(Task) /\ d \in Seq(Task)
      BY <3>2
    <3> HIDE DEF a, d
    <3>4. a \o d \o <<>> = a \o <<>> \o d
      BY <3>3, MoveQueue
    <3> QED BY <1>1, <2>1, <3>1, <3>4 DEF Given, a, d
  <2>2. CASE j # i
    BY <1>0, <1>1, <2>2 DEF Given, PoolTypes
  <2> QED BY <2>1, <2>2
<1>5. EachTaskOnce'
  BY <1>0, <1>1, <1>4, SameGiven
<1> QED BY <1>2, <1>3, <1>5 DEF PoolIInv

(* A worker begins the next of the tasks it has taken. *)
LEMMA RunTaskStep == ASSUME PoolIInv, NEW i \in Workers, RunTask(i) PROVE PoolIInv'
<1>0. PoolTypes /\ Room /\ AtRest /\ Calling /\ Ending /\ EachTaskOnce /\ LostOnlyByOthers
  BY DEF PoolIInv
<1>1. /\ thr[i] = "run" /\ taken[i] # <<>> /\ runs[i] = NoTask
      /\ runs' = [runs EXCEPT ![i] = Head(taken[i])]
      /\ ran' = [ran EXCEPT ![i] = Append(@, Head(taken[i]))]
      /\ taken' = [taken EXCEPT ![i] = Tail(@)]
      /\ UNCHANGED <<pool, isExit, tasks, by, thr, pend>>
  BY DEF RunTask
<1>2. ran[i] \in Seq(Task) /\ taken[i] \in Seq(Task) /\ tasks[i] \in Seq(Task)
  BY <1>0 DEF PoolTypes
<1> DEFINE a == ran[i]
           b == taken[i]
           d == tasks[i]
<1>3. a \in Seq(Task) /\ b \in Seq(Task) /\ d \in Seq(Task) /\ b # <<>>
  BY <1>1, <1>2
<1> HIDE DEF a, b, d
<1>4. /\ Head(b) \in Task /\ Tail(b) \in Seq(Task) /\ Append(a, Head(b)) \in Seq(Task)
      /\ Append(a, Head(b)) \o Tail(b) \o d = a \o b \o d
  BY <1>3, MoveHead
<1>5. /\ ran'[i] = Append(a, Head(b)) /\ taken'[i] = Tail(b) /\ tasks'[i] = d
      /\ \A j \in Workers : j # i => ran'[j] = ran[j] /\ taken'[j] = taken[j] /\ runs'[j] = runs[j]
  BY <1>0, <1>1 DEF PoolTypes, a, b, d
<1>6. PoolTypes'
  BY <1>0, <1>1, <1>4 DEF PoolTypes, a, b
<1>7. pend[i] = NoTask
  BY <1>0, <1>1 DEF Calling
<1>8. Room' /\ AtRest' /\ Calling' /\ Ending' /\ LostOnlyByOthers'
  BY <1>0, <1>1, <1>5, <1>7 DEF Room, Emplacing, AtRest, Calling, Ending, LostOnlyByOthers
<1>9. ASSUME NEW j \in Workers PROVE Given(j)' = Given(j)
  <2>1. CASE j = i
    BY <1>4, <1>5, <2>1 DEF Given, a, b, d
  <2>2. CASE j # i
    BY <1>1, <1>5, <2>2 DEF Given
  <2> QED BY <2>1, <2>2
<1>10. EachTaskOnce'
  BY <1>0, <1>1, <1>9, SameGiven
<1> QED BY <1>6, <1>8, <1>10 DEF PoolIInv

(* A task returns when no exec of its own is under way. *)
LEMMA TaskReturnsStep == ASSUME PoolIInv, NEW i \in Workers, TaskReturns(i) PROVE PoolIInv'
<1>0. PoolTypes /\ Room /\ AtRest /\ Calling /\ Ending /\ EachTaskOnce /\ LostOnlyByOthers
  BY DEF PoolIInv
<1>1. /\ pend[i] = NoTask /\ runs' = [runs EXCEPT ![i] = NoTask]
      /\ UNCHANGED <<pool, isExit, tasks, taken, by, ran, thr, pend>>
  BY DEF TaskReturns
<1>2. PoolTypes'
  BY <1>0, <1>1 DEF PoolTypes
<1>3. Room' /\ AtRest' /\ Calling' /\ Ending' /\ LostOnlyByOthers'
  BY <1>0, <1>1 DEF PoolTypes, Room, Emplacing, AtRest, Calling, Ending, LostOnlyByOthers
<1>4. EachTaskOnce'
  BY <1>0, <1>1, SameGiven DEF Given
<1> QED BY <1>2, <1>3, <1>4 DEF PoolIInv

(* The steps of a worker. *)
LEMMA LoopStep == ASSUME PoolIInv, NEW i \in Workers, Loop(i), UNCHANGED kind PROVE PoolIInv'
<1>0. AtRest
  BY DEF PoolIInv
<1>1. CASE Lock(i)
  BY <1>0, <1>1, QuietStep DEF Lock, AtRest
<1>2. CASE ExitThread(i)
  BY <1>0, <1>2, QuietStep DEF ExitThread, AtRest
<1>3. CASE Wait(i)
  BY <1>0, <1>3, QuietStep DEF Wait, AtRest
<1>4. CASE WaitTimeout(i)
  BY <1>0, <1>4, QuietStep DEF WaitTimeout, AtRest
<1> QED BY <1>1, <1>2, <1>3, <1>4, TakeTasksStep, RunTaskStep, TaskReturnsStep DEF Loop

LEMMA PoolStep == PoolIInv /\ [PoolNext]_poolVars => PoolIInv'
<1> SUFFICES ASSUME PoolIInv, [PoolNext]_poolVars PROVE PoolIInv'
  OBVIOUS
<1>0. AtRest
  BY DEF PoolIInv
<1>1. ASSUME NEW c \in Callers, exec(c) PROVE PoolIInv'
  BY <1>1, ExecTestStep, ExecEmplaceStep, ExecNotifyStep DEF exec
<1>2. ASSUME NEW i \in Workers, PosixWorker(i) \/ PortableWorker(i) PROVE PoolIInv'
  <2>1. Loop(i) /\ UNCHANGED kind
    BY <1>2 DEF PosixWorker, PortableWorker, Loop, Lock, TakeTasks, RunTask, TaskReturns, ExitThread, Wait, WaitTimeout
  <2> QED BY <2>1, LoopStep
<1>3. ASSUME NEW i \in Workers, notifyThread(i) PROVE PoolIInv'
  BY <1>0, <1>3, QuietStep DEF notifyThread, AtRest
<1>4. CASE Destroy
  BY <1>4, QuietStep DEF Destroy, CanCall
<1>5. CASE UNCHANGED poolVars
  BY <1>5, QuietStep DEF poolVars, queues
<1> QED BY <1>1, <1>2, <1>3, <1>4, <1>5 DEF PoolNext

(* Whatever the number of threads and of tasks and however exec, the workers *)
(* and the destructor interleave: a task that exec accepted is in one place, *)
(* each worker begins its tasks in the order they were emplaced, and only a  *)
(* task that another worker gave can be left behind by one that exited.      *)
THEOREM PoolCorrect == PoolSpec => []TasksPlaced
<1>1. PoolIInv => TasksPlaced
  <2> SUFFICES ASSUME PoolIInv PROVE PoolTypeOK
    BY DEF PoolIInv, TasksPlaced
  <2>1. PoolTypes
    BY DEF PoolIInv
  <2>2. \A c \in Callers : pend[c] # NoTask => pend[c].to \in Workers
    BY <2>1 DEF PoolTypes
  <2>3. Range(by) \subseteq Callers
    BY <2>1 DEF PoolTypes, Range
  <2> QED BY <2>1, <2>2, <2>3 DEF PoolTypes, PoolTypeOK, Task
<1>2. PoolSpec => []PoolIInv
  BY PoolInitInv, PoolStep, PTL DEF PoolSpec
<1> QED BY <1>1, <1>2, PTL
=============================================================================
