--------------------------- MODULE NetSystemProofs ---------------------------
(***************************************************************************)
(* Proofs about the programs that talk through sockets, for every set of   *)
(* clients, of descriptor numbers and of messages: descriptors and the     *)
(* poller's callbacks stay with the Socket that opened them.               *)
(***************************************************************************)
EXTENDS NetSystem, SequenceTheorems, WellFoundedInduction, TLAPS

Registers == {"listen", "ssl_listen", "dg_listen", "start"}
Connects == {"connect", "ssl_connect"}
Closes == {"close", "ssl_close", "dg_close"}

\* The tasks that keep a stream alive until they run.
Holds == Registers \cup Connects \cup Closes \cup {"save", "send", "ssl_send", "sendto"}

Fields == {"main", "promise", "sent", "exit", "slot", "uid", "tasks", "batch", "blocked",
           "fd", "table", "interest", "callbacks", "custom", "objects"}

\* The members of a process have their types.
Typed(P) ==
  /\ DOMAIN P = Fields
  /\ P.main \in {"off", "wait", "send", "loop", "end"}
  /\ P.promise \in {"none", "true", "false"}
  /\ P.tasks \in Seq(Range(P.tasks))
  /\ P.fd \in [Socks -> Fds \cup {-1}]
  /\ P.table \in [Fds -> Socks \cup {None}]
  /\ P.interest \subseteq Fds /\ P.batch \subseteq Fds /\ P.custom \subseteq Fds
  /\ DOMAIN P.callbacks \subseteq Fds
  /\ Range(P.callbacks) \subseteq Socks /\ Range(P.objects) \subseteq Socks

\* A task's stream is open or was closed without being forgotten, and a number
\* the task copied is still the one its stream keeps.  Only listeners start,
\* and a pool server's first poll has a listener.
SoundTask(P, t) ==
  /\ t.who # None => t.who \in Socks /\ P.fd[t.who] \in Fds
  /\ t.op \in Registers => t.who # None /\ t.fd = P.fd[t.who]
  /\ t.op \in Holds => t.who # None
  /\ t.op = "start" => t.who = Own
  /\ t.op = "first" => P.fd[Own] \in Fds

\* Descriptors, the numbers the Sockets keep and the poller's callbacks agree,
\* and so do the tasks to come and the handshake under way.
Owns(P) ==
  /\ \A f \in Fds : P.table[f] # None => P.fd[P.table[f]] = f
  /\ \A s \in Socks : P.fd[s] \in Fds => P.table[P.fd[s]] \in {s, None}
  /\ \A f \in P.interest :
        P.table[f] # None /\ f \in DOMAIN P.callbacks /\ P.callbacks[f] = P.table[f]
  /\ \A t \in Range(P.tasks) : SoundTask(P, t)
  /\ P.blocked # None => P.blocked \in Socks /\ P.fd[P.blocked] \in Fds

Sane(P) == Typed(P) /\ Owns(P)

\* The number that s keeps, if any, is open.
Keeps(P, s) == P.fd[s] \in Fds => P.table[P.fd[s]] = s

OneConnect(P) ==
  \A i, j \in DOMAIN P.tasks : P.tasks[i].op \in Connects /\ P.tasks[j].op \in Connects => i = j

\* What the calls of a process may do: nothing is opened, and only streams of
\* D are closed without being forgotten, or have that queued.
Goes(P, Q, D) ==
  /\ Sane(Q)
  /\ P.main # "off" => Q.main # "off"
  /\ \A s \in Socks : Q.fd[s] \in {P.fd[s], -1}
  /\ \A s \in Socks \ D : Keeps(P, s) => Keeps(Q, s)
  /\ \A t \in Range(Q.tasks) : t.op \in Connects => t \in Range(P.tasks)
  /\ \A t \in Range(Q.tasks) : t.op \in Closes => t \in Range(P.tasks) \/ t.who \in D
  /\ OneConnect(P) => OneConnect(Q)

-----------------------------------------------------------------------------
(* Sockets are no descriptors and no None. *)
LEMMA Names ==
  /\ None \notin Socks /\ Own \in Socks /\ Own \notin Streams /\ Streams \subseteq Socks
  /\ -1 \notin Fds /\ \A f \in Fds : f \in Nat /\ f > 0
  /\ Server \in Procs /\ Clients \subseteq Procs
<1>1. Socks \subseteq {"srv", "cli"} \X Procs
  BY DEF Socks, Streams, Own, Procs
<1>2. Own \in Socks /\ Streams \subseteq Socks
  BY DEF Socks
<1>3. Own \notin Streams
  BY NamesAssumption DEF Own, Streams
<1>4. Server \in Procs /\ Clients \subseteq Procs
  BY DEF Procs
<1> QED BY <1>1, <1>2, <1>3, <1>4, FdsAssumption, NamesAssumption

(* A queue with one more task. *)
LEMMA AppendTask ==
  ASSUME NEW s, s \in Seq(Range(s)), NEW t
  PROVE  LET u == Append(s, t)
         IN  /\ u \in Seq(Range(u)) /\ Range(u) = Range(s) \cup {t}
             /\ DOMAIN u = 1 .. Len(s) + 1 /\ DOMAIN s = 1 .. Len(s) /\ Len(s) \in Nat
             /\ \A i \in DOMAIN s : u[i] = s[i]
             /\ u[Len(s) + 1] = t
<1> DEFINE u == Append(s, t)
           S == Range(s) \cup {t}
<1>1. s \in Seq(S) /\ t \in S
  <2>1. Seq(Range(s)) \subseteq Seq(S)
    BY SeqDef
  <2> QED BY <2>1
<1>2. /\ u \in Seq(S) /\ Len(u) = Len(s) + 1 /\ u[Len(s) + 1] = t
      /\ \A i \in 1 .. Len(s) : u[i] = s[i]
  BY <1>1, AppendProperties
<1>3. DOMAIN s = 1 .. Len(s) /\ Len(s) \in Nat /\ DOMAIN u = 1 .. Len(s) + 1
  BY <1>1, <1>2
<1> HIDE DEF u
<1>4. Range(u) = S
  BY <1>2, <1>3 DEF Range
<1> QED BY <1>2, <1>3, <1>4 DEF u

(* A queue without its first task. *)
LEMMA TailTask ==
  ASSUME NEW s, s \in Seq(Range(s)), s # <<>>
  PROVE  LET u == Tail(s)
         IN  /\ u \in Seq(Range(u)) /\ Range(u) \subseteq Range(s)
             /\ Head(s) \in Range(s) /\ Head(s) = s[1] /\ 1 \in DOMAIN s
             /\ \A i \in DOMAIN u : i \in Nat /\ i + 1 \in DOMAIN s /\ u[i] = s[i + 1]
<1> DEFINE u == Tail(s)
           S == Range(s)
<1>1. /\ u \in Seq(S) /\ Len(u) = Len(s) - 1 /\ Len(s) \in Nat /\ Len(s) # 0
      /\ \A i \in 1 .. Len(u) : u[i] = s[i + 1]
  BY HeadTailProperties, EmptySeq
<1>2. DOMAIN s = 1 .. Len(s) /\ DOMAIN u = 1 .. Len(u)
  BY <1>1
<1>3. Head(s) = s[1]
  BY HeadTailProperties
<1> HIDE DEF u
<1>4. \A i \in DOMAIN u : i \in Nat /\ i + 1 \in DOMAIN s /\ u[i] = s[i + 1]
  BY <1>1, <1>2
<1>5. Range(u) \subseteq S
  BY <1>4 DEF Range
<1>6. u \in Seq(Range(u))
  <2>1. u \in [1 .. Len(u) -> Range(u)]
    BY <1>1, <1>2 DEF Range
  <2> QED BY <1>1, <2>1, SeqDef
<1>7. 1 \in DOMAIN s
  BY <1>1, <1>2
<1>8. Head(s) \in S
  BY <1>3, <1>7 DEF Range
<1> QED BY <1>3, <1>4, <1>5, <1>6, <1>7, <1>8 DEF u

(* What one call may do after another. *)
LEMMA GoesOn ==
  ASSUME NEW P, NEW Q, NEW R, NEW D, Goes(P, Q, D), Goes(Q, R, D)
  PROVE  Goes(P, R, D)
BY DEF Goes

(* What may be done with nothing closed may be done in any case. *)
LEMMA GoesMore ==
  ASSUME NEW P, NEW Q, NEW D, Goes(P, Q, {})
  PROVE  Goes(P, Q, D)
BY DEF Goes

(* A call may do nothing. *)
LEMMA GoesSame == ASSUME NEW P, NEW D, Sane(P) PROVE Goes(P, P, D)
BY DEF Goes

-----------------------------------------------------------------------------
(* The operations on a process. *)

\* Q differs from P in members that say nothing of descriptors.
Aside(P, Q) ==
  /\ DOMAIN Q = Fields
  /\ Q.tasks = P.tasks /\ Q.batch = P.batch /\ Q.fd = P.fd /\ Q.table = P.table
  /\ Q.interest = P.interest /\ Q.callbacks = P.callbacks /\ Q.custom = P.custom
  /\ Q.objects = P.objects

(* Members that say nothing of descriptors may change. *)
LEMMA AsideGoes ==
  ASSUME NEW P, Sane(P), NEW Q, NEW D, Aside(P, Q),
         Q.main \in {"off", "wait", "send", "loop", "end"}, Q.main = "off" => P.main = "off",
         Q.promise \in {"none", "true", "false"},
         Q.blocked # None => Q.blocked \in Socks /\ P.fd[Q.blocked] \in Fds
  PROVE  Goes(P, Q, D)
<1>1. Typed(Q)
  BY DEF Sane, Typed, Aside
<1>2. Owns(Q)
  BY DEF Sane, Owns, Aside, SoundTask
<1> QED BY <1>1, <1>2 DEF Sane, Goes, Aside, Keeps, OneConnect, Typed

(* A task is queued. *)
LEMMA AddSane ==
  ASSUME NEW P, Sane(P), NEW t, SoundTask(P, t)
  PROVE  LET Q == AddTask(P, t)
         IN  /\ Sane(Q) /\ Q.main = P.main /\ Q.fd = P.fd /\ Q.table = P.table
             /\ Range(Q.tasks) = Range(P.tasks) \cup {t}
             /\ OneConnect(P)
                   /\ (t.op \in Connects => \A u \in Range(P.tasks) : u.op \notin Connects)
                   => OneConnect(Q)
<1> DEFINE Q == AddTask(P, t)
<1>0. Typed(P) /\ Owns(P)
  BY DEF Sane
<1>1. /\ DOMAIN Q = Fields /\ Q.tasks = Append(P.tasks, t)
      /\ Q.main = P.main /\ Q.promise = P.promise /\ Q.batch = P.batch /\ Q.blocked = P.blocked
      /\ Q.fd = P.fd /\ Q.table = P.table /\ Q.interest = P.interest
      /\ Q.callbacks = P.callbacks /\ Q.custom = P.custom /\ Q.objects = P.objects
  BY <1>0 DEF AddTask, Fields, Typed
<1> HIDE DEF Q
<1>2. /\ Q.tasks \in Seq(Range(Q.tasks)) /\ Range(Q.tasks) = Range(P.tasks) \cup {t}
      /\ DOMAIN Q.tasks = 1 .. Len(P.tasks) + 1 /\ DOMAIN P.tasks = 1 .. Len(P.tasks)
      /\ Len(P.tasks) \in Nat
      /\ \A i \in DOMAIN P.tasks : Q.tasks[i] = P.tasks[i]
      /\ Q.tasks[Len(P.tasks) + 1] = t
  BY <1>0, <1>1, AppendTask DEF Typed
<1>3. Typed(Q)
  BY <1>0, <1>1, <1>2 DEF Typed
<1>4. Owns(Q)
  BY <1>0, <1>1, <1>2 DEF Owns, SoundTask
<1>5. ASSUME OneConnect(P), t.op \in Connects => \A u \in Range(P.tasks) : u.op \notin Connects
      PROVE  OneConnect(Q)
  <2> SUFFICES ASSUME NEW i \in DOMAIN Q.tasks, NEW j \in DOMAIN Q.tasks,
                      Q.tasks[i].op \in Connects, Q.tasks[j].op \in Connects
               PROVE  i = j
    BY DEF OneConnect
  <2>1. CASE t.op \notin Connects
    <3>1. i \in DOMAIN P.tasks /\ j \in DOMAIN P.tasks
      BY <1>2, <2>1
    <3> QED BY <1>2, <1>5, <3>1 DEF OneConnect
  <2>2. CASE t.op \in Connects
    <3>1. \A k \in DOMAIN P.tasks : P.tasks[k].op \notin Connects
      BY <1>5, <2>2 DEF Range
    <3> QED BY <1>2, <3>1
  <2> QED BY <2>1, <2>2
<1> QED BY <1>1, <1>2, <1>3, <1>4, <1>5 DEF Sane, Q

(* AddTask is a call that may be made, of a sound task. *)
LEMMA AddGoes ==
  ASSUME NEW P, Sane(P), NEW D, NEW t, SoundTask(P, t), t.op \notin Connects,
         t.op \in Closes => t.who \in D
  PROVE  Goes(P, AddTask(P, t), D)
<1> DEFINE Q == AddTask(P, t)
<1>1. /\ Sane(Q) /\ Q.main = P.main /\ Q.fd = P.fd /\ Q.table = P.table
      /\ Range(Q.tasks) = Range(P.tasks) \cup {t}
      /\ OneConnect(P) => OneConnect(Q)
  BY AddSane
<1> HIDE DEF Q
<1> QED BY <1>1 DEF Goes, Keeps, Q

(* The IO thread takes a task. *)
LEMMA PopGoes ==
  ASSUME NEW P, Sane(P), NEW D, P.tasks # <<>>
  PROVE  LET Q == [P EXCEPT !.tasks = Tail(@)]
             t == Head(P.tasks)
         IN  /\ Goes(P, Q, D)
             /\ Q.fd = P.fd /\ Q.table = P.table /\ Q.main = P.main /\ Q.promise = P.promise
             /\ Q.blocked = P.blocked /\ Q.batch = P.batch
             /\ t \in Range(P.tasks) /\ SoundTask(P, t) /\ SoundTask(Q, t)
             /\ OneConnect(P) /\ t.op \in Connects => \A u \in Range(Q.tasks) : u.op \notin Connects
<1> DEFINE Q == [P EXCEPT !.tasks = Tail(@)]
           t == Head(P.tasks)
<1>0. Typed(P) /\ Owns(P)
  BY DEF Sane
<1>1. /\ DOMAIN Q = Fields /\ Q.tasks = Tail(P.tasks)
      /\ Q.main = P.main /\ Q.promise = P.promise /\ Q.batch = P.batch /\ Q.blocked = P.blocked
      /\ Q.fd = P.fd /\ Q.table = P.table /\ Q.interest = P.interest
      /\ Q.callbacks = P.callbacks /\ Q.custom = P.custom /\ Q.objects = P.objects
  BY <1>0 DEF Fields, Typed
<1> HIDE DEF Q
<1>2. /\ Q.tasks \in Seq(Range(Q.tasks)) /\ Range(Q.tasks) \subseteq Range(P.tasks)
      /\ t \in Range(P.tasks) /\ t = P.tasks[1] /\ 1 \in DOMAIN P.tasks
      /\ \A i \in DOMAIN Q.tasks : i \in Nat /\ i + 1 \in DOMAIN P.tasks
                                      /\ Q.tasks[i] = P.tasks[i + 1]
  <2>1. P.tasks \in Seq(Range(P.tasks)) /\ P.tasks # <<>>
    BY <1>0 DEF Typed
  <2>2. Q.tasks = Tail(P.tasks)
    BY <1>1
  <2> QED BY <2>1, <2>2, TailTask
<1>3. Typed(Q)
  BY <1>0, <1>1, <1>2 DEF Typed
<1>4. Owns(Q)
  BY <1>0, <1>1, <1>2 DEF Owns, SoundTask
<1>5. OneConnect(P) => OneConnect(Q)
  <2> SUFFICES ASSUME OneConnect(P), NEW i \in DOMAIN Q.tasks, NEW j \in DOMAIN Q.tasks,
                      Q.tasks[i].op \in Connects, Q.tasks[j].op \in Connects
               PROVE  i = j
    BY DEF OneConnect
  <2>1. i + 1 = j + 1
    BY <1>2 DEF OneConnect
  <2> QED BY <1>2, <2>1
<1>6. SoundTask(P, t) /\ SoundTask(Q, t)
  BY <1>0, <1>1, <1>2 DEF Owns, SoundTask
<1>7. ASSUME OneConnect(P), t.op \in Connects, NEW u \in Range(Q.tasks), u.op \in Connects
      PROVE  FALSE
  <2>1. PICK i \in DOMAIN Q.tasks : u = Q.tasks[i]
    BY DEF Range
  <2>2. i \in Nat /\ i + 1 \in DOMAIN P.tasks /\ P.tasks[i + 1].op \in Connects
    BY <1>2, <1>7, <2>1
  <2>3. i + 1 = 1 /\ i \in DOMAIN Q.tasks
    BY <1>2, <1>7, <2>2 DEF OneConnect
  <2>4. i # 0
    <3>1. DOMAIN Q.tasks = 1 .. Len(Q.tasks) /\ Len(Q.tasks) \in Nat
      BY <1>2
    <3> QED BY <2>3, <3>1
  <2> QED BY <2>2, <2>3, <2>4
<1>8. Goes(P, Q, D)
  BY <1>1, <1>2, <1>3, <1>4, <1>5 DEF Sane, Goes, Keeps
<1> QED BY <1>1, <1>2, <1>6, <1>7, <1>8 DEF Q

(* append and setReadyCallback for the number a stream keeps. *)
LEMMA RegisterGoes ==
  ASSUME NEW P, Sane(P), NEW D, NEW s \in Socks, P.fd[s] \in Fds
  PROVE  LET Q == Register(P, P.fd[s], s)
         IN  Goes(P, Q, D) /\ Q.fd = P.fd /\ Q.main = P.main /\ Q.objects = P.objects
<1> DEFINE f == P.fd[s]
           Q == Register(P, f, s)
<1>0. Typed(P) /\ Owns(P)
  BY DEF Sane
<1>1. /\ DOMAIN Q = Fields /\ Q.tasks = P.tasks
      /\ Q.main = P.main /\ Q.promise = P.promise /\ Q.batch = P.batch /\ Q.blocked = P.blocked
      /\ Q.fd = P.fd /\ Q.table = P.table /\ Q.custom = P.custom /\ Q.objects = P.objects
      /\ Q.interest = IF f \in Fds /\ P.table[f] # None THEN P.interest \cup {f} ELSE P.interest
      /\ Q.callbacks = Put(P.callbacks, f, s)
  BY <1>0 DEF Register, Fields, Typed
<1> HIDE DEF Q
<1>2. /\ DOMAIN Q.callbacks = DOMAIN P.callbacks \cup {f}
      /\ Q.callbacks[f] = s
      /\ \A g \in DOMAIN P.callbacks \ {f} : Q.callbacks[g] = P.callbacks[g]
  BY <1>1 DEF Put
<1>3. Range(Q.callbacks) \subseteq Socks
  BY <1>0, <1>2 DEF Typed, Range
<1>4. Typed(Q)
  BY <1>0, <1>1, <1>2, <1>3 DEF Typed
<1>5. P.table[f] \in {s, None}
  BY <1>0 DEF Owns
<1>6. \A g \in Q.interest :
         P.table[g] # None /\ g \in DOMAIN Q.callbacks /\ Q.callbacks[g] = P.table[g]
  BY <1>0, <1>1, <1>2, <1>5 DEF Owns
<1>7. Owns(Q)
  BY <1>0, <1>1, <1>6 DEF Owns, SoundTask
<1> QED BY <1>1, <1>4, <1>7 DEF Sane, Goes, Keeps, OneConnect, Q

\* Q differs from P in the poller and the object map: callbacks are only erased,
\* and no descriptor of epoll loses its callback.
Polls(P, Q) ==
  /\ DOMAIN Q = Fields
  /\ Q.main = P.main /\ Q.promise = P.promise /\ Q.tasks = P.tasks /\ Q.blocked = P.blocked
  /\ Q.fd = P.fd /\ Q.table = P.table
  /\ Q.batch \subseteq Fds /\ Q.custom \subseteq Fds
  /\ Q.interest \subseteq P.interest \cap (DOMAIN Q.callbacks \cup (Fds \ DOMAIN P.callbacks))
  /\ DOMAIN Q.callbacks \subseteq DOMAIN P.callbacks
  /\ \A g \in DOMAIN Q.callbacks : Q.callbacks[g] = P.callbacks[g]
  /\ Range(Q.objects) \subseteq Socks

(* The poller and the object map may change so. *)
LEMMA PollsGoes ==
  ASSUME NEW P, Sane(P), NEW Q, NEW D, Polls(P, Q)
  PROVE  Goes(P, Q, D)
<1>0. Typed(P) /\ Owns(P)
  BY DEF Sane
<1>1. Range(Q.callbacks) \subseteq Socks
  BY <1>0 DEF Typed, Polls, Range
<1>2. Typed(Q)
  BY <1>0, <1>1 DEF Typed, Polls
<1>3. \A g \in Q.interest :
         Q.table[g] # None /\ g \in DOMAIN Q.callbacks /\ Q.callbacks[g] = Q.table[g]
  BY <1>0 DEF Owns, Polls
<1>4. Owns(Q)
  BY <1>0, <1>3 DEF Owns, SoundTask, Polls
<1> QED BY <1>2, <1>4 DEF Sane, Goes, Keeps, OneConnect, Polls

(* cancle: the callback and the descriptor leave the poller. *)
LEMMA CancleGoes ==
  ASSUME NEW P, Sane(P), NEW D, NEW f
  PROVE  Goes(P, cancle(P, f), D) /\ cancle(P, f).fd = P.fd
<1> DEFINE Q == cancle(P, f)
<1>0. Typed(P)
  BY DEF Sane
<1>1. /\ DOMAIN Q = Fields /\ Q.tasks = P.tasks
      /\ Q.main = P.main /\ Q.promise = P.promise /\ Q.batch = P.batch /\ Q.blocked = P.blocked
      /\ Q.fd = P.fd /\ Q.table = P.table /\ Q.custom = P.custom /\ Q.objects = P.objects
      /\ Q.interest = P.interest \ {f}
      /\ Q.callbacks = Restrict(P.callbacks, DOMAIN P.callbacks \ {f})
  BY <1>0 DEF cancle, Fields, Typed
<1> HIDE DEF Q
<1>2. /\ DOMAIN Q.callbacks = DOMAIN P.callbacks \ {f}
      /\ \A g \in DOMAIN Q.callbacks : Q.callbacks[g] = P.callbacks[g]
  BY <1>1 DEF Restrict
<1>3. Polls(P, Q)
  BY <1>0, <1>1, <1>2 DEF Typed, Polls
<1> QED BY <1>1, <1>3, PollsGoes DEF Q

(* notifyEvents. *)
LEMMA NotifyGoes ==
  ASSUME NEW P, Sane(P), NEW D, NEW f
  PROVE  Goes(P, notifyEvents(P, f), D)
<1> DEFINE Q == notifyEvents(P, f)
<1>0. Typed(P)
  BY DEF Sane
<1>1. /\ DOMAIN Q = Fields /\ Q.tasks = P.tasks
      /\ Q.main = P.main /\ Q.promise = P.promise /\ Q.batch = P.batch /\ Q.blocked = P.blocked
      /\ Q.fd = P.fd /\ Q.table = P.table /\ Q.interest = P.interest
      /\ Q.callbacks = P.callbacks /\ Q.objects = P.objects
      /\ Q.custom = IF f \in DOMAIN P.callbacks THEN P.custom \cup {f} ELSE P.custom
  BY <1>0 DEF notifyEvents, Fields, Typed
<1> HIDE DEF Q
<1>2. Polls(P, Q)
  BY <1>0, <1>1 DEF Typed, Polls
<1> QED BY <1>2, PollsGoes DEF Q

(* The object map changes. *)
LEMMA ObjectsGoes ==
  ASSUME NEW P, Sane(P), NEW D, NEW map, Range(map) \subseteq Socks
  PROVE  Goes(P, [P EXCEPT !.objects = map], D)
<1> DEFINE Q == [P EXCEPT !.objects = map]
<1>0. Typed(P)
  BY DEF Sane
<1>1. /\ DOMAIN Q = Fields /\ Q.tasks = P.tasks
      /\ Q.main = P.main /\ Q.promise = P.promise /\ Q.batch = P.batch /\ Q.blocked = P.blocked
      /\ Q.fd = P.fd /\ Q.table = P.table /\ Q.interest = P.interest
      /\ Q.callbacks = P.callbacks /\ Q.custom = P.custom /\ Q.objects = map
  BY <1>0 DEF Fields, Typed
<1> HIDE DEF Q
<1>2. Polls(P, Q)
  BY <1>0, <1>1 DEF Typed, Polls
<1> QED BY <1>2, PollsGoes DEF Q

(* The maps hold streams only. *)
LEMMA MapRange ==
  ASSUME NEW map, Range(map) \subseteq Socks
  PROVE  /\ \A k : \A v \in Socks : Range(Put(map, k, v)) \subseteq Socks
         /\ \A K : Range(Restrict(map, DOMAIN map \ K)) \subseteq Socks
<1>1. ASSUME NEW k, NEW v \in Socks PROVE Range(Put(map, k, v)) \subseteq Socks
  BY DEF Range, Put
<1>2. ASSUME NEW K PROVE Range(Restrict(map, DOMAIN map \ K)) \subseteq Socks
  BY DEF Range, Restrict
<1> QED BY <1>1, <1>2

(* A task that names no stream is sound. *)
LEMMA SoundNone ==
  ASSUME NEW P, NEW op, NEW fd, NEW data, op \notin Holds,
         op = "first" => P.fd[Own] \in Fds
  PROVE  /\ SoundTask(P, Task(op, None, fd, data))
         /\ Task(op, None, fd, data).op \notin Connects
         /\ Task(op, None, fd, data).op \notin Closes
BY DEF SoundTask, Task, Holds, Registers

(* Such a task may be queued. *)
LEMMA AddNone ==
  ASSUME NEW P, Sane(P), NEW D, NEW op, NEW fd, NEW data,
         op \notin Holds, op = "first" => P.fd[Own] \in Fds
  PROVE  Goes(P, AddTask(P, Task(op, None, fd, data)), D)
<1>1. SoundTask(P, Task(op, None, fd, data)) /\ Task(op, None, fd, data).op \notin Connects
      /\ Task(op, None, fd, data).op \notin Closes
  BY SoundNone
<1> QED BY <1>1, AddGoes

(* A task that names a stream whose number is kept. *)
LEMMA AddWho ==
  ASSUME NEW P, Sane(P), NEW D, NEW op, NEW s \in Socks, NEW fd, NEW data, P.fd[s] \in Fds,
         op \in Registers => fd = P.fd[s], op = "start" => s = Own, op # "first",
         op \notin Connects, op \in Closes => s \in D
  PROVE  Goes(P, AddTask(P, Task(op, s, fd, data)), D)
<1>1. /\ SoundTask(P, Task(op, s, fd, data)) /\ Task(op, s, fd, data).op = op
      /\ Task(op, s, fd, data).who = s
  BY Names DEF SoundTask, Task
<1> QED BY <1>1, AddGoes

(* What AddTask leaves alone. *)
LEMMA AddFd ==
  ASSUME NEW P, Sane(P), NEW t
  PROVE  /\ AddTask(P, t).fd = P.fd /\ AddTask(P, t).main = P.main
         /\ AddTask(P, t).objects = P.objects /\ AddTask(P, t).promise = P.promise
         /\ AddTask(P, t).blocked = P.blocked /\ DOMAIN AddTask(P, t) = Fields
         /\ AddTask(P, t).table = P.table /\ AddTask(P, t).batch = P.batch
         /\ AddTask(P, t).tasks = Append(P.tasks, t)
BY DEF Sane, Typed, AddTask, Fields

(* The loop of work() goes on. *)
LEMMA EndCallbackGoes ==
  ASSUME NEW P, Sane(P), NEW D, NEW f
  PROVE  Goes(P, EndCallback(P, f), D)
<1> DEFINE R == [P EXCEPT !.batch = @ \ {f}]
           Q == EndCallback(P, f)
<1>0. Typed(P)
  BY DEF Sane
<1>1. /\ DOMAIN R = Fields /\ R.tasks = P.tasks /\ R.batch = P.batch \ {f}
      /\ R.main = P.main /\ R.promise = P.promise /\ R.blocked = P.blocked
      /\ R.fd = P.fd /\ R.table = P.table /\ R.interest = P.interest
      /\ R.callbacks = P.callbacks /\ R.custom = P.custom /\ R.objects = P.objects
  BY <1>0 DEF Fields, Typed
<1>2. Q = IF P.batch = {f} THEN AddTask(R, Work) ELSE R
  BY <1>0 DEF EndCallback, AddTask, Fields, Typed
<1> HIDE DEF Q, R
<1>3. Polls(P, R)
  BY <1>0, <1>1 DEF Typed, Polls
<1>4. Goes(P, R, D)
  BY <1>3, PollsGoes
<1>5. Goes(R, AddTask(R, Work), D)
  <2>1. Sane(R)
    BY <1>4 DEF Goes
  <2>2. "work" \notin Holds
    BY DEF Registers, Connects, Closes, Holds
  <2> QED BY <2>1, <2>2, AddNone DEF Work
<1> QED BY <1>2, <1>4, <1>5, GoesOn DEF Q

(* ::close of some descriptors, of which epoll and the kernel know no more. *)
LEMMA CloseFdsFacts ==
  ASSUME NEW P, Sane(P), NEW F
  PROVE  LET Q == CloseFds(P, F)
         IN  /\ Sane(Q)
             /\ Q.main = P.main /\ Q.fd = P.fd /\ Q.tasks = P.tasks /\ Q.blocked = P.blocked
             /\ Q.table = [f \in Fds |-> IF f \in F THEN None ELSE P.table[f]]
             /\ Q.interest = P.interest \ F
<1> DEFINE Q == CloseFds(P, F)
<1>0. Typed(P) /\ Owns(P)
  BY DEF Sane
<1>1. /\ DOMAIN Q = Fields /\ Q.tasks = P.tasks
      /\ Q.main = P.main /\ Q.promise = P.promise /\ Q.batch = P.batch /\ Q.blocked = P.blocked
      /\ Q.fd = P.fd /\ Q.custom = P.custom /\ Q.objects = P.objects
      /\ Q.callbacks = P.callbacks
      /\ Q.table = [f \in Fds |-> IF f \in F THEN None ELSE P.table[f]]
      /\ Q.interest = P.interest \ F
  BY <1>0 DEF CloseFds, Fields, Typed
<1> HIDE DEF Q
<1>2. Typed(Q)
  BY <1>0, <1>1 DEF Typed
<1>3. Owns(Q)
  BY <1>0, <1>1 DEF Typed, Owns, SoundTask
<1> QED BY <1>1, <1>2, <1>3 DEF Sane, Q

(* closeAndNoClear closes the stream's own descriptor at most. *)
LEMMA CloseGoes ==
  ASSUME NEW P, Sane(P), NEW D, NEW s \in D, s \in Socks
  PROVE  Goes(P, closeAndNoClear(P, s), D) /\ closeAndNoClear(P, s).fd = P.fd
<1> DEFINE Q == closeAndNoClear(P, s)
<1>0. Typed(P) /\ Owns(P)
  BY DEF Sane
<1>1. /\ Sane(Q)
      /\ Q.main = P.main /\ Q.fd = P.fd /\ Q.tasks = P.tasks
      /\ Q.table = [f \in Fds |-> IF f \in {P.fd[s]} THEN None ELSE P.table[f]]
  BY CloseFdsFacts DEF closeAndNoClear
<1> HIDE DEF Q
<1>2. ASSUME NEW t \in Socks \ D, Keeps(P, t) PROVE Keeps(Q, t)
  <2>1. P.fd[t] \in Fds => P.fd[t] # P.fd[s]
    <3> SUFFICES ASSUME P.fd[t] \in Fds, P.fd[t] = P.fd[s] PROVE FALSE
      OBVIOUS
    <3>1. P.table[P.fd[s]] = t /\ P.table[P.fd[s]] \in {s, None}
      BY <1>0, <1>2 DEF Owns, Keeps
    <3> QED BY <3>1, Names
  <2> QED BY <1>0, <1>1, <1>2, <2>1 DEF Keeps, Typed
<1>3. OneConnect(P) => OneConnect(Q)
  BY <1>1 DEF OneConnect
<1>4. Goes(P, Q, D)
  BY <1>0, <1>1, <1>2, <1>3 DEF Goes, Typed
<1> QED BY <1>1, <1>4 DEF Q

(* ~Socket of the streams without a reference: what they close was theirs, and *)
(* nothing that is left refers to them.                                      *)
LEMMA DestroyGoes ==
  ASSUME NEW P, Sane(P), NEW D
  PROVE  Goes(P, Destroy(P, Unreferenced(P)), D)
<1> DEFINE dead == Unreferenced(P)
           F == {P.fd[s] : s \in dead}
           R == CloseFds(P, F)
           Q == Destroy(P, dead)
<1>0. Typed(P) /\ Owns(P)
  BY DEF Sane
<1>1. /\ Sane(R)
      /\ R.main = P.main /\ R.fd = P.fd /\ R.tasks = P.tasks /\ R.blocked = P.blocked
      /\ R.table = [f \in Fds |-> IF f \in F THEN None ELSE P.table[f]]
      /\ R.interest = P.interest \ F
  BY CloseFdsFacts
<1>2. dead \subseteq Socks /\ \A s \in dead : ~Referenced(P, s) /\ P.fd[s] \in Fds
  <2>1. \A s \in Socks : P.fd[s] \in Fds \cup {-1}
    BY <1>0 DEF Typed
  <2> QED BY <2>1, FdsAssumption DEF Unreferenced, valid
<1>3. Q = [R EXCEPT !.fd = [s \in Socks |-> IF s \in dead THEN -1 ELSE R.fd[s]]]
  BY DEF Destroy
<1> HIDE DEF Q, R, dead
<1>4. /\ DOMAIN Q = Fields /\ Q.tasks = R.tasks
      /\ Q.main = R.main /\ Q.promise = R.promise /\ Q.batch = R.batch /\ Q.blocked = R.blocked
      /\ Q.table = R.table /\ Q.custom = R.custom /\ Q.objects = R.objects
      /\ Q.callbacks = R.callbacks /\ Q.interest = R.interest
      /\ Q.fd = [s \in Socks |-> IF s \in dead THEN -1 ELSE P.fd[s]]
  BY <1>1, <1>3 DEF Sane, Typed, Fields
<1>5. Typed(R) /\ Owns(R)
  BY <1>1 DEF Sane
<1>6. Typed(Q)
  <2>1. Q.fd \in [Socks -> Fds \cup {-1}]
    BY <1>0, <1>4 DEF Typed
  <2> QED BY <1>4, <1>5, <2>1 DEF Typed
<1>7. \A t \in Range(P.tasks) : t.who \notin dead
  <2> SUFFICES ASSUME NEW i \in DOMAIN P.tasks PROVE P.tasks[i].who \notin dead
    BY DEF Range
  <2>1. Referenced(P, P.tasks[i].who)
    BY DEF Referenced
  <2> QED BY <1>2, <2>1
<1>8. P.blocked \notin dead /\ Own \notin dead
  <2>1. Own \notin {"srv"} \X Clients
    BY NamesAssumption DEF Own
  <2> QED BY <1>2, <2>1 DEF Referenced
<1>9. \A s \in Socks \ dead : Q.fd[s] = P.fd[s]
  BY <1>4
<1>10. Owns(Q)
  <2>1. ASSUME NEW f \in Fds, Q.table[f] # None PROVE Q.fd[Q.table[f]] = f
    <3>1. f \notin F /\ Q.table[f] = P.table[f] /\ P.table[f] \in Socks
      BY <1>0, <1>1, <1>4, <2>1 DEF Typed
    <3>2. P.fd[P.table[f]] = f
      BY <1>0, <2>1, <3>1 DEF Owns
    <3>3. P.table[f] \notin dead
      BY <3>1, <3>2
    <3> QED BY <1>9, <3>1, <3>2, <3>3
  <2>2. ASSUME NEW s \in Socks, Q.fd[s] \in Fds PROVE Q.table[Q.fd[s]] \in {s, None}
    <3>1. s \notin dead
      BY <1>4, <2>2, Names
    <3>2. Q.fd[s] = P.fd[s]
      BY <1>9, <3>1
    <3>3. P.table[P.fd[s]] \in {s, None}
      BY <1>0, <2>2, <3>2 DEF Owns
    <3> QED BY <1>1, <1>4, <2>2, <3>2, <3>3
  <2>3. \A f \in Q.interest :
           Q.table[f] # None /\ f \in DOMAIN Q.callbacks /\ Q.callbacks[f] = Q.table[f]
    BY <1>4, <1>5 DEF Owns
  <2>4. ASSUME NEW t \in Range(Q.tasks) PROVE SoundTask(Q, t)
    <3>1. SoundTask(P, t) /\ t.who \notin dead
      BY <1>0, <1>1, <1>4, <1>7, <2>4 DEF Owns
    <3>2. t.who \in Socks => Q.fd[t.who] = P.fd[t.who]
      BY <1>9, <3>1
    <3>3. Q.fd[Own] = P.fd[Own]
      BY <1>8, <1>9, Names
    <3> QED BY <3>1, <3>2, <3>3 DEF SoundTask
  <2>5. Q.blocked # None => Q.blocked \in Socks /\ Q.fd[Q.blocked] \in Fds
    BY <1>0, <1>1, <1>4, <1>8, <1>9 DEF Owns
  <2> QED BY <2>1, <2>2, <2>3, <2>4, <2>5 DEF Owns
<1>11. ASSUME NEW s \in Socks, Keeps(P, s) PROVE Keeps(Q, s)
  <2> SUFFICES ASSUME Q.fd[s] \in Fds PROVE Q.table[Q.fd[s]] = s
    BY DEF Keeps
  <2>1. s \notin dead /\ Q.fd[s] = P.fd[s]
    BY <1>4, Names
  <2>2. P.table[P.fd[s]] = s
    BY <1>11, <2>1 DEF Keeps
  <2>3. P.fd[s] \notin F
    <3> SUFFICES ASSUME NEW t \in dead, P.fd[s] = P.fd[t] PROVE FALSE
      OBVIOUS
    <3>1. P.table[P.fd[t]] \in {t, None}
      BY <1>0, <1>2 DEF Owns
    <3> QED BY <2>1, <2>2, <3>1, Names
  <2> QED BY <1>1, <1>4, <2>1, <2>2, <2>3
<1>12. OneConnect(P) => OneConnect(Q)
  BY <1>1, <1>4 DEF OneConnect
<1>13. \A s \in Socks : Q.fd[s] \in {P.fd[s], -1}
  BY <1>4
<1> QED BY <1>1, <1>4, <1>6, <1>10, <1>11, <1>12, <1>13 DEF Sane, Goes, Q, dead

(* The kernel has a lowest free number. *)
LEMMA FreeFd ==
  ASSUME NEW P, FreeFds(P) # {}
  PROVE  Min(FreeFds(P)) \in FreeFds(P)
<1>1. FreeFds(P) \subseteq Nat
  BY FdsAssumption DEF FreeFds
<1>2. PICK x \in FreeFds(P) : \A y \in FreeFds(P) : ~(<<y, x>> \in OpToRel(<, Nat))
  BY <1>1, NatLessThanWellFounded, WFMin, Zenon
<1>3. \A y \in FreeFds(P) : x <= y
  <2> SUFFICES ASSUME NEW y \in FreeFds(P), ~(x <= y) PROVE FALSE
    OBVIOUS
  <2>1. x \in Nat /\ y \in Nat
    BY <1>1
  <2>2. y < x
    BY <2>1
  <2>3. <<y, x>> \in OpToRel(<, Nat)
    BY <2>1, <2>2, Zenon DEF OpToRel
  <2> QED BY <1>2, <2>3, Zenon
<1> QED BY <1>3 DEF Min

(* A Socket is made, or a connection accepted, while every number that is   *)
(* kept is open.                                                             *)
LEMMA OpenSane ==
  ASSUME NEW P, Sane(P), NEW s \in Socks, P.fd[s] = -1, FreeFds(P) # {},
         \A t \in Socks : Keeps(P, t)
  PROVE  LET Q == Open(P, s)
         IN  /\ Sane(Q) /\ Q.fd[s] \in Fds /\ \A t \in Socks \ {s} : Q.fd[t] = P.fd[t]
             /\ \A t \in Socks : Keeps(Q, t)
             /\ Q.tasks = P.tasks /\ Q.main = P.main /\ Q.objects = P.objects /\ DOMAIN Q = Fields
             /\ Q.promise = P.promise /\ Q.blocked = P.blocked
<1> DEFINE f == Min(FreeFds(P))
           Q == Open(P, s)
<1>0. Typed(P) /\ Owns(P)
  BY DEF Sane
<1>1. f \in Fds /\ P.table[f] = None
  BY FreeFd DEF FreeFds
<1>2. /\ DOMAIN Q = Fields /\ Q.tasks = P.tasks
      /\ Q.main = P.main /\ Q.promise = P.promise /\ Q.batch = P.batch /\ Q.blocked = P.blocked
      /\ Q.custom = P.custom /\ Q.objects = P.objects
      /\ Q.callbacks = P.callbacks /\ Q.interest = P.interest
      /\ Q.fd = [P.fd EXCEPT ![s] = f] /\ Q.table = [P.table EXCEPT ![f] = s]
  BY <1>0 DEF Open, Fields, Typed
<1> HIDE DEF Q, f
<1>3. /\ Q.fd[s] = f /\ \A t \in Socks \ {s} : Q.fd[t] = P.fd[t]
      /\ Q.table[f] = s /\ \A g \in Fds \ {f} : Q.table[g] = P.table[g]
      /\ Q.fd \in [Socks -> Fds \cup {-1}] /\ Q.table \in [Fds -> Socks \cup {None}]
  BY <1>0, <1>1, <1>2 DEF Typed
<1>4. \A t \in Socks : P.fd[t] # f
  BY <1>1, Names DEF Keeps
<1>5. Typed(Q)
  BY <1>0, <1>2, <1>3 DEF Typed
<1>6. \A t \in Socks : Keeps(Q, t)
  <2> SUFFICES ASSUME NEW t \in Socks \ {s}, P.fd[t] \in Fds PROVE Q.table[P.fd[t]] = t
    BY <1>3 DEF Keeps
  <2>1. P.table[P.fd[t]] = t
    BY DEF Keeps
  <2> QED BY <1>3, <1>4, <2>1
<1>7. Owns(Q)
  <2>1. ASSUME NEW g \in Fds, Q.table[g] # None PROVE Q.fd[Q.table[g]] = g
    <3>1. CASE g = f
      BY <1>3, <3>1
    <3>2. CASE g # f
      <4>1. Q.table[g] = P.table[g] /\ P.table[g] \in Socks /\ P.fd[P.table[g]] = g
        BY <1>0, <1>3, <2>1, <3>2 DEF Owns, Typed
      <4>2. P.table[g] # s
        BY <4>1, Names
      <4> QED BY <1>3, <4>1, <4>2
    <3> QED BY <3>1, <3>2
  <2>2. \A t \in Socks : Q.fd[t] \in Fds => Q.table[Q.fd[t]] \in {t, None}
    BY <1>6 DEF Keeps
  <2>3. ASSUME NEW g \in Q.interest
        PROVE  Q.table[g] # None /\ g \in DOMAIN Q.callbacks /\ Q.callbacks[g] = Q.table[g]
    <3>1. /\ g \in Fds /\ P.table[g] # None
          /\ g \in DOMAIN P.callbacks /\ P.callbacks[g] = P.table[g]
      BY <1>0, <1>2 DEF Owns, Typed
    <3> QED BY <1>1, <1>2, <1>3, <3>1
  <2>4. \A t \in Socks : P.fd[t] \in Fds => Q.fd[t] = P.fd[t]
    BY <1>3, Names
  <2>5. \A t \in Range(Q.tasks) : SoundTask(Q, t)
    BY <1>0, <1>2, <2>4 DEF Owns, SoundTask
  <2>6. Q.blocked # None => Q.blocked \in Socks /\ Q.fd[Q.blocked] \in Fds
    BY <1>0, <1>2, <2>4 DEF Owns
  <2> QED BY <2>1, <2>2, <2>3, <2>5, <2>6 DEF Owns
<1> QED BY <1>1, <1>2, <1>3, <1>5, <1>6, <1>7 DEF Sane, Q

-----------------------------------------------------------------------------
(* The invariant of the whole. *)

\* The streams a process may close without forgetting their numbers: a server
\* that goes on accepting closes by ~Socket only.
MayClose(p) ==
  IF p # Server \/ Datagrams THEN Socks ELSE IF app = "close" THEN Socks \ {Own} ELSE {}

\* A process that has not started.
Fresh(P) ==
  P.fd = [s \in Socks |-> -1] /\ P.table = [f \in Fds |-> None] /\ P.tasks = <<>>

\* Process p has P for its state: its Sockets are its own, and it closes what
\* it may close.
Proper(p, P) ==
  /\ Sane(P)
  /\ \A s \in Socks : P.fd[s] \in Fds => Proc(s) = p
  /\ P.main = "off" => Fresh(P)
  /\ \A s \in Socks \ MayClose(p) : Keeps(P, s)
  /\ \A t \in Range(P.tasks) : t.op \in Closes => t.who \in MayClose(p)
  /\ OneConnect(P)

\* A process connects once.
Joining(p, P) ==
  /\ P.main = "off" => p \notin connected
  /\ \A t \in Range(P.tasks) :
        t.op \in Connects => p \in Active /\ p \in Clients /\ p \notin connected

\* The stream of a connection is made when the connection leaves the backlog.
Queued ==
  /\ connected \subseteq Active /\ connected \subseteq Clients
  /\ backlog \in Seq(connected)
  /\ \A i, j \in DOMAIN backlog : backlog[i] = backlog[j] => i = j
  /\ \A c \in Clients :
        c \notin connected \/ c \in Range(backlog) => proc[Server].fd[<<"srv", c>>] = -1

NetIInv ==
  /\ app \in Apps
  /\ proc = [p \in Procs |-> proc[p]]
  /\ \A p \in Procs : Proper(p, proc[p]) /\ Joining(p, proc[p])
  /\ Queued

(* A step of one process, which may be its connect. *)
LEMMA OneStep ==
  ASSUME NetIInv, NEW p \in Procs, NEW Q, proc' = [proc EXCEPT ![p] = Q],
         app' = app, connected' \in {connected, connected \cup {p}},
         Proper(p, Q), Joining(p, Q)', Queued'
  PROVE  NetIInv'
<1>0. MayClose(p)' = MayClose(p) /\ Active' = Active
  BY DEF MayClose, Datagrams, Active
<1>1. proc' = [q \in Procs |-> proc'[q]] /\ proc'[p] = Q
      /\ \A q \in Procs \ {p} : proc'[q] = proc[q]
  BY DEF NetIInv
<1>2. ASSUME NEW q \in Procs PROVE (Proper(q, proc[q]) /\ Joining(q, proc[q]))'
  <2>1. CASE q = p
    <3>1. Proper(p, Q)'
      BY <1>0 DEF Proper
    <3> QED BY <1>1, <2>1, <3>1
  <2>2. CASE q # p
    <3>1. proc'[q] = proc[q]
      BY <1>1, <2>2
    <3>2. Proper(q, proc[q]) /\ Joining(q, proc[q])
      BY DEF NetIInv
    <3>3. Proper(q, proc[q])'
      <4>1. MayClose(q)' = MayClose(q)
        BY DEF MayClose, Datagrams
      <4> QED BY <3>1, <3>2, <4>1 DEF Proper
    <3>4. Joining(q, proc[q])'
      BY <1>0, <2>2, <3>1, <3>2 DEF Joining
    <3> QED BY <3>3, <3>4
  <2> QED BY <2>1, <2>2
<1> QED BY <1>1, <1>2 DEF NetIInv

(* The server's sockets are no client's; what a process had open stays its own. *)
LEMMA CallsProper ==
  ASSUME NetIInv, NEW p \in Procs, NEW Q, Goes(proc[p], Q, MayClose(p)), proc[p].main # "off"
  PROVE  /\ Proper(p, Q) /\ Q.main # "off"
         /\ \A t \in Range(Q.tasks) : t.op \in Connects => t \in Range(proc[p].tasks)
         /\ \A s \in Socks : proc[p].fd[s] = -1 => Q.fd[s] = -1
<1>1. Proper(p, proc[p])
  BY DEF NetIInv
<1> QED BY <1>1, Names DEF Proper, Goes

(* The calls of a running process. *)
LEMMA Calls ==
  ASSUME NetIInv, NEW p \in Procs, NEW Q, Goes(proc[p], Q, MayClose(p)), proc[p].main # "off",
         proc' = [proc EXCEPT ![p] = Q], UNCHANGED <<app, connected, backlog>>
  PROVE  NetIInv'
<1>1. /\ Proper(p, Q) /\ Q.main # "off"
      /\ \A t \in Range(Q.tasks) : t.op \in Connects => t \in Range(proc[p].tasks)
      /\ \A s \in Socks : proc[p].fd[s] = -1 => Q.fd[s] = -1
  BY CallsProper
<1>2. Active' = Active
  BY DEF Active
<1>3. Joining(p, Q)'
  BY <1>1, <1>2 DEF Joining, NetIInv
<1>4. Queued'
  <2>1. \A c \in Clients : <<"srv", c>> \in Socks
    BY DEF Socks, Streams
  <2>2. \A s \in Socks : proc[Server].fd[s] = -1 => proc'[Server].fd[s] = -1
    BY <1>1, Names DEF NetIInv
  <2> QED BY <1>2, <2>1, <2>2 DEF Queued, NetIInv
<1> QED BY <1>1, <1>3, <1>4, OneStep

(* The end of a step: ~Socket of what the calls have left unreferenced. *)
LEMMA BecomesGoes ==
  ASSUME NEW p, NEW P, NEW R, NEW D, Goes(R, P, D), Becomes(p, P)
  PROVE  \E Q : Goes(R, Q, D) /\ Q.tasks = P.tasks /\ proc' = [proc EXCEPT ![p] = Q]
<1> DEFINE Q == Destroy(P, Unreferenced(P))
<1>1. proc' = [proc EXCEPT ![p] = Q]
  BY DEF Becomes
<1>2. Sane(P)
  BY DEF Goes
<1>3. Goes(R, Q, D)
  BY <1>2, DestroyGoes, GoesOn
<1>4. Q.tasks = P.tasks
  BY <1>2 DEF Destroy, CloseFds, Sane, Typed, Fields
<1> QED BY <1>1, <1>3, <1>4

(* A step that makes calls, up to its end. *)
LEMMA BecomesCalls ==
  ASSUME NetIInv, NEW p \in Procs, NEW P, Goes(proc[p], P, MayClose(p)), proc[p].main # "off",
         Becomes(p, P), UNCHANGED <<app, connected, backlog>>
  PROVE  NetIInv'
<1>1. PICK Q : Goes(proc[p], Q, MayClose(p)) /\ proc' = [proc EXCEPT ![p] = Q]
  BY BecomesGoes
<1> QED BY <1>1, Calls

(* A connection joins the backlog. *)
LEMMA JoinQueue ==
  ASSUME Queued, NEW p \in Clients, p \in Active, p \notin connected,
         proc'[Server] = proc[Server], app' = app,
         connected' = connected \cup {p}, backlog' = Append(backlog, p)
  PROVE  Queued'
<1>1. Active' = Active
  BY DEF Active
<1>2. /\ backlog' \in Seq(connected') /\ Range(backlog') = Range(backlog) \cup {p}
      /\ \A i, j \in DOMAIN backlog' : backlog'[i] = backlog'[j] => i = j
  <2>1. backlog \in Seq(connected)
    BY DEF Queued
  <2>2. backlog \in Seq(connected \cup {p})
    BY <2>1, SeqDef
  <2>3. /\ Append(backlog, p) \in Seq(connected \cup {p})
        /\ Len(Append(backlog, p)) = Len(backlog) + 1
        /\ Append(backlog, p)[Len(backlog) + 1] = p
        /\ \A i \in 1 .. Len(backlog) : Append(backlog, p)[i] = backlog[i]
    BY <2>2, AppendProperties
  <2>4. /\ DOMAIN backlog = 1 .. Len(backlog) /\ Len(backlog) \in Nat
        /\ DOMAIN Append(backlog, p) = 1 .. Len(backlog) + 1
    BY <2>1, <2>3
  <2>5. \A i \in DOMAIN backlog : backlog[i] # p
    BY <2>1
  <2>6. \A i, j \in DOMAIN backlog : backlog[i] = backlog[j] => i = j
    BY DEF Queued
  <2>7. \A i, j \in DOMAIN backlog' : backlog'[i] = backlog'[j] => i = j
    BY <2>3, <2>4, <2>5, <2>6
  <2>8. Range(backlog') = Range(backlog) \cup {p}
    BY <2>3, <2>4 DEF Range
  <2> QED BY <2>3, <2>7, <2>8
<1>3. ASSUME NEW c \in Clients, c \notin connected' \/ c \in Range(backlog')
      PROVE  proc'[Server].fd[<<"srv", c>>] = -1
  BY <1>2, <1>3 DEF Queued
<1> QED BY <1>1, <1>2, <1>3 DEF Queued

(* A connect succeeds: the task is gone and the connection is in the backlog. *)
LEMMA Joins ==
  ASSUME NetIInv, NEW p \in Procs, NEW P, Goes(proc[p], P, MayClose(p)), proc[p].main # "off",
         \A t \in Range(P.tasks) : t.op \notin Connects,
         Becomes(p, P), p \in Active, p \in Clients, p \notin connected,
         app' = app, connected' = connected \cup {p}, backlog' = Append(backlog, p)
  PROVE  NetIInv'
<1>1. PICK Q : /\ Goes(proc[p], Q, MayClose(p)) /\ Q.tasks = P.tasks
               /\ proc' = [proc EXCEPT ![p] = Q]
  BY BecomesGoes
<1>2. Proper(p, Q) /\ Q.main # "off"
  BY <1>1, CallsProper
<1>3. Joining(p, Q)'
  BY <1>1, <1>2 DEF Joining
<1>4. proc'[Server] = proc[Server]
  BY <1>1, NamesAssumption, Names DEF NetIInv
<1>5. Queued
  BY DEF NetIInv
<1>6. Queued'
  BY <1>4, <1>5, JoinQueue
<1> QED BY <1>1, <1>2, <1>3, <1>6, OneStep

(* The server may open a descriptor for the first connection of the backlog. *)
LEMMA CanAccept ==
  ASSUME NetIInv, ~Datagrams, backlog # <<>>
  PROVE  LET s == <<"srv", Head(backlog)>>
         IN  /\ s \in Socks /\ Proc(s) = Server /\ Head(backlog) \in Clients
             /\ proc[Server].fd[s] = -1 /\ \A t \in Socks : Keeps(proc[Server], t)
<1> DEFINE c == Head(backlog)
           P == proc[Server]
<1>1. Queued /\ Proper(Server, P)
  BY Names DEF NetIInv
<1>2. c \in connected /\ c \in Range(backlog)
  <2>1. backlog \in Seq(connected)
    BY <1>1 DEF Queued
  <2>2. c = backlog[1] /\ c \in connected /\ Len(backlog) \in Nat /\ Len(backlog) # 0
        /\ DOMAIN backlog = 1 .. Len(backlog)
    BY <2>1, HeadTailProperties, EmptySeq
  <2> QED BY <2>2 DEF Range
<1>3. c \in Clients /\ P.fd[<<"srv", c>>] = -1
  BY <1>1, <1>2 DEF Queued
<1>4. <<"srv", c>> \in Socks /\ Proc(<<"srv", c>>) = Server
  BY <1>3 DEF Socks, Streams, Proc
<1>5. ASSUME NEW t \in Socks PROVE Keeps(P, t)
  <2>1. CASE t \notin MayClose(Server)
    BY <1>1, <2>1 DEF Proper
  <2>2. CASE app = "close" /\ t # Own
    <3>1. P.fd[t] = -1
      <4>1. PICK k \in {"srv", "cli"}, d \in Clients : t = <<k, d>>
        BY <2>2 DEF Socks, Streams
      <4>2. CASE k = "cli"
        <5>1. Proc(t) = d /\ d # Server
          BY <4>1, <4>2, NamesAssumption DEF Proc
        <5>2. P.fd[t] \in Fds \cup {-1}
          BY <1>1 DEF Proper, Sane, Typed
        <5> QED BY <1>1, <5>1, <5>2 DEF Proper
      <4>3. CASE k = "srv"
        <5>1. Active = {CHOOSE e \in Clients : TRUE}
          BY <2>2 DEF Active
        <5>2. d \in connected => d = c
          BY <1>1, <1>2, <5>1 DEF Queued
        <5> QED BY <1>1, <1>2, <4>1, <4>3, <5>2 DEF Queued
      <4> QED BY <4>2, <4>3
    <3> QED BY <3>1, Names DEF Keeps
  <2> QED BY <2>1, <2>2 DEF MayClose
<1> QED BY <1>3, <1>4, <1>5

(* A connection leaves the backlog for a stream of the server. *)
LEMMA Accepts ==
  ASSUME NetIInv, ~Datagrams, backlog # <<>>, FreeFds(proc[Server]) # {},
         proc[Server].main # "off",
         NEW P, Goes(Open(proc[Server], <<"srv", Head(backlog)>>), P, MayClose(Server)),
         Becomes(Server, P), app' = app, connected' = connected, backlog' = Tail(backlog)
  PROVE  NetIInv'
<1> DEFINE c == Head(backlog)
           s == <<"srv", c>>
           R == Open(proc[Server], s)
<1>0. Proper(Server, proc[Server]) /\ Joining(Server, proc[Server]) /\ Queued
  BY Names DEF NetIInv
<1>1. /\ s \in Socks /\ Proc(s) = Server /\ c \in Clients
      /\ proc[Server].fd[s] = -1 /\ \A t \in Socks : Keeps(proc[Server], t)
  BY CanAccept
<1>2. /\ Sane(R) /\ \A t \in Socks \ {s} : R.fd[t] = proc[Server].fd[t]
      /\ \A t \in Socks : Keeps(R, t)
      /\ R.tasks = proc[Server].tasks /\ R.main = proc[Server].main
  BY <1>0, <1>1, OpenSane DEF Proper
<1>3. PICK Q : Goes(R, Q, MayClose(Server)) /\ proc' = [proc EXCEPT ![Server] = Q]
  BY BecomesGoes
<1> HIDE DEF R
<1>4. Proper(Server, Q) /\ Q.main # "off"
  <2>1. \A t \in Socks : Q.fd[t] \in Fds => Proc(t) = Server
    BY <1>0, <1>1, <1>2, <1>3, Names DEF Proper, Goes
  <2>2. Sane(Q) /\ Q.main # "off" /\ \A t \in Socks \ MayClose(Server) : Keeps(Q, t)
    BY <1>2, <1>3 DEF Goes
  <2>3. OneConnect(Q)
    BY <1>0, <1>2, <1>3 DEF Goes, Proper, OneConnect
  <2>4. \A t \in Range(Q.tasks) : t.op \in Closes => t.who \in MayClose(Server)
    BY <1>0, <1>2, <1>3 DEF Goes, Proper
  <2> QED BY <2>1, <2>2, <2>3, <2>4 DEF Proper
<1>5. Active' = Active
  BY DEF Active
<1>6. Joining(Server, Q)'
  BY <1>0, <1>2, <1>3, <1>4, <1>5 DEF Joining, Goes
<1>7. Queued'
  <2>1. /\ backlog \in Seq(connected)
        /\ \A i, j \in DOMAIN backlog : backlog[i] = backlog[j] => i = j
    BY <1>0 DEF Queued
  <2>2. /\ Tail(backlog) \in Seq(connected) /\ c = backlog[1]
        /\ Len(Tail(backlog)) = Len(backlog) - 1 /\ Len(backlog) \in Nat /\ Len(backlog) # 0
        /\ \A i \in 1 .. Len(Tail(backlog)) : Tail(backlog)[i] = backlog[i + 1]
    BY <2>1, HeadTailProperties, EmptySeq
  <2>3. DOMAIN backlog = 1 .. Len(backlog) /\ DOMAIN Tail(backlog) = 1 .. Len(Tail(backlog))
    BY <2>1, <2>2
  <2>4. \A i \in DOMAIN Tail(backlog) :
           i \in Nat /\ i # 0 /\ i + 1 \in DOMAIN backlog /\ 1 \in DOMAIN backlog
             /\ Tail(backlog)[i] = backlog[i + 1]
    BY <2>2, <2>3
  <2>5. \A i, j \in DOMAIN backlog' : backlog'[i] = backlog'[j] => i = j
    BY <2>1, <2>4
  <2>6. Range(backlog') \subseteq Range(backlog) /\ c \notin Range(backlog')
    BY <2>1, <2>2, <2>4 DEF Range
  <2>7. ASSUME NEW d \in Clients, d \notin connected' \/ d \in Range(backlog')
        PROVE  proc'[Server].fd[<<"srv", d>>] = -1
    <3>1. d # c
      <4>1. c \in connected
        BY <2>1, HeadTailProperties
      <4> QED BY <2>6, <2>7, <4>1
    <3>2. <<"srv", d>> \in Socks \ {s}
      BY <3>1 DEF Socks, Streams
    <3>3. proc[Server].fd[<<"srv", d>>] = -1
      BY <1>0, <2>6, <2>7 DEF Queued
    <3>4. Q.fd[<<"srv", d>>] = -1
      BY <1>2, <1>3, <3>2, <3>3 DEF Goes
    <3> QED BY <1>3, <3>4, Names DEF NetIInv
  <2> QED BY <1>0, <1>5, <2>2, <2>5, <2>7 DEF Queued
<1> QED BY <1>3, <1>4, <1>6, <1>7, Names, OneStep

(* A process that starts opens one socket of its own, and nothing is closed. *)
LEMMA StartProper ==
  ASSUME NetIInv, NEW p \in Procs, proc[p].main = "off", NEW s \in Socks, Proc(s) = p,
         NEW Q, Goes(Open(proc[p], s), Q, {}), Q.main # "off"
  PROVE  /\ Proper(p, Q) /\ \A t \in Range(Q.tasks) : t.op \notin Connects \cup Closes
         /\ \A t \in Socks \ {s} : Q.fd[t] = -1
         /\ p \notin connected
<1> DEFINE P == proc[p]
           R == Open(P, s)
<1>1. Sane(P) /\ Fresh(P) /\ p \notin connected
  BY DEF NetIInv, Proper, Joining
<1>2. \A t \in Socks : P.fd[t] = -1 /\ Keeps(P, t)
  BY <1>1, Names DEF Fresh, Keeps
<1>3. FreeFds(P) # {}
  BY <1>1, FdsAssumption DEF Fresh, FreeFds
<1>4. /\ Sane(R) /\ \A t \in Socks \ {s} : R.fd[t] = P.fd[t]
      /\ \A t \in Socks : Keeps(R, t)
      /\ R.tasks = P.tasks
  BY <1>1, <1>2, <1>3, OpenSane
<1> HIDE DEF R
<1>5. R.tasks = <<>> /\ Range(R.tasks) = {} /\ OneConnect(R)
  BY <1>1, <1>4 DEF Fresh, Range, OneConnect
<1>6. \A t \in Socks \ {s} : Q.fd[t] = -1
  BY <1>2, <1>4 DEF Goes, R
<1>7. \A t \in Range(Q.tasks) : t.op \notin Connects \cup Closes
  BY <1>5 DEF Goes, R
<1>8. Sane(Q) /\ OneConnect(Q) /\ \A t \in Socks : Keeps(Q, t)
  BY <1>4, <1>5 DEF Goes, R
<1>9. \A t \in Socks : Q.fd[t] \in Fds => Proc(t) = p
  BY <1>6, Names
<1>10. Proper(p, Q)
  BY <1>7, <1>8, <1>9 DEF Proper
<1> QED BY <1>1, <1>6, <1>7, <1>10

(* A process starts; the server's first socket is its listener or datagram socket. *)
LEMMA Starts ==
  ASSUME NetIInv, NEW p \in Procs, proc[p].main = "off", NEW s \in Socks, Proc(s) = p,
         p = Server => s = Own, NEW Q, Q.main # "off", Proper(p, Q),
         \A t \in Range(Q.tasks) : t.op \in Connects => p \in Active /\ p \in Clients,
         \A t \in Socks \ {s} : Q.fd[t] = -1,
         proc' = [proc EXCEPT ![p] = Q], UNCHANGED <<app, connected, backlog>>
  PROVE  NetIInv'
<1>1. p \notin connected /\ Queued
  BY DEF NetIInv, Joining
<1>2. Active' = Active
  BY DEF Active
<1>3. Joining(p, Q)'
  BY <1>1, <1>2 DEF Joining
<1>4. Queued'
  <2>1. ASSUME NEW c \in Clients, c \notin connected' \/ c \in Range(backlog')
        PROVE  proc'[Server].fd[<<"srv", c>>] = -1
    <3>1. <<"srv", c>> \in Socks \ {Own}
      BY NamesAssumption DEF Socks, Streams, Own
    <3>2. proc[Server].fd[<<"srv", c>>] = -1
      BY <1>1, <2>1 DEF Queued
    <3>3. CASE p = Server
      BY <3>1, <3>3, Names DEF NetIInv
    <3>4. CASE p # Server
      BY <3>2, <3>4, Names DEF NetIInv
    <3> QED BY <3>3, <3>4
  <2> QED BY <1>1, <1>2, <2>1 DEF Queued
<1> QED BY <1>3, <1>4, OneStep

(* A process ends. *)
LEMMA Ends ==
  ASSUME NetIInv, NEW p \in Procs, End(p), UNCHANGED <<app, connected>>
  PROVE  NetIInv'
<1> DEFINE Q == [NewProcess EXCEPT !.main = "end"]
<1>1. /\ DOMAIN Q = Fields /\ Q.main = "end" /\ Q.promise = "none" /\ Q.tasks = <<>>
      /\ Q.batch = {} /\ Q.blocked = None
      /\ Q.fd = [s \in Socks |-> -1] /\ Q.table = [f \in Fds |-> None] /\ Q.interest = {}
      /\ Q.callbacks = NoMap /\ Q.custom = {} /\ Q.objects = NoMap
  BY DEF NewProcess, Fields
<1>2. proc' = [proc EXCEPT ![p] = Q]
      /\ backlog' = IF p = Server THEN <<>> ELSE backlog
  BY DEF End
<1> HIDE DEF Q
<1>3. DOMAIN NoMap = {} /\ Range(NoMap) = {} /\ Range(Q.tasks) = {}
  BY <1>1 DEF NoMap, Range
<1>4. Typed(Q)
  BY <1>1, <1>3 DEF Typed
<1>5. Owns(Q)
  BY <1>1, <1>3, Names DEF Owns
<1>6. Proper(p, Q)
  BY <1>1, <1>3, <1>4, <1>5, Names DEF Proper, Sane, Keeps, OneConnect
<1>7. Joining(p, Q)'
  BY <1>1, <1>3 DEF Joining
<1>8. Queued'
  <2>0. Queued /\ Active' = Active
    BY DEF NetIInv, Active
  <2>1. backlog' \in Seq(connected) /\ Range(backlog') \subseteq Range(backlog)
        /\ \A i, j \in DOMAIN backlog' : backlog'[i] = backlog'[j] => i = j
    BY <1>2, <2>0 DEF Queued, Range
  <2>2. ASSUME NEW c \in Clients, c \notin connected' \/ c \in Range(backlog')
        PROVE  proc'[Server].fd[<<"srv", c>>] = -1
    <3>1. <<"srv", c>> \in Socks
      BY DEF Socks, Streams
    <3>2. proc[Server].fd[<<"srv", c>>] = -1
      BY <2>0, <2>1, <2>2 DEF Queued
    <3> QED BY <1>1, <1>2, <3>1, <3>2, Names DEF NetIInv
  <2> QED BY <2>0, <2>1, <2>2 DEF Queued
<1> QED BY <1>2, <1>6, <1>7, <1>8, OneStep

(* A step that says nothing of descriptors, of a process in any state. *)
LEMMA Sides ==
  ASSUME NetIInv, NEW p \in Procs, NEW Q, Aside(proc[p], Q), Q.main = proc[p].main,
         Q.promise = proc[p].promise, Q.blocked = proc[p].blocked,
         proc' = [proc EXCEPT ![p] = Q], UNCHANGED <<app, connected, backlog>>
  PROVE  NetIInv'
<1>1. Proper(p, proc[p]) /\ Joining(p, proc[p])
  BY DEF NetIInv
<1>2. /\ Sane(proc[p]) /\ proc[p].main \in {"off", "wait", "send", "loop", "end"}
      /\ proc[p].promise \in {"none", "true", "false"}
      /\ proc[p].blocked # None => proc[p].blocked \in Socks /\ proc[p].fd[proc[p].blocked] \in Fds
  BY <1>1 DEF Proper, Sane, Typed, Owns
<1>3. Goes(proc[p], Q, {})
  BY <1>2, AsideGoes
<1>4. Proper(p, Q)
  BY <1>1, <1>3 DEF Proper, Goes, Aside, Fresh, Keeps, OneConnect
<1>5. Active' = Active
  BY DEF Active
<1>6. Joining(p, Q)'
  BY <1>1, <1>5 DEF Joining, Aside
<1>7. Queued'
  <2>1. proc'[Server].fd = proc[Server].fd
    BY Names DEF NetIInv, Aside
  <2> QED BY <1>5, <2>1 DEF Queued, NetIInv
<1> QED BY <1>4, <1>6, <1>7, OneStep

(* The invariant holds when nothing runs yet. *)
LEMMA InitInv == Init => NetIInv
<1> SUFFICES ASSUME Init PROVE NetIInv
  OBVIOUS
<1>1. /\ app \in Apps /\ proc = [p \in Procs |-> NewProcess]
      /\ backlog = <<>> /\ connected = {}
  BY DEF Init, NetInit
<1> DEFINE Q == NewProcess
<1>2. /\ DOMAIN Q = Fields /\ Q.main = "off" /\ Q.promise = "none" /\ Q.tasks = <<>>
      /\ Q.batch = {} /\ Q.blocked = None
      /\ Q.fd = [s \in Socks |-> -1] /\ Q.table = [f \in Fds |-> None] /\ Q.interest = {}
      /\ Q.callbacks = NoMap /\ Q.custom = {} /\ Q.objects = NoMap
  BY DEF NewProcess, Fields
<1> HIDE DEF Q
<1>3. DOMAIN NoMap = {} /\ Range(NoMap) = {} /\ Range(Q.tasks) = {}
  BY <1>2 DEF NoMap, Range
<1>4. Typed(Q)
  BY <1>2, <1>3 DEF Typed
<1>5. Owns(Q)
  BY <1>2, <1>3, Names DEF Owns
<1>6. ASSUME NEW p \in Procs PROVE Proper(p, Q) /\ Joining(p, Q)
  BY <1>1, <1>2, <1>3, <1>4, <1>5, Names DEF Proper, Sane, Keeps, OneConnect, Fresh, Joining
<1>7. Queued
  <2>1. \A c \in Clients : <<"srv", c>> \in Socks
    BY DEF Socks, Streams
  <2>2. proc[Server] = Q
    BY <1>1, Names DEF Q
  <2> QED BY <1>1, <1>2, <2>1, <2>2 DEF Queued, Range
<1> QED BY <1>1, <1>6, <1>7 DEF NetIInv, Q

(* The invariant implies what it is for. *)
LEMMA InvOwned == NetIInv => StreamsOwned
<1> SUFFICES ASSUME NetIInv PROVE StreamsOwned
  OBVIOUS
<1>1. ASSUME NEW p \in Procs PROVE Typed(proc[p]) /\ Owns(proc[p])
  BY DEF NetIInv, Proper, Sane
<1>2. NetTypeOK
  <2>1. ASSUME NEW p \in Procs
        PROVE  /\ proc[p].main \in {"off", "wait", "send", "loop", "end"}
               /\ proc[p].promise \in {"none", "true", "false"}
               /\ proc[p].fd \in [Socks -> Fds \cup {-1}]
               /\ proc[p].table \in [Fds -> Socks \cup {None}]
               /\ proc[p].interest \subseteq Fds /\ proc[p].batch \subseteq Fds
               /\ Range(proc[p].callbacks) \cup Range(proc[p].objects) \subseteq Socks
    BY <1>1 DEF Typed
  <2>2. connected \subseteq Clients /\ Range(backlog) \subseteq connected
    BY DEF NetIInv, Queued, Range
  <2> QED BY <2>1, <2>2 DEF NetTypeOK
<1>3. OwnDescriptor
  <2>1. ASSUME NEW p \in Procs, NEW f \in Fds, proc[p].table[f] \in Socks
        PROVE  proc[p].fd[proc[p].table[f]] = f
    BY <1>1, <2>1, Names DEF Owns
  <2>2. ASSUME NEW p \in Procs, NEW s \in Socks, valid(proc[p], s)
        PROVE  Named(proc[p], s) \in {s, None}
    BY <1>1 DEF Owns, Named
  <2> QED BY <2>1, <2>2 DEF OwnDescriptor
<1>4. CallbackOwner
  BY <1>1 DEF CallbackOwner, Owns
<1> QED BY <1>2, <1>3, <1>4 DEF StreamsOwned

-----------------------------------------------------------------------------
(* The streams use the process as this module does: the operators they      *)
(* reach through their instances are the ones above.                         *)
LEMMA SockNet ==
  /\ \A P, t : Sock!AddTask(P, t) = AddTask(P, t)
  /\ \A P, s : Sock!valid(P, s) = valid(P, s)
  /\ \A P, s : Sock!closeAndNoClear(P, s) = closeAndNoClear(P, s)
  /\ \A P, f, s : Sock!Register(P, f, s) = Register(P, f, s)
  /\ \A P, f : Sock!cancle(P, f) = cancle(P, f)
  /\ \A P, f : Sock!EndCallback(P, f) = EndCallback(P, f)
  /\ \A op, who, fd, data : Sock!Task(op, who, fd, data) = Task(op, who, fd, data)
  /\ \A p, op : Sock!IsNext(p, op) <=> IsNext(p, op)
  /\ \A p : Sock!Pop(p) = Pop(p)
BY DEF Sock!AddTask, AddTask, Sock!valid, valid, Sock!closeAndNoClear, closeAndNoClear,
       Sock!CloseFds, CloseFds, Sock!Register, Register, Sock!Put, Put, Sock!cancle, cancle,
       Sock!Restrict, Restrict, Sock!EndCallback, EndCallback, Sock!Work, Work, Sock!Task,
       Task, Sock!IsNext, IsNext, Sock!Idle, Idle, Sock!Up, Up, Sock!Pop, Pop

(* The end of a step of a SockStream. *)
LEMMA SockBecomes == ASSUME NEW p, NEW P, Sock!Becomes(p, P) PROVE Becomes(p, P)
BY DEF Sock!Becomes, Becomes, Sock!Destroy, Destroy, Sock!Unreferenced, Unreferenced,
       Sock!CloseFds, CloseFds, Sock!Referenced, Referenced, Sock!valid, valid, Sock!Range,
       Range, Sock!Socks, Socks, Sock!Streams, Streams, Sock!Own, Own, Sock!Server, Server

(* A process killed by SIGPIPE. *)
LEMMA SockEnd == ASSUME NEW p, Sock!End(p) PROVE End(p)
BY DEF Sock!End, End, Sock!NewProcess, NewProcess, Sock!NoMap, NoMap, Sock!Socks, Socks,
       Sock!Streams, Streams, Sock!Own, Own, Sock!Server, Server, Sock!Proc, Proc

(* The same of SSLStream. *)
LEMMA SSLNet ==
  /\ \A P, t : SSL!AddTask(P, t) = AddTask(P, t)
  /\ \A P, s : SSL!valid(P, s) = valid(P, s)
  /\ \A P, s : SSL!closeAndNoClear(P, s) = closeAndNoClear(P, s)
  /\ \A P, f, s : SSL!Register(P, f, s) = Register(P, f, s)
  /\ \A P, f : SSL!cancle(P, f) = cancle(P, f)
  /\ \A P, f : SSL!EndCallback(P, f) = EndCallback(P, f)
  /\ \A op, who, fd, data : SSL!Task(op, who, fd, data) = Task(op, who, fd, data)
  /\ \A p, op : SSL!IsNext(p, op) <=> IsNext(p, op)
  /\ \A p : SSL!Pop(p) = Pop(p)
BY DEF SSL!AddTask, AddTask, SSL!valid, valid, SSL!closeAndNoClear, closeAndNoClear,
       SSL!CloseFds, CloseFds, SSL!Register, Register, SSL!Put, Put, SSL!cancle, cancle,
       SSL!Restrict, Restrict, SSL!EndCallback, EndCallback, SSL!Work, Work, SSL!Task, Task,
       SSL!IsNext, IsNext, SSL!Idle, Idle, SSL!Up, Up, SSL!Pop, Pop

(* The end of a step of an SSLStream. *)
LEMMA SSLBecomes == ASSUME NEW p, NEW P, SSL!Becomes(p, P) PROVE Becomes(p, P)
BY DEF SSL!Becomes, Becomes, SSL!Destroy, Destroy, SSL!Unreferenced, Unreferenced,
       SSL!CloseFds, CloseFds, SSL!Referenced, Referenced, SSL!valid, valid, SSL!Range, Range,
       SSL!Socks, Socks, SSL!Streams, Streams, SSL!Own, Own, SSL!Server, Server

(* The same of DataGram. *)
LEMMA DGNet ==
  /\ \A P, t : DG!AddTask(P, t) = AddTask(P, t)
  /\ \A P, s : DG!valid(P, s) = valid(P, s)
  /\ \A P, s : DG!closeAndNoClear(P, s) = closeAndNoClear(P, s)
  /\ \A P, f, s : DG!Register(P, f, s) = Register(P, f, s)
  /\ \A P, f : DG!cancle(P, f) = cancle(P, f)
  /\ \A P, f : DG!notifyEvents(P, f) = notifyEvents(P, f)
  /\ \A P, f : DG!EndCallback(P, f) = EndCallback(P, f)
  /\ \A op, who, fd, data : DG!Task(op, who, fd, data) = Task(op, who, fd, data)
  /\ \A p, op : DG!IsNext(p, op) <=> IsNext(p, op)
  /\ \A p : DG!Pop(p) = Pop(p)
BY DEF DG!AddTask, AddTask, DG!valid, valid, DG!closeAndNoClear, closeAndNoClear, DG!CloseFds,
       CloseFds, DG!Register, Register, DG!Put, Put, DG!cancle, cancle, DG!Restrict, Restrict,
       DG!notifyEvents, notifyEvents, DG!EndCallback, EndCallback, DG!Work, Work, DG!Task,
       Task, DG!IsNext, IsNext, DG!Idle, Idle, DG!Up, Up, DG!Pop, Pop

(* The end of a step of a DataGram. *)
LEMMA DGBecomes == ASSUME NEW p, NEW P, DG!Becomes(p, P) PROVE Becomes(p, P)
BY DEF DG!Becomes, Becomes, DG!Destroy, Destroy, DG!Unreferenced, Unreferenced, DG!CloseFds,
       CloseFds, DG!Referenced, Referenced, DG!valid, valid, DG!Range, Range, DG!Socks, Socks,
       DG!Streams, Streams, DG!Own, Own, DG!Server, Server

(* The same of Acceptor. *)
LEMMA AccNet ==
  /\ \A P, t : Acc!AddTask(P, t) = AddTask(P, t)
  /\ \A P, f, s : Acc!Register(P, f, s) = Register(P, f, s)
  /\ \A P, f : Acc!cancle(P, f) = cancle(P, f)
  /\ \A P, f : Acc!EndCallback(P, f) = EndCallback(P, f)
  /\ \A op, who, fd, data : Acc!Task(op, who, fd, data) = Task(op, who, fd, data)
  /\ \A P : Acc!FreeFds(P) = FreeFds(P)
  /\ Acc!Own = Own
  /\ \A p, op : Acc!IsNext(p, op) <=> IsNext(p, op)
  /\ \A p : Acc!Pop(p) = Pop(p)
BY DEF Acc!AddTask, AddTask, Acc!Register, Register, Acc!Put, Put, Acc!cancle, cancle,
       Acc!Restrict, Restrict, Acc!EndCallback, EndCallback, Acc!Work, Work, Acc!Task, Task,
       Acc!FreeFds, FreeFds, Acc!Own, Own, Acc!Server, Server, Acc!IsNext, IsNext, Acc!Idle,
       Idle, Acc!Up, Up, Acc!Pop, Pop

(* The end of a step of an Acceptor. *)
LEMMA AccBecomes == ASSUME NEW p, NEW P, Acc!Becomes(p, P) PROVE Becomes(p, P)
BY DEF Acc!Becomes, Becomes, Acc!Destroy, Destroy, Acc!Unreferenced, Unreferenced,
       Acc!CloseFds, CloseFds, Acc!Referenced, Referenced, Acc!valid, valid, Acc!Range, Range,
       Acc!Socks, Socks, Acc!Streams, Streams, Acc!Own, Own, Acc!Server, Server

(* The same of the pool servers. *)
LEMMA PoolNet ==
  /\ \A P, t : Pool!AddTask(P, t) = AddTask(P, t)
  /\ \A P, f, s : Pool!Register(P, f, s) = Register(P, f, s)
  /\ \A P, f : Pool!cancle(P, f) = cancle(P, f)
  /\ \A P, f : Pool!EndCallback(P, f) = EndCallback(P, f)
  /\ \A map, key, value : Pool!Put(map, key, value) = Put(map, key, value)
  /\ \A map, K : Pool!Restrict(map, K) = Restrict(map, K)
  /\ Pool!Own = Own /\ Pool!Work = Work
  /\ \A p, op : Pool!IsNext(p, op) <=> IsNext(p, op)
  /\ \A p : Pool!Pop(p) = Pop(p)
<1>1. /\ \A P, t : Pool!AddTask(P, t) = AddTask(P, t)
      /\ \A P, f, s : Pool!Register(P, f, s) = Register(P, f, s)
      /\ \A map, key, value : Pool!Put(map, key, value) = Put(map, key, value)
  BY DEF Pool!AddTask, AddTask, Pool!Register, Register, Pool!Put, Put
<1>2. /\ \A P, f : Pool!cancle(P, f) = cancle(P, f)
      /\ \A map, K : Pool!Restrict(map, K) = Restrict(map, K)
  BY DEF Pool!cancle, cancle, Pool!Restrict, Restrict
<1>3. /\ \A P, f : Pool!EndCallback(P, f) = EndCallback(P, f)
      /\ Pool!Own = Own /\ Pool!Work = Work
  BY DEF Pool!EndCallback, EndCallback, Pool!Work, Work, Pool!Task, Task, Pool!Own, Own,
         Pool!Server, Server
<1>4. /\ \A p, op : Pool!IsNext(p, op) <=> IsNext(p, op)
      /\ \A p : Pool!Pop(p) = Pop(p)
  BY DEF Pool!IsNext, IsNext, Pool!Idle, Idle, Pool!Up, Up, Pool!Pop, Pop
<1> QED BY <1>1, <1>2, <1>3, <1>4

(* The end of a step of a pool server. *)
LEMMA PoolBecomes == ASSUME NEW p, NEW P, Pool!Becomes(p, P) PROVE Becomes(p, P)
BY DEF Pool!Becomes, Becomes, Pool!Destroy, Destroy, Pool!Unreferenced, Unreferenced,
       Pool!CloseFds, CloseFds, Pool!Referenced, Referenced, Pool!valid, valid, Pool!Range,
       Range, Pool!Socks, Socks, Pool!Streams, Streams, Pool!Own, Own, Pool!Server, Server

(* The end of a pool client. *)
LEMMA PoolEnd == ASSUME NEW p, Pool!End(p) PROVE End(p)
BY DEF Pool!End, End, Pool!NewProcess, NewProcess, Pool!NoMap, NoMap, Pool!Socks, Socks,
       Pool!Streams, Streams, Pool!Own, Own, Pool!Server, Server, Pool!Proc, Proc

(* The poll of a pool server. *)
LEMMA PoolWork == ASSUME NEW p, Pool!work(p) PROVE work(p)
BY Zenon
   DEF Pool!work, work, Pool!IsNext, IsNext, Pool!Idle, Idle, Pool!Up, Up, Pool!Pop, Pop,
       Pool!Readable, Readable, Pool!Hup, Hup, Pool!Peer, Peer, Pool!Proc, Proc, Pool!AddTask,
       AddTask, Pool!Work, Work, Pool!Task, Task, Pool!Becomes, Becomes, Pool!Destroy, Destroy,
       Pool!Unreferenced, Unreferenced, Pool!CloseFds, CloseFds, Pool!Referenced, Referenced,
       Pool!valid, valid, Pool!Range, Range, Pool!Socks, Socks, Pool!Streams, Streams,
       Pool!Own, Own, Pool!Server, Server, Pool!kernel, kernel

-----------------------------------------------------------------------------
(* The callbacks of the programs. *)

(* Socket::valid of a process with its types. *)
LEMMA AtFd ==
  ASSUME NEW P, Sane(P), NEW s \in Socks
  PROVE  valid(P, s) <=> P.fd[s] \in Fds
BY Names DEF Sane, Typed, valid

(* asend of the streams and of the datagram sockets, which tests the number. *)
LEMMA SendGoes ==
  ASSUME NEW P, Sane(P), NEW D, NEW s \in Socks, NEW data
  PROVE  /\ Goes(P, Sock!asend(P, s, data), D)
         /\ Goes(P, SSL!asend(P, s, data), D)
         /\ \A to : Goes(P, DG!asend(P, s, to, data), D)
<1>1. ASSUME NEW op \in {"send", "ssl_send", "sendto"}, NEW m, P.fd[s] \in Fds
      PROVE  Goes(P, AddTask(P, Task(op, s, -1, m)), D)
  <2>1. op \notin Registers /\ op \notin Connects /\ op \notin Closes
    BY DEF Registers, Connects, Closes
  <2> QED BY <1>1, <2>1, AddWho
<1>2. Goes(P, P, D)
  BY GoesSame
<1>3. valid(P, s) => P.fd[s] \in Fds
  BY AtFd
<1>4. Sock!asend(P, s, data) = IF valid(P, s) THEN AddTask(P, Task("send", s, -1, data)) ELSE P
  BY SockNet DEF Sock!asend
<1>5. SSL!asend(P, s, data) = IF valid(P, s) THEN AddTask(P, Task("ssl_send", s, -1, data)) ELSE P
  BY SSLNet DEF SSL!asend
<1>6. ASSUME NEW to
      PROVE  DG!asend(P, s, to, data) =
               IF valid(P, s) THEN AddTask(P, Task("sendto", s, -1, [to |-> to, data |-> data])) ELSE P
  BY DGNet DEF DG!asend
<1> QED BY <1>1, <1>2, <1>3, <1>4, <1>5, <1>6

(* aclose. *)
LEMMA AcloseGoes ==
  ASSUME NEW P, Sane(P), NEW D, NEW s \in Socks, P.fd[s] \in Fds, s \in D
  PROVE  /\ Goes(P, Sock!aclose(P, s), D)
         /\ Goes(P, SSL!aclose(P, s), D)
         /\ Goes(P, DG!aclose(P, s), D)
<1>1. ASSUME NEW op \in Closes
      PROVE  Goes(P, AddTask(P, Task(op, s, -1, <<>>)), D)
  <2>1. op \notin Registers /\ op \notin Connects /\ op # "start" /\ op # "first"
    BY <1>1 DEF Registers, Connects, Closes
  <2> QED BY <1>1, <2>1, AddWho
<1>2. "close" \in Closes /\ "ssl_close" \in Closes /\ "dg_close" \in Closes
  BY DEF Closes
<1>3. /\ Sock!aclose(P, s) = AddTask(P, Task("close", s, -1, <<>>))
      /\ SSL!aclose(P, s) = AddTask(P, Task("ssl_close", s, -1, <<>>))
      /\ DG!aclose(P, s) = AddTask(P, Task("dg_close", s, -1, <<>>))
  BY SockNet, SSLNet, DGNet DEF Sock!aclose, SSL!aclose, DG!aclose
<1> QED BY <1>1, <1>2, <1>3

(* startListenReadEvent, start and saveObject for the number that s keeps. *)
LEMMA ListenGoes ==
  ASSUME NEW P, Sane(P), NEW D, NEW s \in Socks, P.fd[s] \in Fds
  PROVE  /\ Goes(P, Sock!startListenReadEvent(P, s), D) /\ Sock!startListenReadEvent(P, s).fd = P.fd
         /\ Goes(P, SSL!startListenReadEvent(P, s), D) /\ SSL!startListenReadEvent(P, s).fd = P.fd
         /\ Goes(P, DG!startListenReadEvent(P, s), D)
         /\ Goes(P, Keep(P, s), D)
         /\ s = Own => Goes(P, Acc!start(P), D) /\ Goes(P, Acc!asyncStop(P), D)
<1>1. ASSUME NEW op \in {"listen", "ssl_listen", "dg_listen", "start", "save"},
             op = "start" => s = Own
      PROVE  Goes(P, AddTask(P, Task(op, s, P.fd[s], <<>>)), D)
  <2>1. op \notin Connects /\ op \notin Closes
    BY DEF Connects, Closes
  <2> QED BY <1>1, <2>1, AddWho
<1>2. Goes(P, AddTask(P, Task("stop", s, -1, <<>>)), D)
  <2>1. "stop" \notin Connects /\ "stop" \notin Closes /\ "stop" \notin Registers
    BY DEF Connects, Closes, Registers
  <2> QED BY <2>1, AddWho
<1>3. /\ Sock!startListenReadEvent(P, s) = AddTask(P, Task("listen", s, P.fd[s], <<>>))
      /\ SSL!startListenReadEvent(P, s) = AddTask(P, Task("ssl_listen", s, P.fd[s], <<>>))
      /\ DG!startListenReadEvent(P, s) = AddTask(P, Task("dg_listen", s, P.fd[s], <<>>))
  BY SockNet, SSLNet, DGNet
     DEF Sock!startListenReadEvent, SSL!startListenReadEvent, DG!startListenReadEvent
<1>4. Keep(P, s) = AddTask(P, Task("save", s, P.fd[s], <<>>))
  BY DEF Keep, saveObject
<1>5. s = Own => /\ Acc!start(P) = AddTask(P, Task("start", s, P.fd[s], <<>>))
                 /\ Acc!asyncStop(P) = AddTask(P, Task("stop", s, -1, <<>>))
  BY AccNet DEF Acc!start, Acc!asyncStop
<1>6. \A t : AddTask(P, t).fd = P.fd
  BY AddFd
<1> QED BY <1>1, <1>2, <1>3, <1>4, <1>5, <1>6

(* The members a callback may set. *)
LEMMA SetGoes ==
  ASSUME NEW P, Sane(P), NEW D
  PROVE  /\ Goes(P, SetExit(P), D)
         /\ Goes(P, NextUid(P), D) /\ NextUid(P).fd = P.fd
         /\ \A v : Goes(P, [P EXCEPT !.slot = v], D)
         /\ \A s \in Socks : P.fd[s] \in Fds => Goes(P, [P EXCEPT !.blocked = s], D)
         /\ Goes(P, [P EXCEPT !.blocked = None], D)
<1>0. /\ DOMAIN P = Fields /\ P.main \in {"off", "wait", "send", "loop", "end"}
      /\ P.promise \in {"none", "true", "false"}
      /\ P.blocked # None => P.blocked \in Socks /\ P.fd[P.blocked] \in Fds
  BY DEF Sane, Typed, Owns
<1>1. Goes(P, SetExit(P), D)
  <2> DEFINE Q == SetExit(P)
  <2>1. Aside(P, Q) /\ Q.main = P.main /\ Q.promise = P.promise /\ Q.blocked = P.blocked
    BY <1>0 DEF Aside, SetExit, Fields
  <2> QED BY <1>0, <2>1, AsideGoes
<1>2. Goes(P, NextUid(P), D) /\ NextUid(P).fd = P.fd
  <2> DEFINE Q == NextUid(P)
  <2>1. Aside(P, Q) /\ Q.main = P.main /\ Q.promise = P.promise /\ Q.blocked = P.blocked
    BY <1>0 DEF Aside, NextUid, Fields
  <2> QED BY <1>0, <2>1, AsideGoes DEF Aside
<1>3. ASSUME NEW v PROVE Goes(P, [P EXCEPT !.slot = v], D)
  <2> DEFINE Q == [P EXCEPT !.slot = v]
  <2>1. Aside(P, Q) /\ Q.main = P.main /\ Q.promise = P.promise /\ Q.blocked = P.blocked
    BY <1>0 DEF Aside, Fields
  <2> QED BY <1>0, <2>1, AsideGoes
<1>4. ASSUME NEW s, s # None => s \in Socks /\ P.fd[s] \in Fds
      PROVE  Goes(P, [P EXCEPT !.blocked = s], D)
  <2> DEFINE Q == [P EXCEPT !.blocked = s]
  <2>1. Aside(P, Q) /\ Q.main = P.main /\ Q.promise = P.promise /\ Q.blocked = s
    BY <1>0 DEF Aside, Fields
  <2> HIDE DEF Q
  <2>2. Goes(P, Q, D)
    BY <1>0, <1>4, <2>1, AsideGoes
  <2> QED BY <2>2 DEF Q
<1> QED BY <1>1, <1>2, <1>3, <1>4

(* Tasks that hold no stream. *)
LEMMA QueueGoes ==
  ASSUME NEW P, Sane(P), NEW D
  PROVE  /\ \A f : Goes(P, findObject(P, f), D)
         /\ \A frame : Goes(P, sendToSharedMemory(P, frame), D)
         /\ \A frame : Goes(P, AddTask(P, Task("frame", None, -1, frame)), D)
         /\ Goes(P, readFromSharedMemory(P), D)
         /\ Goes(P, AddTask(P, Work), D)
         /\ P.fd[Own] \in Fds => Goes(P, AddTask(P, Task("first", None, -1, <<>>)), D)
<1>1. \A op \in {"find", "frame", "shmread", "work", "first"} : op \notin Holds
  BY DEF Holds, Registers, Connects, Closes
<1>2. ASSUME NEW op \in {"find", "frame", "shmread", "work", "first"}, NEW fd, NEW data,
             op = "first" => P.fd[Own] \in Fds
      PROVE  Goes(P, AddTask(P, Task(op, None, fd, data)), D)
  <2>1. op \notin Holds
    BY <1>1
  <2> QED BY <1>2, <2>1, AddNone
<1>3. \A v : Goes(P, [P EXCEPT !.slot = v], D)
  BY SetGoes
<1> QED BY <1>2, <1>3 DEF findObject, sendToSharedMemory, readFromSharedMemory, Work

(* The detached server numbers an event and sends it. *)
LEMMA FrameGoes ==
  ASSUME NEW P, Sane(P), NEW D, NEW frame
  PROVE  /\ Goes(P, sendToSharedMemory(NextUid(P), frame), D)
         /\ Goes(P, AddTask(NextUid(P), Task("frame", None, -1, frame)), D)
<1>1. Goes(P, NextUid(P), D) /\ Sane(NextUid(P))
  BY SetGoes DEF Goes
<1>2. /\ Goes(NextUid(P), sendToSharedMemory(NextUid(P), frame), D)
      /\ Goes(NextUid(P), AddTask(NextUid(P), Task("frame", None, -1, frame)), D)
  BY <1>1, QueueGoes
<1> QED BY <1>1, <1>2, GoesOn

\* The examples whose streams are driven by a RePoller.
Polled == {"tcp", "udp", "unix", "dg", "ssl", "detach", "close"}

(* Which programs may run. *)
LEMMA Examples ==
  ASSUME NetIInv
  PROVE  /\ ~Pooled => app \in Polled
         /\ app \in Polled \cup {"socket", "ssl_socket"}
BY AppsAssumption DEF NetIInv, Polled, Pooled

(* Who a stream belongs to, and what its process may close. *)
LEMMA HomeClose ==
  ASSUME NetIInv, NEW p \in Procs, NEW s \in Socks, proc[p].fd[s] \in Fds
  PROVE  /\ s[1] = "cli" \/ Datagrams => s \in MayClose(p)
         /\ app = "close" /\ s # Own => s \in MayClose(p)
<1>1. Proc(s) = p
  BY DEF NetIInv, Proper
<1>2. s[1] = "cli" => p # Server
  <2>1. ASSUME s[1] = "cli" PROVE s[2] \in Clients
    BY <2>1 DEF Socks, Streams, Own
  <2> QED BY <1>1, <2>1, NamesAssumption DEF Proc
<1> QED BY <1>2 DEF MayClose

(* onClose. *)
LEMMA OnCloseGoes ==
  ASSUME NetIInv, ~Pooled, NEW P, Sane(P), NEW D, NEW s
  PROVE  Goes(P, OnClose(P, s), D)
<1>1. app \in Polled
  BY Examples
<1>2. /\ Goes(P, SetExit(P), D) /\ \A f : Goes(P, findObject(P, f), D)
  BY SetGoes, QueueGoes
<1>3. Goes(P, detach_onClose(P, s), D)
  <2>1. Goes(P, findObject(P, P.fd[s]), D) /\ Sane(findObject(P, P.fd[s]))
    BY <1>2 DEF Goes
  <2>2. Goes(findObject(P, P.fd[s]),
             sendToSharedMemory(NextUid(findObject(P, P.fd[s])), Frame(P, "closed", s, <<>>)), D)
    BY <2>1, FrameGoes
  <2> QED BY <2>1, <2>2, GoesOn DEF detach_onClose
<1>4. OnClose(P, s) \in {SetExit(P), findObject(P, P.fd[s]), detach_onClose(P, s)}
  BY <1>1 DEF OnClose, Polled, Client_onClose, tcp_onClose, unix_onClose, ssl_onClose,
              udp_onClose, dg_onClose
<1> QED BY <1>2, <1>3, <1>4

(* onRead, for a stream whose number is kept. *)
LEMMA OnReadGoes ==
  ASSUME NetIInv, ~Pooled, NEW p \in Procs, NEW s \in Socks, proc[p].fd[s] \in Fds,
         Datagrams \/ s # Own, NEW data
  PROVE  Goes(proc[p], OnRead(proc[p], s, data), MayClose(p))
<1> DEFINE P == proc[p]
           D == MayClose(p)
<1>1. app \in Polled
  BY Examples
<1>2. Sane(P)
  BY DEF NetIInv, Proper
<1> HIDE DEF P, D
<1>3. /\ Goes(P, P, D)
      /\ \A m : Goes(P, Sock!asend(P, s, m), D) /\ Goes(P, SSL!asend(P, s, m), D)
      /\ \A m, to : Goes(P, DG!asend(P, s, to, m), D)
  BY <1>2, SendGoes, GoesSame
<1>4. CASE s[1] = "cli"
  <2>1. OnRead(P, s, data) \in {P, Sock!asend(P, s, data)}
    BY <1>1, <1>4 DEF OnRead, tcp_client_onRead, ssl_client_onRead
  <2> QED BY <1>3, <2>1 DEF P, D
<1>5. CASE s[1] # "cli" /\ app \in {"tcp", "unix", "ssl", "dg"}
  <2>1. OnRead(P, s, data) \in {P, Sock!asend(P, s, data), SSL!asend(P, s, data)}
    BY <1>5 DEF OnRead, tcp_onRead, unix_onRead, ssl_onRead, dg_onRead
  <2> QED BY <1>3, <2>1 DEF P, D
<1>6. CASE s[1] # "cli" /\ app = "detach"
  <2>1. Goes(P, detach_onRead(P, s, data), D)
    BY <1>2, FrameGoes DEF detach_onRead
  <2> QED BY <1>6, <2>1 DEF OnRead, P, D
<1>7. CASE s[1] # "cli" /\ app = "close"
  <2> DEFINE Q == Sock!asend(P, s, data)
  <2>1. s \in D
    BY <1>7, HomeClose DEF D, Datagrams
  <2>2. Goes(P, Q, D) /\ Sane(Q)
    BY <1>3 DEF Goes
  <2>3. Q.fd = P.fd
    BY <1>2, AddFd, SockNet DEF Sock!asend
  <2>4. Goes(Q, Sock!aclose(Q, s), D)
    BY <2>1, <2>2, <2>3, AcloseGoes DEF P
  <2>5. Goes(P, close_onRead(P, s, data), D)
    BY <2>2, <2>4, GoesOn DEF close_onRead
  <2> QED BY <1>7, <2>5 DEF OnRead, P, D
<1>8. CASE s[1] # "cli" /\ app = "udp"
  <2> DEFINE Q == DG!asend(P, s, data.from, data.data)
  <2>1. s \in D
    BY <1>8, HomeClose DEF D, Datagrams
  <2>2. Goes(P, Q, D) /\ Sane(Q)
    BY <1>3 DEF Goes
  <2>3. Q.fd = P.fd
    BY <1>2, AddFd, DGNet DEF DG!asend
  <2>4. Goes(Q, DG!aclose(Q, s), D)
    BY <2>1, <2>2, <2>3, AcloseGoes DEF P
  <2>5. Goes(P, udp_onRead(P, s, data), D)
    BY <2>2, <2>4, GoesOn DEF udp_onRead
  <2> QED BY <1>8, <2>5 DEF OnRead, P, D
<1> QED BY <1>1, <1>4, <1>5, <1>6, <1>7, <1>8 DEF Polled

(* onWrite. *)
LEMMA OnWriteGoes ==
  ASSUME NetIInv, NEW P, Sane(P), NEW D, NEW s \in Socks, P.fd[s] \in Fds,
         s[1] = "cli" => s \in D, NEW ret, NEW data
  PROVE  Goes(P, OnWrite(P, s, ret, data), D)
<1>1. Goes(P, P, D)
  BY GoesSame
<1>2. s[1] = "cli" => Goes(P, SSL!aclose(P, s), D)
  BY AcloseGoes
<1>3. Goes(P, detach_onWrite(P, s, ret, data), D)
  BY <1>1, FrameGoes DEF detach_onWrite
<1> QED BY <1>1, <1>2, <1>3 DEF OnWrite, ssl_client_onWrite, Server_onWrite

(* A pool server keeps a client. *)
LEMMA AddClientGoes ==
  ASSUME NEW P, Sane(P), NEW D, NEW s \in Socks, P.fd[s] \in Fds
  PROVE  Goes(P, Pool!AddClient(P, s), D)
<1> DEFINE Q == Register(P, P.fd[s], s)
           map == Put(Q.objects, s, s)
<1>1. Goes(P, Q, D) /\ Sane(Q)
  BY RegisterGoes DEF Goes
<1>2. Pool!AddClient(P, s) = [Q EXCEPT !.objects = map]
  BY PoolNet DEF Pool!AddClient
<1> HIDE DEF Q
<1>3. Range(Q.objects) \subseteq Socks
  BY <1>1 DEF Sane, Typed
<1>4. Range(map) \subseteq Socks
  BY <1>3, MapRange
<1>5. Goes(Q, [Q EXCEPT !.objects = map], D)
  BY <1>1, <1>4, ObjectsGoes
<1> QED BY <1>1, <1>2, <1>5, GoesOn

(* The rest of onAccept: the stream listens and is kept. *)
LEMMA KeepGoes ==
  ASSUME NEW P, Sane(P), NEW D, NEW s \in Socks, P.fd[s] \in Fds
  PROVE  /\ Goes(P, Keep(Sock!startListenReadEvent(P, s), s), D)
         /\ Keep(Sock!startListenReadEvent(P, s), s).fd = P.fd
         /\ Goes(P, Keep(SSL!startListenReadEvent(P, s), s), D)
<1>1. ASSUME NEW Q, Goes(P, Q, D), Q.fd = P.fd
      PROVE  Goes(P, Keep(Q, s), D) /\ Keep(Q, s).fd = P.fd
  <2>1. Sane(Q)
    BY <1>1 DEF Goes
  <2>2. Goes(Q, Keep(Q, s), D)
    BY <1>1, <2>1, ListenGoes
  <2>3. Keep(Q, s).fd = Q.fd
    BY <2>1, AddFd DEF Keep, saveObject
  <2> QED BY <1>1, <2>2, <2>3, GoesOn
<1> QED BY <1>1, ListenGoes

(* onAccept of every server. *)
LEMMA OnAcceptGoes ==
  ASSUME NetIInv, ~Datagrams, NEW P, Sane(P), NEW D, NEW s \in Socks, P.fd[s] \in Fds,
         app = "close" => P.fd[Own] \in Fds
  PROVE  Goes(P, ServerOnAccept(P, s), D)
<1>1. app \in {"tcp", "unix", "ssl", "detach", "close", "socket", "ssl_socket"}
  BY Examples DEF Datagrams, Polled
<1> DEFINE Q == Keep(Sock!startListenReadEvent(P, s), s)
<1>2. Goes(P, Q, D) /\ Q.fd = P.fd /\ Sane(Q)
  BY KeepGoes DEF Goes
<1>3. Goes(P, [P EXCEPT !.blocked = s], D)
  BY SetGoes
<1>4. Goes(P, Pool!AddClient(P, s), D)
  BY AddClientGoes
<1>5. Goes(P, detach_onAccept(P, s), D)
  <2>1. Goes(Q, sendToSharedMemory(NextUid(Q), Frame(P, "new", s, <<>>)), D)
    BY <1>2, FrameGoes
  <2> QED BY <1>2, <2>1, GoesOn DEF detach_onAccept
<1>6. app = "close" => Goes(P, Acc!asyncStop(Q), D)
  <2> HAVE app = "close"
  <2>1. Goes(Q, Acc!asyncStop(Q), D)
    BY <1>2, Names, ListenGoes
  <2> QED BY <1>2, <2>1, GoesOn
<1>7. CASE app \in {"tcp", "unix"}
  BY <1>2, <1>7 DEF ServerOnAccept, tcp_onAccept, unix_onAccept
<1>8. CASE app \in {"ssl", "ssl_socket"}
  BY <1>3, <1>8 DEF ServerOnAccept, ssl_onAccept
<1>9. CASE app = "detach"
  BY <1>5, <1>9 DEF ServerOnAccept
<1>10. CASE app = "close"
  BY <1>6, <1>10 DEF ServerOnAccept, close_onAccept, tcp_onAccept
<1>11. CASE app = "socket"
  BY <1>4, <1>11 DEF ServerOnAccept, socket_onAccept
<1> QED BY <1>1, <1>7, <1>8, <1>9, <1>10, <1>11

-----------------------------------------------------------------------------
(* The steps of the IO threads. *)

(* A task begins. *)
LEMMA Takes ==
  ASSUME NetIInv, NEW p \in Procs, NEW op, IsNext(p, op)
  PROVE  LET P == proc[p]
             Q == Pop(p)
             t == Head(P.tasks)
         IN  /\ P.main # "off" /\ Sane(P) /\ Sane(Q) /\ Goes(P, Q, MayClose(p))
             /\ Q.fd = P.fd /\ Q.main = P.main /\ Q.promise = P.promise
             /\ t \in Range(P.tasks) /\ t.op = op /\ SoundTask(Q, t)
             /\ op \in Connects => /\ p \in Active /\ p \in Clients /\ p \notin connected
                                   /\ \A u \in Range(Q.tasks) : u.op \notin Connects
             /\ op \in Closes => t.who \in MayClose(p)
<1> DEFINE P == proc[p]
           Q == [P EXCEPT !.tasks = Tail(@)]
           t == Head(P.tasks)
<1>1. P.main # "off" /\ P.tasks # <<>> /\ t.op = op
  BY DEF IsNext, Idle, Up
<1>2. Proper(p, P) /\ Joining(p, P)
  BY DEF NetIInv
<1>3. Sane(P) /\ OneConnect(P)
  BY <1>2 DEF Proper
<1>4. /\ Goes(P, Q, MayClose(p))
      /\ Q.fd = P.fd /\ Q.main = P.main /\ Q.promise = P.promise
      /\ t \in Range(P.tasks) /\ SoundTask(Q, t)
      /\ OneConnect(P) /\ t.op \in Connects => \A u \in Range(Q.tasks) : u.op \notin Connects
  BY <1>1, <1>3, PopGoes
<1>5. Pop(p) = Q
  BY DEF Pop
<1> HIDE DEF Q
<1>6. Sane(Q)
  BY <1>4 DEF Goes
<1>7. op \in Connects => p \in Active /\ p \in Clients /\ p \notin connected
  BY <1>1, <1>2, <1>4 DEF Joining
<1>8. op \in Closes => t.who \in MayClose(p)
  BY <1>1, <1>2, <1>4 DEF Proper
<1> QED BY <1>1, <1>3, <1>4, <1>5, <1>6, <1>7, <1>8

(* A task that gives the poller the number it copied. *)
LEMMA RegisterTask ==
  ASSUME NEW Q, Sane(Q), NEW D, NEW t, SoundTask(Q, t), t.op \in Registers
  PROVE  Goes(Q, Register(Q, t.fd, t.who), D)
<1>1. t.who \in Socks /\ Q.fd[t.who] \in Fds /\ t.fd = Q.fd[t.who]
  BY DEF SoundTask
<1> QED BY <1>1, RegisterGoes

(* A task's stream. *)
LEMMA Held ==
  ASSUME NEW Q, NEW t, SoundTask(Q, t), t.op \in Holds
  PROVE  t.who \in Socks /\ Q.fd[t.who] \in Fds
BY DEF SoundTask

(* A task runs, with its calls and ~Socket at its end. *)
LEMMA TaskStep ==
  ASSUME NetIInv, NEW p \in Procs, NEW op, IsNext(p, op), NEW R, Goes(Pop(p), R, MayClose(p)),
         Becomes(p, R), UNCHANGED <<app, connected, backlog>>
  PROVE  NetIInv'
<1>1. proc[p].main # "off" /\ Goes(proc[p], Pop(p), MayClose(p))
  BY Takes
<1>2. Goes(proc[p], R, MayClose(p))
  BY <1>1, GoesOn
<1> QED BY <1>1, <1>2, BecomesCalls

(* RePoller::work. *)
LEMMA WorkStep ==
  ASSUME NetIInv, NEW p \in Procs, work(p), app' = app
  PROVE  NetIInv'
<1> DEFINE P == proc[p]
           Q == Pop(p)
           ready == P.custom \cup {f \in P.interest : Readable(P.table[f])}
           A == [Q EXCEPT !.batch = ready, !.custom = {}]
<1>1. IsNext(p, "work") /\ UNCHANGED <<connected, backlog>>
      /\ Becomes(p, IF ready = {} THEN AddTask(Q, Work) ELSE A)
  BY DEF work, kernel
<1>2. Sane(P) /\ Sane(Q)
  BY <1>1, Takes
<1>3. ready \subseteq Fds
  BY <1>2 DEF Sane, Typed
<1>4. Goes(Q, AddTask(Q, Work), MayClose(p))
  BY <1>2, QueueGoes
<1> HIDE DEF Q, ready
<1>5. Goes(Q, A, MayClose(p))
  <2>1. /\ DOMAIN A = Fields
        /\ A.main = Q.main /\ A.promise = Q.promise /\ A.tasks = Q.tasks /\ A.blocked = Q.blocked
        /\ A.fd = Q.fd /\ A.table = Q.table /\ A.batch = ready /\ A.custom = {}
        /\ A.interest = Q.interest /\ A.callbacks = Q.callbacks /\ A.objects = Q.objects
    BY <1>2 DEF Sane, Typed, Fields
  <2> HIDE DEF A
  <2>2. Polls(Q, A)
    BY <1>2, <1>3, <2>1 DEF Polls, Sane, Typed
  <2> QED BY <1>2, <2>2, PollsGoes
<1>6. PICK R : R = IF ready = {} THEN AddTask(Q, Work) ELSE A
  OBVIOUS
<1>7. Goes(Q, R, MayClose(p)) /\ Becomes(p, R)
  BY <1>1, <1>4, <1>5, <1>6
<1> QED BY <1>1, <1>7, TaskStep DEF Q

(* The tasks of a SockStream. *)
LEMMA SockStep ==
  ASSUME NetIInv, NEW p \in Procs, SockTask(p)
  PROVE  NetIInv'
<1> DEFINE P == proc[p]
           Q == Pop(p)
           t == Head(P.tasks)
           D == MayClose(p)
<1>0. app' = app
  BY DEF SockTask, rest
<1>1. CASE Sock!ListenTask(p)
  <2>1. /\ IsNext(p, "listen") /\ UNCHANGED <<connected, backlog>>
        /\ Sock!Becomes(p, Register(Q, t.fd, t.who))
    BY <1>1, SockNet DEF Sock!ListenTask, Sock!listenReadEvent, Sock!kernel
  <2>2. Sane(Q) /\ SoundTask(Q, t) /\ t.op \in Registers
    BY <2>1, Takes DEF Registers
  <2>3. Goes(Q, Register(Q, t.fd, t.who), D)
    BY <2>2, RegisterTask
  <2> QED BY <1>0, <2>1, <2>3, SockBecomes, TaskStep
<1>2. CASE Sock!SendTask(p, AfterWrite(p, TRUE), AfterWrite(p, FALSE))
  <2>1. /\ IsNext(p, "send") /\ UNCHANGED <<connected, backlog>>
        /\ \E ok \in BOOLEAN : Sock!Becomes(p, AfterWrite(p, ok)) \/ Sock!Becomes(p, Q)
    BY <1>2, SockNet DEF Sock!SendTask
  <2>2. Sane(Q) /\ SoundTask(Q, t) /\ t.op \in Holds /\ Q.fd = P.fd
    BY <2>1, Takes DEF Holds
  <2>3. t.who \in Socks /\ Q.fd[t.who] \in Fds
    BY <2>2, Held
  <2>4. t.who[1] = "cli" => t.who \in D
    BY <2>2, <2>3, HomeClose
  <2>5. Goes(Q, Q, D) /\ \A ok \in BOOLEAN : Goes(Q, AfterWrite(p, ok), D)
    BY <2>2, <2>3, <2>4, OnWriteGoes, GoesSame DEF AfterWrite
  <2>6. PICK R : Goes(Q, R, D) /\ Sock!Becomes(p, R)
    BY <2>1, <2>5
  <2> QED BY <1>0, <2>1, <2>6, SockBecomes, TaskStep
<1>3. CASE Sock!CloseTask(p)
  <2>1. /\ IsNext(p, "close") /\ UNCHANGED <<connected, backlog>>
        /\ Sock!Becomes(p, closeAndNoClear(Q, t.who))
    BY <1>3, SockNet DEF Sock!CloseTask, Sock!kernel
  <2>2. Sane(Q) /\ SoundTask(Q, t) /\ t.op \in Holds /\ t.who \in D
    BY <2>1, Takes DEF Holds, Closes
  <2>3. t.who \in Socks
    BY <2>2, Held
  <2>4. Goes(Q, closeAndNoClear(Q, t.who), D)
    BY <2>2, <2>3, CloseGoes
  <2> QED BY <1>0, <2>1, <2>4, SockBecomes, TaskStep
<1>4. CASE Sock!ConnectTask(p, Listening, AfterConnect(p))
  <2> DEFINE A == AfterConnect(p)
             R == Register(A, P.fd[t.who], t.who)
  <2>1. /\ IsNext(p, "connect")
        /\ \/ /\ Sock!Becomes(p, R)
              /\ connected' = connected \cup {p} /\ backlog' = Append(backlog, p)
           \/ Sock!Becomes(p, A) /\ UNCHANGED <<connected, backlog>>
    BY <1>4, SockNet DEF Sock!ConnectTask, Sock!listenReadEvent
  <2>2. /\ P.main # "off" /\ Goes(P, Q, D) /\ Sane(Q) /\ SoundTask(Q, t) /\ t.op = "connect"
        /\ Q.fd = P.fd
    BY <2>1, Takes
  <2>3. t.op \in Connects /\ t.op \in Holds
    BY <2>2 DEF Connects, Holds
  <2>4. /\ p \in Active /\ p \in Clients /\ p \notin connected
        /\ \A u \in Range(Q.tasks) : u.op \notin Connects
    BY <2>1, <2>2, <2>3, Takes
  <2>5. t.who \in Socks /\ Q.fd[t.who] \in Fds
    BY <2>2, <2>3, Held
  <2>6. PICK b \in {"true", "false"} : A = [Q EXCEPT !.promise = b]
    BY DEF AfterConnect, onConnect
  <2> HIDE DEF Q, A, R
  <2>7. Aside(Q, A) /\ A.main = Q.main /\ A.promise = b /\ A.blocked = Q.blocked
    BY <2>2, <2>6 DEF Aside, Sane, Typed, Fields
  <2>8. Goes(Q, A, D) /\ Sane(A) /\ A.fd = Q.fd /\ A.tasks = Q.tasks
    <3>1. /\ Q.main \in {"off", "wait", "send", "loop", "end"}
          /\ Q.blocked # None => Q.blocked \in Socks /\ Q.fd[Q.blocked] \in Fds
      BY <2>2 DEF Sane, Typed, Owns
    <3>2. Goes(Q, A, D)
      BY <2>2, <2>7, <3>1, AsideGoes
    <3> QED BY <2>7, <3>2 DEF Goes, Aside
  <2>9. Goes(A, R, D)
    BY <2>2, <2>5, <2>8, RegisterGoes DEF R
  <2>10. \A u \in Range(R.tasks) : u.op \notin Connects
    BY <2>4, <2>8, <2>9 DEF Goes
  <2>11. CASE Sock!Becomes(p, A) /\ UNCHANGED <<connected, backlog>>
    BY <1>0, <2>1, <2>8, <2>11, SockBecomes, TaskStep DEF Q
  <2>12. CASE /\ Sock!Becomes(p, R)
              /\ connected' = connected \cup {p} /\ backlog' = Append(backlog, p)
    <3>1. Goes(P, R, D)
      BY <2>2, <2>8, <2>9, GoesOn
    <3> QED BY <1>0, <2>2, <2>4, <2>10, <2>12, <3>1, SockBecomes, Joins
  <2> QED BY <2>1, <2>11, <2>12
<1> QED BY <1>1, <1>2, <1>3, <1>4 DEF SockTask

(* The tasks of an SSLStream. *)
LEMMA SSLStep ==
  ASSUME NetIInv, NEW p \in Procs, SSLTask(p)
  PROVE  NetIInv'
<1> DEFINE P == proc[p]
           Q == Pop(p)
           t == Head(P.tasks)
           D == MayClose(p)
<1>0. app' = app
  BY DEF SSLTask
<1>1. CASE SSL!ListenTask(p)
  <2>1. /\ IsNext(p, "ssl_listen") /\ UNCHANGED <<connected, backlog>>
        /\ SSL!Becomes(p, Register(Q, t.fd, t.who))
    BY <1>1, SSLNet DEF SSL!ListenTask, SSL!listenReadEvent, SSL!kernel
  <2>2. Sane(Q) /\ SoundTask(Q, t) /\ t.op \in Registers
    BY <2>1, Takes DEF Registers
  <2>3. Goes(Q, Register(Q, t.fd, t.who), D)
    BY <2>2, RegisterTask
  <2> QED BY <1>0, <2>1, <2>3, SSLBecomes, TaskStep
<1>2. CASE SSL!SendTask(p, AfterWrite(p, TRUE), AfterWrite(p, FALSE))
  <2>1. /\ IsNext(p, "ssl_send") /\ UNCHANGED <<connected, backlog>>
        /\ \E ok \in BOOLEAN : SSL!Becomes(p, AfterWrite(p, ok))
    BY <1>2, SSLNet DEF SSL!SendTask
  <2>2. Sane(Q) /\ SoundTask(Q, t) /\ t.op \in Holds /\ Q.fd = P.fd
    BY <2>1, Takes DEF Holds
  <2>3. t.who \in Socks /\ Q.fd[t.who] \in Fds
    BY <2>2, Held
  <2>4. t.who[1] = "cli" => t.who \in D
    BY <2>2, <2>3, HomeClose
  <2>5. \A ok \in BOOLEAN : Goes(Q, AfterWrite(p, ok), D)
    BY <2>2, <2>3, <2>4, OnWriteGoes DEF AfterWrite
  <2>6. PICK R : Goes(Q, R, D) /\ SSL!Becomes(p, R)
    BY <2>1, <2>5
  <2> QED BY <1>0, <2>1, <2>6, SSLBecomes, TaskStep
<1>3. CASE SSL!CloseTask(p)
  <2> DEFINE B == [P EXCEPT !.blocked = t.who]
  <2>1. /\ IsNext(p, "ssl_close") /\ UNCHANGED <<connected, backlog>>
        /\ SSL!Becomes(p, closeAndNoClear(Q, t.who)) \/ SSL!Becomes(p, B)
    BY <1>3, SSLNet DEF SSL!CloseTask, SSL!kernel
  <2>2. /\ P.main # "off" /\ Sane(P) /\ Q.fd = P.fd
        /\ Sane(Q) /\ SoundTask(Q, t) /\ t.op \in Holds /\ t.who \in D
    BY <2>1, Takes DEF Holds, Closes
  <2>3. t.who \in Socks /\ P.fd[t.who] \in Fds
    BY <2>2, Held
  <2>4. Goes(Q, closeAndNoClear(Q, t.who), D)
    BY <2>2, <2>3, CloseGoes
  <2>5. Goes(P, B, D)
    BY <2>2, <2>3, SetGoes
  <2>6. CASE SSL!Becomes(p, B)
    BY <1>0, <2>1, <2>2, <2>5, <2>6, SSLBecomes, BecomesCalls
  <2>7. CASE SSL!Becomes(p, closeAndNoClear(Q, t.who))
    BY <1>0, <2>1, <2>4, <2>7, SSLBecomes, TaskStep
  <2> QED BY <2>1, <2>6, <2>7
<1>4. CASE SSL!ConnectTask(p, TRUE, AfterSSLConnect(p))
  <2> DEFINE A == AfterSSLConnect(p)
             R == Register(A, P.fd[t.who], t.who)
  <2>1. /\ IsNext(p, "ssl_connect") /\ SSL!Becomes(p, R)
        /\ connected' = connected \cup {p} /\ backlog' = Append(backlog, p)
    BY <1>4, SSLNet DEF SSL!ConnectTask, SSL!listenReadEvent
  <2>2. /\ P.main # "off" /\ Goes(P, Q, D) /\ Sane(Q) /\ SoundTask(Q, t) /\ t.op = "ssl_connect"
        /\ Q.fd = P.fd
    BY <2>1, Takes
  <2>3. t.op \in Connects /\ t.op \in Holds
    BY <2>2 DEF Connects, Holds
  <2>4. /\ p \in Active /\ p \in Clients /\ p \notin connected
        /\ \A u \in Range(Q.tasks) : u.op \notin Connects
    BY <2>1, <2>2, <2>3, Takes
  <2>5. t.who \in Socks /\ Q.fd[t.who] \in Fds
    BY <2>2, <2>3, Held
  <2>6. A = [Q EXCEPT !.blocked = t.who]
    BY DEF AfterSSLConnect, ssl_onConnect
  <2> HIDE DEF Q, A, R
  <2>7. Goes(Q, A, D) /\ Sane(A)
    <3>1. Goes(Q, [Q EXCEPT !.blocked = t.who], D)
      BY <2>2, <2>5, SetGoes
    <3> QED BY <2>6, <3>1 DEF Goes
  <2>8. A.fd = Q.fd /\ A.tasks = Q.tasks
    BY <2>2, <2>6 DEF Sane, Typed, Fields
  <2>9. Goes(A, R, D)
    BY <2>2, <2>5, <2>7, <2>8, RegisterGoes DEF R
  <2>10. \A u \in Range(R.tasks) : u.op \notin Connects
    BY <2>4, <2>8, <2>9 DEF Goes
  <2>11. Goes(P, R, D)
    BY <2>2, <2>7, <2>9, GoesOn
  <2> QED BY <1>0, <2>1, <2>2, <2>4, <2>10, <2>11, SSLBecomes, Joins
<1> QED BY <1>1, <1>2, <1>3, <1>4 DEF SSLTask

(* The tasks of a DataGram. *)
LEMMA DataGramStep ==
  ASSUME NetIInv, NEW p \in Procs, DataGramTask(p)
  PROVE  NetIInv'
<1> DEFINE P == proc[p]
           Q == Pop(p)
           t == Head(P.tasks)
           D == MayClose(p)
<1>0. app' = app
  BY DEF DataGramTask, rest
<1>1. CASE DG!ListenTask(p)
  <2>1. /\ IsNext(p, "dg_listen") /\ UNCHANGED <<connected, backlog>>
        /\ DG!Becomes(p, Register(Q, t.fd, t.who))
    BY <1>1, DGNet DEF DG!ListenTask, DG!kernel
  <2>2. Sane(Q) /\ SoundTask(Q, t) /\ t.op \in Registers
    BY <2>1, Takes DEF Registers
  <2>3. Goes(Q, Register(Q, t.fd, t.who), D)
    BY <2>2, RegisterTask
  <2> QED BY <1>0, <2>1, <2>3, DGBecomes, TaskStep
<1>2. CASE DG!SendTask(p)
  <2>1. IsNext(p, "sendto") /\ UNCHANGED <<connected, backlog>> /\ DG!Becomes(p, Q)
    BY <1>2, DGNet DEF DG!SendTask
  <2>2. Goes(Q, Q, D)
    BY <2>1, Takes, GoesSame
  <2> QED BY <1>0, <2>1, <2>2, DGBecomes, TaskStep
<1>3. CASE DG!CloseTask(p)
  <2> DEFINE A == closeAndNoClear(Q, t.who)
             R == notifyEvents(A, P.fd[t.who])
  <2>1. IsNext(p, "dg_close") /\ UNCHANGED <<connected, backlog>> /\ DG!Becomes(p, R)
    BY <1>3, DGNet DEF DG!CloseTask, DG!kernel
  <2>2. Sane(Q) /\ SoundTask(Q, t) /\ t.op \in Holds /\ t.who \in D
    BY <2>1, Takes DEF Holds, Closes
  <2>3. t.who \in Socks
    BY <2>2, Held
  <2>4. Goes(Q, A, D) /\ Sane(A)
    BY <2>2, <2>3, CloseGoes DEF Goes
  <2>5. Goes(A, R, D)
    BY <2>4, NotifyGoes
  <2>6. Goes(Q, R, D)
    BY <2>4, <2>5, GoesOn
  <2> QED BY <1>0, <2>1, <2>6, DGBecomes, TaskStep
<1> QED BY <1>1, <1>2, <1>3 DEF DataGramTask

(* The tasks of the Acceptor and of the object map. *)
LEMMA ServerStep ==
  ASSUME NetIInv, NEW p \in Procs, ServerTask(p)
  PROVE  NetIInv'
<1> DEFINE P == proc[p]
           Q == Pop(p)
           t == Head(P.tasks)
           D == MayClose(p)
<1>0. app' = app
  BY DEF ServerTask, rest
<1>1. CASE Acc!StartTask(p)
  <2>1. IsNext(p, "start") /\ UNCHANGED <<connected, backlog>>
        /\ Acc!Becomes(p, Register(Q, t.fd, Own))
    BY <1>1, AccNet DEF Acc!StartTask, Acc!kernel
  <2>2. Sane(Q) /\ SoundTask(Q, t) /\ t.op \in Registers /\ t.who = Own
    BY <2>1, Takes DEF Registers, SoundTask
  <2>3. Goes(Q, Register(Q, t.fd, Own), D)
    BY <2>2, RegisterTask
  <2> QED BY <1>0, <2>1, <2>3, AccBecomes, TaskStep
<1>2. CASE Acc!StopTask(p)
  <2>1. IsNext(p, "stop") /\ UNCHANGED <<connected, backlog>>
        /\ Acc!Becomes(p, cancle(Q, P.fd[Own]))
    BY <1>2, AccNet DEF Acc!StopTask, Acc!kernel
  <2>2. Goes(Q, cancle(Q, P.fd[Own]), D)
    BY <2>1, Takes, CancleGoes
  <2> QED BY <1>0, <2>1, <2>2, AccBecomes, TaskStep
<1>3. CASE SaveTask(p)
  <2> DEFINE map == Put(Q.objects, t.fd, t.who)
  <2>1. IsNext(p, "save") /\ UNCHANGED <<connected, backlog>>
        /\ Becomes(p, [Q EXCEPT !.objects = map])
    BY <1>3 DEF SaveTask, kernel
  <2>2. Sane(Q) /\ SoundTask(Q, t) /\ t.op \in Holds
    BY <2>1, Takes DEF Holds
  <2>3. t.who \in Socks /\ Range(Q.objects) \subseteq Socks
    BY <2>2, Held DEF Sane, Typed
  <2>4. Range(map) \subseteq Socks
    BY <2>3, MapRange
  <2>5. Goes(Q, [Q EXCEPT !.objects = map], D)
    BY <2>2, <2>4, ObjectsGoes
  <2> QED BY <1>0, <2>1, <2>5, TaskStep
<1>4. CASE FindTask(p)
  <2> DEFINE map == Restrict(Q.objects, DOMAIN Q.objects \ {t.fd})
  <2>1. IsNext(p, "find") /\ UNCHANGED <<connected, backlog>>
        /\ Becomes(p, [Q EXCEPT !.objects = map])
    BY <1>4 DEF FindTask, kernel
  <2>2. Sane(Q) /\ Range(Q.objects) \subseteq Socks
    BY <2>1, Takes DEF Sane, Typed
  <2>3. Range(map) \subseteq Socks
    BY <2>2, MapRange
  <2>4. Goes(Q, [Q EXCEPT !.objects = map], D)
    BY <2>2, <2>3, ObjectsGoes
  <2> QED BY <1>0, <2>1, <2>4, TaskStep
<1> QED BY <1>1, <1>2, <1>3, <1>4 DEF ServerTask

(* The tasks of the detached server. *)
LEMMA FrameStep ==
  ASSUME NetIInv, NEW p \in Procs, FrameTask(p) \/ ReadShmTask(p)
  PROVE  NetIInv'
<1> DEFINE Q == Pop(p)
           D == MayClose(p)
<1>0. UNCHANGED <<app, connected, backlog>>
  BY DEF FrameTask, ReadShmTask, rest, kernel
<1>1. PICK op : IsNext(p, op)
  BY DEF FrameTask, ReadShmTask
<1>2. Sane(Q)
  BY <1>1, Takes
<1>3. \A frame : Goes(Q, sendToSharedMemory(Q, frame), D)
  BY <1>2, QueueGoes
<1>4. Goes(Q, readFromSharedMemory(Q), D)
  BY <1>2, QueueGoes
<1>5. PICK R : Goes(Q, R, D) /\ Becomes(p, R)
  BY <1>3, <1>4 DEF FrameTask, ReadShmTask
<1> QED BY <1>0, <1>1, <1>5, TaskStep

(* The loop of work() calls back, then goes on. *)
LEMMA CallbackStep ==
  ASSUME NetIInv, NEW p \in Procs, proc[p].main # "off", NEW f, NEW R,
         Goes(proc[p], R, MayClose(p)), Becomes(p, EndCallback(R, f)),
         UNCHANGED <<app, connected, backlog>>
  PROVE  NetIInv'
<1>1. Sane(R)
  BY DEF Goes
<1>2. Goes(R, EndCallback(R, f), MayClose(p))
  BY <1>1, EndCallbackGoes
<1>3. Goes(proc[p], EndCallback(R, f), MayClose(p))
  BY <1>2, GoesOn
<1> QED BY <1>3, BecomesCalls

(* Every process is in order. *)
LEMMA SaneProc == ASSUME NetIInv, NEW p \in Procs PROVE Sane(proc[p])
BY DEF NetIInv, Proper

(* A callback is called for a stream whose number is kept. *)
LEMMA Called ==
  ASSUME NetIInv, NEW p \in Procs, NEW f, CalledFor(p, f) # None
  PROVE  CalledFor(p, f) \in Socks /\ proc[p].fd[CalledFor(p, f)] \in Fds
<1> DEFINE s == IF f \in DOMAIN proc[p].callbacks THEN proc[p].callbacks[f] ELSE None
<1>1. CalledFor(p, f) = s /\ s # None /\ valid(proc[p], s)
  BY DEF CalledFor
<1>2. Sane(proc[p])
  BY SaneProc
<1>3. s \in Range(proc[p].callbacks)
  BY <1>1 DEF Range
<1>4. s \in Socks
  BY <1>2, <1>3 DEF Sane, Typed
<1> QED BY <1>1, <1>2, <1>4, AtFd

(* The listener's callback. *)
LEMMA AcceptStep ==
  ASSUME NetIInv, ~Datagrams, proc[Server].main # "off",
         app = "close" => proc[Server].fd[Own] \in Fds,
         NEW f, Acc!AcceptReady(Server, f, AfterAccept(Server)), app' = app
  PROVE  NetIInv'
<1> DEFINE P == proc[Server]
           s == <<"srv", Head(backlog)>>
           R == Open(P, s)
           A == ServerOnAccept(R, s)
           D == MayClose(Server)
<1>1. /\ connected' = connected
      /\ \/ Acc!Becomes(Server, EndCallback(P, f)) /\ backlog' = backlog
         \/ /\ backlog # <<>> /\ FreeFds(P) # {} /\ backlog' = Tail(backlog)
            /\ Acc!Becomes(Server, EndCallback(A, f))
  BY AccNet DEF Acc!AcceptReady, AfterAccept, Acc!Accepted
<1>2. CASE Acc!Becomes(Server, EndCallback(P, f)) /\ backlog' = backlog
  <2>1. Goes(P, P, D)
    BY SaneProc, Names, GoesSame
  <2> QED BY <1>1, <1>2, <2>1, Names, AccBecomes, CallbackStep
<1>3. CASE /\ backlog # <<>> /\ FreeFds(P) # {} /\ backlog' = Tail(backlog)
           /\ Acc!Becomes(Server, EndCallback(A, f))
  <2>1. /\ s \in Socks /\ Proc(s) = Server /\ Head(backlog) \in Clients
        /\ P.fd[s] = -1 /\ \A t \in Socks : Keeps(P, t)
    BY <1>3, CanAccept
  <2>2. Sane(P)
    BY SaneProc, Names
  <2>3. Sane(R) /\ R.fd[s] \in Fds /\ \A t \in Socks \ {s} : R.fd[t] = P.fd[t]
    BY <1>3, <2>1, <2>2, OpenSane
  <2>4. s # Own
    BY <2>1, NamesAssumption DEF Own
  <2>5. app = "close" => R.fd[Own] \in Fds
    BY <2>3, <2>4, Names
  <2>6. Goes(R, A, D)
    BY <2>1, <2>3, <2>5, OnAcceptGoes
  <2>7. Goes(A, EndCallback(A, f), D)
    BY <2>6, EndCallbackGoes DEF Goes
  <2>8. Goes(R, EndCallback(A, f), D)
    BY <2>6, <2>7, GoesOn
  <2> QED BY <1>1, <1>3, <2>8, AccBecomes, Accepts
<1> QED BY <1>1, <1>2, <1>3

(* A stream's callback, which reads, closes or finds nothing. *)
LEMMA Reads ==
  ASSUME NEW p, NEW f, NEW s, NEW a, NEW b,
         \/ DG!ReadReady(p, f, s, a, b) \/ Sock!ReadReady(p, f, s, a, b) \/ SSL!ReadReady(p, f, s, a, b)
  PROVE  /\ UNCHANGED <<backlog, connected>>
         /\ \E R \in {a, b, cancle(b, f), proc[p]} : Becomes(p, EndCallback(R, f))
<1>1. CASE DG!ReadReady(p, f, s, a, b)
  <2>1. UNCHANGED <<backlog, connected>>
    BY <1>1 DEF DG!ReadReady
  <2>2. \E R \in {a, b, cancle(b, f)} : DG!Becomes(p, EndCallback(R, f))
    BY <1>1, DGNet DEF DG!ReadReady
  <2> QED BY <2>1, <2>2, DGBecomes
<1>2. CASE Sock!ReadReady(p, f, s, a, b)
  <2>1. UNCHANGED <<backlog, connected>>
    BY <1>2 DEF Sock!ReadReady
  <2>2. \E R \in {a, cancle(b, f)} : Sock!Becomes(p, EndCallback(R, f))
    BY <1>2, SockNet DEF Sock!ReadReady
  <2> QED BY <2>1, <2>2, SockBecomes
<1>3. CASE SSL!ReadReady(p, f, s, a, b)
  <2>1. UNCHANGED <<backlog, connected>>
    BY <1>3 DEF SSL!ReadReady
  <2>2. \E R \in {a, cancle(b, f), proc[p]} : SSL!Becomes(p, EndCallback(R, f))
    BY <1>3, SSLNet DEF SSL!ReadReady
  <2> QED BY <2>1, <2>2, SSLBecomes
<1> QED BY <1>1, <1>2, <1>3

(* The callback of a stream or of a datagram socket, as a step. *)
LEMMA ReadStep ==
  ASSUME NetIInv, ~Pooled, NEW p \in Procs, proc[p].main # "off", NEW f, NEW s \in Socks,
         proc[p].fd[s] \in Fds, Datagrams \/ s # Own, NEW data, app' = app,
         \/ DG!ReadReady(p, f, s, AfterRead(p, s, data), AfterClose(p, s))
         \/ Sock!ReadReady(p, f, s, AfterRead(p, s, data), AfterClose(p, s))
         \/ SSL!ReadReady(p, f, s, AfterRead(p, s, data), AfterClose(p, s))
  PROVE  NetIInv'
<1> DEFINE P == proc[p]
           D == MayClose(p)
<1>1. PICK a, b : a = AfterRead(p, s, data) /\ b = AfterClose(p, s)
  OBVIOUS
<1>2. \/ DG!ReadReady(p, f, s, a, b) \/ Sock!ReadReady(p, f, s, a, b) \/ SSL!ReadReady(p, f, s, a, b)
  BY <1>1
<1>3. UNCHANGED <<backlog, connected>>
  BY <1>2, Reads
<1>4. PICK R \in {a, b, cancle(b, f), P} : Becomes(p, EndCallback(R, f))
  BY <1>2, Reads
<1>5. Sane(P)
  BY SaneProc
<1>6. Goes(P, a, D)
  BY <1>1, OnReadGoes DEF AfterRead
<1>7. Goes(P, b, D) /\ Sane(b)
  BY <1>1, <1>5, OnCloseGoes DEF AfterClose, Goes
<1>8. Goes(b, cancle(b, f), D)
  BY <1>7, CancleGoes
<1>9. Goes(P, cancle(b, f), D) /\ Goes(P, P, D)
  BY <1>5, <1>7, <1>8, GoesOn, GoesSame
<1>10. Goes(P, R, D)
  BY <1>4, <1>6, <1>7, <1>9
<1> QED BY <1>3, <1>4, <1>10, CallbackStep

(* Any callback of the poller. *)
LEMMA CallbackActs ==
  ASSUME NetIInv, NEW p \in Procs, proc[p].main # "off", Callback(p)
  PROVE  NetIInv'
<1>0. ~Pooled /\ app' = app
  BY DEF Callback
<1>1. PICK f \in proc[p].batch : \E s \in {CalledFor(p, f)} :
          CASE s = None -> Becomes(p, EndCallback(proc[p], f))
                                 /\ UNCHANGED <<kernel, out, got, ssl>>
               [] s # None /\ Datagrams ->
                        DG!ReadReady(p, f, s, AfterRead(p, s, Head(inbox[Named(proc[p], s)])), AfterClose(p, s))
                            /\ UNCHANGED ssl
               [] s = Own /\ ~Datagrams -> Acc!AcceptReady(p, f, AfterAccept(p)) /\ UNCHANGED ssl
               [] s \in Streams /\ app = "ssl" ->
                        SSL!ReadReady(p, f, s, AfterRead(p, s, SSL!read(p, s)), AfterClose(p, s))
               [] OTHER ->
                        Sock!ReadReady(p, f, s, AfterRead(p, s, Sock!tryRead(p, s)), AfterClose(p, s))
                            /\ UNCHANGED ssl
  BY DEF Callback
<1> DEFINE s == CalledFor(p, f)
<1>2. \/ s = None /\ Becomes(p, EndCallback(proc[p], f)) /\ UNCHANGED kernel
      \/ /\ s # None /\ Datagrams
         /\ DG!ReadReady(p, f, s, AfterRead(p, s, Head(inbox[Named(proc[p], s)])), AfterClose(p, s))
      \/ s = Own /\ ~Datagrams /\ Acc!AcceptReady(p, f, AfterAccept(p))
      \/ /\ s # None /\ s # Own
         /\ \/ SSL!ReadReady(p, f, s, AfterRead(p, s, SSL!read(p, s)), AfterClose(p, s))
            \/ Sock!ReadReady(p, f, s, AfterRead(p, s, Sock!tryRead(p, s)), AfterClose(p, s))
  BY <1>1, Names
<1> HIDE DEF s
<1>3. s # None => s \in Socks /\ proc[p].fd[s] \in Fds
  BY Called DEF s
<1>4. CASE s = None /\ Becomes(p, EndCallback(proc[p], f)) /\ UNCHANGED kernel
  <2>1. Goes(proc[p], proc[p], MayClose(p))
    BY SaneProc, GoesSame
  <2> QED BY <1>0, <1>4, <2>1, CallbackStep DEF kernel
<1>5. CASE /\ s # None /\ Datagrams
           /\ DG!ReadReady(p, f, s, AfterRead(p, s, Head(inbox[Named(proc[p], s)])), AfterClose(p, s))
  <2>1. PICK data : data = Head(inbox[Named(proc[p], s)])
    OBVIOUS
  <2> QED BY <1>0, <1>3, <1>5, <2>1, ReadStep
<1>6. CASE s = Own /\ ~Datagrams /\ Acc!AcceptReady(p, f, AfterAccept(p))
  <2>1. proc[p].fd[Own] \in Fds
    BY <1>3, <1>6, Names
  <2>2. p = Server
    BY <2>1, Names DEF NetIInv, Proper, Proc, Own
  <2> QED BY <1>0, <1>6, <2>1, <2>2, AcceptStep
<1>7. CASE /\ s # None /\ s # Own
           /\ \/ SSL!ReadReady(p, f, s, AfterRead(p, s, SSL!read(p, s)), AfterClose(p, s))
              \/ Sock!ReadReady(p, f, s, AfterRead(p, s, Sock!tryRead(p, s)), AfterClose(p, s))
  <2>1. PICK d1, d2 : d1 = SSL!read(p, s) /\ d2 = Sock!tryRead(p, s)
    OBVIOUS
  <2>2. \/ SSL!ReadReady(p, f, s, AfterRead(p, s, d1), AfterClose(p, s))
        \/ Sock!ReadReady(p, f, s, AfterRead(p, s, d2), AfterClose(p, s))
    BY <1>7, <2>1
  <2> QED BY <1>0, <1>3, <1>7, <2>2, ReadStep
<1> QED BY <1>2, <1>4, <1>5, <1>6, <1>7

(* The pool servers: the tasks that poll. *)
LEMMA PoolTaskStep ==
  ASSUME NetIInv, NEW p \in Procs, PoolTask(p)
  PROVE  NetIInv'
<1> DEFINE P == proc[p]
           Q == Pop(p)
           t == Head(P.tasks)
           D == MayClose(p)
           R == Register(Q, P.fd[Own], Own)
<1>0. app' = app
  BY DEF PoolTask, rest
<1>1. CASE Pool!FirstTick(p)
  <2>1. /\ IsNext(p, "first") /\ UNCHANGED <<connected, backlog>>
        /\ Pool!Becomes(p, Q) \/ Pool!Becomes(p, AddTask(R, Work))
    BY <1>1, PoolNet DEF Pool!FirstTick, Pool!kernel
  <2>2. Sane(Q) /\ Q.fd = P.fd /\ SoundTask(Q, t) /\ t.op = "first"
    BY <2>1, Takes
  <2>3. Goes(Q, Q, D)
    BY <2>2, GoesSame
  <2>4. Goes(Q, R, D) /\ Sane(R)
    <3>1. Own \in Socks /\ Q.fd[Own] \in Fds
      BY <2>2, Names DEF SoundTask
    <3>2. Goes(Q, R, D)
      BY <2>2, <3>1, RegisterGoes
    <3> QED BY <3>2 DEF Goes
  <2>5. Goes(R, AddTask(R, Work), D)
    BY <2>4, QueueGoes
  <2>6. Goes(Q, AddTask(R, Work), D)
    BY <2>4, <2>5, GoesOn
  <2>7. PICK S : Goes(Q, S, D) /\ Pool!Becomes(p, S)
    BY <2>1, <2>3, <2>6
  <2> QED BY <1>0, <2>1, <2>7, PoolBecomes, TaskStep
<1>2. CASE Pool!Tick(p)
  <2>1. \/ IsNext(p, "work") /\ Pool!Becomes(p, Q) /\ UNCHANGED <<connected, backlog>>
        \/ work(p)
    BY <1>2, PoolNet, PoolWork DEF Pool!Tick, Pool!kernel
  <2>2. CASE work(p)
    BY <1>0, <2>2, WorkStep
  <2>3. CASE IsNext(p, "work") /\ Pool!Becomes(p, Q) /\ UNCHANGED <<connected, backlog>>
    <3>1. Goes(Q, Q, D)
      BY <2>3, Takes, GoesSame
    <3> QED BY <1>0, <2>3, <3>1, PoolBecomes, TaskStep
  <2> QED BY <2>1, <2>2, <2>3
<1> QED BY <1>1, <1>2 DEF PoolTask

(* A pool server drops a client. *)
LEMMA DisconnectGoes ==
  ASSUME NEW P, Sane(P), NEW D, NEW f, NEW s
  PROVE  Goes(P, Pool!Disconnect(P, f, s), D)
<1> DEFINE Q == cancle(P, f)
           map == Restrict(Q.objects, DOMAIN Q.objects \ {s})
<1>1. Goes(P, Q, D) /\ Sane(Q)
  BY CancleGoes DEF Goes
<1>2. Pool!Disconnect(P, f, s) = [Q EXCEPT !.objects = map]
  BY PoolNet DEF Pool!Disconnect
<1> HIDE DEF Q
<1>3. Range(Q.objects) \subseteq Socks
  BY <1>1 DEF Sane, Typed
<1>4. Range(map) \subseteq Socks
  BY <1>3, MapRange
<1>5. Goes(Q, [Q EXCEPT !.objects = map], D)
  BY <1>1, <1>4, ObjectsGoes
<1> QED BY <1>1, <1>2, <1>5, GoesOn

(* The pool servers: an event of a tick. *)
LEMMA PoolEventStep ==
  ASSUME NetIInv, NEW p \in Procs, proc[p].main # "off", PoolEvent(p)
  PROVE  NetIInv'
<1> DEFINE P == proc[p]
           D == MayClose(p)
<1>0. app' = app /\ p = Server /\ ~Datagrams /\ app # "close"
  BY DEF PoolEvent, rest, Pooled, Datagrams
<1>1. PICK f, s : \/ Acc!AcceptReady(p, f, AfterAccept(p))
                  \/ Pool!ReadEvent(p, f, s)
                  \/ Pool!SSLReadEvent(p, f, s)
  <2>1. PICK f \in proc[p].batch : \E s \in {proc[p].callbacks[f]} :
          CASE s = Own -> Acc!AcceptReady(p, f, AfterAccept(p))
            [] s # Own /\ app = "socket" -> Pool!ReadEvent(p, f, s)
            [] s # Own /\ app = "ssl_socket" -> Pool!SSLReadEvent(p, f, s)
    BY DEF PoolEvent
  <2>2. app \in {"socket", "ssl_socket"}
    BY DEF PoolEvent, Pooled
  <2> QED BY <2>1, <2>2
<1>2. CASE Acc!AcceptReady(p, f, AfterAccept(p))
  BY <1>0, <1>2, AcceptStep
<1>3. CASE Pool!ReadEvent(p, f, s) \/ Pool!SSLReadEvent(p, f, s)
  <2>1. /\ UNCHANGED <<connected, backlog>>
        /\ \E R \in {P, Pool!Disconnect(P, f, s)} : Pool!Becomes(p, EndCallback(R, f))
    BY <1>3, PoolNet DEF Pool!ReadEvent, Pool!SSLReadEvent
  <2>2. Sane(P)
    BY SaneProc
  <2>3. Goes(P, P, D) /\ Goes(P, Pool!Disconnect(P, f, s), D)
    BY <2>2, GoesSame, DisconnectGoes
  <2>4. PICK R : Goes(P, R, D) /\ Pool!Becomes(p, EndCallback(R, f))
    BY <2>1, <2>3
  <2> QED BY <1>0, <2>1, <2>4, PoolBecomes, CallbackStep
<1> QED BY <1>1, <1>2, <1>3

(* Handshakes, which the IO thread waits in. *)
LEMMA HandshakeStep ==
  ASSUME NetIInv, NEW p \in Procs,
         ConnectAborts(p) \/ HandshakeAborts(p) \/ ClientHandshake(p) \/ ServerHandshake(p)
  PROVE  NetIInv'
<1> DEFINE P == proc[p]
           D == MayClose(p)
<1>0. app' = app /\ connected' = connected
  BY DEF ConnectAborts, HandshakeAborts, ClientHandshake, ServerHandshake, rest, kernel
<1>1. CASE End(p)
  BY <1>0, <1>1, Ends
<1>2. CASE Becomes(p, [P EXCEPT !.blocked = None]) /\ P.main # "off" /\ backlog' = backlog
  <2>1. Goes(P, [P EXCEPT !.blocked = None], D)
    BY SaneProc, SetGoes
  <2> QED BY <1>0, <1>2, <2>1, BecomesCalls
<1>3. CASE ClientHandshake(p)
  <2> DEFINE Q == [P EXCEPT !.blocked = None, !.promise = "true",
                            !.main = IF Pooled THEN "loop" ELSE @]
  <2>1. /\ P.main # "off" /\ backlog' = backlog /\ proc' = [proc EXCEPT ![p] = Q]
    BY <1>3 DEF ClientHandshake, kernel, Up
  <2>2. Sane(P) /\ DOMAIN P = Fields /\ P.main \in {"off", "wait", "send", "loop", "end"}
    BY SaneProc DEF Sane, Typed
  <2>3. Aside(P, Q) /\ Q.main = (IF Pooled THEN "loop" ELSE P.main)
        /\ Q.promise = "true" /\ Q.blocked = None
    BY <2>2 DEF Aside, Fields
  <2> HIDE DEF Q
  <2>4. Goes(P, Q, D)
    BY <2>1, <2>2, <2>3, AsideGoes
  <2> QED BY <1>0, <2>1, <2>4, Calls
<1>4. CASE ServerHandshake(p)
  <2> DEFINE s == P.blocked
             R == IF Pooled THEN socket_onAccept(P, s) ELSE ssl_onHandShake(P, s)
             Q == [R EXCEPT !.blocked = None]
  <2>1. P.main # "off" /\ s \in Streams /\ backlog' = backlog /\ proc' = [proc EXCEPT ![p] = Q]
    BY <1>4 DEF ServerHandshake, Up
  <2>2. Sane(P) /\ s \in Socks /\ P.fd[s] \in Fds
    BY <2>1, SaneProc, Names DEF Sane, Owns
  <2>3. Goes(P, R, D) /\ Sane(R)
    BY <2>2, AddClientGoes, KeepGoes DEF socket_onAccept, ssl_onHandShake, Goes
  <2> HIDE DEF R
  <2>4. Goes(R, Q, D)
    BY <2>3, SetGoes
  <2>5. Goes(P, Q, D)
    BY <2>3, <2>4, GoesOn
  <2> QED BY <1>0, <2>1, <2>5, Calls
<1> QED BY <1>1, <1>2, <1>3, <1>4 DEF ConnectAborts, HandshakeAborts, Up

(* A step of an IO thread. *)
LEMMA IOStep ==
  ASSUME NetIInv, NEW p \in Procs, IOThread(p)
  PROVE  NetIInv'
<1>1. proc[p].main # "off"
  BY DEF IOThread, Up
<1>2. ASSUME work(p), UNCHANGED rest PROVE NetIInv'
  BY <1>2, WorkStep DEF rest
<1> QED BY <1>1, <1>2, PoolTaskStep, PoolEventStep, CallbackActs, SockStep, SSLStep,
           DataGramStep, ServerStep, FrameStep, HandshakeStep DEF IOThread

-----------------------------------------------------------------------------
(* The main threads. *)

(* A step of a running process that says nothing of descriptors. *)
LEMMA MainStep ==
  ASSUME NetIInv, NEW p \in Procs, NEW Q, Aside(proc[p], Q), proc[p].main # "off",
         Q.main \in {"wait", "send", "loop", "end"}, Q.promise = proc[p].promise,
         Q.blocked = proc[p].blocked,
         proc' = [proc EXCEPT ![p] = Q], UNCHANGED <<app, connected, backlog>>
  PROVE  NetIInv'
<1>1. Sane(proc[p])
  BY SaneProc
<1>2. /\ proc[p].promise \in {"none", "true", "false"}
      /\ proc[p].blocked # None => proc[p].blocked \in Socks /\ proc[p].fd[proc[p].blocked] \in Fds
  BY <1>1 DEF Sane, Typed, Owns
<1>3. Goes(proc[p], Q, MayClose(p))
  BY <1>1, <1>2, AsideGoes
<1> QED BY <1>3, Calls

(* The loop of a pool client. *)
LEMMA LoopStep ==
  ASSUME NetIInv, NEW c \in Clients, ClientLoop(c)
  PROVE  NetIInv'
<1> DEFINE P == proc[c]
<1>0. c \in Procs /\ app' = app /\ connected' = connected
  BY Names DEF ClientLoop, rest, Pool!ClientLoop, Pool!SSLClientLoop, Pool!Exchange
<1>1. \/ Pool!End(c)
      \/ \E n : proc' = [proc EXCEPT ![c].sent = @ + n] /\ UNCHANGED backlog
  BY DEF ClientLoop, Pool!ClientLoop, Pool!SSLClientLoop, Pool!Exchange
<1>2. CASE Pool!End(c)
  BY <1>0, <1>2, PoolEnd, Ends
<1>3. CASE \E n : proc' = [proc EXCEPT ![c].sent = @ + n] /\ UNCHANGED backlog
  <2>1. PICK n : proc' = [proc EXCEPT ![c].sent = @ + n] /\ UNCHANGED backlog
    BY <1>3
  <2> DEFINE Q == [P EXCEPT !.sent = @ + n]
  <2>2. proc' = [proc EXCEPT ![c] = Q]
    BY <2>1
  <2>3. DOMAIN P = Fields
    BY <1>0, SaneProc DEF Sane, Typed
  <2>4. Aside(P, Q) /\ Q.main = P.main /\ Q.promise = P.promise /\ Q.blocked = P.blocked
    BY <2>3 DEF Aside, Fields
  <2> HIDE DEF Q
  <2> QED BY <1>0, <2>1, <2>2, <2>4, Sides
<1> QED BY <1>1, <1>2, <1>3

(* future.get() returns, the next message is sent, the process leaves. *)
LEMMA MainThreadStep ==
  ASSUME NetIInv, NEW p \in Procs, MainThread(p)
  PROVE  NetIInv'
<1> DEFINE P == proc[p]
           D == MayClose(p)
<1>1. CASE Leave(p)
  BY <1>1, Ends DEF Leave, rest
<1>2. CASE p \in Clients /\ ClientLoop(p)
  BY <1>2, LoopStep
<1>3. CASE Connected(p)
  <2> DEFINE Q == IF P.promise = "true" THEN [P EXCEPT !.main = "send"]
                  ELSE [SetExit(P) EXCEPT !.main = "loop"]
  <2>1. /\ P.main # "off" /\ proc' = [proc EXCEPT ![p] = Q]
        /\ UNCHANGED <<app, connected, backlog>>
    BY <1>3 DEF Connected, rest, kernel
  <2>2. DOMAIN P = Fields
    BY SaneProc DEF Sane, Typed
  <2>3. Aside(P, Q) /\ Q.main \in {"send", "loop"} /\ Q.promise = P.promise /\ Q.blocked = P.blocked
    BY <2>2 DEF Aside, Fields, SetExit
  <2> HIDE DEF Q
  <2> QED BY <2>1, <2>3, MainStep
<1>4. CASE p \in Clients /\ SendNext(p)
  <2> DEFINE n == P.sent + 1
             A == [P EXCEPT !.sent = n, !.main = IF n < Sends THEN @ ELSE "loop"]
             B == [P EXCEPT !.main = "loop"]
             s == Link(p)
  <2>1. /\ P.main = "send" /\ UNCHANGED <<app, connected, backlog>>
        /\ \E Q \in {B, SSL!asend(A, s, <<n>>), DG!asend(A, s, Own, <<n>>), Sock!asend(A, s, <<n>>)} :
              proc' = [proc EXCEPT ![p] = Q]
    BY <1>4 DEF SendNext, rest, kernel
  <2>2. Sane(P) /\ DOMAIN P = Fields
    BY SaneProc DEF Sane, Typed
  <2>3. s \in Socks
    BY <1>4 DEF Link, Socks, Streams
  <2>4. /\ Aside(P, A) /\ A.main \in {"send", "loop"} /\ A.promise = P.promise /\ A.blocked = P.blocked
        /\ Aside(P, B) /\ B.main = "loop" /\ B.promise = P.promise /\ B.blocked = P.blocked
    BY <2>1, <2>2 DEF Aside, Fields
  <2> HIDE DEF A, B
  <2>5. Goes(P, A, D) /\ Goes(P, B, D) /\ Sane(A)
    <3>1. /\ P.promise \in {"none", "true", "false"}
          /\ P.blocked # None => P.blocked \in Socks /\ P.fd[P.blocked] \in Fds
      BY <2>2 DEF Sane, Typed, Owns
    <3>2. Goes(P, A, D) /\ Goes(P, B, D)
      BY <2>2, <2>4, <3>1, AsideGoes
    <3> QED BY <3>2 DEF Goes
  <2>6. /\ Goes(A, SSL!asend(A, s, <<n>>), D) /\ Goes(A, DG!asend(A, s, Own, <<n>>), D)
        /\ Goes(A, Sock!asend(A, s, <<n>>), D)
    BY <2>3, <2>5, SendGoes
  <2>7. /\ Goes(P, SSL!asend(A, s, <<n>>), D) /\ Goes(P, DG!asend(A, s, Own, <<n>>), D)
        /\ Goes(P, Sock!asend(A, s, <<n>>), D)
    BY <2>5, <2>6, GoesOn
  <2>8. PICK Q : Goes(P, Q, D) /\ proc' = [proc EXCEPT ![p] = Q]
    BY <2>1, <2>5, <2>7
  <2> QED BY <2>1, <2>8, Calls
<1> QED BY <1>1, <1>2, <1>3, <1>4 DEF MainThread

(* Signals, and what other programs do. *)
LEMMA SignalStep ==
  ASSUME NetIInv, NEW p \in Procs, Interrupt(p) \/ Sigpipe(p)
  PROVE  NetIInv'
<1> DEFINE P == proc[p]
           Q == SetExit(P)
<1>1. CASE Interrupt(p)
  <2>1. proc' = [proc EXCEPT ![p] = Q] /\ UNCHANGED <<app, connected, backlog>>
    BY <1>1 DEF Interrupt, rest, kernel
  <2>2. DOMAIN P = Fields
    BY SaneProc DEF Sane, Typed
  <2>3. Aside(P, Q) /\ Q.main = P.main /\ Q.promise = P.promise /\ Q.blocked = P.blocked
    BY <2>2 DEF Aside, Fields, SetExit
  <2> HIDE DEF Q
  <2> QED BY <2>1, <2>3, Sides
<1>2. CASE Sigpipe(p)
  <2>1. (Sock!End(p) \/ Pool!End(p)) /\ UNCHANGED <<app, connected>>
    BY <1>2 DEF Sigpipe, Sock!Killed, Pool!Killed, rest
  <2> QED BY <2>1, SockEnd, PoolEnd, Ends
<1> QED BY <1>1, <1>2

(* A frame is taken, a datagram comes. *)
LEMMA OutsideStep ==
  ASSUME NetIInv, TakeFrame \/ (\E c \in Clients : Datagram(c))
  PROVE  NetIInv'
<1>1. CASE TakeFrame
  <2> DEFINE P == proc[Server]
             Q == [P EXCEPT !.slot = {}]
  <2>1. proc' = [proc EXCEPT ![Server] = Q] /\ UNCHANGED <<app, connected, backlog>>
    BY <1>1 DEF TakeFrame, kernel
  <2>2. DOMAIN P = Fields
    BY SaneProc, Names DEF Sane, Typed
  <2>3. Aside(P, Q) /\ Q.main = P.main /\ Q.promise = P.promise /\ Q.blocked = P.blocked
    BY <2>2 DEF Aside, Fields
  <2> HIDE DEF Q
  <2> QED BY <2>1, <2>3, Names, Sides
<1>2. CASE \E c \in Clients : Datagram(c)
  <2>1. PICK c \in Clients : Datagram(c)
    BY <1>2
  <2> DEFINE P == proc[c]
             Q == [P EXCEPT !.sent = @ + 1]
  <2>2. proc' = [proc EXCEPT ![c] = Q] /\ UNCHANGED <<app, connected, backlog>>
    BY <2>1 DEF Datagram, rest
  <2>3. c \in Procs /\ DOMAIN P = Fields
    BY SaneProc, Names DEF Sane, Typed
  <2>4. Aside(P, Q) /\ Q.main = P.main /\ Q.promise = P.promise /\ Q.blocked = P.blocked
    BY <2>3 DEF Aside, Fields
  <2> HIDE DEF Q
  <2> QED BY <2>2, <2>3, <2>4, Sides
<1> QED BY <1>1, <1>2

-----------------------------------------------------------------------------
(* The processes start. *)

(* main() goes on. *)
LEMMA MainGoes ==
  ASSUME NEW P, Sane(P), NEW D, NEW m \in {"wait", "send", "loop", "end"}
  PROVE  LET Q == [P EXCEPT !.main = m]
         IN  Goes(P, Q, D) /\ Q.main = m /\ Q.fd = P.fd /\ Q.tasks = P.tasks
<1> DEFINE Q == [P EXCEPT !.main = m]
<1>1. /\ DOMAIN P = Fields /\ P.promise \in {"none", "true", "false"}
      /\ P.blocked # None => P.blocked \in Socks /\ P.fd[P.blocked] \in Fds
  BY DEF Sane, Typed, Owns
<1>2. Aside(P, Q) /\ Q.main = m /\ Q.promise = P.promise /\ Q.blocked = P.blocked
  BY <1>1 DEF Aside, Fields
<1> HIDE DEF Q
<1>3. Goes(P, Q, D)
  BY <1>1, <1>2, AsideGoes
<1> QED BY <1>2, <1>3 DEF Aside, Q

(* The first socket of a process. *)
LEMMA Opened ==
  ASSUME NetIInv, NEW p \in Procs, proc[p].main = "off", NEW s \in Socks, Proc(s) = p
  PROVE  LET R == Open(proc[p], s)
         IN  Sane(R) /\ R.fd[s] \in Fds /\ R.tasks = <<>>
<1> DEFINE P == proc[p]
<1>1. Sane(P) /\ Fresh(P)
  BY DEF NetIInv, Proper
<1>2. \A t \in Socks : P.fd[t] = -1 /\ Keeps(P, t)
  BY <1>1, Names DEF Fresh, Keeps
<1>3. FreeFds(P) # {}
  BY <1>1, FdsAssumption DEF Fresh, FreeFds
<1> QED BY <1>1, <1>2, <1>3, OpenSane DEF Fresh

(* The socket, the first poll, and the state main() waits in. *)
LEMMA PrepareGoes ==
  ASSUME NetIInv, NEW p \in Procs, proc[p].main = "off", NEW s \in Socks, Proc(s) = p,
         NEW m \in {"wait", "send", "loop"}
  PROVE  LET R == Open(proc[p], s)
             Q == Prepare(proc[p], s, m)
         IN  Goes(R, Q, {}) /\ Q.main = m /\ Q.fd[s] \in Fds /\ Sane(Q)
<1> DEFINE R == Open(proc[p], s)
           A == AddTask(R, Work)
           Q == [A EXCEPT !.main = m]
<1>1. Sane(R) /\ R.fd[s] \in Fds
  BY Opened
<1> HIDE DEF R
<1>2. Goes(R, A, {}) /\ A.fd = R.fd
  BY <1>1, QueueGoes, AddFd
<1>3. Sane(A)
  BY <1>2 DEF Goes
<1> HIDE DEF A
<1>4. Goes(A, Q, {}) /\ Q.main = m /\ Q.fd = A.fd
  <2>1. m \in {"wait", "send", "loop", "end"}
    OBVIOUS
  <2> QED BY <1>3, <2>1, MainGoes
<1>5. Goes(R, Q, {})
  BY <1>2, <1>4, GoesOn
<1>6. Sane(Q)
  BY <1>4 DEF Goes
<1> QED BY <1>1, <1>2, <1>4, <1>5, <1>6 DEF Prepare, R, A

(* The servers with an Acceptor start. *)
LEMMA ListenStarts ==
  ASSUME NetIInv, proc[Server].main = "off"
  PROVE  LET R == Open(proc[Server], Own)
             P == Listen(proc[Server])
             Q == AddTask(P, Task("shmread", None, -1, <<>>))
         IN  /\ Goes(R, P, {}) /\ P.main # "off"
             /\ Goes(R, Q, {}) /\ Q.main # "off"
<1> DEFINE R == Open(proc[Server], Own)
           A == Prepare(proc[Server], Own, "loop")
           P == Listen(proc[Server])
           Q == AddTask(P, Task("shmread", None, -1, <<>>))
<1>0. Own \in Socks /\ Proc(Own) = Server /\ Server \in Procs
  BY Names DEF Proc, Own
<1>1. Goes(R, A, {}) /\ A.main = "loop" /\ A.fd[Own] \in Fds /\ Sane(A)
  BY <1>0, PrepareGoes
<1>2. P = Acc!start(A)
  BY DEF Listen, Prepare
<1> HIDE DEF R, A, P
<1>3. Goes(A, P, {})
  BY <1>0, <1>1, <1>2, ListenGoes
<1>4. P.main # "off" /\ Sane(P)
  BY <1>1, <1>3 DEF Goes
<1>5. Goes(P, Q, {})
  BY <1>4, QueueGoes DEF readFromSharedMemory
<1>6. Q.main # "off"
  BY <1>4, <1>5 DEF Goes
<1> QED BY <1>1, <1>3, <1>4, <1>5, <1>6, GoesOn DEF R, P

(* The pool servers start. *)
LEMMA PoolStarts ==
  ASSUME NetIInv, proc[Server].main = "off"
  PROVE  LET Q == FirstPoll(proc[Server])
         IN  Goes(Open(proc[Server], Own), Q, {}) /\ Q.main # "off"
<1> DEFINE R == Open(proc[Server], Own)
           A == AddTask(R, Task("first", None, -1, <<>>))
           Q == [A EXCEPT !.main = "loop"]
<1>0. Own \in Socks /\ Proc(Own) = Server /\ Server \in Procs
  BY Names DEF Proc, Own
<1>1. Sane(R) /\ R.fd[Own] \in Fds
  BY <1>0, Opened
<1> HIDE DEF R
<1>2. Goes(R, A, {})
  BY <1>1, QueueGoes
<1>3. Sane(A)
  BY <1>2 DEF Goes
<1> HIDE DEF A
<1>4. Goes(A, Q, {}) /\ Q.main = "loop"
  BY <1>3, MainGoes
<1>5. Goes(R, Q, {})
  BY <1>2, <1>4, GoesOn
<1> QED BY <1>4, <1>5 DEF FirstPoll, R, A

(* The datagram programs start. *)
LEMMA DatagramStarts ==
  ASSUME NetIInv, NEW p \in Procs, proc[p].main = "off", NEW s \in Socks, Proc(s) = p,
         NEW m \in {"wait", "send", "loop"}
  PROVE  LET Q == DG!startListenReadEvent(Prepare(proc[p], s, m), s)
         IN  Goes(Open(proc[p], s), Q, {}) /\ Q.main # "off"
<1> DEFINE R == Open(proc[p], s)
           A == Prepare(proc[p], s, m)
           Q == DG!startListenReadEvent(A, s)
<1>1. Goes(R, A, {}) /\ A.main = m /\ A.fd[s] \in Fds /\ Sane(A)
  BY PrepareGoes
<1> HIDE DEF R, A
<1>2. Goes(A, Q, {})
  BY <1>1, ListenGoes
<1>3. Q.main # "off"
  BY <1>1, <1>2 DEF Goes
<1>4. Goes(R, Q, {})
  BY <1>1, <1>2, GoesOn
<1> QED BY <1>3, <1>4 DEF R, A

(* A step that starts p without a connect. *)
LEMMA StartGoes ==
  ASSUME NetIInv, NEW p \in Procs, proc[p].main = "off", NEW s \in Socks, Proc(s) = p,
         p = Server => s = Own, NEW Q, Goes(Open(proc[p], s), Q, {}), Q.main # "off",
         proc' = [proc EXCEPT ![p] = Q], UNCHANGED <<app, connected, backlog>>
  PROVE  NetIInv'
<1>1. /\ Proper(p, Q) /\ \A t \in Range(Q.tasks) : t.op \notin Connects \cup Closes
      /\ \A t \in Socks \ {s} : Q.fd[t] = -1
  BY StartProper
<1>2. \A t \in Range(Q.tasks) : t.op \in Connects => p \in Active /\ p \in Clients
  BY <1>1
<1> QED BY <1>1, <1>2, Starts

(* The server starts. *)
LEMMA StartServerStep ==
  ASSUME NetIInv, StartServer
  PROVE  NetIInv'
<1> DEFINE P == proc[Server]
           L == Listen(P)
           LD == AddTask(L, Task("shmread", None, -1, <<>>))
           F == FirstPoll(P)
           DD == DG!startListenReadEvent(Prepare(P, Own, "loop"), Own)
<1>0. Own \in Socks /\ Proc(Own) = Server /\ Server \in Procs
  BY Names DEF Proc, Own
<1>1. /\ P.main = "off" /\ UNCHANGED <<app, connected, backlog>>
      /\ \E Q \in {L, LD, F, DD} : proc' = [proc EXCEPT ![Server] = Q]
  BY Examples DEF StartServer, rest, kernel, Polled, tcp_testTcpServer,
     unix_testUnixDomainStreamServer, ssl_testTcpServer, detach_tcpServer, socket_test_server,
     ssl_test_server, testUDP, testUnixDomainDataGram
<1>2. /\ Goes(Open(P, Own), L, {}) /\ L.main # "off"
      /\ Goes(Open(P, Own), LD, {}) /\ LD.main # "off"
      /\ Goes(Open(P, Own), F, {}) /\ F.main # "off"
      /\ Goes(Open(P, Own), DD, {}) /\ DD.main # "off"
  BY <1>0, <1>1, ListenStarts, PoolStarts, DatagramStarts
<1>3. PICK Q : /\ Goes(Open(P, Own), Q, {}) /\ Q.main # "off"
               /\ proc' = [proc EXCEPT ![Server] = Q]
  BY <1>1, <1>2
<1> QED BY <1>0, <1>1, <1>3, StartGoes

(* A stream client starts: its socket, its poller, its connect. *)
LEMMA ConnectStarts ==
  ASSUME NetIInv, NEW c \in Clients, c \in Active, proc[c].main = "off",
         NEW Q, Q \in {Sock!asyncConnect(Prepare(proc[c], Link(c), "wait"), Link(c)),
                       SSL!asyncConnect(Prepare(proc[c], Link(c), "wait"), Link(c))},
         proc' = [proc EXCEPT ![c] = Q], UNCHANGED <<app, connected, backlog>>
  PROVE  NetIInv'
<1> DEFINE s == Link(c)
           R == Open(proc[c], s)
           A == Prepare(proc[c], s, "wait")
<1>0. c \in Procs /\ c # Server /\ s \in Socks /\ Proc(s) = c
  BY Names, NamesAssumption DEF Link, Socks, Streams, Proc
<1>1. Goes(R, A, {}) /\ A.main = "wait" /\ A.fd[s] \in Fds /\ Sane(A)
  BY <1>0, PrepareGoes
<1>2. /\ Proper(c, A) /\ \A t \in Range(A.tasks) : t.op \notin Connects \cup Closes
      /\ \A t \in Socks \ {s} : A.fd[t] = -1
  BY <1>0, <1>1, StartProper
<1>3. PICK op \in Connects : Q = AddTask(A, Task(op, s, -1, <<>>))
  <2>1. valid(A, s)
    BY <1>0, <1>1, AtFd
  <2> QED BY <2>1, SockNet, SSLNet DEF Sock!asyncConnect, SSL!asyncConnect, Connects
<1> HIDE DEF A
<1> DEFINE t == Task(op, s, -1, <<>>)
<1>4. t.op = op /\ t.who = s /\ op \notin Registers /\ op \notin Closes /\ op # "start" /\ op # "first"
  BY <1>3 DEF Task, Connects, Registers, Closes
<1>5. SoundTask(A, t)
  BY <1>0, <1>1, <1>4, Names DEF SoundTask
<1> HIDE DEF t
<1>6. /\ Sane(Q) /\ Q.main = A.main /\ Q.fd = A.fd /\ Q.table = A.table
      /\ Range(Q.tasks) = Range(A.tasks) \cup {t}
      /\ OneConnect(A) /\ (t.op \in Connects => \A u \in Range(A.tasks) : u.op \notin Connects)
            => OneConnect(Q)
  BY <1>1, <1>3, <1>5, AddSane DEF t
<1>7. OneConnect(Q)
  BY <1>2, <1>6 DEF Proper
<1>8. Proper(c, Q)
  BY <1>1, <1>2, <1>4, <1>6, <1>7 DEF Proper, Keeps
<1>9. \A u \in Socks \ {s} : Q.fd[u] = -1
  BY <1>2, <1>6
<1>10. Q.main # "off"
  BY <1>1, <1>6
<1> QED BY <1>0, <1>8, <1>9, <1>10, Starts

(* A client with a poller starts. *)
LEMMA StartClientStep ==
  ASSUME NetIInv, NEW c \in Clients, StartClient(c)
  PROVE  NetIInv'
<1> DEFINE P == proc[c]
           s == Link(c)
           DD == DG!startListenReadEvent(Prepare(P, s, "send"), s)
           C1 == Sock!asyncConnect(Prepare(P, s, "wait"), s)
           C2 == SSL!asyncConnect(Prepare(P, s, "wait"), s)
<1>0. c \in Procs /\ c # Server /\ s \in Socks /\ Proc(s) = c
  BY Names, NamesAssumption DEF Link, Socks, Streams, Proc
<1>1. /\ P.main = "off" /\ c \in Active /\ UNCHANGED <<app, connected, backlog>>
      /\ \E Q \in {DD, C1, C2} : proc' = [proc EXCEPT ![c] = Q]
  BY Examples DEF StartClient, rest, kernel, Polled, tcp_testTcpClient,
     unix_testUnixDomainStreamClient, ssl_testTcpClient, testUnixDomainDataGram_sub
<1>2. PICK Q \in {DD, C1, C2} : proc' = [proc EXCEPT ![c] = Q]
  BY <1>1
<1>3. CASE Q = DD
  <2>1. Goes(Open(P, s), Q, {}) /\ Q.main # "off"
    BY <1>0, <1>1, <1>3, DatagramStarts
  <2> QED BY <1>0, <1>1, <1>2, <2>1, StartGoes
<1>4. CASE Q \in {C1, C2}
  BY <1>1, <1>2, <1>4, ConnectStarts
<1> QED BY <1>2, <1>3, <1>4

(* A pool client starts with its connect, or ends at once. *)
LEMMA ConnectClientStep ==
  ASSUME NetIInv, NEW c \in Clients, ConnectClient(c)
  PROVE  NetIInv'
<1> DEFINE P == proc[c]
           s == Link(c)
           R == Open(P, s)
           A == [R EXCEPT !.main = "loop"]
           B == [R EXCEPT !.main = "wait", !.blocked = s]
           E == [P EXCEPT !.main = "end"]
<1>0. /\ c \in Procs /\ c # Server /\ s \in Socks /\ Proc(s) = c
      /\ P.main = "off" /\ c \in Active /\ app' = app
  BY Names, NamesAssumption DEF Link, Socks, Streams, Proc, ConnectClient, rest
<1>1. Sane(R) /\ R.fd[s] \in Fds
  BY <1>0, Opened
<1>2. \/ /\ proc' = [proc EXCEPT ![c] = A] \/ proc' = [proc EXCEPT ![c] = B]
         /\ connected' = connected \cup {c} /\ backlog' = Append(backlog, c)
      \/ proc' = [proc EXCEPT ![c] = E] /\ UNCHANGED <<connected, backlog>>
  BY DEF ConnectClient, socket_test_client, ssl_test_client
<1>3. CASE /\ proc' = [proc EXCEPT ![c] = A] \/ proc' = [proc EXCEPT ![c] = B]
           /\ connected' = connected \cup {c} /\ backlog' = Append(backlog, c)
  <2>1. Goes(R, A, {}) /\ A.main = "loop"
    <3> HIDE DEF R
    <3> QED BY <1>1, MainGoes
  <2>2. Goes(R, B, {}) /\ B.main = "wait"
    <3> DEFINE W == [R EXCEPT !.main = "wait"]
    <3>1. B = [W EXCEPT !.blocked = s]
      BY <1>1 DEF Sane, Typed, Fields
    <3> HIDE DEF R
    <3>2. Goes(R, W, {}) /\ W.main = "wait" /\ W.fd = R.fd
      BY <1>1, MainGoes
    <3>3. Sane(W)
      BY <3>2 DEF Goes
    <3> HIDE DEF W
    <3>4. Goes(W, [W EXCEPT !.blocked = s], {})
      BY <1>0, <1>1, <3>2, <3>3, SetGoes
    <3>5. [W EXCEPT !.blocked = s].main = "wait"
      BY <3>2, <3>3 DEF Sane, Typed, Fields
    <3> QED BY <3>1, <3>2, <3>4, <3>5, GoesOn
  <2> HIDE DEF A, B, R
  <2>3. PICK Q : Goes(R, Q, {}) /\ Q.main # "off" /\ proc' = [proc EXCEPT ![c] = Q]
    BY <1>3, <2>1, <2>2
  <2>4. /\ Proper(c, Q) /\ \A t \in Range(Q.tasks) : t.op \notin Connects \cup Closes
        /\ c \notin connected
    BY <1>0, <2>3, StartProper DEF R
  <2>5. Joining(c, Q)'
    BY <2>3, <2>4 DEF Joining
  <2>6. Queued'
    <3>1. Queued /\ proc'[Server] = proc[Server]
      BY <1>0, <2>3, Names DEF NetIInv
    <3> QED BY <1>0, <1>3, <2>4, <3>1, JoinQueue
  <2> QED BY <1>0, <1>3, <2>3, <2>4, <2>5, <2>6, OneStep
<1>4. CASE proc' = [proc EXCEPT ![c] = E] /\ UNCHANGED <<connected, backlog>>
  <2>1. Sane(P) /\ Fresh(P)
    BY <1>0 DEF NetIInv, Proper
  <2>2. Goes(P, E, {}) /\ E.main = "end" /\ E.fd = P.fd /\ E.tasks = P.tasks
    BY <2>1, MainGoes
  <2> HIDE DEF E
  <2>3. /\ \A t \in Socks : E.fd[t] = -1
        /\ Range(E.tasks) = {} /\ E.tasks = <<>>
    BY <2>1, <2>2 DEF Fresh, Range
  <2>4. Proper(c, E)
    BY <2>2, <2>3, Names DEF Proper, Goes, Keeps, OneConnect
  <2> QED BY <1>0, <1>4, <2>2, <2>3, <2>4, Starts
<1> QED BY <1>2, <1>3, <1>4

-----------------------------------------------------------------------------

(* Every step keeps the invariant. *)
LEMMA NetStep == NetIInv /\ [Next]_vars => NetIInv'
<1> SUFFICES ASSUME NetIInv, [Next]_vars PROVE NetIInv'
  OBVIOUS
<1>1. ASSUME UNCHANGED vars PROVE NetIInv'
  <2>1. UNCHANGED <<proc, app, connected, backlog>>
    BY <1>1 DEF vars, net, kernel
  <2>2. Active' = Active /\ \A p : MayClose(p)' = MayClose(p)
    BY <2>1 DEF Active, MayClose, Datagrams
  <2> QED BY <2>1, <2>2 DEF NetIInv, Proper, Joining, Queued
<1>2. ASSUME NEW c \in Clients, StartClient(c) \/ ConnectClient(c) \/ Datagram(c)
      PROVE  NetIInv'
  BY <1>2, StartClientStep, ConnectClientStep, OutsideStep
<1>3. ASSUME NEW p \in Procs, MainThread(p) \/ IOThread(p) \/ Interrupt(p) \/ Sigpipe(p)
      PROVE  NetIInv'
  BY <1>3, MainThreadStep, IOStep, SignalStep
<1> QED BY <1>1, <1>2, <1>3, StartServerStep, OutsideStep DEF Next

(* Through close, destruction, accept and reuse of a number, descriptors and  *)
(* the poller's callbacks stay with the Socket that opened them, in every     *)
(* example program and between any of their threads (socket.cpp, ~Socket,     *)
(* acceptor.cpp, RePoller::append and cancle).                                *)
THEOREM OwnershipCorrect == Spec => []StreamsOwned
<1>1. Spec => []NetIInv
  BY InitInv, NetStep, PTL DEF Spec
<1> QED BY <1>1, InvOwned, PTL
=============================================================================
