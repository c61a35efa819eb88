-------------------------- MODULE FileSystemProofs ---------------------------
(***************************************************************************)
(* Proofs about FileSystem, for any number of threads, keys, files and     *)
(* requests.  The variables of the loop, of the ring, of the files and of  *)
(* AFile have an invariant each; that of the files needs the ring's.  That *)
(* requests are answered and threads end at all is left to the model       *)
(* checker.                                                                *)
(***************************************************************************)
EXTENDS FileSystem, FiniteSetTheorems, SequenceTheorems, WellFoundedInduction, TLAPS

-----------------------------------------------------------------------------
(* The loop *)

ConfigTask == [op : {"add", "del", "find"}, key : Keys, want : BOOLEAN]
LoopTask == ConfigTask \cup {Step}

\* What thread t still has to run.
Queue(t) == batch[t] \o tasks[t]

For(task, key) == task.op # "step" /\ task.key = key

\* Whether key is there after the task.
Leaves(task) == task.op = "add" \/ (task.op = "find" /\ task.want)

\* Each task for key in Q finds what the one before it left, the first of them
\* what is there now (before), and the last leaves what main() expects (after).
Follows(Q, key, before, after) ==
    /\ \A j \in DOMAIN Q :
          For(Q[j], key) /\ (\A i \in DOMAIN Q : i < j => ~For(Q[i], key)) => (Q[j].want <=> before)
    /\ \A i, j \in DOMAIN Q :
          /\ i < j /\ For(Q[i], key) /\ For(Q[j], key)
          /\ \A h \in DOMAIN Q : i < h /\ h < j => ~For(Q[h], key)
          => (Q[j].want <=> Leaves(Q[i]))
    /\ \A i \in DOMAIN Q :
          For(Q[i], key) /\ (\A j \in DOMAIN Q : i < j => ~For(Q[j], key)) => (Leaves(Q[i]) <=> after)
    /\ (\A i \in DOMAIN Q : ~For(Q[i], key)) => (before <=> after)

LoopTypes ==
    /\ tasks \in [Threads -> Seq(LoopTask)]
    /\ batch \in [Threads -> Seq(LoopTask)]
    /\ services \in [Threads -> SUBSET Keys]
    /\ cursor \in [Threads -> Keys \cup {Nowhere}]
    /\ main \in {"new", "run", "join", "end"}
    /\ wanted \subseteq Keys /\ failures \subseteq Keys

\* A task for a key that is not negative is on the one thread of that key, and
\* what is to be deleted was added.
AtHome ==
    \A t \in Threads : \A i \in DOMAIN Queue(t) :
        /\ Queue(t)[i] # Step /\ Queue(t)[i].key >= 0 => doSchedule(Queue(t)[i].key) = t
        /\ Queue(t)[i].op = "del" => Queue(t)[i].want

InStep ==
    main # "end" =>
        \A key \in Keys : key >= 0 =>
            Follows(Queue(doSchedule(key)), key, key \in services[doSchedule(key)], key \in wanted)

\* When main() has joined the threads they have no task.
Ended == main = "end" => \A t \in Threads : batch[t] = <<>> /\ tasks[t] = <<>>

\* While a service processes its events, the thread runs its step task.
InService ==
    \A t \in Threads : cursor[t] # Nowhere =>
        batch[t] # <<>> /\ Head(batch[t]) = Step /\ cursor[t] \in services[t]

LoopIInv == LoopTypes /\ AtHome /\ InStep /\ Ended /\ InService /\ ConfigInOrder

-----------------------------------------------------------------------------
(* The ring *)

Request == [uid : Nat, file : Files, op : {"open", "read", "write", "close"}, fd : Int]
Completed == [uid : Nat, res : Int]

Distinct(S) == \A i, j \in DOMAIN S : S[i].uid = S[j].uid => i = j

Places == <<Uids(requests), sq, ring, Uids(cq), Uids(events), answered, lost>>

\* P divides U in seven.
Divides(P, U) ==
    /\ UNION Range(P) = U
    /\ \A i, j \in DOMAIN P : i # j => P[i] \cap P[j] = {}

\* All of M goes from place a to place b.
Moves(P, Q, a, b, M) ==
    /\ DOMAIN P = 1 .. 7 /\ DOMAIN Q = 1 .. 7 /\ a \in 1 .. 7 /\ b \in 1 .. 7 /\ a # b
    /\ M \subseteq P[a] /\ Q[a] = P[a] \ M /\ Q[b] = P[b] \cup M
    /\ \A i \in 1 .. 7 : i # a /\ i # b => Q[i] = P[i]

RingTypes ==
    /\ requests \in Seq(Request)
    /\ cq \in Seq(Completed) /\ events \in Seq(Completed)
    /\ uids \in Nat \ {0}
    /\ m_used \in Nat
    /\ IsFiniteSet(sq) /\ IsFiniteSet(ring)
    /\ Cardinality(sq) <= Entries
    /\ held \in [Files -> Int]

\* Nothing is listed twice, and there are events only while they are handled.
Once ==
    /\ Distinct(requests) /\ Distinct(cq) /\ Distinct(events)
    /\ phase # "handle" => events = <<>>

\* The contexts are those of the requests that were taken and not answered.
InContext ==
    /\ DOMAIN contexts = sq \cup ring \cup Uids(cq) \cup Uids(events) \cup lost
    /\ \A u \in DOMAIN contexts : contexts[u] \in Request /\ contexts[u].uid = u

RingIInv ==
    /\ RingTypes /\ Once /\ InContext
    /\ Divides(Places, 1 .. uids - 1)
    /\ m_used = Cardinality(sq) + Cardinality(ring) + Len(cq)

-----------------------------------------------------------------------------
(* The files *)

FileTypes ==
    /\ table \in [Fds -> Files \cup {None}]
    /\ held \in [Files -> Fds \cup {-1}]
    /\ closers \subseteq Files

\* Requests without an answer, and results that were not handled.
Pending == Range(requests) \cup Range(contexts)
Results == Range(cq) \cup Range(events)

\* A file is in one request or with main().
OneToken ==
    /\ \A r, s \in Pending : r.file = s.file => r = s
    /\ \A r \in Pending : held[r.file] = -1

Meant(r) ==
    /\ IF r.op = "open" THEN r.fd = -1 ELSE r.fd \in Fds
    /\ r.op = "close" => r.file \in closers

AllMeant ==
    /\ \A r \in Pending : Meant(r)
    /\ \A r \in Pending, e \in Results : e.uid = r.uid /\ r.op = "open" => e.res \in Fds \cup {-1}

\* Request r, or its result, has the number fd.
Carries(r, fd) ==
    \/ r.fd = fd
    \/ r.op = "open" /\ \E e \in Results : e.uid = r.uid /\ e.res = fd

\* File x has the number fd somewhere.
Has(x, fd) == held[x] = fd \/ \E r \in Pending : r.file = x /\ Carries(r, fd)

\* The descriptors of a file that was not closed explicitly are the ones whose
\* number it has.
Owned == ~stolen => \A x \in Files \ closers, fd \in Fds : table[fd] = x <=> Has(x, fd)

FilesIInv == FileTypes /\ OneToken /\ AllMeant /\ Owned /\ StealsOnlyAfterClose

-----------------------------------------------------------------------------
(* AFile *)

Job == [op : {"open", "read", "send", "close"}, path : Paths \cup {NoPath}, own : BOOLEAN]

Uses(job) == job.op \in {"read", "send"}

\* main() has one path in mind (after), each of its reads and sends the path of
\* the call before it, and what is open (before) is the path of the first of them
\* or nothing.
JobsFollow(Q, before, after) ==
    /\ \A j \in DOMAIN Q :
          Q[j].own /\ Uses(Q[j]) /\ (\A i \in DOMAIN Q : i < j => ~Q[i].own) => before \in {NoPath, Q[j].path}
    /\ \A i, j \in DOMAIN Q :
          /\ i < j /\ Q[i].own /\ Q[j].own /\ Uses(Q[j])
          /\ \A h \in DOMAIN Q : i < h /\ h < j => ~Q[h].own
          => Q[j].path = Q[i].path
    /\ \A i \in DOMAIN Q :
          Q[i].own /\ (\A j \in DOMAIN Q : i < j => ~Q[j].own) => Q[i].path = after
    /\ (\A i \in DOMAIN Q : ~Q[i].own) => before \in {NoPath, after}

AFileIInv ==
    /\ queue \in Seq(Job)
    /\ m_file \in Paths \cup {NoPath} /\ last \in Paths \cup {NoPath}
    /\ io \in {"run", "spin", "abort", "end"}
    /\ \A i \in DOMAIN queue : queue[i].own \/ queue[i].op = "read"
    /\ \A i \in DOMAIN queue : queue[i].op = "close" => queue[i].path = NoPath
    /\ reads \in Seq((Paths \cup {NoPath}) \X (Paths \cup {NoPath}))
    /\ JobsFollow(queue, m_file, last) /\ ReadsWhatWasOpened

-----------------------------------------------------------------------------
(* A set of integers above a bound has a smallest one: that is what the map of *)
(* services and the kernel's table choose.                                     *)
LEMMA Smallest ==
    ASSUME NEW T, T # {}, NEW b \in Int, \A k \in T : k \in Int /\ k > b
    PROVE  /\ (CHOOSE k \in T : \A l \in T : k <= l) \in T
           /\ \A l \in T : (CHOOSE k \in T : \A m \in T : k <= m) <= l
<1> DEFINE U == {k - b : k \in T}
           R == OpToRel(<, Nat)
<1>1. U \subseteq Nat /\ U # {}
  OBVIOUS
<1>2. IsWellFoundedOn(R, Nat)
  BY NatLessThanWellFounded
<1>3. \A x, y \in Nat : y < x => <<y, x>> \in R
  BY DEF OpToRel
<1> HIDE DEF U, R
<1>4. PICK x \in U : \A y \in U : ~(<<y, x>> \in R)
  BY <1>1, <1>2, WFMin
<1>5. ASSUME NEW y \in U PROVE x <= y /\ x \in Nat /\ y \in Nat
  <2>1. x \in Nat /\ y \in Nat
    BY <1>1
  <2>2. ~(y < x)
    BY <1>3, <1>4, <2>1, Zenon
  <2> QED BY <2>1, <2>2
<1>6. PICK k \in T : x = k - b
  BY DEF U
<1>7. \A l \in T : l - b \in U
  BY DEF U
<1>8. \A l \in T : k <= l
  BY <1>5, <1>6, <1>7
<1> QED BY <1>8

-----------------------------------------------------------------------------
(* Facts about Follows: a task is queued at the end and taken from the front *)

LEMMA AppendFacts ==
    ASSUME NEW S, NEW Q \in Seq(S), NEW x
    PROVE  /\ Len(Q) \in Nat /\ DOMAIN Q = 1 .. Len(Q)
           /\ DOMAIN Append(Q, x) = 1 .. Len(Q) + 1
           /\ \A i \in 1 .. Len(Q) : Append(Q, x)[i] = Q[i]
           /\ Append(Q, x)[Len(Q) + 1] = x
OBVIOUS

LEMMA TailFacts ==
    ASSUME NEW S, NEW Q \in Seq(S), Q # <<>>
    PROVE  /\ Len(Q) \in Nat \ {0} /\ DOMAIN Q = 1 .. Len(Q) /\ Head(Q) = Q[1]
           /\ DOMAIN Tail(Q) = 1 .. Len(Q) - 1
           /\ \A i \in 1 .. Len(Q) - 1 : Tail(Q)[i] = Q[i + 1]
OBVIOUS

(* A task for another key changes nothing for this one. *)
LEMMA FollowsOther ==
    ASSUME NEW S, NEW Q \in Seq(S), NEW x, NEW key, NEW before, NEW after,
           Follows(Q, key, before, after), ~For(x, key)
    PROVE  Follows(Append(Q, x), key, before, after)
<1> DEFINE R == Append(Q, x)
           n == Len(Q)
<1>1. /\ n \in Nat /\ DOMAIN Q = 1 .. n /\ DOMAIN R = 1 .. n + 1
      /\ \A i \in 1 .. n : R[i] = Q[i]
      /\ ~For(R[n + 1], key)
  BY AppendFacts
<1> HIDE DEF R, n
<1>2. \A i \in DOMAIN R : For(R[i], key) => i \in DOMAIN Q /\ R[i] = Q[i]
  BY <1>1
<1>3. \A i \in DOMAIN Q : i \in DOMAIN R /\ R[i] = Q[i]
  BY <1>1
<1> QED BY <1>2, <1>3 DEF Follows, R

(* A task that expects what the last one leaves follows it. *)
LEMMA FollowsNext ==
    ASSUME NEW S, NEW Q \in Seq(S), NEW x, NEW key, NEW before, NEW after,
           Follows(Q, key, before, after), For(x, key), x.want <=> after
    PROVE  Follows(Append(Q, x), key, before, Leaves(x))
<1> DEFINE R == Append(Q, x)
           n == Len(Q)
<1>1. /\ n \in Nat /\ DOMAIN Q = 1 .. n /\ DOMAIN R = 1 .. n + 1
      /\ \A i \in 1 .. n : R[i] = Q[i]
      /\ R[n + 1] = x
  BY AppendFacts
<1> HIDE DEF R, n
<1>2. \A i \in DOMAIN R : i # n + 1 => i \in DOMAIN Q /\ R[i] = Q[i] /\ i < n + 1 /\ ~(n + 1 < i)
  BY <1>1
<1>3. \A i \in DOMAIN Q : i \in DOMAIN R /\ R[i] = Q[i] /\ i # n + 1 /\ i < n + 1
  BY <1>1
<1>4. n + 1 \in DOMAIN R /\ ~(n + 1 < n + 1)
  BY <1>1
<1>5. ASSUME NEW j \in DOMAIN R, For(R[j], key), \A i \in DOMAIN R : i < j => ~For(R[i], key)
      PROVE  R[j].want <=> before
  <2>1. CASE j = n + 1
    <3>1. \A i \in DOMAIN Q : ~For(Q[i], key)
      BY <1>3, <1>5, <2>1
    <3> QED BY <1>1, <2>1, <3>1 DEF Follows
  <2>2. CASE j # n + 1
    BY <1>2, <1>3, <1>5, <2>2 DEF Follows
  <2> QED BY <2>1, <2>2
<1>6. ASSUME NEW i \in DOMAIN R, NEW j \in DOMAIN R, i < j, For(R[i], key), For(R[j], key),
             \A h \in DOMAIN R : i < h /\ h < j => ~For(R[h], key)
      PROVE  R[j].want <=> Leaves(R[i])
  <2>0. i # n + 1
    BY <1>1, <1>6
  <2>1. CASE j = n + 1
    <3>1. \A h \in DOMAIN Q : i < h => ~For(Q[h], key)
      BY <1>3, <1>6, <2>1
    <3>2. Leaves(Q[i]) <=> after
      BY <1>2, <1>6, <2>0, <3>1 DEF Follows
    <3> QED BY <1>1, <1>2, <2>0, <2>1, <3>2
  <2>2. CASE j # n + 1
    BY <1>2, <1>3, <1>6, <2>0, <2>2 DEF Follows
  <2> QED BY <2>1, <2>2
<1>7. ASSUME NEW i \in DOMAIN R, For(R[i], key), \A j \in DOMAIN R : i < j => ~For(R[j], key)
      PROVE  Leaves(R[i]) <=> Leaves(x)
  BY <1>1, <1>2, <1>4, <1>7
<1>8. ~(\A i \in DOMAIN R : ~For(R[i], key))
  BY <1>1, <1>4
<1> QED BY <1>5, <1>6, <1>7, <1>8 DEF Follows, R

(* Taking a task for another key changes nothing for this one. *)
LEMMA FollowsSkip ==
    ASSUME NEW S, NEW Q \in Seq(S), Q # <<>>, NEW key, NEW before, NEW after,
           Follows(Q, key, before, after), ~For(Head(Q), key)
    PROVE  Follows(Tail(Q), key, before, after)
<1> DEFINE R == Tail(Q)
           n == Len(Q)
<1>1. /\ n \in Nat \ {0} /\ DOMAIN Q = 1 .. n /\ DOMAIN R = 1 .. n - 1 /\ ~For(Q[1], key)
      /\ \A i \in 1 .. n - 1 : R[i] = Q[i + 1]
  BY TailFacts
<1> HIDE DEF R, n
<1>2. /\ \A i \in DOMAIN R : i \in Int /\ i + 1 \in DOMAIN Q /\ R[i] = Q[i + 1]
      /\ \A i \in DOMAIN Q : i \in Int /\ (i # 1 => i - 1 \in DOMAIN R /\ R[i - 1] = Q[i])
  BY <1>1
<1>3. ASSUME NEW j \in DOMAIN R, For(R[j], key), \A i \in DOMAIN R : i < j => ~For(R[i], key)
      PROVE  R[j].want <=> before
  <2>1. \A i \in DOMAIN Q : i < j + 1 => ~For(Q[i], key)
    <3> SUFFICES ASSUME NEW i \in DOMAIN Q, i < j + 1, i # 1 PROVE ~For(Q[i], key)
      BY <1>1
    <3>1. i - 1 \in DOMAIN R /\ R[i - 1] = Q[i] /\ i - 1 < j
      BY <1>2
    <3> QED BY <1>3, <3>1
  <2> QED BY <1>2, <1>3, <2>1 DEF Follows
<1>4. ASSUME NEW i \in DOMAIN R, NEW j \in DOMAIN R, i < j, For(R[i], key), For(R[j], key),
             \A h \in DOMAIN R : i < h /\ h < j => ~For(R[h], key)
      PROVE  R[j].want <=> Leaves(R[i])
  <2>1. \A h \in DOMAIN Q : i + 1 < h /\ h < j + 1 => ~For(Q[h], key)
    <3> SUFFICES ASSUME NEW h \in DOMAIN Q, i + 1 < h, h < j + 1 PROVE ~For(Q[h], key)
      OBVIOUS
    <3>1. h - 1 \in DOMAIN R /\ R[h - 1] = Q[h] /\ i < h - 1 /\ h - 1 < j
      BY <1>1, <1>2
    <3> QED BY <1>4, <3>1
  <2>2. i + 1 < j + 1
    BY <1>2, <1>4
  <2> QED BY <1>2, <1>4, <2>1, <2>2 DEF Follows
<1>5. ASSUME NEW i \in DOMAIN R, For(R[i], key), \A j \in DOMAIN R : i < j => ~For(R[j], key)
      PROVE  Leaves(R[i]) <=> after
  <2>1. \A h \in DOMAIN Q : i + 1 < h => ~For(Q[h], key)
    <3> SUFFICES ASSUME NEW h \in DOMAIN Q, i + 1 < h PROVE ~For(Q[h], key)
      OBVIOUS
    <3>1. h - 1 \in DOMAIN R /\ R[h - 1] = Q[h] /\ i < h - 1
      BY <1>1, <1>2
    <3> QED BY <1>5, <3>1
  <2> QED BY <1>2, <1>5, <2>1 DEF Follows
<1>6. (\A i \in DOMAIN R : ~For(R[i], key)) => (before <=> after)
  <2>1. (\A i \in DOMAIN R : ~For(R[i], key)) => (\A i \in DOMAIN Q : ~For(Q[i], key))
    BY <1>1, <1>2
  <2> QED BY <2>1 DEF Follows
<1> QED BY <1>3, <1>4, <1>5, <1>6 DEF Follows, R

(* The next task finds what it expects, and the others follow what it leaves. *)
LEMMA FollowsTail ==
    ASSUME NEW S, NEW Q \in Seq(S), Q # <<>>, NEW key, NEW before, NEW after,
           Follows(Q, key, before, after), For(Head(Q), key)
    PROVE  /\ Head(Q).want <=> before
           /\ Follows(Tail(Q), key, Leaves(Head(Q)), after)
<1> DEFINE R == Tail(Q)
           n == Len(Q)
<1>1. /\ n \in Nat \ {0} /\ DOMAIN Q = 1 .. n /\ DOMAIN R = 1 .. n - 1 /\ For(Q[1], key)
      /\ \A i \in 1 .. n - 1 : R[i] = Q[i + 1]
      /\ Head(Q) = Q[1]
  BY TailFacts
<1> HIDE DEF R, n
<1>2. /\ \A i \in DOMAIN R : i \in Int /\ i + 1 \in DOMAIN Q /\ R[i] = Q[i + 1] /\ 1 < i + 1
      /\ \A i \in DOMAIN Q : i \in Int /\ 1 <= i /\ (i # 1 => i - 1 \in DOMAIN R /\ R[i - 1] = Q[i])
      /\ 1 \in DOMAIN Q
  BY <1>1
<1>3. Q[1].want <=> before
  <2>1. \A i \in DOMAIN Q : ~(i < 1)
    BY <1>1
  <2> QED BY <1>1, <1>2, <2>1 DEF Follows
<1>4. ASSUME NEW j \in DOMAIN R, For(R[j], key), \A i \in DOMAIN R : i < j => ~For(R[i], key)
      PROVE  R[j].want <=> Leaves(Q[1])
  <2>1. \A i \in DOMAIN Q : 1 < i /\ i < j + 1 => ~For(Q[i], key)
    <3> SUFFICES ASSUME NEW i \in DOMAIN Q, i < j + 1, 1 < i PROVE ~For(Q[i], key)
      OBVIOUS
    <3>1. i - 1 \in DOMAIN R /\ R[i - 1] = Q[i] /\ i - 1 < j
      BY <1>2
    <3> QED BY <1>4, <3>1
  <2> QED BY <1>1, <1>2, <1>4, <2>1 DEF Follows
<1>5. ASSUME NEW i \in DOMAIN R, NEW j \in DOMAIN R, i < j, For(R[i], key), For(R[j], key),
             \A h \in DOMAIN R : i < h /\ h < j => ~For(R[h], key)
      PROVE  R[j].want <=> Leaves(R[i])
  <2>1. \A h \in DOMAIN Q : i + 1 < h /\ h < j + 1 => ~For(Q[h], key)
    <3> SUFFICES ASSUME NEW h \in DOMAIN Q, i + 1 < h, h < j + 1 PROVE ~For(Q[h], key)
      OBVIOUS
    <3>1. h - 1 \in DOMAIN R /\ R[h - 1] = Q[h] /\ i < h - 1 /\ h - 1 < j
      BY <1>1, <1>2
    <3> QED BY <1>5, <3>1
  <2>2. i + 1 < j + 1
    BY <1>2, <1>5
  <2> QED BY <1>2, <1>5, <2>1, <2>2 DEF Follows
<1>6. ASSUME NEW i \in DOMAIN R, For(R[i], key), \A j \in DOMAIN R : i < j => ~For(R[j], key)
      PROVE  Leaves(R[i]) <=> after
  <2>1. \A h \in DOMAIN Q : i + 1 < h => ~For(Q[h], key)
    <3> SUFFICES ASSUME NEW h \in DOMAIN Q, i + 1 < h PROVE ~For(Q[h], key)
      OBVIOUS
    <3>1. h - 1 \in DOMAIN R /\ R[h - 1] = Q[h] /\ i < h - 1
      BY <1>1, <1>2
    <3> QED BY <1>6, <3>1
  <2> QED BY <1>2, <1>6, <2>1 DEF Follows
<1>7. (\A i \in DOMAIN R : ~For(R[i], key)) => (Leaves(Q[1]) <=> after)
  <2>1. (\A i \in DOMAIN R : ~For(R[i], key)) => (\A i \in DOMAIN Q : 1 < i => ~For(Q[i], key))
    BY <1>1, <1>2
  <2> QED BY <1>1, <1>2, <2>1 DEF Follows
<1> QED BY <1>1, <1>3, <1>4, <1>5, <1>6, <1>7 DEF Follows, R

-----------------------------------------------------------------------------
(* The steps of the loop *)

LEMMA ThreadFacts ==
    /\ \A key \in Keys : doScheduleU(key) \in Threads /\ doSchedule(key) \in Threads
    /\ \A key \in Keys : key >= 0 => doScheduleU(key) = doSchedule(key)
<1>1. ASSUME NEW key \in Keys PROVE doScheduleU(key) \in Threads /\ doSchedule(key) \in Threads
  <2>1. key \in Int /\ NThreads \in Nat \ {0} /\ 2^Width \in Nat \ {0}
    BY LoopAssumption
  <2>2. key % 2^Width \in Nat
    BY <2>1
  <2>3. (key % 2^Width) % NThreads \in 0 .. NThreads - 1
    BY <2>1, <2>2
  <2>4. (IF key < 0 THEN -key ELSE key) \in Nat
    BY <2>1
  <2>5. (IF key < 0 THEN -key ELSE key) % NThreads \in 0 .. NThreads - 1
    BY <2>1, <2>4
  <2> QED BY <2>3, <2>5 DEF doScheduleU, doSchedule, Threads
<1>2. ASSUME NEW key \in Keys, key >= 0 PROVE doScheduleU(key) = doSchedule(key)
  <2>1. key \in Nat /\ 2^Width \in Nat \ {0} /\ key < 2^Width
    BY <1>2, LoopAssumption
  <2>2. key % 2^Width = key
    BY <2>1
  <2> QED BY <2>1, <2>2 DEF doScheduleU, doSchedule
<1> QED BY <1>1, <1>2

(* Two parts of a queue: adding to the second and taking from the first. *)
LEMMA QueueParts ==
    ASSUME NEW S, NEW b \in Seq(S), NEW c \in Seq(S), NEW x \in S
    PROVE  /\ b \o c \in Seq(S) /\ b \o Append(c, x) = Append(b \o c, x)
           /\ b # <<>> =>
                 /\ b \o c # <<>> /\ Head(b \o c) = Head(b) /\ Head(b) \in S
                 /\ Tail(b) \in Seq(S) /\ Tail(b) \o c = Tail(b \o c)
                 /\ Tail(b) \o Append(c, x) = Append(Tail(b \o c), x)
<1>1. b \o c \in Seq(S) /\ <<x>> \in Seq(S)
  OBVIOUS
<1>2. ASSUME NEW a \in Seq(S) PROVE a \o Append(c, x) = Append(a \o c, x)
  <2>1. Append(c, x) = c \o <<x>> /\ a \o c \in Seq(S) /\ Append(a \o c, x) = a \o c \o <<x>>
    BY AppendIsConcat
  <2> QED BY <1>1, <2>1, ConcatAssociative
<1>3. ASSUME b # <<>>
      PROVE  /\ b \o c # <<>> /\ Head(b \o c) = Head(b) /\ Head(b) \in S
             /\ Tail(b) \in Seq(S) /\ Tail(b) \o c = Tail(b \o c)
  <2>1. Len(b) \in Nat \ {0} /\ Tail(b) \in Seq(S) /\ Head(b) \in S /\ Len(c) \in Nat
    BY <1>3, HeadTailProperties
  <2>2. b \o c # <<>> /\ Head(b \o c) = Head(b)
    BY <1>1, <2>1
  <2> DEFINE l == Tail(b) \o c
             r == Tail(b \o c)
  <2>3. /\ l \in Seq(S) /\ Len(l) = Len(b) - 1 + Len(c)
        /\ r \in Seq(S) /\ Len(r) = Len(b) + Len(c) - 1
    BY <1>1, <2>1, <2>2
  <2>4. ASSUME NEW i \in 1 .. Len(l) PROVE l[i] = r[i]
    BY <1>1, <1>3, <2>1, <2>2, <2>3
  <2> HIDE DEF l, r
  <2>5. Len(l) = Len(r)
    BY <2>1, <2>3
  <2>6. l = r
    BY <2>3, <2>4, <2>5, SeqEqual
  <2> QED BY <2>1, <2>2, <2>6 DEF l, r
<1> QED BY <1>1, <1>2, <1>3

LEMMA QueueFacts ==
    ASSUME LoopTypes, NEW t \in Threads
    PROVE  /\ batch[t] \in Seq(LoopTask) /\ tasks[t] \in Seq(LoopTask) /\ Queue(t) \in Seq(LoopTask)
           /\ \A x \in LoopTask : batch[t] \o Append(tasks[t], x) = Append(Queue(t), x)
           /\ batch[t] # <<>> =>
                 /\ Queue(t) # <<>> /\ Head(Queue(t)) = Head(batch[t]) /\ Head(batch[t]) \in LoopTask
                 /\ Tail(batch[t]) \in Seq(LoopTask) /\ Tail(batch[t]) \o tasks[t] = Tail(Queue(t))
                 /\ \A x \in LoopTask : Tail(batch[t]) \o Append(tasks[t], x) = Append(Tail(Queue(t)), x)
<1> DEFINE b == batch[t]
           c == tasks[t]
<1>1. b \in Seq(LoopTask) /\ c \in Seq(LoopTask) /\ Queue(t) = b \o c
  BY DEF LoopTypes, Queue
<1> HIDE DEF b, c
<1>2. Step \in LoopTask
  BY DEF LoopTask
<1> SUFFICES
      /\ b \o c \in Seq(LoopTask)
      /\ \A x \in LoopTask : b \o Append(c, x) = Append(b \o c, x)
      /\ b # <<>> =>
            /\ b \o c # <<>> /\ Head(b \o c) = Head(b) /\ Head(b) \in LoopTask
            /\ Tail(b) \in Seq(LoopTask) /\ Tail(b) \o c = Tail(b \o c)
            /\ \A x \in LoopTask : Tail(b) \o Append(c, x) = Append(Tail(b \o c), x)
  BY <1>1 DEF b, c
<1>3. b \o c \in Seq(LoopTask)
  BY <1>1, <1>2, QueueParts
<1>4. \A x \in LoopTask : b \o Append(c, x) = Append(b \o c, x)
  BY <1>1, QueueParts
<1>5. b # <<>> => /\ b \o c # <<>> /\ Head(b \o c) = Head(b) /\ Head(b) \in LoopTask
                  /\ Tail(b) \in Seq(LoopTask) /\ Tail(b) \o c = Tail(b \o c)
  BY <1>1, <1>2, QueueParts
<1>6. ASSUME b # <<>>, NEW x \in LoopTask PROVE Tail(b) \o Append(c, x) = Append(Tail(b \o c), x)
  BY <1>1, <1>6, QueueParts
<1> QED BY <1>3, <1>4, <1>5, <1>6

(* A task that runs in the loop is a step, or for a key. *)
LEMMA TaskFacts ==
    ASSUME NEW x \in LoopTask
    PROVE  /\ x = Step => x.op = "step"
           /\ x # Step => x \in ConfigTask /\ x.op \in {"add", "del", "find"} /\ x.key \in Keys
           /\ \A key : ~For(Step, key)
           /\ Step.op = "step"
BY DEF LoopTask, ConfigTask, Step, For

LEMMA LoopInitOK == LoopInit => LoopIInv
<1> SUFFICES ASSUME LoopInit PROVE LoopIInv
  OBVIOUS
<1>1. <<>> \in Seq(LoopTask)
  OBVIOUS
<1>2. LoopTypes
  BY <1>1 DEF LoopInit, LoopTypes
<1>3. \A t \in Threads : Queue(t) = <<>>
  BY DEF LoopInit, Queue
<1>4. AtHome
  BY <1>3 DEF AtHome
<1>5. InStep
  BY <1>3, ThreadFacts DEF InStep, Follows, LoopInit
<1>6. Ended /\ InService /\ ConfigInOrder
  BY DEF LoopInit, Ended, InService, ConfigInOrder
<1> QED BY <1>2, <1>4, <1>5, <1>6 DEF LoopIInv

(* start gives every thread its step task. *)
LEMMA StartStep == ASSUME LoopIInv, start PROVE LoopIInv'
<1>0. LoopTypes /\ AtHome /\ InStep /\ InService /\ ConfigInOrder
  BY DEF LoopIInv
<1>1. /\ main = "new" /\ main' = "run" /\ UNCHANGED <<batch, cursor, services, wanted, failures>>
      /\ tasks' = [t \in Threads |-> Append(tasks[t], Step)]
  BY DEF start
<1>2. Step \in LoopTask
  BY DEF LoopTask
<1>3. \A t \in Threads : Append(tasks[t], Step) \in Seq(LoopTask)
  BY <1>0, <1>2 DEF LoopTypes
<1>4. LoopTypes'
  BY <1>0, <1>1, <1>3 DEF LoopTypes
<1>5. \A t \in Threads : Queue(t)' = Append(Queue(t), Step) /\ Queue(t) \in Seq(LoopTask)
  BY <1>0, <1>1, <1>2, QueueFacts DEF Queue
<1>6. AtHome'
  <2> SUFFICES ASSUME NEW t \in Threads, NEW i \in DOMAIN Append(Queue(t), Step)
               PROVE  /\ Append(Queue(t), Step)[i] # Step /\ Append(Queue(t), Step)[i].key >= 0
                            => doSchedule(Append(Queue(t), Step)[i].key) = t
                      /\ Append(Queue(t), Step)[i].op = "del" => Append(Queue(t), Step)[i].want
    BY <1>5 DEF AtHome
  <2>1. CASE i \in DOMAIN Queue(t)
    <3>1. Append(Queue(t), Step)[i] = Queue(t)[i]
      BY <1>5, <2>1
    <3> QED BY <1>0, <2>1, <3>1 DEF AtHome
  <2>2. CASE i \notin DOMAIN Queue(t)
    <3>1. Append(Queue(t), Step)[i] = Step
      BY <1>5, <2>2
    <3> QED BY <1>2, <3>1, TaskFacts
  <2> QED BY <2>1, <2>2
<1>7. InStep'
  <2> SUFFICES ASSUME NEW key \in Keys, key >= 0
               PROVE  Follows(Append(Queue(doSchedule(key)), Step), key, key \in services[doSchedule(key)], key \in wanted)
    BY <1>1, <1>5, ThreadFacts DEF InStep
  <2>1. doSchedule(key) \in Threads /\ Queue(doSchedule(key)) \in Seq(LoopTask)
    BY <1>5, ThreadFacts
  <2>2. Follows(Queue(doSchedule(key)), key, key \in services[doSchedule(key)], key \in wanted)
    BY <1>0, <1>1 DEF InStep
  <2>3. ~For(Step, key)
    BY <1>2, TaskFacts
  <2> QED BY <2>1, <2>2, <2>3, FollowsOther
<1>8. Ended' /\ InService' /\ ConfigInOrder'
  BY <1>0, <1>1 DEF Ended, InService, ConfigInOrder
<1> QED BY <1>4, <1>6, <1>7, <1>8 DEF LoopIInv

(* A configuration call of main() queues its task behind all earlier ones for *)
(* the key, on the one thread that a key has unless it is negative.           *)
LEMMA ConfigStep ==
    ASSUME LoopIInv, NEW key \in Keys,
           addService(key) \/ delService(key) \/ modService(key) \/ findService(key)
    PROVE  LoopIInv'
<1>0. LoopTypes /\ AtHome /\ InStep /\ InService /\ ConfigInOrder
  BY DEF LoopIInv
<1>1. PICK t \in Threads, x \in ConfigTask :
         /\ main = "run" /\ UNCHANGED <<batch, cursor, services, main, failures>>
         /\ tasks' = [tasks EXCEPT ![t] = Append(@, x)]
         /\ x.key = key /\ (x.want <=> key \in wanted) /\ (x.op = "del" => x.want)
         /\ key >= 0 => t = doSchedule(key)
         /\ wanted' \subseteq Keys
         /\ key \in wanted' <=> Leaves(x)
         /\ \A k \in Keys : k # key => (k \in wanted' <=> k \in wanted)
  <2> DEFINE Task(op) == [op |-> op, key |-> key, want |-> key \in wanted]
  <2>1. \A op \in {"add", "del", "find"} :
          /\ Task(op) \in ConfigTask /\ Task(op).key = key /\ Task(op).op = op
          /\ Task(op).want <=> key \in wanted
    <3> SUFFICES ASSUME NEW op \in {"add", "del", "find"}
                 PROVE  /\ Task(op) \in ConfigTask /\ Task(op).key = key /\ Task(op).op = op
                        /\ Task(op).want <=> key \in wanted
      OBVIOUS
    <3>1. Task(op) \in ConfigTask
      <4>1. (key \in wanted) \in BOOLEAN
        OBVIOUS
      <4> QED BY <4>1 DEF ConfigTask
    <3>2. Task(op).key = key /\ Task(op).op = op
      OBVIOUS
    <3>3. Task(op).want <=> key \in wanted
      OBVIOUS
    <3> QED BY <3>1, <3>2, <3>3
  <2>2. doScheduleU(key) \in Threads /\ doSchedule(key) \in Threads
        /\ (key >= 0 => doScheduleU(key) = doSchedule(key)) /\ wanted \subseteq Keys
    BY <1>0, ThreadFacts DEF LoopTypes
  <2>3. ASSUME NEW op \in {"add", "del", "find"}, NEW t \in Threads, addServiceConfigTask(t, op, key)
        PROVE  /\ main = "run" /\ UNCHANGED <<batch, cursor, services, main, failures>>
               /\ tasks' = [tasks EXCEPT ![t] = Append(@, Task(op))]
    BY <2>3 DEF addServiceConfigTask, addTask
  <2> HIDE DEF Task
  <2>4. CASE addService(key)
    <3>1. addServiceConfigTask(doScheduleU(key), "add", key) /\ wanted' = wanted \cup {key}
      BY <2>4 DEF addService
    <3>2. Leaves(Task("add"))
      BY <2>1 DEF Leaves
    <3>3. Task("add").op # "del"
      BY <2>1
    <3> QED BY <2>1, <2>2, <2>3, <3>1, <3>2, <3>3
  <2>5. CASE delService(key)
    <3>1. addServiceConfigTask(doSchedule(key), "del", key) /\ wanted' = wanted \ {key} /\ key \in wanted
      BY <2>5 DEF delService
    <3>2. ~Leaves(Task("del"))
      BY <2>1 DEF Leaves
    <3> QED BY <2>1, <2>2, <2>3, <3>1, <3>2
  <2>6. CASE modService(key)
    <3>1. addServiceConfigTask(doSchedule(key), "add", key) /\ wanted' = wanted /\ key \in wanted
      BY <2>6 DEF modService
    <3>2. Leaves(Task("add"))
      BY <2>1 DEF Leaves
    <3> QED BY <2>1, <2>2, <2>3, <3>1, <3>2
  <2>7. CASE findService(key)
    <3>1. addServiceConfigTask(doSchedule(key), "find", key) /\ wanted' = wanted
      BY <2>7 DEF findService
    <3>2. Leaves(Task("find")) <=> key \in wanted
      BY <2>1 DEF Leaves
    <3>3. Task("find").op # "del"
      BY <2>1
    <3> QED BY <2>1, <2>2, <2>3, <3>1, <3>2, <3>3
  <2> QED BY <2>4, <2>5, <2>6, <2>7
<1>2. x \in LoopTask /\ x # Step /\ For(x, key) /\ \A k : k # key => ~For(x, k)
  <2>1. x \in LoopTask
    BY DEF LoopTask
  <2>2. x.op # "step" /\ x # Step
    BY DEF ConfigTask, Step
  <2> QED BY <1>1, <2>1, <2>2 DEF For
<1>3. LoopTypes'
  <2>1. Append(tasks[t], x) \in Seq(LoopTask)
    BY <1>0, <1>2 DEF LoopTypes
  <2>2. tasks' \in [Threads -> Seq(LoopTask)]
    BY <1>0, <1>1, <2>1 DEF LoopTypes
  <2> QED BY <1>0, <1>1, <2>2 DEF LoopTypes
<1>4. /\ Queue(t)' = Append(Queue(t), x) /\ \A u \in Threads : Queue(u) \in Seq(LoopTask)
      /\ \A u \in Threads : u # t => Queue(u)' = Queue(u)
  <2>1. tasks'[t] = Append(tasks[t], x) /\ \A u \in Threads : u # t => tasks'[u] = tasks[u]
    BY <1>0, <1>1 DEF LoopTypes
  <2> QED BY <1>0, <1>1, <1>2, <2>1, QueueFacts DEF Queue
<1>5. AtHome'
  <2> SUFFICES ASSUME NEW u \in Threads, NEW i \in DOMAIN Queue(u)'
               PROVE  /\ Queue(u)'[i] # Step /\ Queue(u)'[i].key >= 0 => doSchedule(Queue(u)'[i].key) = u
                      /\ Queue(u)'[i].op = "del" => Queue(u)'[i].want
    BY DEF AtHome
  <2>1. CASE i \in DOMAIN Queue(u)
    <3>1. Queue(u)'[i] = Queue(u)[i]
      BY <1>4, <2>1
    <3> QED BY <1>0, <2>1, <3>1 DEF AtHome
  <2>2. CASE i \notin DOMAIN Queue(u)
    <3>1. u = t /\ Queue(u)'[i] = x
      BY <1>4, <2>2
    <3> QED BY <1>1, <3>1
  <2> QED BY <2>1, <2>2
<1>6. InStep'
  <2> SUFFICES ASSUME NEW k \in Keys, k >= 0
               PROVE  Follows(Queue(doSchedule(k)), k, k \in services[doSchedule(k)], k \in wanted)'
    BY <1>1 DEF InStep
  <2>1. PICK u \in Threads : u = doSchedule(k)
    BY ThreadFacts
  <2>2. Follows(Queue(u), k, k \in services[u], k \in wanted)
    BY <1>0, <1>1, <2>1 DEF InStep
  <2>3. Follows(Queue(u)', k, k \in services[u], k \in wanted')
    <3>1. CASE k = key
      <4>1. u = t /\ For(x, k) /\ (x.want <=> k \in wanted) /\ (k \in wanted' <=> Leaves(x))
        BY <1>1, <1>2, <2>1, <3>1
      <4>2. Follows(Append(Queue(u), x), k, k \in services[u], Leaves(x))
        <5> DEFINE before == k \in services[u]
                   after == k \in wanted
                   Q == Queue(u)
        <5>1. Q \in Seq(LoopTask) /\ Follows(Q, k, before, after) /\ For(x, k) /\ (x.want <=> after)
          BY <1>4, <2>2, <4>1
        <5> HIDE DEF before, after, Q
        <5>2. Follows(Append(Q, x), k, before, Leaves(x))
          BY <5>1, FollowsNext
        <5> QED BY <5>2 DEF before, after, Q
      <4> QED BY <1>4, <4>1, <4>2 DEF Follows
    <3>2. CASE k # key /\ u = t
      <4>1. ~For(x, k) /\ (k \in wanted' <=> k \in wanted)
        BY <1>1, <1>2, <3>2
      <4>2. Follows(Append(Queue(u), x), k, k \in services[u], k \in wanted)
        BY <1>4, <2>2, <4>1, FollowsOther
      <4> QED BY <1>4, <3>2, <4>1, <4>2 DEF Follows
    <3>3. CASE k # key /\ u # t
      <4>1. Queue(u)' = Queue(u) /\ (k \in wanted' <=> k \in wanted)
        BY <1>1, <1>4, <3>3
      <4> QED BY <2>2, <4>1 DEF Follows
    <3> QED BY <3>1, <3>2, <3>3
  <2> QED BY <1>1, <2>1, <2>3
<1>7. Ended' /\ InService' /\ ConfigInOrder'
  BY <1>0, <1>1 DEF Ended, InService, ConfigInOrder
<1> QED BY <1>3, <1>5, <1>6, <1>7 DEF LoopIInv

(* The loop is told to stop, or nothing happens to it. *)
LEMMA LoopQuiet ==
    ASSUME LoopIInv, UNCHANGED <<tasks, batch, cursor, services, wanted, failures>>,
           main' = main \/ (main \in {"new", "run"} /\ main' = "join")
    PROVE  LoopIInv'
<1>1. \A t : Queue(t)' = Queue(t)
  BY DEF Queue
<1>2. LoopTypes' /\ Ended' /\ InService' /\ ConfigInOrder'
  BY DEF LoopIInv, LoopTypes, Ended, InService, ConfigInOrder
<1>3. AtHome' /\ InStep'
  BY <1>1 DEF LoopIInv, AtHome, InStep
<1> QED BY <1>2, <1>3 DEF LoopIInv

(* The threads are joined between two batches and the queues are freed. *)
LEMMA JoinedStep == ASSUME LoopIInv, Joined PROVE LoopIInv'
<1>1. /\ main' = "end" /\ tasks' = [t \in Threads |-> <<>>] /\ \A t \in Threads : batch[t] = <<>>
      /\ UNCHANGED <<batch, cursor, services, wanted, failures>>
  BY DEF Joined
<1>2. LoopTypes'
  <2>1. <<>> \in Seq(LoopTask)
    OBVIOUS
  <2> QED BY <1>1, <2>1 DEF LoopIInv, LoopTypes
<1>3. \A t \in Threads : Queue(t)' = <<>>
  BY <1>1 DEF Queue
<1>4. AtHome' /\ InStep' /\ Ended' /\ InService' /\ ConfigInOrder'
  BY <1>1, <1>3 DEF LoopIInv, AtHome, InStep, Ended, InService, ConfigInOrder
<1> QED BY <1>2, <1>4 DEF LoopIInv

(* A thread takes its whole queue, having run all it had. *)
LEMMA TakeStep == ASSUME LoopIInv, NEW t \in Threads, Take(t) PROVE LoopIInv'
<1>0. LoopTypes /\ AtHome /\ InStep /\ Ended /\ InService /\ ConfigInOrder
  BY DEF LoopIInv
<1>1. /\ batch[t] = <<>> /\ tasks[t] # <<>> /\ batch' = [batch EXCEPT ![t] = tasks[t]]
      /\ tasks' = [tasks EXCEPT ![t] = <<>>]
      /\ UNCHANGED <<cursor, services, main, wanted, failures>>
  BY DEF Take
<1>2. LoopTypes'
  <2>1. <<>> \in Seq(LoopTask)
    OBVIOUS
  <2> QED BY <1>0, <1>1, <2>1 DEF LoopTypes
<1>3. ASSUME NEW u \in Threads PROVE Queue(u)' = Queue(u)
  <2>1. CASE u = t
    <3> DEFINE c == tasks[t]
    <3>1. c \in Seq(LoopTask) /\ batch'[t] = c /\ tasks'[t] = <<>> /\ batch[t] = <<>>
      BY <1>0, <1>1 DEF LoopTypes
    <3> HIDE DEF c
    <3>2. c \o <<>> = <<>> \o c
      BY <3>1, ConcatEmptySeq
    <3> QED BY <2>1, <3>1, <3>2 DEF Queue, c
  <2>2. CASE u # t
    BY <1>0, <1>1, <2>2 DEF Queue, LoopTypes
  <2> QED BY <2>1, <2>2
<1>4. AtHome'
  BY <1>0, <1>3 DEF AtHome
<1>5. InStep'
  BY <1>0, <1>1, <1>3, ThreadFacts DEF InStep
<1>6. Ended'
  BY <1>0, <1>1 DEF Ended
<1>7. InService' /\ ConfigInOrder'
  BY <1>0, <1>1 DEF InService, ConfigInOrder, LoopTypes
<1> QED BY <1>2, <1>4, <1>5, <1>6, <1>7 DEF LoopIInv

(* Shorter queues keep their tasks at home. *)
LEMMA AtHomeTail ==
    ASSUME LoopTypes, AtHome, NEW t \in Threads, batch[t] # <<>>,
           Queue(t)' = Tail(Queue(t)) \/ Queue(t)' = Append(Tail(Queue(t)), Step),
           \A u \in Threads : u # t => Queue(u)' = Queue(u)
    PROVE  AtHome'
<1> SUFFICES ASSUME NEW u \in Threads, NEW i \in DOMAIN Queue(u)'
             PROVE  /\ Queue(u)'[i] # Step /\ Queue(u)'[i].key >= 0 => doSchedule(Queue(u)'[i].key) = u
                    /\ Queue(u)'[i].op = "del" => Queue(u)'[i].want
  BY DEF AtHome
<1>1. CASE u # t
  BY <1>1 DEF AtHome
<1>2. CASE u = t
  <2>1. Queue(t) \in Seq(LoopTask) /\ Queue(t) # <<>>
    BY QueueFacts
  <2>2. Queue(t)'[i] = Step \/ (i + 1 \in DOMAIN Queue(t) /\ Queue(t)'[i] = Queue(t)[i + 1])
    <3>1. CASE Queue(t)' = Tail(Queue(t))
      BY <1>2, <2>1, <3>1
    <3>2. CASE Queue(t)' = Append(Tail(Queue(t)), Step)
      BY <1>2, <2>1, <3>2
    <3> QED BY <3>1, <3>2
  <2>3. Step.op # "del"
    BY DEF Step
  <2> QED BY <1>2, <2>2, <2>3 DEF AtHome
<1> QED BY <1>1, <1>2

(* A thread runs a configuration task: it finds what main() expects. *)
LEMMA RunConfigStep == ASSUME LoopIInv, NEW t \in Threads, RunConfig(t) PROVE LoopIInv'
<1>0. LoopTypes /\ AtHome /\ InStep /\ Ended /\ InService /\ ConfigInOrder
  BY DEF LoopIInv
<1>1. /\ batch[t] # <<>> /\ Head(batch[t]) # Step /\ batch' = [batch EXCEPT ![t] = Tail(@)]
      /\ UNCHANGED <<tasks, cursor, main, wanted>> /\ Config(t, Head(batch[t]))
  BY DEF RunConfig
<1>2. PICK x \in ConfigTask : x = Head(batch[t]) /\ x \in LoopTask /\ x.op \in {"add", "del", "find"} /\ x.key \in Keys
  BY <1>0, <1>1, QueueFacts, TaskFacts
<1>3. /\ Queue(t) \in Seq(LoopTask) /\ Queue(t) # <<>> /\ Head(Queue(t)) = x
      /\ Tail(batch[t]) \in Seq(LoopTask) /\ Tail(batch[t]) \o tasks[t] = Tail(Queue(t))
  BY <1>0, <1>1, <1>2, QueueFacts
<1>4. /\ Queue(t)' = Tail(Queue(t)) /\ \A u \in Threads : u # t => Queue(u)' = Queue(u)
  BY <1>0, <1>1, <1>3 DEF Queue, LoopTypes
<1>5. main # "end"
  BY <1>0, <1>1 DEF Ended
<1>6. PICK key \in Keys : key = x.key
  BY <1>2
<1>7. For(x, key) /\ \A k : k # key => ~For(x, k)
  BY <1>2, <1>6 DEF For
<1>8. key >= 0 =>
        /\ doSchedule(key) = t
        /\ x.want <=> key \in services[t]
        /\ Follows(Tail(Queue(t)), key, Leaves(x), key \in wanted)
  <2> SUFFICES ASSUME key >= 0
               PROVE  /\ doSchedule(key) = t
                      /\ x.want <=> key \in services[t]
                      /\ Follows(Tail(Queue(t)), key, Leaves(x), key \in wanted)
    OBVIOUS
  <2>1. doSchedule(key) = t
    <3>1. 1 \in DOMAIN Queue(t) /\ Queue(t)[1] = x
      BY <1>3
    <3> QED BY <1>0, <1>1, <1>2, <1>6, <3>1 DEF AtHome
  <2> DEFINE before == key \in services[t]
             after == key \in wanted
             Q == Queue(t)
  <2>2. Q \in Seq(LoopTask) /\ Q # <<>> /\ Follows(Q, key, before, after) /\ Head(Q) = x
    BY <1>0, <1>3, <1>5, <2>1 DEF InStep
  <2> HIDE DEF before, after, Q
  <2>3. (x.want <=> before) /\ Follows(Tail(Q), key, Leaves(x), after)
    BY <1>7, <2>2, FollowsTail
  <2> QED BY <2>1, <2>3 DEF before, after, Q
<1>9. (x.op = "del" => x.want) /\ x.want \in BOOLEAN
  <2>1. 1 \in DOMAIN Queue(t) /\ Queue(t)[1] = x
    BY <1>3
  <2> QED BY <1>0, <2>1 DEF AtHome, ConfigTask
<1>10. /\ services' \in [Threads -> SUBSET Keys]
       /\ \A u \in Threads : u # t => services'[u] = services[u]
       /\ \A k \in Keys : k # key => (k \in services'[t] <=> k \in services[t])
       /\ key >= 0 => (key \in services'[t] <=> Leaves(x))
       /\ failures' \subseteq failures \cup {key} /\ (key >= 0 => failures' = failures)
  <2>0. services \in [Threads -> SUBSET Keys]
    BY <1>0 DEF LoopTypes
  <2>1. Config(t, x)
    BY <1>1, <1>2
  <2>2. CASE x.op = "add"
    <3>1. services' = [services EXCEPT ![t] = @ \cup {key}] /\ failures' = failures
      BY <1>6, <2>1, <2>2 DEF Config
    <3>2. Leaves(x)
      BY <2>2 DEF Leaves
    <3> QED BY <2>0, <3>1, <3>2
  <2>3. CASE x.op = "del"
    <3>1. /\ services' = [services EXCEPT ![t] = @ \ {key}]
          /\ failures' = failures \cup (IF key \in services[t] THEN {} ELSE {key})
      BY <1>6, <2>1, <2>3 DEF Config
    <3>2. ~Leaves(x) /\ x.want
      BY <1>9, <2>3 DEF Leaves
    <3> QED BY <1>8, <2>0, <3>1, <3>2
  <2>4. CASE x.op = "find"
    <3>1. /\ services' = services
          /\ failures' = failures \cup (IF (key \in services[t]) = x.want THEN {} ELSE {key})
      BY <1>6, <2>1, <2>4 DEF Config
    <3>2. Leaves(x) <=> x.want
      BY <2>4 DEF Leaves
    <3>3. key >= 0 => (key \in services[t]) = x.want
      BY <1>8, <1>9
    <3> QED BY <1>8, <2>0, <3>1, <3>2, <3>3
  <2> QED BY <1>2, <2>2, <2>3, <2>4
<1>11. LoopTypes'
  BY <1>0, <1>1, <1>3, <1>10 DEF LoopTypes
<1>12. AtHome'
  BY <1>0, <1>1, <1>4, AtHomeTail
<1>13. InStep'
  <2> SUFFICES ASSUME NEW k \in Keys, k >= 0
               PROVE  Follows(Queue(doSchedule(k)), k, k \in services[doSchedule(k)], k \in wanted)'
    BY DEF InStep
  <2>1. PICK u \in Threads : u = doSchedule(k)
    BY ThreadFacts
  <2>2. Follows(Queue(u), k, k \in services[u], k \in wanted)
    BY <1>0, <1>5, <2>1 DEF InStep
  <2>3. Follows(Queue(u)', k, k \in services'[u], k \in wanted)
    <3>1. CASE k = key
      <4>1. u = t /\ (k \in services'[t] <=> Leaves(x)) /\ Follows(Tail(Queue(t)), k, Leaves(x), k \in wanted)
        BY <1>8, <1>10, <2>1, <3>1
      <4> QED BY <1>4, <4>1 DEF Follows
    <3>2. CASE k # key /\ u = t
      <4>1. ~For(Head(Queue(t)), k) /\ (k \in services'[t] <=> k \in services[t])
        BY <1>3, <1>7, <1>10, <3>2
      <4>2. Follows(Tail(Queue(t)), k, k \in services[t], k \in wanted)
        BY <1>3, <2>2, <3>2, <4>1, FollowsSkip
      <4> QED BY <1>4, <3>2, <4>1, <4>2 DEF Follows
    <3>3. CASE k # key /\ u # t
      BY <1>4, <1>10, <2>2, <3>3
    <3>4. CASE k = key /\ u # t
      BY <1>8, <2>1, <3>4
    <3> QED BY <3>1, <3>2, <3>3, <3>4
  <2> QED BY <1>1, <2>1, <2>3
<1>14. Ended'
  BY <1>0, <1>1, <1>5 DEF Ended
<1>15. InService'
  BY <1>0, <1>1, <1>10 DEF InService, LoopTypes
<1>16. ConfigInOrder'
  <2>1. key \in Int
    BY LoopAssumption
  <2> QED BY <1>0, <1>10, <2>1 DEF ConfigInOrder
<1> QED BY <1>11, <1>12, <1>13, <1>14, <1>15, <1>16 DEF LoopIInv

(* A thread goes on to its next service, or ends its step task and queues it *)
(* again behind what was queued meanwhile.                                   *)
LEMMA NextServiceStep == ASSUME LoopIInv, NEW t \in Threads, processEvents(t) \/ Processed(t) PROVE LoopIInv'
<1>0. LoopTypes /\ AtHome /\ InStep /\ Ended /\ InService /\ ConfigInOrder
  BY DEF LoopIInv
<1>1. PICK key \in Int : startNextStep(t, key)
  <2>1. -2^Width \in Int
    BY LoopAssumption
  <2>2. cursor[t] # Nowhere => cursor[t] \in Int
    BY <1>0, LoopAssumption DEF LoopTypes
  <2> QED BY <2>1, <2>2 DEF processEvents, Processed
<1>2. batch[t] # <<>> /\ Head(batch[t]) = Step /\ UNCHANGED <<services, main, wanted, failures>>
  <2>1. CASE processEvents(t)
    <3>1. batch[t] # <<>> /\ Head(batch[t]).op = "step" /\ UNCHANGED <<services, main, wanted, failures>>
      BY <2>1 DEF processEvents, Runs
    <3>2. Head(batch[t]) \in LoopTask
      BY <1>0, <3>1, QueueFacts
    <3> QED BY <3>1, <3>2, TaskFacts
  <2>2. CASE Processed(t)
    BY <1>0, <2>2 DEF Processed, InService
  <2> QED BY <2>1, <2>2
<1>3. Step \in LoopTask
  BY DEF LoopTask
<1>4. main # "end"
  BY <1>0, <1>2 DEF Ended
<1>5. CASE \E k \in services[t] : cursor' = [cursor EXCEPT ![t] = k] /\ UNCHANGED <<batch, tasks>>
  <2>1. \A u : Queue(u)' = Queue(u)
    BY <1>5 DEF Queue
  <2>2. LoopTypes'
    BY <1>0, <1>2, <1>5 DEF LoopTypes
  <2>3. AtHome' /\ InStep' /\ Ended' /\ ConfigInOrder'
    BY <1>0, <1>2, <1>5, <2>1 DEF AtHome, InStep, Ended, ConfigInOrder
  <2>4. InService'
    BY <1>0, <1>2, <1>5 DEF InService, LoopTypes
  <2> QED BY <2>2, <2>3, <2>4 DEF LoopIInv
<1>6. CASE /\ cursor' = [cursor EXCEPT ![t] = Nowhere]
           /\ batch' = [batch EXCEPT ![t] = Tail(@)]
           /\ tasks' = [tasks EXCEPT ![t] = Append(@, Step)]
  <2>1. /\ Queue(t) \in Seq(LoopTask) /\ Queue(t) # <<>> /\ Head(Queue(t)) = Step
        /\ Tail(batch[t]) \in Seq(LoopTask) /\ tasks[t] \in Seq(LoopTask)
        /\ Tail(batch[t]) \o Append(tasks[t], Step) = Append(Tail(Queue(t)), Step)
    BY <1>0, <1>2, <1>3, QueueFacts
  <2>2. /\ Queue(t)' = Append(Tail(Queue(t)), Step) /\ Tail(Queue(t)) \in Seq(LoopTask)
        /\ \A u \in Threads : u # t => Queue(u)' = Queue(u)
    <3>1. Tail(Queue(t)) \in Seq(LoopTask)
      BY <2>1
    <3>2. batch'[t] = Tail(batch[t]) /\ tasks'[t] = Append(tasks[t], Step)
      BY <1>0, <1>6 DEF LoopTypes
    <3>3. \A u \in Threads : u # t => batch'[u] = batch[u] /\ tasks'[u] = tasks[u]
      BY <1>0, <1>6 DEF LoopTypes
    <3> QED BY <2>1, <3>1, <3>2, <3>3 DEF Queue
  <2>3. LoopTypes'
    <3>1. Append(tasks[t], Step) \in Seq(LoopTask)
      BY <1>3, <2>1
    <3> QED BY <1>0, <1>2, <1>6, <2>1, <3>1 DEF LoopTypes
  <2>4. AtHome'
    BY <1>0, <1>2, <2>2, AtHomeTail
  <2>5. InStep'
    <3> SUFFICES ASSUME NEW k \in Keys, k >= 0
                 PROVE  Follows(Queue(doSchedule(k)), k, k \in services[doSchedule(k)], k \in wanted)'
      BY DEF InStep
    <3>1. PICK u \in Threads : u = doSchedule(k)
      BY ThreadFacts
    <3>2. Follows(Queue(u), k, k \in services[u], k \in wanted)
      BY <1>0, <1>4, <3>1 DEF InStep
    <3>3. ~For(Step, k)
      BY <1>3, TaskFacts
    <3>4. CASE u = t
      <4>1. Follows(Tail(Queue(t)), k, k \in services[t], k \in wanted)
        BY <2>1, <3>2, <3>3, <3>4, FollowsSkip
      <4>2. Follows(Append(Tail(Queue(t)), Step), k, k \in services[t], k \in wanted)
        BY <2>2, <3>3, <4>1, FollowsOther
      <4> QED BY <1>2, <2>2, <3>1, <3>4, <4>2
    <3>5. CASE u # t
      BY <1>2, <2>2, <3>1, <3>2, <3>5
    <3> QED BY <3>4, <3>5
  <2>6. Ended' /\ ConfigInOrder'
    BY <1>0, <1>2, <1>4 DEF Ended, ConfigInOrder
  <2>7. InService'
    BY <1>0, <1>2, <1>6 DEF InService, LoopTypes
  <2> QED BY <2>3, <2>4, <2>5, <2>6, <2>7 DEF LoopIInv
<1>7. \/ \E k \in services[t] : cursor' = [cursor EXCEPT ![t] = k] /\ UNCHANGED <<batch, tasks>>
      \/ /\ cursor' = [cursor EXCEPT ![t] = Nowhere]
         /\ batch' = [batch EXCEPT ![t] = Tail(@)]
         /\ tasks' = [tasks EXCEPT ![t] = Append(@, Step)]
  <2> DEFINE later == {k \in services[t] : k > key}
  <2>1. CASE later = {}
    BY <1>1, <2>1 DEF startNextStep, addTask
  <2>2. CASE later # {}
    <3> DEFINE next == CHOOSE k \in later : \A l \in later : k <= l
    <3>1. cursor' = [cursor EXCEPT ![t] = next] /\ UNCHANGED <<batch, tasks>>
      BY <1>1, <2>2 DEF startNextStep
    <3>2. \A k \in later : k \in Int /\ k > key
      BY <1>0, LoopAssumption DEF LoopTypes
    <3> HIDE DEF later
    <3>3. next \in later
      BY <2>2, <3>2, Smallest
    <3> QED BY <3>1, <3>3 DEF later
  <2> QED BY <2>1, <2>2
<1> QED BY <1>5, <1>6, <1>7

(* A callback finds its own service: the map does not change while it runs. *)
LEMMA FindSelfStep == ASSUME LoopIInv, FindSelf PROVE LoopIInv'
<1>1. /\ UNCHANGED <<tasks, batch, cursor, main, wanted>> /\ cursor[IOThread] = IOKey
      /\ Config(IOThread, [op |-> "find", key |-> IOKey, want |-> TRUE])
  BY DEF FindSelf, findServiceInline, Serving
<1>2. IOThread \in Threads /\ IOKey \in Keys /\ IOKey # Nowhere
  BY IOAssumption, LoopAssumption, ThreadFacts DEF IOThread
<1>3. IOKey \in services[IOThread]
  BY <1>1, <1>2 DEF LoopIInv, InService
<1>4. UNCHANGED <<services, failures>>
  BY <1>1, <1>3 DEF Config
<1> QED BY <1>1, <1>4, LoopQuiet

LEMMA LoopStep == LoopIInv /\ [Next]_vars => LoopIInv'
<1> SUFFICES ASSUME LoopIInv, [Next]_vars PROVE LoopIInv'
  OBVIOUS
<1>0. ASSUME UNCHANGED loopVars PROVE LoopIInv'
  BY <1>0, LoopQuiet DEF loopVars
<1>1. CASE Start
  BY <1>1, StartStep DEF Start
<1>2. CASE AddIOService
  BY <1>2, ConfigStep, IOAssumption DEF AddIOService
<1>3. CASE Finish
  <2>1. CASE Destroy
    BY <2>1, LoopQuiet DEF Destroy
  <2> QED BY <1>3, <2>1, JoinedStep DEF Finish
<1>4. ASSUME NEW key \in Keys, Configure(key) PROVE LoopIInv'
  BY <1>4, ConfigStep DEF Configure
<1>5. ASSUME NEW x \in Files, UseFile(x) PROVE LoopIInv'
  BY <1>0, <1>5 DEF UseFile
<1>6. ASSUME NEW t \in Threads, Worker(t) PROVE LoopIInv'
  <2>1. IOThread \in Threads
    BY ThreadFacts, IOAssumption DEF IOThread
  <2>2. CASE LoopThread(t)
    BY <2>2, TakeStep, RunConfigStep, NextServiceStep DEF LoopThread
  <2>3. CASE IOServiceTurn
    BY <1>0, <2>1, <2>3, NextServiceStep DEF IOServiceTurn
  <2> QED BY <1>6, <2>2, <2>3, FindSelfStep DEF Worker
<1>7. CASE Kernel
  BY <1>0, <1>7 DEF Kernel
<1>8. CASE AFileStep
  BY <1>0, <1>8 DEF AFileStep
<1>9. CASE UNCHANGED vars
  BY <1>0, <1>9 DEF vars
<1> QED BY <1>1, <1>2, <1>3, <1>4, <1>5, <1>6, <1>7, <1>8, <1>9 DEF Next

(* Configuration calls take effect in the order main() makes them: findService *)
(* finds what was added and delService erases something, unless the key is     *)
(* negative, whatever the threads and keys.                                    *)
THEOREM ConfigCorrect == Spec => []ConfigInOrder
<1>1. Init => LoopIInv
  BY LoopInitOK DEF Init
<1>2. Spec => []LoopIInv
  BY <1>1, LoopStep, PTL DEF Spec
<1>3. LoopIInv => ConfigInOrder
  BY DEF LoopIInv
<1> QED BY <1>2, <1>3, PTL

-----------------------------------------------------------------------------
(* The ring: what is in a place, and what moves between places *)

LEMMA UidsAppend ==
    ASSUME NEW S, NEW Q \in Seq(S), NEW r
    PROVE  /\ Uids(Append(Q, r)) = Uids(Q) \cup {r.uid}
           /\ Distinct(Q) /\ r.uid \notin Uids(Q) => Distinct(Append(Q, r))
<1> DEFINE R == Append(Q, r)
           n == Len(Q)
<1>1. /\ n \in Nat /\ DOMAIN Q = 1 .. n /\ DOMAIN R = 1 .. n + 1
      /\ \A i \in 1 .. n : R[i] = Q[i]
      /\ R[n + 1] = r
  BY AppendFacts
<1> HIDE DEF R, n
<1>2. Uids(R) = Uids(Q) \cup {r.uid}
  BY <1>1 DEF Uids
<1>3. ASSUME Distinct(Q), r.uid \notin Uids(Q) PROVE Distinct(R)
  <2> SUFFICES ASSUME NEW i \in DOMAIN R, NEW j \in DOMAIN R, R[i].uid = R[j].uid PROVE i = j
    BY DEF Distinct
  <2>1. \A k \in DOMAIN Q : R[k].uid # r.uid
    BY <1>1, <1>3 DEF Uids
  <2> QED BY <1>1, <1>3, <2>1 DEF Distinct
<1> QED BY <1>2, <1>3 DEF R

LEMMA UidsTail ==
    ASSUME NEW S, NEW Q \in Seq(S), Q # <<>>, Distinct(Q)
    PROVE  /\ Uids(Tail(Q)) = Uids(Q) \ {Head(Q).uid}
           /\ Head(Q).uid \in Uids(Q)
           /\ Distinct(Tail(Q))
<1> DEFINE R == Tail(Q)
           n == Len(Q)
<1>1. /\ n \in Nat \ {0} /\ DOMAIN Q = 1 .. n /\ DOMAIN R = 1 .. n - 1 /\ Head(Q) = Q[1]
      /\ \A i \in 1 .. n - 1 : R[i] = Q[i + 1]
  BY TailFacts
<1> HIDE DEF R, n
<1>2. Uids(R) = Uids(Q) \ {Q[1].uid}
  <2>1. ASSUME NEW i \in DOMAIN R PROVE R[i].uid \in Uids(Q) \ {Q[1].uid}
    <3>1. i + 1 \in DOMAIN Q /\ i + 1 # 1 /\ R[i] = Q[i + 1] /\ 1 \in DOMAIN Q
      BY <1>1
    <3> QED BY <3>1 DEF Uids, Distinct
  <2>2. ASSUME NEW i \in DOMAIN Q, Q[i].uid # Q[1].uid PROVE Q[i].uid \in Uids(R)
    <3>1. i - 1 \in DOMAIN R /\ R[i - 1] = Q[i]
      BY <1>1, <2>2
    <3> QED BY <3>1 DEF Uids
  <2> QED BY <2>1, <2>2 DEF Uids
<1>3. Q[1].uid \in Uids(Q)
  BY <1>1 DEF Uids
<1>4. Distinct(R)
  <2> SUFFICES ASSUME NEW i \in DOMAIN R, NEW j \in DOMAIN R, R[i].uid = R[j].uid PROVE i = j
    BY DEF Distinct
  <2>1. i + 1 \in DOMAIN Q /\ j + 1 \in DOMAIN Q /\ Q[i + 1].uid = Q[j + 1].uid /\ i \in Nat /\ j \in Nat
    BY <1>1
  <2>2. i + 1 = j + 1
    BY <2>1 DEF Distinct
  <2> QED BY <2>1, <2>2
<1> QED BY <1>1, <1>2, <1>3, <1>4 DEF R

LEMMA UidsEmpty == Uids(<<>>) = {} /\ Distinct(<<>>)
BY DEF Uids, Distinct

(* The first n uids of a sequence are n. *)
LEMMA UidsCount ==
    ASSUME NEW S, NEW Q \in Seq(S), Distinct(Q), NEW n \in 0 .. Len(Q)
    PROVE  /\ IsFiniteSet({Q[i].uid : i \in 1 .. n})
           /\ Cardinality({Q[i].uid : i \in 1 .. n}) = n
<1> DEFINE T == {Q[i].uid : i \in 1 .. n}
           f == [i \in 1 .. n |-> Q[i].uid]
<1>1. 1 .. n \subseteq DOMAIN Q /\ n \in Nat
  OBVIOUS
<1>2. f \in Bijection(1 .. n, T)
  <2>1. f \in [1 .. n -> T] /\ \A y \in T : \E i \in 1 .. n : f[i] = y
    OBVIOUS
  <2>2. \A i, j \in 1 .. n : f[i] = f[j] => i = j
    BY <1>1 DEF Distinct
  <2> HIDE DEF f, T
  <2> QED BY <2>1, <2>2 DEF Bijection, Injection, IsInjective, Surjection
<1>3. ExistsBijection(1 .. n, T)
  BY <1>2, Zenon DEF ExistsBijection
<1>4. IsFiniteSet(1 .. n) /\ Cardinality(1 .. n) = n
  BY <1>1, FS_Interval
<1> HIDE DEF T
<1>5. IsFiniteSet(T) /\ Cardinality(T) = n
  BY <1>3, <1>4, FS_Bijection
<1> QED BY <1>5 DEF T

LEMMA DividesMove ==
    ASSUME NEW P, NEW Q, NEW U, NEW a, NEW b, NEW M, Divides(P, U), Moves(P, Q, a, b, M)
    PROVE  Divides(Q, U)
<1>0. /\ DOMAIN P = 1 .. 7 /\ DOMAIN Q = 1 .. 7 /\ a \in 1 .. 7 /\ b \in 1 .. 7 /\ a # b
      /\ M \subseteq P[a] /\ Q[a] = P[a] \ M /\ Q[b] = P[b] \cup M
      /\ \A i \in 1 .. 7 : i # a /\ i # b => Q[i] = P[i]
  BY DEF Moves
<1>1. \A i, j \in 1 .. 7 : i # j => P[i] \cap P[j] = {}
  BY <1>0 DEF Divides
<1>2. \A i \in 1 .. 7 : \A x \in Q[i] : x \in P[i] \/ (i = b /\ x \in M)
  BY <1>0
<1>3. \A i \in 1 .. 7 : \A x \in P[i] : x \in Q[i] \/ (i = a /\ x \in Q[b])
  BY <1>0
<1>4. UNION Range(Q) = UNION Range(P)
  <2>1. \A x : (\E i \in 1 .. 7 : x \in Q[i]) <=> (\E i \in 1 .. 7 : x \in P[i])
    BY <1>0, <1>2, <1>3
  <2> QED BY <1>0, <2>1 DEF Range
<1>5. ASSUME NEW i \in 1 .. 7, NEW j \in 1 .. 7, i # j, NEW x \in Q[i], x \in Q[j] PROVE FALSE
  <2>1. i = a => x \notin M
    BY <1>0, <1>5
  <2>2. j = a => x \notin M
    BY <1>0, <1>5
  <2>3. CASE x \in M
    <3>1. i = b /\ j = b
      BY <1>0, <1>1, <1>2, <1>5, <2>1, <2>2, <2>3
    <3> QED BY <1>5, <3>1
  <2>4. CASE x \notin M
    BY <1>1, <1>2, <1>5, <2>4
  <2> QED BY <2>3, <2>4
<1>6. \A i, j \in 1 .. 7 : i # j => Q[i] \cap Q[j] = {}
  BY <1>5
<1> QED BY <1>0, <1>4, <1>6 DEF Divides

LEMMA DividesAdd ==
    ASSUME NEW P, NEW Q, NEW n \in Nat \ {0}, DOMAIN P = 1 .. 7, DOMAIN Q = 1 .. 7,
           Divides(P, 1 .. n - 1), Q[1] = P[1] \cup {n}, \A i \in 2 .. 7 : Q[i] = P[i]
    PROVE  Divides(Q, 1 .. (n + 1) - 1)
<1>1. \A i, j \in 1 .. 7 : i # j => P[i] \cap P[j] = {}
  BY DEF Divides
<1>2. UNION Range(P) = 1 .. n - 1
  BY DEF Divides
<1>3. \A i \in 1 .. 7 : P[i] \subseteq 1 .. n - 1
  BY <1>2 DEF Range
<1>4. \A i \in 1 .. 7 : n \notin P[i]
  BY <1>3
<1>5. 1 .. (n + 1) - 1 = (1 .. n - 1) \cup {n}
  OBVIOUS
<1>6. \A i \in 1 .. 7 : i = 1 \/ i \in 2 .. 7
  OBVIOUS
<1>7. UNION Range(Q) = (UNION Range(P)) \cup {n}
  <2>1. \A x : (\E i \in 1 .. 7 : x \in Q[i]) <=> (x = n \/ \E i \in 1 .. 7 : x \in P[i])
    BY <1>6
  <2> QED BY <2>1 DEF Range
<1>8. \A i, j \in 1 .. 7 : i # j => Q[i] \cap Q[j] = {}
  BY <1>1, <1>4, <1>6
<1> QED BY <1>2, <1>5, <1>7, <1>8 DEF Divides

LEMMA PlaceFacts ==
    /\ DOMAIN Places = 1 .. 7
    /\ Places[1] = Uids(requests) /\ Places[2] = sq /\ Places[3] = ring /\ Places[4] = Uids(cq)
    /\ Places[5] = Uids(events) /\ Places[6] = answered /\ Places[7] = lost
    /\ DOMAIN Places' = 1 .. 7
    /\ Places'[1] = Uids(requests') /\ Places'[2] = sq' /\ Places'[3] = ring' /\ Places'[4] = Uids(cq')
    /\ Places'[5] = Uids(events') /\ Places'[6] = answered' /\ Places'[7] = lost'
    /\ \A i \in 1 .. 7 : i \in {1, 2, 3, 4, 5, 6, 7}
BY DEF Places

(* open returns the lowest number that is free. *)
LEMMA LowestFree ==
    ASSUME Free # {}
    PROVE  /\ (CHOOSE f \in Free : \A g \in Free : f <= g) \in Free
           /\ Free \subseteq Fds /\ Free \subseteq Int
<1>1. 0 \in Int /\ \A k \in Free : k \in Int /\ k > 0
  BY IOAssumption DEF Free
<1>2. \A T, b : T # {} /\ b \in Int /\ (\A k \in T : k \in Int /\ k > b)
                => (CHOOSE f \in T : \A g \in T : f <= g) \in T
  BY Smallest
<1>3. (CHOOSE f \in Free : \A g \in Free : f <= g) \in Free
  BY <1>1, <1>2
<1> QED BY <1>1, <1>3 DEF Free

LEMMA RingInitOK == IOInit => RingIInv
<1> SUFFICES ASSUME IOInit PROVE RingIInv
  OBVIOUS
<1>1. RingTypes
  <2>1. IsFiniteSet({}) /\ Cardinality({}) = 0
    BY FS_EmptySet
  <2> QED BY <2>1, IOAssumption DEF IOInit, RingTypes
<1>2. Once /\ InContext
  BY UidsEmpty DEF IOInit, Once, InContext
<1>3. Divides(Places, 1 .. uids - 1)
  <2>1. \A i \in 1 .. 7 : Places[i] = {}
    BY PlaceFacts, UidsEmpty DEF IOInit
  <2>2. 1 .. uids - 1 = {}
    BY DEF IOInit
  <2> QED BY <2>1, <2>2, PlaceFacts DEF Divides, Range
<1>4. m_used = Cardinality(sq) + Cardinality(ring) + Len(cq)
  BY FS_EmptySet DEF IOInit
<1> QED BY <1>1, <1>2, <1>3, <1>4 DEF RingIInv

(* Steps of main(), of the loop and of AFile that leave the ring alone. *)
LEMMA RingQuiet ==
    ASSUME RingIInv, UNCHANGED ringVars, held' \in [Files -> Int]
    PROVE  RingIInv'
<1>1. UNCHANGED Places
  BY DEF ringVars, Places
<1> QED BY <1>1 DEF RingIInv, RingTypes, Once, InContext, ringVars

(* A request is queued under a uid of its own. *)
LEMMA SubmitStep ==
    ASSUME RingIInv, NEW x \in Files, NEW op \in {"open", "read", "write", "close"}, NEW fd \in Int,
           Submit(x, op, fd), held' \in [Files -> Int],
           UNCHANGED <<contexts, sq, ring, cq, m_used, phase, events, lost, answered>>
    PROVE  RingIInv'
<1>0. RingTypes /\ Once /\ InContext /\ Divides(Places, 1 .. uids - 1)
      /\ m_used = Cardinality(sq) + Cardinality(ring) + Len(cq)
  BY DEF RingIInv
<1>1. PICK r \in Request : r.uid = uids /\ requests' = Append(requests, r) /\ uids' = uids + 1
  BY <1>0 DEF Submit, Request, RingTypes
<1>2. Uids(requests') = Uids(requests) \cup {uids}
  BY <1>0, <1>1, UidsAppend DEF RingTypes
<1>3. uids \notin Uids(requests)
  <2>1. Uids(requests) \subseteq 1 .. uids - 1
    BY <1>0, PlaceFacts DEF Divides, Range
  <2> QED BY <1>0, <2>1 DEF RingTypes
<1>4. Distinct(requests')
  BY <1>0, <1>1, <1>3, UidsAppend DEF RingTypes, Once
<1>5. Divides(Places', 1 .. uids' - 1)
  <2>1. PICK P : P = Places
    OBVIOUS
  <2>2. PICK Q : Q = Places'
    OBVIOUS
  <2>3. PICK n \in Nat \ {0} : n = uids
    BY <1>0 DEF RingTypes
  <2>4. DOMAIN P = 1 .. 7 /\ DOMAIN Q = 1 .. 7
    BY <2>1, <2>2, PlaceFacts
  <2>5. Q[1] = P[1] \cup {n}
    BY <1>2, <2>1, <2>2, <2>3, PlaceFacts
  <2>6. \A i \in 2 .. 7 : Q[i] = P[i]
    BY <2>1, <2>2, PlaceFacts
  <2>7. Divides(P, 1 .. n - 1)
    BY <1>0, <2>1, <2>3
  <2>8. Divides(Q, 1 .. (n + 1) - 1)
    BY <2>4, <2>5, <2>6, <2>7, DividesAdd
  <2> QED BY <1>1, <2>2, <2>3, <2>8
<1>6. RingTypes'
  BY <1>0, <1>1 DEF RingTypes
<1>7. Once' /\ InContext'
  BY <1>0, <1>4 DEF Once, InContext
<1> QED BY <1>0, <1>5, <1>6, <1>7 DEF RingIInv

(* The notifier: the first requests get an entry, for the others there is none. *)
LEMMA NotifierStep == ASSUME RingIInv, Notifier, UNCHANGED held PROVE RingIInv'
<1>0. RingTypes /\ Once /\ InContext /\ Divides(Places, 1 .. uids - 1)
      /\ m_used = Cardinality(sq) + Cardinality(ring) + Len(cq)
  BY DEF RingIInv
<1>1. PICK reqs \in Seq(Request) : reqs = requests
  BY <1>0 DEF RingTypes
<1>2. Cardinality(sq) \in Nat /\ Cardinality(ring) \in Nat
  BY <1>0, FS_CardinalityType DEF RingTypes
<1>3. PICK n \in 0 .. Len(reqs) : n = IF Len(reqs) <= FreeEntries THEN Len(reqs) ELSE FreeEntries
  <2>1. FreeEntries \in Nat
    BY <1>0, <1>2, IOAssumption DEF FreeEntries, RingTypes
  <2> QED BY <2>1
<1>4. n <= Entries - Cardinality(sq)
  BY <1>2, <1>3, IOAssumption DEF FreeEntries
<1>5. PICK first, others : first = {reqs[i].uid : i \in 1 .. n} /\ others = {reqs[i].uid : i \in n + 1 .. Len(reqs)}
  OBVIOUS
<1>6. PICK new : new = {reqs[i].uid : i \in DOMAIN reqs}
  OBVIOUS
<1>7. /\ contexts' = [u \in new \cup DOMAIN contexts |->
                         IF u \in new THEN CHOOSE r \in Range(reqs) : r.uid = u ELSE contexts[u]]
      /\ sq' = sq \cup first /\ lost' = lost \cup others /\ m_used' = m_used + n
  BY <1>1, <1>3, <1>5, <1>6 DEF Notifier, working_request
<1>8. requests' = <<>> /\ phase' = "submit" /\ UNCHANGED <<ring, cq, events, uids, answered>>
      /\ phase = "notify"
  BY DEF Notifier
<1>9. new = first \cup others /\ new = Uids(requests)
  <2>1. DOMAIN reqs = 1 .. Len(reqs) /\ Len(reqs) \in Nat
    OBVIOUS
  <2>2. 1 .. Len(reqs) = (1 .. n) \cup (n + 1 .. Len(reqs))
    BY <2>1
  <2> QED BY <1>1, <1>5, <1>6, <2>1, <2>2 DEF Uids
<1>10. first \cap others = {}
  <2> SUFFICES ASSUME NEW i \in 1 .. n, NEW j \in n + 1 .. Len(reqs), reqs[i].uid = reqs[j].uid PROVE FALSE
    BY <1>5
  <2>1. i \in DOMAIN reqs /\ j \in DOMAIN reqs /\ i # j
    OBVIOUS
  <2> QED BY <1>0, <1>1, <2>1 DEF Once, Distinct
<1>11. IsFiniteSet(first) /\ Cardinality(first) = n
  <2>1. Distinct(reqs)
    BY <1>0, <1>1 DEF Once
  <2> QED BY <1>5, <2>1, UidsCount
<1>12. sq \cap new = {}
  BY <1>0, <1>9, PlaceFacts DEF Divides
<1>13. IsFiniteSet(sq') /\ Cardinality(sq') = Cardinality(sq) + n
  <2>1. IsFiniteSet(sq)
    BY <1>0 DEF RingTypes
  <2>2. sq \cap first = {}
    BY <1>9, <1>12
  <2>3. /\ IsFiniteSet(sq \cup first)
        /\ Cardinality(sq \cup first) = Cardinality(sq) + Cardinality(first) - Cardinality({})
    BY <1>11, <2>1, <2>2, FS_Union
  <2> QED BY <1>2, <1>7, <1>11, <2>3, FS_EmptySet
<1>14. RingTypes'
  <2>1. m_used' \in Nat /\ Cardinality(sq') <= Entries
    BY <1>0, <1>2, <1>4, <1>7, <1>13, IOAssumption DEF RingTypes
  <2> QED BY <1>0, <1>8, <1>13, <2>1 DEF RingTypes
<1>15. Once'
  BY <1>0, <1>8, UidsEmpty DEF Once
<1>16. InContext'
  <2>1. DOMAIN contexts' = (sq \cup ring \cup Uids(cq) \cup Uids(events) \cup lost)'
    BY <1>0, <1>7, <1>8, <1>9 DEF InContext
  <2>2. ASSUME NEW u \in new PROVE contexts'[u] \in Request /\ contexts'[u].uid = u
    <3>1. contexts'[u] = CHOOSE r \in Range(reqs) : r.uid = u
      BY <1>7
    <3>2. \E r \in Range(reqs) : r.uid = u
      BY <1>6 DEF Range
    <3>3. Range(reqs) \subseteq Request
      BY DEF Range
    <3> QED BY <3>1, <3>2, <3>3
  <2>3. ASSUME NEW u \in DOMAIN contexts, u \notin new PROVE contexts'[u] \in Request /\ contexts'[u].uid = u
    BY <1>0, <1>7, <2>3 DEF InContext
  <2> QED BY <1>7, <2>1, <2>2, <2>3 DEF InContext
<1>17. Divides(Places', 1 .. uids' - 1)
  <2>1. PICK P : P = Places
    OBVIOUS
  <2>2. PICK Q : Q = Places'
    OBVIOUS
  <2>3. PICK M : M = <<others, sq \cup first, ring, Uids(cq), Uids(events), answered, lost>>
    OBVIOUS
  <2>4. DOMAIN M = 1 .. 7 /\ M[1] = others /\ M[2] = sq \cup first /\ M[3] = ring /\ M[4] = Uids(cq)
        /\ M[5] = Uids(events) /\ M[6] = answered /\ M[7] = lost
    BY <2>3
  <2>5. DOMAIN P = 1 .. 7 /\ DOMAIN Q = 1 .. 7
    BY <2>1, <2>2, PlaceFacts
  <2>6. Divides(P, 1 .. uids - 1)
    BY <1>0, <2>1
  <2>7. Moves(P, M, 1, 2, first)
    BY <1>9, <1>10, <2>1, <2>4, PlaceFacts DEF Moves
  <2>8. Divides(M, 1 .. uids - 1)
    BY <2>6, <2>7, DividesMove
  <2>9. Moves(M, Q, 1, 7, others)
    <3>1. Q[1] = {} /\ Q[2] = sq \cup first /\ Q[3] = ring /\ Q[4] = Uids(cq) /\ Q[5] = Uids(events)
          /\ Q[6] = answered /\ Q[7] = lost \cup others
      BY <1>7, <1>8, <2>2, PlaceFacts, UidsEmpty
    <3>2. \A i \in 1 .. 7 : i # 1 /\ i # 7 => i \in {2, 3, 4, 5, 6}
      OBVIOUS
    <3>3. \A i \in 1 .. 7 : i # 1 /\ i # 7 => Q[i] = M[i]
      BY <2>4, <3>1, <3>2
    <3>4. others \subseteq M[1] /\ Q[1] = M[1] \ others /\ Q[7] = M[7] \cup others
      BY <2>4, <3>1
    <3>5. 1 \in 1 .. 7 /\ 7 \in 1 .. 7 /\ 1 # 7
      OBVIOUS
    <3> QED BY <2>4, <2>5, <3>3, <3>4, <3>5, Zenon DEF Moves
  <2>10. Divides(Q, 1 .. uids - 1)
    BY <2>8, <2>9, DividesMove
  <2> QED BY <1>8, <2>2, <2>10
<1>18. m_used' = Cardinality(sq') + Cardinality(ring') + Len(cq')
  <2>1. Len(cq) \in Nat
    BY <1>0 DEF RingTypes
  <2> QED BY <1>0, <1>2, <1>7, <1>8, <1>13, <2>1
<1> QED BY <1>14, <1>15, <1>16, <1>17, <1>18 DEF RingIInv

(* io_uring_submit gives the prepared entries to the kernel. *)
LEMMA UringSubmitStep == ASSUME RingIInv, io_uring_submit, UNCHANGED held PROVE RingIInv'
<1>0. RingTypes /\ Once /\ InContext /\ Divides(Places, 1 .. uids - 1)
      /\ m_used = Cardinality(sq) + Cardinality(ring) + Len(cq)
  BY DEF RingIInv
<1>1. /\ phase = "submit" /\ ring' = ring \cup sq /\ sq' = {} /\ phase' = "wait"
      /\ UNCHANGED <<requests, contexts, cq, m_used, events, uids, lost, answered>>
  BY DEF io_uring_submit
<1>2. Cardinality(sq) \in Nat /\ Cardinality(ring) \in Nat /\ IsFiniteSet(sq) /\ IsFiniteSet(ring)
  BY <1>0, FS_CardinalityType DEF RingTypes
<1>3. ring \cap sq = {}
  BY <1>0, PlaceFacts DEF Divides
<1>4. IsFiniteSet(ring') /\ Cardinality(ring') = Cardinality(ring) + Cardinality(sq)
  <2>1. /\ IsFiniteSet(ring \cup sq)
        /\ Cardinality(ring \cup sq) = Cardinality(ring) + Cardinality(sq) - Cardinality({})
    BY <1>2, <1>3, FS_Union
  <2> QED BY <1>1, <1>2, <2>1, FS_EmptySet
<1>5. IsFiniteSet(sq') /\ Cardinality(sq') = 0
  BY <1>1, FS_EmptySet
<1>6. RingTypes'
  BY <1>0, <1>1, <1>4, <1>5, IOAssumption DEF RingTypes
<1>7. Once' /\ InContext'
  BY <1>0, <1>1 DEF Once, InContext
<1>8. Divides(Places', 1 .. uids' - 1)
  <2>1. Moves(Places, Places', 2, 3, sq)
    BY <1>1, PlaceFacts DEF Moves
  <2> QED BY <1>0, <1>1, <2>1, DividesMove
<1>9. m_used' = Cardinality(sq') + Cardinality(ring') + Len(cq')
  BY <1>0, <1>1, <1>2, <1>4, <1>5 DEF RingTypes
<1> QED BY <1>6, <1>7, <1>8, <1>9 DEF RingIInv

(* A submit that fails leaves the entries prepared. *)
LEMMA SubmitFailsStep == ASSUME RingIInv, SubmitFails, UNCHANGED held PROVE RingIInv'
<1>1. /\ events' = events /\ phase' = "handle"
      /\ UNCHANGED <<requests, contexts, sq, ring, cq, m_used, uids, lost, answered>>
  BY DEF SubmitFails, RingIInv, Once
<1>2. UNCHANGED Places
  BY <1>1 DEF Places
<1> QED BY <1>1, <1>2 DEF RingIInv, RingTypes, Once, InContext

(* The completions become events. *)
LEMMA CollectStep == ASSUME RingIInv, Collect, UNCHANGED held PROVE RingIInv'
<1>0. RingTypes /\ Once /\ InContext /\ Divides(Places, 1 .. uids - 1)
      /\ m_used = Cardinality(sq) + Cardinality(ring) + Len(cq)
  BY DEF RingIInv
<1>1. /\ phase = "wait" /\ events' = cq /\ cq' = <<>> /\ m_used' = m_used - Len(cq) /\ phase' = "handle"
      /\ UNCHANGED <<requests, contexts, sq, ring, uids, lost, answered>>
  BY DEF Collect
<1>2. Cardinality(sq) \in Nat /\ Cardinality(ring) \in Nat
  BY <1>0, FS_CardinalityType DEF RingTypes
<1>3. events = <<>> /\ Uids(events) = {} /\ Uids(cq') = {} /\ Distinct(cq') /\ Len(cq') = 0 /\ Len(cq) \in Nat
  BY <1>0, <1>1, UidsEmpty DEF Once, RingTypes
<1>4. m_used' = Cardinality(sq') + Cardinality(ring') + Len(cq')
  BY <1>0, <1>1, <1>2, <1>3
<1>5. RingTypes'
  <2>1. m_used' \in Nat
    BY <1>1, <1>2, <1>3, <1>4
  <2> QED BY <1>0, <1>1, <2>1 DEF RingTypes
<1>6. Once' /\ InContext'
  BY <1>0, <1>1, <1>3 DEF Once, InContext
<1>7. Divides(Places', 1 .. uids' - 1)
  <2>1. Moves(Places, Places', 4, 5, Uids(cq))
    BY <1>1, <1>3, PlaceFacts DEF Moves
  <2> QED BY <1>0, <1>1, <2>1, DividesMove
<1> QED BY <1>4, <1>5, <1>6, <1>7 DEF RingIInv

(* The kernel completes a request. *)
LEMMA CompleteStep == ASSUME RingIInv, NEW u \in ring, Complete(u) PROVE RingIInv'
<1>0. RingTypes /\ Once /\ InContext /\ Divides(Places, 1 .. uids - 1)
      /\ m_used = Cardinality(sq) + Cardinality(ring) + Len(cq)
  BY DEF RingIInv
<1>1. /\ ring' = ring \ {u}
      /\ UNCHANGED <<requests, contexts, sq, m_used, phase, events, uids, lost, answered, held>>
  BY DEF Complete
<1>2. u \in Nat
  <2>1. u \in 1 .. uids - 1
    BY <1>0, PlaceFacts DEF Divides, Range
  <2> QED BY <2>1
<1>3. PICK e \in Completed : e.uid = u /\ cq' = Append(cq, e)
  <2> DEFINE fd == CHOOSE f \in Free : \A g \in Free : f <= g
  <2>1. \E res \in Int : cq' = Append(cq, [uid |-> u, res |-> res])
    <3>1. Free # {} => fd \in Int
      BY LowestFree
    <3>2. \/ \E res \in {-1, 0, 1} : cq' = Append(cq, [uid |-> u, res |-> res])
          \/ Free # {} /\ cq' = Append(cq, [uid |-> u, res |-> fd])
      BY DEF Complete
    <3> HIDE DEF fd
    <3> QED BY <3>1, <3>2
  <2>2. PICK res \in Int : cq' = Append(cq, [uid |-> u, res |-> res])
    BY <2>1
  <2>3. [uid |-> u, res |-> res] \in Completed /\ [uid |-> u, res |-> res].uid = u
    BY <1>2 DEF Completed
  <2> QED BY <2>2, <2>3
<1>4. Uids(cq') = Uids(cq) \cup {u} /\ Len(cq) \in Nat /\ Len(cq') = Len(cq) + 1 /\ cq' \in Seq(Completed)
  BY <1>0, <1>3, UidsAppend DEF RingTypes
<1>5. u \notin Uids(cq)
  BY <1>0, PlaceFacts DEF Divides
<1>6. Distinct(cq')
  BY <1>0, <1>3, <1>5, UidsAppend DEF RingTypes, Once
<1>7. Cardinality(sq) \in Nat /\ Cardinality(ring) \in Nat /\ IsFiniteSet(ring)
  BY <1>0, FS_CardinalityType DEF RingTypes
<1>8. IsFiniteSet(ring') /\ Cardinality(ring') = Cardinality(ring) - 1
  BY <1>1, <1>7, FS_RemoveElement
<1>9. m_used' = Cardinality(sq') + Cardinality(ring') + Len(cq')
  BY <1>0, <1>1, <1>4, <1>7, <1>8
<1>10. RingTypes'
  BY <1>0, <1>1, <1>4, <1>8 DEF RingTypes
<1>11. Once' /\ InContext'
  BY <1>0, <1>1, <1>4, <1>6 DEF Once, InContext
<1>12. Divides(Places', 1 .. uids' - 1)
  <2>1. Moves(Places, Places', 3, 4, {u})
    BY <1>1, <1>4, PlaceFacts DEF Moves
  <2> QED BY <1>0, <1>1, <2>1, DividesMove
<1> QED BY <1>9, <1>10, <1>11, <1>12 DEF RingIInv

(* A completion is handled, in the order of the events; its callback may submit *)
(* the next request.                                                            *)
LEMMA CompletionStep ==
    ASSUME RingIInv, NEW next \in {None, "read", "close"}, Completion(next)
    PROVE  RingIInv'
<1>0. RingTypes /\ Once /\ InContext /\ Divides(Places, 1 .. uids - 1)
      /\ m_used = Cardinality(sq) + Cardinality(ring) + Len(cq)
  BY DEF RingIInv
<1>1. PICK e \in Completed : e = Head(events) /\ events # <<>>
  BY <1>0 DEF Completion, RingTypes
<1>2. PICK u : u = e.uid
  OBVIOUS
<1>3. /\ events' = Tail(events) /\ answered' = answered \cup {u}
      /\ contexts' = [v \in DOMAIN contexts \ {u} |-> contexts[v]]
      /\ UNCHANGED <<sq, ring, cq, m_used, phase, lost, held>> /\ phase = "handle"
  BY <1>1, <1>2 DEF Completion, Handled, Restrict
<1>4. /\ Uids(events') = Uids(events) \ {u} /\ u \in Uids(events) /\ Distinct(events')
      /\ events' \in Seq(Completed)
  BY <1>0, <1>1, <1>2, <1>3, UidsTail DEF RingTypes, Once
<1>5. contexts[u] \in Request
  BY <1>0, <1>4 DEF InContext
<1>6. InContext'
  <2>1. u \notin sq /\ u \notin ring /\ u \notin Uids(cq) /\ u \notin lost
    BY <1>0, <1>4, PlaceFacts DEF Divides
  <2> QED BY <1>0, <1>3, <1>4, <2>1 DEF InContext
<1>7. PICK M : M = <<Uids(requests), sq, ring, Uids(cq), Uids(events'), answered', lost>>
  OBVIOUS
<1>8. DOMAIN M = 1 .. 7 /\ M[1] = Uids(requests) /\ M[2] = sq /\ M[3] = ring /\ M[4] = Uids(cq)
      /\ M[5] = Uids(events') /\ M[6] = answered' /\ M[7] = lost
  BY <1>7
<1>9. Divides(M, 1 .. uids - 1)
  <2>1. Moves(Places, M, 5, 6, {u})
    BY <1>3, <1>4, <1>8, PlaceFacts DEF Moves
  <2> QED BY <1>0, <2>1, DividesMove
<1>10. CASE UNCHANGED <<requests, uids>>
  <2>1. Places' = M
    BY <1>3, <1>7, <1>10 DEF Places
  <2>2. RingTypes' /\ Once'
    BY <1>0, <1>3, <1>4, <1>10 DEF RingTypes, Once
  <2> QED BY <1>0, <1>3, <1>6, <1>9, <1>10, <2>1, <2>2 DEF RingIInv
<1>11. ASSUME NEW fd \in Int, next # None, Submit(contexts[u].file, next, fd) PROVE RingIInv'
  <2>1. PICK r \in Request : r.uid = uids /\ requests' = Append(requests, r) /\ uids' = uids + 1
    <3>1. next \in {"read", "close"} /\ contexts[u].file \in Files
      BY <1>5, <1>11 DEF Request
    <3> QED BY <1>0, <1>11, <3>1 DEF Submit, Request, RingTypes
  <2>2. Uids(requests') = Uids(requests) \cup {uids}
    BY <1>0, <2>1, UidsAppend DEF RingTypes
  <2>3. uids \notin Uids(requests)
    <3>1. Uids(requests) \subseteq 1 .. uids - 1
      BY <1>0, PlaceFacts DEF Divides, Range
    <3> QED BY <1>0, <3>1 DEF RingTypes
  <2>4. Distinct(requests')
    BY <1>0, <2>1, <2>3, UidsAppend DEF RingTypes, Once
  <2>5. Divides(Places', 1 .. uids' - 1)
    <3>1. PICK Q : Q = Places'
      OBVIOUS
    <3>2. PICK n \in Nat \ {0} : n = uids
      BY <1>0 DEF RingTypes
    <3>3. DOMAIN Q = 1 .. 7 /\ Q[1] = M[1] \cup {n}
      BY <1>8, <2>2, <3>1, <3>2, PlaceFacts
    <3>4. \A i \in 2 .. 7 : Q[i] = M[i]
      <4>1. \A i \in 2 .. 7 : i \in {2, 3, 4, 5, 6, 7}
        OBVIOUS
      <4> QED BY <1>3, <1>8, <3>1, <4>1, PlaceFacts
    <3>5. Divides(Q, 1 .. (n + 1) - 1)
      BY <1>8, <1>9, <3>2, <3>3, <3>4, DividesAdd
    <3> QED BY <2>1, <3>1, <3>2, <3>5
  <2>6. RingTypes' /\ Once'
    BY <1>0, <1>3, <1>4, <2>1, <2>4 DEF RingTypes, Once
  <2> QED BY <1>0, <1>3, <1>6, <2>5, <2>6 DEF RingIInv
<1>12. \/ UNCHANGED <<requests, uids>>
       \/ next # None /\ \E fd \in Int : Submit(contexts[u].file, next, fd)
  BY <1>1, <1>2, <1>5 DEF Completion, Request, Completed
<1> QED BY <1>10, <1>11, <1>12

(* What UseFile does to the ring. *)
LEMMA UseFileRing == ASSUME RingIInv, NEW x \in Files, UseFile(x) PROVE RingIInv'
<1>0. held \in [Files -> Int]
  BY DEF RingIInv, RingTypes
<1>1. CASE async_open(x)
  BY <1>0, <1>1, SubmitStep DEF async_open, fileVars
<1>2. ASSUME NEW op \in {"write", "close"}, async_op(x, op) PROVE RingIInv'
  <2>1. held[x] \in Int /\ held' \in [Files -> Int]
    BY <1>0, <1>2 DEF async_op
  <2>2. Submit(x, op, held[x]) /\ UNCHANGED <<contexts, sq, ring, cq, m_used, phase, events, lost, answered>>
    BY <1>2 DEF async_op
  <2>3. op \in {"open", "read", "write", "close"}
    OBVIOUS
  <2> QED BY <2>1, <2>2, <2>3, SubmitStep
<1>3. CASE immediately_open(x)
  <2> DEFINE fd == CHOOSE f \in Free : \A g \in Free : f <= g
  <2>1. fd \in Int
    BY <1>3, LowestFree DEF immediately_open
  <2>2. held' = [held EXCEPT ![x] = fd] /\ UNCHANGED ringVars
    BY <1>3 DEF immediately_open
  <2> HIDE DEF fd
  <2> QED BY <1>0, <2>1, <2>2, RingQuiet
<1>4. CASE immediately_close(x)
  BY <1>0, <1>4, RingQuiet DEF immediately_close
<1>5. CASE Destruct(x)
  BY <1>0, <1>5, RingQuiet DEF Destruct
<1> QED BY <1>1, <1>2, <1>3, <1>4, <1>5 DEF UseFile

LEMMA RingStep == RingIInv /\ [Next]_vars => RingIInv'
<1> SUFFICES ASSUME RingIInv, [Next]_vars PROVE RingIInv'
  OBVIOUS
<1>0. ASSUME UNCHANGED <<ringVars, fileVars>> PROVE RingIInv'
  BY <1>0, RingQuiet DEF fileVars, RingIInv, RingTypes
<1>1. CASE Start \/ AddIOService \/ Finish
  BY <1>0, <1>1 DEF Start, AddIOService, Finish
<1>2. ASSUME NEW key \in Keys, Configure(key) PROVE RingIInv'
  BY <1>0, <1>2 DEF Configure
<1>3. ASSUME NEW x \in Files, UseFile(x) PROVE RingIInv'
  BY <1>3, UseFileRing
<1>4. ASSUME NEW t \in Threads, Worker(t) PROVE RingIInv'
  <2>1. CASE LoopThread(t) \/ FindSelf
    BY <1>0, <2>1 DEF LoopThread, FindSelf
  <2>2. CASE (Notifier \/ io_uring_submit \/ SubmitFails \/ Collect) /\ UNCHANGED fileVars
    BY <2>2, NotifierStep, UringSubmitStep, SubmitFailsStep, CollectStep DEF fileVars
  <2>3. ASSUME NEW next \in {None, "read", "close"}, Completion(next) PROVE RingIInv'
    BY <2>3, CompletionStep
  <2>4. CASE /\ events = <<>> /\ phase' = "notify"
             /\ UNCHANGED <<requests, contexts, sq, ring, cq, m_used, events, uids, lost, answered, fails, fileVars>>
    <3>1. UNCHANGED Places /\ held' = held
      BY <2>4 DEF Places, fileVars
    <3> QED BY <2>4, <3>1 DEF RingIInv, RingTypes, Once, InContext
  <2> QED BY <1>4, <2>1, <2>2, <2>3, <2>4 DEF Worker, IOServiceTurn
<1>5. CASE Kernel
  BY <1>5, CompleteStep DEF Kernel
<1>6. CASE AFileStep
  BY <1>0, <1>6 DEF AFileStep
<1>7. CASE UNCHANGED vars
  BY <1>0, <1>7 DEF vars
<1> QED BY <1>1, <1>2, <1>3, <1>4, <1>5, <1>6, <1>7 DEF Next

LEMMA RingAnswers == RingIInv => EachRequestOnce
<1> SUFFICES ASSUME RingIInv PROVE EachRequestOnce
  OBVIOUS
<1>1. ring \cap sq = {} /\ sq \cap ring = {}
  BY PlaceFacts DEF RingIInv, Divides
<1>2. IsFiniteSet(sq) /\ IsFiniteSet(ring) /\ Cardinality(sq) \in Nat /\ Cardinality(ring) \in Nat
  BY FS_CardinalityType DEF RingIInv, RingTypes
<1>3. Cardinality(sq \cup ring) = Cardinality(sq) + Cardinality(ring)
  <2>1. Cardinality(sq \cup ring) = Cardinality(sq) + Cardinality(ring) - Cardinality({})
    BY <1>1, <1>2, FS_Union
  <2> QED BY <1>2, <2>1, FS_EmptySet
<1>4. m_used = Cardinality(sq \cup ring) + Len(cq)
  BY <1>3 DEF RingIInv
<1>5. Divides(Places, 1 .. uids - 1)
  BY DEF RingIInv
<1> QED BY <1>4, <1>5 DEF EachRequestOnce, Divides, Places

(* Every request is in one place of its way from submitRequest to its callback, *)
(* and m_used counts those the kernel has or had and nobody collected.          *)
THEOREM RequestsCorrect == Spec => []EachRequestOnce
<1>1. Init => RingIInv
  BY RingInitOK DEF Init
<1>2. Spec => []RingIInv
  BY <1>1, RingStep, PTL DEF Spec
<1> QED BY <1>2, RingAnswers, PTL

-----------------------------------------------------------------------------
(* AFile: the same argument for the path main() has in mind *)

LEMMA JobsOther ==
    ASSUME NEW S, NEW Q \in Seq(S), NEW x, NEW before, NEW after, JobsFollow(Q, before, after), ~x.own
    PROVE  JobsFollow(Append(Q, x), before, after)
<1> DEFINE R == Append(Q, x)
           n == Len(Q)
<1>1. /\ n \in Nat /\ DOMAIN Q = 1 .. n /\ DOMAIN R = 1 .. n + 1
      /\ \A i \in 1 .. n : R[i] = Q[i]
      /\ ~R[n + 1].own
  BY AppendFacts
<1> HIDE DEF R, n
<1>2. \A i \in DOMAIN R : R[i].own => i \in DOMAIN Q /\ R[i] = Q[i]
  BY <1>1
<1>3. \A i \in DOMAIN Q : i \in DOMAIN R /\ R[i] = Q[i]
  BY <1>1
<1> QED BY <1>2, <1>3 DEF JobsFollow, R

LEMMA JobsNext ==
    ASSUME NEW S, NEW Q \in Seq(S), NEW x, NEW before, NEW after, JobsFollow(Q, before, after),
           x.own, Uses(x) => x.path = after
    PROVE  JobsFollow(Append(Q, x), before, x.path)
<1> DEFINE R == Append(Q, x)
           n == Len(Q)
<1>1. /\ n \in Nat /\ DOMAIN Q = 1 .. n /\ DOMAIN R = 1 .. n + 1
      /\ \A i \in 1 .. n : R[i] = Q[i]
      /\ R[n + 1] = x
  BY AppendFacts
<1> HIDE DEF R, n
<1>2. \A i \in DOMAIN R : i # n + 1 => i \in DOMAIN Q /\ R[i] = Q[i] /\ i < n + 1 /\ ~(n + 1 < i)
  BY <1>1
<1>3. \A i \in DOMAIN Q : i \in DOMAIN R /\ R[i] = Q[i] /\ i # n + 1 /\ i < n + 1
  BY <1>1
<1>4. n + 1 \in DOMAIN R /\ ~(n + 1 < n + 1)
  BY <1>1
<1>5. ASSUME NEW j \in DOMAIN R, R[j].own, Uses(R[j]), \A i \in DOMAIN R : i < j => ~R[i].own
      PROVE  before \in {NoPath, R[j].path}
  <2>1. CASE j = n + 1
    <3>1. \A i \in DOMAIN Q : ~Q[i].own
      BY <1>3, <1>5, <2>1
    <3> QED BY <1>1, <1>5, <2>1, <3>1 DEF JobsFollow
  <2>2. CASE j # n + 1
    BY <1>2, <1>3, <1>5, <2>2 DEF JobsFollow
  <2> QED BY <2>1, <2>2
<1>6. ASSUME NEW i \in DOMAIN R, NEW j \in DOMAIN R, i < j, R[i].own, R[j].own, Uses(R[j]),
             \A h \in DOMAIN R : i < h /\ h < j => ~R[h].own
      PROVE  R[j].path = R[i].path
  <2>0. i # n + 1
    BY <1>1, <1>6
  <2>1. CASE j = n + 1
    <3>1. \A h \in DOMAIN Q : i < h => ~Q[h].own
      BY <1>3, <1>6, <2>1
    <3>2. Q[i].path = after
      BY <1>2, <1>6, <2>0, <3>1 DEF JobsFollow
    <3> QED BY <1>1, <1>2, <1>6, <2>0, <2>1, <3>2
  <2>2. CASE j # n + 1
    BY <1>2, <1>3, <1>6, <2>0, <2>2 DEF JobsFollow
  <2> QED BY <2>1, <2>2
<1>7. ASSUME NEW i \in DOMAIN R, R[i].own, \A j \in DOMAIN R : i < j => ~R[j].own
      PROVE  R[i].path = x.path
  BY <1>1, <1>2, <1>4, <1>7
<1>8. ~(\A i \in DOMAIN R : ~R[i].own)
  BY <1>1, <1>4
<1> QED BY <1>5, <1>6, <1>7, <1>8 DEF JobsFollow, R

(* The IO thread takes a task: one of main() leaves open what main() meant, or *)
(* nothing; another changes nothing.                                           *)
LEMMA JobsTake ==
    ASSUME NEW S, NEW Q \in Seq(S), Q # <<>>, NEW before, NEW left, NEW after, JobsFollow(Q, before, after),
           IF Head(Q).own THEN left \in {NoPath, Head(Q).path} ELSE left = before
    PROVE  JobsFollow(Tail(Q), left, after)
<1> DEFINE R == Tail(Q)
           n == Len(Q)
<1>1. /\ n \in Nat \ {0} /\ DOMAIN Q = 1 .. n /\ DOMAIN R = 1 .. n - 1 /\ Head(Q) = Q[1]
      /\ \A i \in 1 .. n - 1 : R[i] = Q[i + 1]
  BY TailFacts
<1> HIDE DEF R, n
<1>2. /\ \A i \in DOMAIN R : i \in Int /\ i + 1 \in DOMAIN Q /\ R[i] = Q[i + 1] /\ 1 < i + 1
      /\ \A i \in DOMAIN Q : i \in Int /\ ~(i < 1) /\ (i # 1 => i - 1 \in DOMAIN R /\ R[i - 1] = Q[i])
      /\ 1 \in DOMAIN Q
  BY <1>1
<1>3. ASSUME NEW j \in DOMAIN R, R[j].own, Uses(R[j]), \A i \in DOMAIN R : i < j => ~R[i].own
      PROVE  left \in {NoPath, R[j].path}
  <2>1. \A i \in DOMAIN Q : i # 1 /\ i < j + 1 => ~Q[i].own
    <3> SUFFICES ASSUME NEW i \in DOMAIN Q, i < j + 1, i # 1 PROVE ~Q[i].own
      OBVIOUS
    <3>1. i - 1 \in DOMAIN R /\ R[i - 1] = Q[i] /\ i - 1 < j
      BY <1>2
    <3> QED BY <1>3, <3>1
  <2>2. CASE Q[1].own
    <3>1. \A h \in DOMAIN Q : 1 < h /\ h < j + 1 => ~Q[h].own
      BY <2>1
    <3>2. Q[j + 1].path = Q[1].path
      BY <1>2, <1>3, <2>2, <3>1 DEF JobsFollow
    <3> QED BY <1>1, <1>2, <2>2, <3>2
  <2>3. CASE ~Q[1].own
    <3>1. \A i \in DOMAIN Q : i < j + 1 => ~Q[i].own
      BY <2>1, <2>3
    <3>2. before \in {NoPath, Q[j + 1].path}
      BY <1>2, <1>3, <3>1 DEF JobsFollow
    <3> QED BY <1>1, <1>2, <2>3, <3>2
  <2> QED BY <2>2, <2>3
<1>4. ASSUME NEW i \in DOMAIN R, NEW j \in DOMAIN R, i < j, R[i].own, R[j].own, Uses(R[j]),
             \A h \in DOMAIN R : i < h /\ h < j => ~R[h].own
      PROVE  R[j].path = R[i].path
  <2>1. \A h \in DOMAIN Q : i + 1 < h /\ h < j + 1 => ~Q[h].own
    <3> SUFFICES ASSUME NEW h \in DOMAIN Q, i + 1 < h, h < j + 1 PROVE ~Q[h].own
      OBVIOUS
    <3>1. h - 1 \in DOMAIN R /\ R[h - 1] = Q[h] /\ i < h - 1 /\ h - 1 < j
      BY <1>1, <1>2
    <3> QED BY <1>4, <3>1
  <2>2. i + 1 < j + 1
    BY <1>2, <1>4
  <2> QED BY <1>2, <1>4, <2>1, <2>2 DEF JobsFollow
<1>5. ASSUME NEW i \in DOMAIN R, R[i].own, \A j \in DOMAIN R : i < j => ~R[j].own
      PROVE  R[i].path = after
  <2>1. \A h \in DOMAIN Q : i + 1 < h => ~Q[h].own
    <3> SUFFICES ASSUME NEW h \in DOMAIN Q, i + 1 < h PROVE ~Q[h].own
      OBVIOUS
    <3>1. h - 1 \in DOMAIN R /\ R[h - 1] = Q[h] /\ i < h - 1
      BY <1>1, <1>2
    <3> QED BY <1>5, <3>1
  <2> QED BY <1>2, <1>5, <2>1 DEF JobsFollow
<1>6. ASSUME \A i \in DOMAIN R : ~R[i].own PROVE left \in {NoPath, after}
  <2>1. \A i \in DOMAIN Q : i # 1 => ~Q[i].own
    BY <1>2, <1>6
  <2>2. CASE Q[1].own
    <3>1. \A j \in DOMAIN Q : 1 < j => ~Q[j].own
      BY <2>1
    <3>2. Q[1].path = after
      BY <1>2, <2>2, <3>1 DEF JobsFollow
    <3> QED BY <1>1, <2>2, <3>2
  <2>3. CASE ~Q[1].own
    <3>1. before \in {NoPath, after}
      BY <2>1, <2>3 DEF JobsFollow
    <3> QED BY <1>1, <2>3, <3>1
  <2> QED BY <2>2, <2>3
<1> QED BY <1>3, <1>4, <1>5, <1>6 DEF JobsFollow, R

(* The fields of a call. *)
LEMMA JobFacts ==
    ASSUME NEW op \in {"open", "read", "send", "close"}, NEW path \in Paths \cup {NoPath}, NEW own \in BOOLEAN
    PROVE  /\ [op |-> op, path |-> path, own |-> own] \in Job
           /\ [op |-> op, path |-> path, own |-> own].op = op
           /\ [op |-> op, path |-> path, own |-> own].path = path
           /\ [op |-> op, path |-> path, own |-> own].own <=> own
<1>1. [op |-> op, path |-> path, own |-> own] \in Job
  BY DEF Job
<1>2. [op |-> op, path |-> path, own |-> own].op = op /\ [op |-> op, path |-> path, own |-> own].path = path
  OBVIOUS
<1>3. [op |-> op, path |-> path, own |-> own].own <=> own
  OBVIOUS
<1> QED BY <1>1, <1>2, <1>3

LEMMA CallStep ==
    ASSUME AFileIInv, NEW op \in {"open", "read", "send", "close"}, NEW path \in Paths \cup {NoPath},
           Call(op, path), last' = path, Uses([op |-> op, path |-> path, own |-> TRUE]) => path = last,
           op = "close" => path = NoPath
    PROVE  AFileIInv'
<1>1. PICK x \in Job : /\ x.op = op /\ x.path = path /\ x.own /\ queue' = Append(queue, x)
                       /\ Uses(x) => path = last
  <2>1. queue' = Append(queue, [op |-> op, path |-> path, own |-> TRUE])
    BY DEF Call, Push
  <2>2. PICK x : x = [op |-> op, path |-> path, own |-> TRUE]
    OBVIOUS
  <2>3. x \in Job /\ x.op = op /\ x.path = path
    BY <2>2, JobFacts
  <2>4. x.own
    BY <2>2
  <2> QED BY <2>1, <2>2, <2>3, <2>4
<1>2. UNCHANGED <<m_file, io, reads>>
  BY DEF Call
<1>3. queue \in Seq(Job) /\ JobsFollow(queue, m_file, last)
  BY DEF AFileIInv
<1>4. JobsFollow(queue', m_file', last')
  BY <1>1, <1>2, <1>3, JobsNext
<1>5. /\ queue' \in Seq(Job)
      /\ \A i \in DOMAIN queue' : queue'[i] = x \/ (i \in DOMAIN queue /\ queue'[i] = queue[i])
  BY <1>1, <1>3, AppendFacts
<1>6. ReadsWhatWasOpened'
  BY <1>2 DEF AFileIInv, ReadsWhatWasOpened
<1> QED BY <1>1, <1>2, <1>4, <1>5, <1>6 DEF AFileIInv

(* The parts of AFileIInv that a task taken from the queue keeps. *)
LEMMA TailStep ==
    ASSUME AFileIInv, queue # <<>>
    PROVE  /\ Tail(queue) \in Seq(Job) /\ Head(queue) \in Job
           /\ \A i \in DOMAIN Tail(queue) :
                 /\ Tail(queue)[i].own \/ Tail(queue)[i].op = "read"
                 /\ Tail(queue)[i].op = "close" => Tail(queue)[i].path = NoPath
           /\ Head(queue).own \/ Head(queue).op = "read"
           /\ Head(queue).op = "close" => Head(queue).path = NoPath
           /\ Head(queue).own /\ Uses(Head(queue)) => m_file \in {NoPath, Head(queue).path}
           /\ \A left : (IF Head(queue).own THEN left \in {NoPath, Head(queue).path} ELSE left = m_file)
                            => JobsFollow(Tail(queue), left, last)
<1>1. queue \in Seq(Job) /\ JobsFollow(queue, m_file, last)
      /\ (\A i \in DOMAIN queue : queue[i].own \/ queue[i].op = "read")
      /\ (\A i \in DOMAIN queue : queue[i].op = "close" => queue[i].path = NoPath)
  BY DEF AFileIInv
<1>2. /\ Len(queue) \in Nat \ {0} /\ DOMAIN queue = 1 .. Len(queue) /\ Head(queue) = queue[1]
      /\ DOMAIN Tail(queue) = 1 .. Len(queue) - 1
      /\ \A i \in 1 .. Len(queue) - 1 : Tail(queue)[i] = queue[i + 1]
  BY <1>1, TailFacts
<1>3. \A i \in DOMAIN Tail(queue) : i + 1 \in DOMAIN queue /\ Tail(queue)[i] = queue[i + 1]
  BY <1>2
<1>4. 1 \in DOMAIN queue /\ \A i \in DOMAIN queue : ~(i < 1)
  BY <1>2
<1>5. Tail(queue) \in Seq(Job) /\ Head(queue) \in Job
  BY <1>1
<1>6. Head(queue).own /\ Uses(Head(queue)) => m_file \in {NoPath, Head(queue).path}
  BY <1>1, <1>2, <1>4 DEF JobsFollow
<1>7. \A left : (IF Head(queue).own THEN left \in {NoPath, Head(queue).path} ELSE left = m_file)
                    => JobsFollow(Tail(queue), left, last)
  BY <1>1, JobsTake
<1> QED BY <1>1, <1>2, <1>3, <1>4, <1>5, <1>6, <1>7

LEMMA OpenTaskStep == ASSUME AFileIInv, OpenTask PROVE AFileIInv'
<1>1. queue # <<>> /\ Head(queue).op = "open" /\ UNCHANGED <<io, last, reads>>
  BY DEF OpenTask, IsNextOp
<1>2. PICK path \in Paths \cup {NoPath} : path = Head(queue).path
  BY <1>1, TailStep DEF Job
<1>3. Head(queue).own
  BY <1>1, TailStep
<1>4. m_file' \in {NoPath, path}
  BY <1>2 DEF OpenTask, open
<1>5. JobsFollow(Tail(queue), m_file', last)
  BY <1>1, <1>2, <1>3, <1>4, TailStep
<1>6. CASE queue' = Tail(queue)
  <2>1. ReadsWhatWasOpened'
    BY <1>1 DEF AFileIInv, ReadsWhatWasOpened
  <2> QED BY <1>1, <1>4, <1>5, <1>6, <2>1, TailStep DEF AFileIInv
<1>7. CASE queue' = Append(Tail(queue), [op |-> "read", path |-> path, own |-> FALSE])
  <2>1. PICK x \in Job : x.op = "read" /\ ~x.own /\ queue' = Append(Tail(queue), x)
    BY <1>7, JobFacts
  <2>2. Tail(queue) \in Seq(Job)
    BY <1>1, TailStep
  <2>3. JobsFollow(queue', m_file', last')
    BY <1>1, <1>5, <2>1, <2>2, JobsOther
  <2>4. /\ queue' \in Seq(Job)
        /\ \A i \in DOMAIN queue' : queue'[i] = x \/ (i \in DOMAIN Tail(queue) /\ queue'[i] = Tail(queue)[i])
    BY <2>1, <2>2, AppendFacts
  <2>5. \A i \in DOMAIN queue' : /\ queue'[i].own \/ queue'[i].op = "read"
                                 /\ queue'[i].op = "close" => queue'[i].path = NoPath
    BY <1>1, <2>1, <2>4, TailStep
  <2>6. ReadsWhatWasOpened'
    BY <1>1 DEF AFileIInv, ReadsWhatWasOpened
  <2> QED BY <1>1, <1>4, <2>3, <2>4, <2>5, <2>6 DEF AFileIInv
<1> QED BY <1>2, <1>6, <1>7 DEF OpenTask, onControl

(* A task that leaves nothing open, or what is open. *)
LEMMA TakenStep ==
    ASSUME AFileIInv, queue # <<>>, queue' = Tail(queue), last' = last,
           \/ m_file' = NoPath /\ Head(queue).own
           \/ m_file' = m_file /\ Uses(Head(queue)),
           io' \in {"run", "abort"}, ReadsWhatWasOpened',
           reads' \in Seq((Paths \cup {NoPath}) \X (Paths \cup {NoPath}))
    PROVE  AFileIInv'
<1>1. IF Head(queue).own THEN m_file' \in {NoPath, Head(queue).path} ELSE m_file' = m_file
  BY TailStep
<1>2. JobsFollow(queue', m_file', last')
  BY <1>1, TailStep
<1>3. m_file' \in Paths \cup {NoPath} /\ last' \in Paths \cup {NoPath}
  BY DEF AFileIInv
<1> QED BY <1>2, <1>3, TailStep DEF AFileIInv

LEMMA ReadTaskStep == ASSUME AFileIInv, ReadTask PROVE AFileIInv'
<1>1. queue # <<>> /\ Head(queue).op = "read" /\ UNCHANGED <<m_file, last>>
  BY DEF ReadTask, IsNextOp
<1>2. Uses(Head(queue))
  BY <1>1 DEF Uses
<1>3. io' \in {"run", "abort", "spin"}
  BY DEF ReadTask
<1>4. CASE io' # "run"
  <2>1. UNCHANGED <<queue, reads>>
    BY <1>4 DEF ReadTask
  <2>2. ReadsWhatWasOpened'
    BY <2>1 DEF AFileIInv, ReadsWhatWasOpened
  <2> QED BY <1>1, <1>3, <2>1, <2>2 DEF AFileIInv
<1>5. CASE io' = "run"
  <2>1. queue' = Tail(queue)
    BY <1>5 DEF ReadTask
  <2>2. CASE Head(queue).own
    <3>1. m_file # NoPath /\ reads' = Append(reads, <<Head(queue).path, m_file>>)
      BY <1>5, <2>2 DEF ReadTask, switchNonblock
    <3>2. m_file = Head(queue).path
      BY <1>1, <1>2, <2>2, <3>1, TailStep
    <3>3. PICK path \in Paths \cup {NoPath} : m_file = path
      BY DEF AFileIInv
    <3>4. reads \in Seq((Paths \cup {NoPath}) \X (Paths \cup {NoPath}))
      BY DEF AFileIInv
    <3>5. reads' = Append(reads, <<path, path>>)
      BY <3>1, <3>2, <3>3
    <3>6. reads' \in Seq((Paths \cup {NoPath}) \X (Paths \cup {NoPath}))
      BY <3>4, <3>5
    <3>7. \A i \in DOMAIN reads' : reads'[i] = <<path, path>> \/ (i \in DOMAIN reads /\ reads'[i] = reads[i])
      BY <3>4, <3>5, AppendFacts
    <3>8. ReadsWhatWasOpened'
      BY <3>7 DEF AFileIInv, ReadsWhatWasOpened
    <3> QED BY <1>1, <1>2, <1>5, <2>1, <3>6, <3>8, TakenStep
  <2>3. CASE ~Head(queue).own
    <3>1. reads' = reads
      BY <2>3 DEF ReadTask
    <3>2. ReadsWhatWasOpened' /\ reads' \in Seq((Paths \cup {NoPath}) \X (Paths \cup {NoPath}))
      BY <3>1 DEF AFileIInv, ReadsWhatWasOpened
    <3> QED BY <1>1, <1>2, <1>5, <2>1, <3>2, TakenStep
  <2> QED BY <2>2, <2>3
<1> QED BY <1>4, <1>5

LEMMA AFileInv == AFileIInv /\ [Next]_vars => AFileIInv'
<1> SUFFICES ASSUME AFileIInv, [Next]_vars PROVE AFileIInv'
  OBVIOUS
<1>0. ASSUME UNCHANGED <<queue, m_file, io, last, reads>> PROVE AFileIInv'
  BY <1>0 DEF AFileIInv, ReadsWhatWasOpened
<1>1. CASE UNCHANGED afileVars
  BY <1>0, <1>1 DEF afileVars
<1>2. CASE AFileNext
  <2>1. reads \in Seq((Paths \cup {NoPath}) \X (Paths \cup {NoPath})) /\ last \in Paths \cup {NoPath}
    BY DEF AFileIInv
  <2>2. UNCHANGED reads => ReadsWhatWasOpened'
    BY DEF AFileIInv, ReadsWhatWasOpened
  <2>3. ASSUME NEW p \in Paths, areopen(p) PROVE AFileIInv'
    <3>1. ~Uses([op |-> "open", path |-> p, own |-> TRUE])
      BY DEF Uses
    <3> QED BY <2>3, <3>1, CallStep DEF areopen
  <2>4. CASE aread
    BY <2>1, <2>4, CallStep DEF aread
  <2>5. CASE asend
    BY <2>1, <2>5, CallStep DEF asend
  <2>6. CASE aclose
    <3>1. ~Uses([op |-> "close", path |-> NoPath, own |-> TRUE])
      BY DEF Uses
    <3> QED BY <2>6, <3>1, CallStep DEF aclose
  <2>7. CASE CloseTask
    <3>1. /\ queue # <<>> /\ Head(queue).op = "close" /\ m_file' = NoPath /\ queue' = Tail(queue)
          /\ UNCHANGED <<io, last, reads>> /\ io = "run"
      BY <2>7 DEF CloseTask, IsNextOp
    <3>2. Head(queue).own
      BY <3>1, TailStep
    <3> QED BY <2>1, <2>2, <3>1, <3>2, TakenStep
  <2>8. CASE SendTask
    <3>1. /\ queue # <<>> /\ Head(queue).op = "send" /\ m_file' = m_file /\ queue' = Tail(queue)
          /\ UNCHANGED <<last, reads>> /\ io' \in {"run", "abort"}
      BY <2>8 DEF SendTask, IsNextOp
    <3>2. Uses(Head(queue))
      BY <3>1 DEF Uses
    <3> QED BY <2>1, <2>2, <3>1, <3>2, TakenStep
  <2>9. CASE AFileInterrupt
    BY <1>0, <2>9 DEF AFileInterrupt
  <2>10. CASE Return
    <3>1. queue' = <<>> /\ m_file' = NoPath /\ io' = "end" /\ UNCHANGED <<last, reads>>
      BY <2>10 DEF Return
    <3>2. JobsFollow(queue', m_file', last')
      BY <3>1 DEF JobsFollow
    <3> QED BY <2>1, <2>2, <3>1, <3>2 DEF AFileIInv
  <2> QED BY <1>2, <2>3, <2>4, <2>5, <2>6, <2>7, <2>8, <2>9, <2>10, OpenTaskStep, ReadTaskStep DEF AFileNext, IOTasks
<1>3. CASE Start \/ AddIOService \/ Finish
  BY <1>1, <1>3 DEF Start, AddIOService, Finish, rest
<1>4. ASSUME NEW key \in Keys, Configure(key) PROVE AFileIInv'
  BY <1>1, <1>4 DEF Configure
<1>5. ASSUME NEW x \in Files, UseFile(x) PROVE AFileIInv'
  BY <1>1, <1>5 DEF UseFile, rest
<1>6. ASSUME NEW t \in Threads, Worker(t) PROVE AFileIInv'
  BY <1>1, <1>6 DEF Worker, rest
<1>7. CASE Kernel
  BY <1>1, <1>7 DEF Kernel, rest
<1>8. CASE AFileStep
  BY <1>2, <1>8 DEF AFileStep
<1>9. CASE UNCHANGED vars
  BY <1>1, <1>9 DEF vars
<1> QED BY <1>3, <1>4, <1>5, <1>6, <1>7, <1>8, <1>9 DEF Next

LEMMA AFileInitOK == AFileInit => AFileIInv
<1> SUFFICES ASSUME AFileInit PROVE AFileIInv
  OBVIOUS
<1>1. queue = <<>> /\ m_file = NoPath /\ io = "run" /\ last = NoPath /\ reads = <<>>
  BY DEF AFileInit
<1>2. JobsFollow(queue, m_file, last) /\ ReadsWhatWasOpened
  BY <1>1 DEF JobsFollow, ReadsWhatWasOpened
<1> QED BY <1>1, <1>2 DEF AFileIInv

-----------------------------------------------------------------------------
(* The files: what the ring's invariant says of requests and results *)

LEMMA RangeAppend ==
    ASSUME NEW S, NEW Q \in Seq(S), NEW x
    PROVE  Range(Append(Q, x)) = Range(Q) \cup {x}
<1> DEFINE R == Append(Q, x)
           n == Len(Q)
<1>1. /\ n \in Nat /\ DOMAIN Q = 1 .. n /\ DOMAIN R = 1 .. n + 1
      /\ \A i \in 1 .. n : R[i] = Q[i]
      /\ R[n + 1] = x
  BY AppendFacts
<1> HIDE DEF R, n
<1>2. 1 .. n + 1 = (1 .. n) \cup {n + 1}
  BY <1>1
<1>3. Range(R) = Range(Q) \cup {x}
  BY <1>1, <1>2 DEF Range
<1> QED BY <1>3 DEF R

(* A sequence without a uid twice: its elements, and what taking the first leaves. *)
LEMMA RangeTail ==
    ASSUME NEW S, NEW Q \in Seq(S), Q # <<>>, Distinct(Q)
    PROVE  Head(Q) \in Range(Q) /\ Range(Tail(Q)) = Range(Q) \ {Head(Q)}
<1> DEFINE R == Tail(Q)
           n == Len(Q)
<1>1. /\ n \in Nat \ {0} /\ DOMAIN Q = 1 .. n /\ DOMAIN R = 1 .. n - 1 /\ Head(Q) = Q[1]
      /\ \A i \in 1 .. n - 1 : R[i] = Q[i + 1]
  BY TailFacts
<1> HIDE DEF R, n
<1>2. 1 \in DOMAIN Q
  BY <1>1
<1>3. ASSUME NEW i \in DOMAIN R PROVE R[i] \in Range(Q) \ {Q[1]}
  <2>1. i + 1 \in DOMAIN Q /\ i + 1 # 1 /\ R[i] = Q[i + 1]
    BY <1>1
  <2> QED BY <1>2, <2>1 DEF Range, Distinct
<1>4. ASSUME NEW i \in DOMAIN Q, Q[i] # Q[1] PROVE Q[i] \in Range(R)
  <2>1. i - 1 \in DOMAIN R /\ R[i - 1] = Q[i]
    BY <1>1, <1>4
  <2> QED BY <2>1 DEF Range
<1>5. Range(R) = Range(Q) \ {Q[1]}
  BY <1>3, <1>4 DEF Range
<1> QED BY <1>1, <1>2, <1>5 DEF Range, R

LEMMA DistinctRange ==
    ASSUME NEW S, NEW Q \in Seq(S)
    PROVE  /\ Range(Q) \subseteq S
           /\ \A x \in Range(Q) : x.uid \in Uids(Q)
           /\ Distinct(Q) => \A x, y \in Range(Q) : x.uid = y.uid => x = y
BY DEF Range, Uids, Distinct

LEMMA PendingFacts ==
    ASSUME RingIInv
    PROVE  /\ Pending \subseteq Request /\ Results \subseteq Completed
           /\ \A r, s \in Pending : r.uid = s.uid => r = s
           /\ \A d, e \in Results : d.uid = e.uid => d = e
           /\ \A e \in Results : e.uid # uids
           /\ \A e \in Results : contexts[e.uid] \in Pending /\ contexts[e.uid].uid = e.uid
           /\ \A u \in ring : /\ contexts[u] \in Pending /\ contexts[u].uid = u
                              /\ \A e \in Results : e.uid # u
<1>1. RingTypes /\ Once /\ InContext /\ Divides(Places, 1 .. uids - 1)
  BY DEF RingIInv
<1>2. /\ requests \in Seq(Request) /\ cq \in Seq(Completed) /\ events \in Seq(Completed)
      /\ Distinct(requests) /\ Distinct(cq) /\ Distinct(events)
  BY <1>1 DEF RingTypes, Once
<1>3. /\ Range(requests) \subseteq Request /\ \A r \in Range(requests) : r.uid \in Uids(requests)
      /\ \A r, s \in Range(requests) : r.uid = s.uid => r = s
  BY <1>2, DistinctRange
<1>4. /\ Range(cq) \subseteq Completed /\ \A r \in Range(cq) : r.uid \in Uids(cq)
      /\ \A r, s \in Range(cq) : r.uid = s.uid => r = s
  BY <1>2, DistinctRange
<1>5. /\ Range(events) \subseteq Completed /\ \A r \in Range(events) : r.uid \in Uids(events)
      /\ \A r, s \in Range(events) : r.uid = s.uid => r = s
  BY <1>2, DistinctRange
<1>6. /\ Range(contexts) \subseteq Request
      /\ \A u \in DOMAIN contexts : contexts[u] \in Range(contexts) /\ contexts[u].uid = u
      /\ \A r \in Range(contexts) : r.uid \in DOMAIN contexts /\ contexts[r.uid] = r
  BY <1>1 DEF InContext, Range
<1>7. \A i, j \in 1 .. 7 : i # j => Places[i] \cap Places[j] = {}
  BY <1>1, PlaceFacts DEF Divides
<1>8. Uids(requests) \cap DOMAIN contexts = {}
  <2>1. Places[1] \cap (Places[2] \cup Places[3] \cup Places[4] \cup Places[5] \cup Places[7]) = {}
    BY <1>7
  <2>2. DOMAIN contexts = Places[2] \cup Places[3] \cup Places[4] \cup Places[5] \cup Places[7]
    BY <1>1, PlaceFacts DEF InContext
  <2> QED BY <2>1, <2>2, PlaceFacts
<1>9. Uids(cq) \cap Uids(events) = {} /\ ring \cap Uids(cq) = {} /\ ring \cap Uids(events) = {}
  BY <1>7, PlaceFacts
<1>10. uids \notin Uids(cq) /\ uids \notin Uids(events)
  <2>1. Uids(cq) \subseteq 1 .. uids - 1 /\ Uids(events) \subseteq 1 .. uids - 1
    BY <1>1, PlaceFacts DEF Divides, Range
  <2> QED BY <1>1, <2>1 DEF RingTypes
<1>11. ring \subseteq DOMAIN contexts /\ Uids(cq) \subseteq DOMAIN contexts /\ Uids(events) \subseteq DOMAIN contexts
  BY <1>1 DEF InContext
<1>12. \A r, s \in Pending : r.uid = s.uid => r = s
  BY <1>3, <1>6, <1>8 DEF Pending
<1>13. \A d, e \in Results : d.uid = e.uid => d = e
  BY <1>4, <1>5, <1>9 DEF Results
<1>14. \A e \in Results : e.uid # uids /\ contexts[e.uid] \in Pending /\ contexts[e.uid].uid = e.uid
  BY <1>4, <1>5, <1>6, <1>10, <1>11 DEF Results, Pending
<1>15. \A u \in ring : /\ contexts[u] \in Pending /\ contexts[u].uid = u
                       /\ \A e \in Results : e.uid # u
  BY <1>4, <1>5, <1>6, <1>9, <1>11 DEF Results, Pending
<1> QED BY <1>3, <1>4, <1>5, <1>6, <1>12, <1>13, <1>14, <1>15 DEF Pending, Results

(* The steps of the ring in these terms. *)
LEMMA PendingSubmit ==
    ASSUME RingIInv, NEW x, NEW op, NEW fd, Submit(x, op, fd), UNCHANGED contexts
    PROVE  \E r : /\ r.uid = uids /\ r.file = x /\ r.op = op /\ r.fd = fd
                  /\ Pending' = Pending \cup {r}
<1>1. requests \in Seq(Request)
  BY DEF RingIInv, RingTypes
<1>2. PICK r : r = [uid |-> uids, file |-> x, op |-> op, fd |-> fd]
  OBVIOUS
<1>3. Range(requests') = Range(requests) \cup {r}
  BY <1>1, <1>2, RangeAppend DEF Submit
<1>4. r.uid = uids /\ r.file = x /\ r.op = op /\ r.fd = fd
  BY <1>2
<1> QED BY <1>3, <1>4 DEF Pending

LEMMA PendingNotifier == ASSUME RingIInv, Notifier PROVE Pending' = Pending /\ Results' = Results
<1>1. PICK reqs \in Seq(Request) : reqs = requests
  BY DEF RingIInv, RingTypes
<1>2. Distinct(reqs)
  BY <1>1 DEF RingIInv, Once
<1>3. PICK new : new = {reqs[i].uid : i \in DOMAIN reqs}
  OBVIOUS
<1>4. /\ contexts' = [u \in new \cup DOMAIN contexts |->
                         IF u \in new THEN CHOOSE r \in Range(reqs) : r.uid = u ELSE contexts[u]]
      /\ requests' = <<>> /\ UNCHANGED <<cq, events>>
  BY <1>1, <1>3 DEF Notifier, working_request
<1>5. new \cap DOMAIN contexts = {}
  <2>1. new = Uids(requests)
    BY <1>1, <1>3 DEF Uids
  <2>2. \A r \in Range(contexts) : r.uid \in DOMAIN contexts /\ contexts[r.uid] = r
    BY DEF RingIInv, InContext, Range
  <2>3. ASSUME NEW i \in DOMAIN reqs, reqs[i].uid \in DOMAIN contexts PROVE FALSE
    <3>1. Places[1] \cap (Places[2] \cup Places[3] \cup Places[4] \cup Places[5] \cup Places[7]) = {}
      BY PlaceFacts DEF RingIInv, Divides
    <3>2. DOMAIN contexts = Places[2] \cup Places[3] \cup Places[4] \cup Places[5] \cup Places[7]
      BY PlaceFacts DEF RingIInv, InContext
    <3>3. reqs[i].uid \in Places[1]
      BY <1>1, PlaceFacts DEF Uids
    <3> QED BY <2>3, <3>1, <3>2, <3>3
  <2> QED BY <1>3, <2>3
<1>6. \A r \in Range(reqs) : r.uid \in new /\ contexts'[r.uid] = r
  <2> SUFFICES ASSUME NEW r \in Range(reqs) PROVE r.uid \in new /\ contexts'[r.uid] = r
    OBVIOUS
  <2>1. r.uid \in new
    BY <1>3 DEF Range
  <2>2. contexts'[r.uid] = CHOOSE s \in Range(reqs) : s.uid = r.uid
    BY <1>4, <2>1
  <2>3. \A s \in Range(reqs) : s.uid = r.uid => s = r
    BY <1>2, DistinctRange
  <2> QED BY <2>1, <2>2, <2>3
<1>7. \A u \in new : \E r \in Range(reqs) : r.uid = u
  BY <1>3 DEF Range
<1>8. Range(contexts') = Range(reqs) \cup Range(contexts)
  <2>1. DOMAIN contexts' = new \cup DOMAIN contexts
    BY <1>4
  <2>2. \A u \in DOMAIN contexts : contexts'[u] = contexts[u]
    BY <1>4, <1>5
  <2>3. \A u \in new : contexts'[u] \in Range(reqs)
    BY <1>6, <1>7
  <2>4. \A r \in Range(reqs) : \E u \in DOMAIN contexts' : contexts'[u] = r
    BY <1>6, <2>1
  <2> QED BY <2>1, <2>2, <2>3, <2>4 DEF Range
<1>9. Range(requests') = {}
  BY <1>4 DEF Range
<1> QED BY <1>1, <1>4, <1>8, <1>9 DEF Pending, Results

LEMMA PendingCollect == ASSUME RingIInv, Collect PROVE Pending' = Pending /\ Results' = Results
<1>1. events = <<>> /\ events' = cq /\ cq' = <<>> /\ UNCHANGED <<requests, contexts>>
  BY DEF Collect, RingIInv, Once
<1>2. Range(<<>>) = {}
  BY DEF Range
<1> QED BY <1>1, <1>2 DEF Pending, Results

LEMMA PendingHandled ==
    ASSUME RingIInv, events # <<>>, Handled(Head(events).uid)
    PROVE  /\ Head(events) \in Results
           /\ Results' = Results \ {Head(events)}
           /\ Range(contexts') = Range(contexts) \ {contexts[Head(events).uid]}
           /\ contexts[Head(events).uid] \notin Range(requests)
<1>1. PICK u : u = Head(events).uid
  OBVIOUS
<1>2. /\ events' = Tail(events) /\ UNCHANGED cq
      /\ contexts' = [v \in DOMAIN contexts \ {u} |-> contexts[v]]
  BY <1>1 DEF Handled, Restrict
<1>3. Head(events) \in Range(events) /\ Range(events') = Range(events) \ {Head(events)}
  BY <1>2, RangeTail DEF RingIInv, RingTypes, Once
<1>4. Head(events) \notin Range(cq)
  <2>1. Uids(cq) \cap Uids(events) = {}
    BY PlaceFacts DEF RingIInv, Divides
  <2>2. Head(events).uid \in Uids(events)
    BY <1>3 DEF Range, Uids
  <2>3. \A e \in Range(cq) : e.uid \in Uids(cq)
    BY DEF Range, Uids
  <2> QED BY <2>1, <2>2, <2>3
<1>5. Head(events) \in Results /\ Results' = Results \ {Head(events)}
  BY <1>2, <1>3, <1>4 DEF Results
<1>6. \A v \in DOMAIN contexts : contexts[v].uid = v
  BY DEF RingIInv, InContext
<1>7. u \in DOMAIN contexts /\ u \notin Uids(requests)
  <2>1. u \in Uids(events)
    BY <1>1, <1>3 DEF Range, Uids
  <2>2. Uids(requests) \cap Uids(events) = {}
    BY PlaceFacts DEF RingIInv, Divides
  <2> QED BY <2>1, <2>2 DEF RingIInv, InContext
<1>8. Range(contexts') = Range(contexts) \ {contexts[u]}
  BY <1>2, <1>6, <1>7 DEF Range
<1>9. contexts[u] \notin Range(requests)
  BY <1>6, <1>7 DEF Range, Uids
<1> QED BY <1>1, <1>5, <1>8, <1>9

-----------------------------------------------------------------------------
(* What open and close do to the table *)

\* The numbers of the other files stay where they are.
LEMMA OwnedQuiet ==
    ASSUME Owned, StealsOnlyAfterClose, UNCHANGED <<table, stolen>>, closers \subseteq closers',
           \A y \in Files, g \in Fds : Has(y, g)' <=> Has(y, g)
    PROVE  Owned' /\ StealsOnlyAfterClose'
<1>1. Owned'
  BY DEF Owned
<1>2. StealsOnlyAfterClose'
  BY DEF StealsOnlyAfterClose
<1> QED BY <1>1, <1>2

(* close(fd) for a file that has the number, if it is one, and then none. *)
LEMMA OwnedClose ==
    ASSUME FileTypes, Owned, StealsOnlyAfterClose, NEW x \in Files, NEW fd, close(x, fd),
           closers \subseteq closers', fd \in Fds => Has(x, fd),
           \A y \in Files, g \in Fds : y # x => (Has(y, g)' <=> Has(y, g)),
           x \notin closers' => \A g \in Fds : ~Has(x, g)' /\ (Has(x, g) => g = fd)
    PROVE  Owned' /\ StealsOnlyAfterClose' /\ table' \in [Fds -> Files \cup {None}]
<1>0. None \notin Files /\ table \in [Fds -> Files \cup {None}]
  BY IOAssumption DEF FileTypes
<1>1. CASE fd \notin Fds
  <2>1. UNCHANGED <<table, stolen>>
    BY <1>1 DEF close
  <2>2. ASSUME ~stolen, NEW y \in Files \ closers', NEW g \in Fds PROVE table[g] = y <=> Has(y, g)'
    <3>1. table[g] = y <=> Has(y, g)
      BY <2>2 DEF Owned
    <3> QED BY <1>1, <3>1
  <2> QED BY <1>0, <2>1, <2>2 DEF Owned, StealsOnlyAfterClose
<1>2. CASE fd \in Fds
  <2>1. /\ table' = [table EXCEPT ![fd] = None]
        /\ stolen' <=> (stolen \/ table[fd] \notin {None, x})
    BY <1>2 DEF close
  <2>2. x \notin closers /\ ~stolen => table[fd] = x
    BY <1>2 DEF Owned
  <2>3. StealsOnlyAfterClose'
    BY <2>1, <2>2 DEF StealsOnlyAfterClose
  <2>4. ASSUME ~stolen', NEW y \in Files \ closers', NEW g \in Fds PROVE table'[g] = y <=> Has(y, g)'
    <3>1. ~stolen /\ table[fd] \in {None, x}
      BY <2>1, <2>4
    <3>2. table[g] = y <=> Has(y, g)
      BY <3>1 DEF Owned
    <3>3. table'[g] = IF g = fd THEN None ELSE table[g]
      BY <1>0, <2>1
    <3>4. CASE y = x
      <4>1. ~Has(y, g)' /\ (Has(y, g) => g = fd)
        BY <3>4
      <4> QED BY <1>0, <3>2, <3>3, <4>1
    <3>5. CASE y # x
      <4>1. Has(y, g)' <=> Has(y, g)
        BY <3>5
      <4>2. table[fd] # y
        BY <1>0, <3>1, <3>5
      <4> QED BY <1>0, <3>2, <3>3, <4>1, <4>2
    <3> QED BY <3>4, <3>5
  <2>5. Owned'
    BY <2>4 DEF Owned
  <2> QED BY <1>0, <2>1, <2>3, <2>5
<1> QED BY <1>1, <1>2

(* open(x) gets a free number, which nobody has. *)
LEMMA OwnedOpen ==
    ASSUME FileTypes, Owned, StealsOnlyAfterClose, NEW x \in Files, NEW fd \in Free, Opens(x, fd),
           UNCHANGED <<stolen, closers>>,
           \A y \in Files, g \in Fds : y # x => (Has(y, g)' <=> Has(y, g)),
           \A g \in Fds : ~Has(x, g) /\ (Has(x, g)' <=> g = fd)
    PROVE  Owned' /\ StealsOnlyAfterClose' /\ table' \in [Fds -> Files \cup {None}]
<1>0. None \notin Files /\ table \in [Fds -> Files \cup {None}] /\ fd \in Fds /\ table[fd] = None
      /\ table' = [table EXCEPT ![fd] = x]
  BY IOAssumption DEF FileTypes, Free, Opens
<1>1. ASSUME ~stolen, NEW y \in Files \ closers, NEW g \in Fds PROVE table'[g] = y <=> Has(y, g)'
  <2>1. table[g] = y <=> Has(y, g)
    BY <1>1 DEF Owned
  <2>2. table'[g] = IF g = fd THEN x ELSE table[g]
    BY <1>0
  <2>3. CASE y = x
    BY <2>1, <2>2, <2>3
  <2>4. CASE y # x
    <3>1. Has(y, g)' <=> Has(y, g)
      BY <2>4
    <3> QED BY <1>0, <2>1, <2>2, <2>4, <3>1
  <2> QED BY <2>3, <2>4
<1>2. Owned'
  BY <1>1 DEF Owned
<1> QED BY <1>0, <1>2 DEF StealsOnlyAfterClose

-----------------------------------------------------------------------------
(* The steps that concern files *)

LEMMA FilesQuiet ==
    ASSUME FilesIInv, UNCHANGED fileVars, Pending' = Pending, Results' = Results
    PROVE  FilesIInv'
<1>1. UNCHANGED <<table, held, closers, stolen>>
  BY DEF fileVars
<1>2. \A y \in Files, g \in Fds : Has(y, g)' <=> Has(y, g)
  BY <1>1 DEF Has, Carries
<1>3. Owned' /\ StealsOnlyAfterClose'
  BY <1>1, <1>2, OwnedQuiet DEF FilesIInv
<1>4. AllMeant'
  BY <1>1 DEF FilesIInv, AllMeant, Meant
<1>5. FileTypes' /\ OneToken'
  BY <1>1 DEF FilesIInv, FileTypes, OneToken
<1> QED BY <1>3, <1>4, <1>5 DEF FilesIInv

(* Nothing of a file that is not in use. *)
LEMMA UnusedFacts ==
    ASSUME RingIInv, FilesIInv, NEW x \in Files, Unused(x)
    PROVE  /\ held[x] = -1 /\ \A r \in Pending : r.file # x
           /\ \A g \in Fds : ~Has(x, g)
<1>1. held[x] = -1
  <2>1. held[x] \in Fds \cup {-1} /\ held[x] < 0
    BY DEF Unused, FilesIInv, FileTypes
  <2>2. \A fd \in Fds : ~(fd < 0)
    BY IOAssumption
  <2> QED BY <2>1, <2>2
<1>2. \A r \in Pending : r.file # x
  BY DEF Unused, Pending, Range
<1>3. -1 \notin Fds
  BY IOAssumption
<1> QED BY <1>1, <1>2, <1>3 DEF Has

LEMMA AsyncOpenFiles ==
    ASSUME RingIInv, FilesIInv, NEW x \in Files, Unused(x), async_open(x)
    PROVE  FilesIInv'
<1>0. FileTypes /\ OneToken /\ AllMeant /\ Owned /\ StealsOnlyAfterClose
  BY DEF FilesIInv
<1>1. /\ UNCHANGED <<table, held, closers, stolen, contexts, cq, events>> /\ Submit(x, "open", -1)
  BY DEF async_open, fileVars
<1>2. PICK r : /\ r.uid = uids /\ r.file = x /\ r.op = "open" /\ r.fd = -1
               /\ Pending' = Pending \cup {r}
  BY <1>1, PendingSubmit
<1>3. Results' = Results /\ \A e \in Results : e.uid # uids
  BY <1>1, PendingFacts DEF Results
<1>4. held[x] = -1 /\ \A s \in Pending : s.file # x
  BY UnusedFacts
<1>5. \A g \in Fds : ~Carries(r, g)'
  BY <1>2, <1>3, IOAssumption DEF Carries
<1>6. \A y \in Files, g \in Fds : Has(y, g)' <=> Has(y, g)
  BY <1>1, <1>2, <1>3, <1>5 DEF Has, Carries
<1>7. OneToken'
  BY <1>0, <1>1, <1>2, <1>4 DEF OneToken
<1>8. AllMeant'
  BY <1>0, <1>1, <1>2, <1>3 DEF AllMeant, Meant
<1>9. FileTypes'
  BY <1>0, <1>1 DEF FileTypes
<1> QED BY <1>0, <1>1, <1>6, <1>7, <1>8, <1>9, OwnedQuiet DEF FilesIInv

LEMMA AsyncOpFiles ==
    ASSUME RingIInv, FilesIInv, NEW x \in Files, NEW op \in {"write", "close"}, async_op(x, op)
    PROVE  FilesIInv'
<1>0. FileTypes /\ OneToken /\ AllMeant /\ Owned /\ StealsOnlyAfterClose
  BY DEF FilesIInv
<1>1. PICK fd : fd = held[x]
  OBVIOUS
<1>2. fd \in Fds /\ held \in [Files -> Fds \cup {-1}] /\ fd # -1 /\ -1 \notin Fds
  BY <1>0, <1>1, IOAssumption DEF async_op, FileTypes
<1>3. /\ UNCHANGED <<table, stolen, contexts, cq, events>> /\ Submit(x, op, fd)
      /\ held' = [held EXCEPT ![x] = -1]
      /\ closers' = IF op = "close" THEN closers \cup {x} ELSE closers
  BY <1>1 DEF async_op
<1>4. PICK r : /\ r.uid = uids /\ r.file = x /\ r.op = op /\ r.fd = fd
               /\ Pending' = Pending \cup {r}
  BY <1>3, PendingSubmit
<1>5. Results' = Results
  BY <1>3 DEF Results
<1>6. \A s \in Pending : s.file # x
  BY <1>0, <1>1, <1>2 DEF OneToken
<1>7. \A g \in Fds : Carries(r, g)' <=> g = fd
  BY <1>4 DEF Carries
<1>8. \A y \in Files, g \in Fds : Has(y, g)' <=> Has(y, g)
  <2> SUFFICES ASSUME NEW y \in Files, NEW g \in Fds PROVE Has(y, g)' <=> Has(y, g)
    OBVIOUS
  <2>1. \A s \in Pending : Carries(s, g)' <=> Carries(s, g)
    BY <1>5 DEF Carries
  <2>2. held'[y] = IF y = x THEN -1 ELSE held[y]
    BY <1>2, <1>3
  <2>3. CASE y = x
    BY <1>1, <1>2, <1>4, <1>6, <1>7, <2>2, <2>3 DEF Has
  <2>4. CASE y # x
    BY <1>4, <2>1, <2>2, <2>4 DEF Has
  <2> QED BY <2>3, <2>4
<1>9. closers \subseteq closers' /\ closers' \subseteq Files
  BY <1>0, <1>3 DEF FileTypes
<1>10. OneToken'
  <2>1. \A s \in Pending : held'[s.file] = -1
    BY <1>0, <1>2, <1>3, <1>6, PendingFacts DEF OneToken, Request
  <2>2. held'[x] = -1
    BY <1>2, <1>3
  <2> QED BY <1>0, <1>4, <1>6, <2>1, <2>2 DEF OneToken
<1>11. AllMeant'
  <2>1. \A s \in Pending : Meant(s)'
    BY <1>0, <1>9 DEF AllMeant, Meant
  <2>2. Meant(r)'
    BY <1>2, <1>3, <1>4 DEF Meant
  <2> QED BY <1>0, <1>4, <1>5, <2>1, <2>2 DEF AllMeant
<1>12. FileTypes'
  BY <1>0, <1>2, <1>3, <1>9 DEF FileTypes
<1> QED BY <1>0, <1>3, <1>8, <1>9, <1>10, <1>11, <1>12, OwnedQuiet DEF FilesIInv

LEMMA ImmediatelyOpenFiles ==
    ASSUME RingIInv, FilesIInv, NEW x \in Files, Unused(x), immediately_open(x)
    PROVE  FilesIInv'
<1>0. FileTypes /\ OneToken /\ AllMeant /\ Owned /\ StealsOnlyAfterClose
  BY DEF FilesIInv
<1>1. PICK fd \in Free : Opens(x, fd) /\ held' = [held EXCEPT ![x] = fd]
  BY LowestFree DEF immediately_open
<1>2. UNCHANGED <<requests, contexts, cq, events, closers, stolen>>
  BY DEF immediately_open, ringVars
<1>3. Pending' = Pending /\ Results' = Results
  BY <1>2 DEF Pending, Results
<1>4. held[x] = -1 /\ (\A s \in Pending : s.file # x) /\ (\A g \in Fds : ~Has(x, g))
  BY UnusedFacts
<1>5. fd \in Fds /\ held \in [Files -> Fds \cup {-1}]
  BY <1>0 DEF FileTypes, Free
<1>6. \A y \in Files : held'[y] = IF y = x THEN fd ELSE held[y]
  BY <1>1, <1>5
<1>7. \A y \in Files, g \in Fds : y # x => (Has(y, g)' <=> Has(y, g))
  BY <1>3, <1>6 DEF Has, Carries
<1>8. \A g \in Fds : Has(x, g)' <=> g = fd
  BY <1>3, <1>4, <1>6 DEF Has
<1>9. Owned' /\ StealsOnlyAfterClose' /\ table' \in [Fds -> Files \cup {None}]
  BY <1>0, <1>1, <1>2, <1>4, <1>7, <1>8, OwnedOpen
<1>10. OneToken'
  BY <1>0, <1>3, <1>4, <1>6, PendingFacts DEF OneToken, Request
<1>11. AllMeant'
  BY <1>0, <1>2, <1>3 DEF AllMeant, Meant
<1>12. FileTypes'
  BY <1>0, <1>1, <1>2, <1>5, <1>9 DEF FileTypes
<1> QED BY <1>9, <1>10, <1>11, <1>12 DEF FilesIInv

(* immediately_close keeps the number, the destructor does not. *)
LEMMA CloseFiles ==
    ASSUME RingIInv, FilesIInv, NEW x \in Files, immediately_close(x) \/ Destruct(x)
    PROVE  FilesIInv'
<1>0. FileTypes /\ OneToken /\ AllMeant /\ Owned /\ StealsOnlyAfterClose
  BY DEF FilesIInv
<1>1. PICK fd : fd = held[x]
  OBVIOUS
<1>2. fd \in Fds /\ held \in [Files -> Fds \cup {-1}] /\ fd # -1
  BY <1>0, <1>1, IOAssumption DEF immediately_close, Destruct, FileTypes
<1>3. /\ close(x, fd) /\ UNCHANGED <<requests, contexts, cq, events>>
      /\ \/ held' = held /\ closers' = closers \cup {x}
         \/ held' = [held EXCEPT ![x] = -1] /\ closers' = closers
  BY <1>1 DEF immediately_close, Destruct, ringVars
<1>4. Pending' = Pending /\ Results' = Results
  BY <1>3 DEF Pending, Results
<1>5. \A s \in Pending : s.file # x
  BY <1>0, <1>1, <1>2 DEF OneToken
<1>6. /\ \A y \in Files : y # x => held'[y] = held[y]
      /\ held' \in [Files -> Fds \cup {-1}]
      /\ x \notin closers' => held'[x] = -1
  BY <1>2, <1>3
<1>7. \A y \in Files, g \in Fds : y # x => (Has(y, g)' <=> Has(y, g))
  BY <1>4, <1>6 DEF Has, Carries
<1>8. Has(x, fd) /\ \A g \in Fds : Has(x, g) => g = fd
  BY <1>1, <1>5 DEF Has
<1>9. x \notin closers' => \A g \in Fds : ~Has(x, g)'
  BY <1>4, <1>5, <1>6, IOAssumption DEF Has
<1>10. closers \subseteq closers' /\ closers' \subseteq Files
  BY <1>0, <1>3 DEF FileTypes
<1>11. Owned' /\ StealsOnlyAfterClose' /\ table' \in [Fds -> Files \cup {None}]
  BY <1>0, <1>3, <1>7, <1>8, <1>9, <1>10, OwnedClose
<1>12. OneToken'
  BY <1>0, <1>4, <1>5, <1>6, PendingFacts DEF OneToken, Request
<1>13. AllMeant'
  BY <1>0, <1>4, <1>10 DEF AllMeant, Meant
<1> QED BY <1>6, <1>10, <1>11, <1>12, <1>13 DEF FilesIInv, FileTypes

LEMMA CompleteFiles ==
    ASSUME RingIInv, FilesIInv, NEW u \in ring, Complete(u)
    PROVE  FilesIInv'
<1>0. FileTypes /\ OneToken /\ AllMeant /\ Owned /\ StealsOnlyAfterClose
  BY DEF FilesIInv
<1>1. PICK r \in Pending : r = contexts[u] /\ r.uid = u /\ r \in Request /\ \A e \in Results : e.uid # u
  BY PendingFacts
<1>2. UNCHANGED <<requests, contexts, events, held, closers>>
  BY DEF Complete
<1>3. Pending' = Pending
  BY <1>2 DEF Pending
<1>4. PICK x \in Files : x = r.file
  BY <1>1 DEF Request
<1>5. \A s \in Pending : s.file = x => s = r
  BY <1>0, <1>4 DEF OneToken
<1>6. held[x] = -1 /\ -1 \notin Fds
  BY <1>0, <1>4, IOAssumption DEF OneToken
<1>7. cq \in Seq(Completed)
  BY DEF RingIInv, RingTypes
<1>8. PICK res : /\ cq' = Append(cq, [uid |-> u, res |-> res])
                 /\ \/ r.op = "open" /\ res \in Free /\ Opens(x, res) /\ UNCHANGED stolen
                    \/ r.op = "open" /\ res = -1 /\ UNCHANGED <<table, stolen>>
                    \/ r.op = "close" /\ close(x, r.fd)
                    \/ r.op # "open" /\ UNCHANGED <<table, stolen>>
  <2> DEFINE fd == CHOOSE f \in Free : \A g \in Free : f <= g
  <2>1. Free # {} => fd \in Free
    BY LowestFree
  <2>2. \/ r.op = "open" /\ Free # {} /\ Opens(x, fd) /\ UNCHANGED stolen /\ cq' = Append(cq, [uid |-> u, res |-> fd])
        \/ r.op = "open" /\ UNCHANGED <<table, stolen>> /\ cq' = Append(cq, [uid |-> u, res |-> -1])
        \/ r.op = "close" /\ close(x, r.fd) /\ cq' = Append(cq, [uid |-> u, res |-> 0])
        \/ r.op # "open" /\ UNCHANGED <<table, stolen>> /\ cq' = Append(cq, [uid |-> u, res |-> 1])
    BY <1>1, <1>4 DEF Complete
  <2> HIDE DEF fd
  <2> QED BY <2>1, <2>2
<1>9. PICK e : e.uid = u /\ e.res = res /\ Results' = Results \cup {e}
  <2>1. Range(cq') = Range(cq) \cup {[uid |-> u, res |-> res]}
    BY <1>7, <1>8, RangeAppend
  <2>2. PICK e : e = [uid |-> u, res |-> res]
    OBVIOUS
  <2>3. e.uid = u /\ e.res = res
    BY <2>2
  <2> QED BY <1>2, <2>1, <2>2, <2>3 DEF Results
<1>10. \A s \in Pending : s # r => s.uid # u
  BY <1>1, PendingFacts
<1>11. \A s \in Pending, g \in Fds : s # r => (Carries(s, g)' <=> Carries(s, g))
  BY <1>9, <1>10 DEF Carries
<1>12. \A y \in Files, g \in Fds : y # x => (Has(y, g)' <=> Has(y, g))
  BY <1>2, <1>3, <1>4, <1>11 DEF Has
<1>13. \A g \in Fds : (Has(x, g) <=> Carries(r, g)) /\ (Has(x, g)' <=> Carries(r, g)')
  BY <1>2, <1>3, <1>4, <1>5, <1>6 DEF Has
<1>14. Meant(r)
  BY <1>0 DEF AllMeant
<1>15. OneToken'
  BY <1>0, <1>2, <1>3 DEF OneToken
<1>16. AllMeant'
  <2>1. \A s \in Pending : Meant(s)'
    BY <1>0, <1>2 DEF AllMeant, Meant
  <2>2. r.op = "open" => res \in Fds \cup {-1}
    BY <1>8 DEF Free
  <2> QED BY <1>0, <1>3, <1>9, <1>10, <2>1, <2>2 DEF AllMeant
<1>17. CASE r.op = "open"
  <2>1. \A g \in Fds : ~Carries(r, g) /\ (Carries(r, g)' <=> g = res)
    BY <1>1, <1>6, <1>9, <1>14, <1>17 DEF Carries, Meant
  <2>2. CASE res \in Free /\ Opens(x, res) /\ UNCHANGED stolen
    <3>1. Owned' /\ StealsOnlyAfterClose' /\ table' \in [Fds -> Files \cup {None}]
      BY <1>0, <1>2, <1>12, <1>13, <2>1, <2>2, OwnedOpen
    <3> QED BY <1>0, <1>2, <1>15, <1>16, <3>1 DEF FilesIInv, FileTypes
  <2>3. CASE res = -1 /\ UNCHANGED <<table, stolen>>
    <3>1. \A y \in Files, g \in Fds : Has(y, g)' <=> Has(y, g)
      BY <1>6, <1>12, <1>13, <2>1, <2>3
    <3>2. Owned' /\ StealsOnlyAfterClose'
      BY <1>0, <1>2, <2>3, <3>1, OwnedQuiet
    <3> QED BY <1>0, <1>2, <1>15, <1>16, <2>3, <3>2 DEF FilesIInv, FileTypes
  <2> QED BY <1>8, <1>17, <2>2, <2>3
<1>18. CASE r.op # "open"
  <2>1. \A g \in Fds : (Carries(r, g) <=> r.fd = g) /\ (Carries(r, g)' <=> r.fd = g)
    BY <1>18 DEF Carries
  <2>2. CASE r.op = "close" /\ close(x, r.fd)
    <3>1. x \in closers' /\ r.fd \in Fds
      BY <1>2, <1>4, <1>14, <2>2 DEF Meant
    <3>2. Owned' /\ StealsOnlyAfterClose' /\ table' \in [Fds -> Files \cup {None}]
      BY <1>0, <1>2, <1>12, <1>13, <2>1, <2>2, <3>1, OwnedClose
    <3> QED BY <1>0, <1>2, <1>15, <1>16, <3>2 DEF FilesIInv, FileTypes
  <2>3. CASE UNCHANGED <<table, stolen>>
    <3>1. \A y \in Files, g \in Fds : Has(y, g)' <=> Has(y, g)
      BY <1>12, <1>13, <2>1
    <3>2. Owned' /\ StealsOnlyAfterClose'
      BY <1>0, <1>2, <2>3, <3>1, OwnedQuiet
    <3> QED BY <1>0, <1>2, <1>15, <1>16, <2>3, <3>2 DEF FilesIInv, FileTypes
  <2> QED BY <1>8, <1>18, <2>2, <2>3
<1> QED BY <1>17, <1>18

(* The callback of a request: the number goes on with the next request, or is *)
(* closed.                                                                    *)
LEMMA CompletionFiles ==
    ASSUME RingIInv, FilesIInv, NEW next \in {None, "read", "close"}, Completion(next)
    PROVE  FilesIInv'
<1>0. FileTypes /\ OneToken /\ AllMeant /\ Owned /\ StealsOnlyAfterClose
  BY DEF FilesIInv
<1>1. PICK e : e = Head(events)
  OBVIOUS
<1>2. PICK r : r = contexts[e.uid]
  OBVIOUS
<1>3. PICK fd : fd = IF r.op = "open" THEN e.res ELSE r.fd
  OBVIOUS
<1>4. /\ events # <<>> /\ Handled(e.uid) /\ UNCHANGED held
      /\ closers' = IF next = "close" THEN closers \cup {r.file} ELSE closers
      /\ IF next # None /\ fd > 0
         THEN Submit(r.file, next, fd) /\ UNCHANGED <<table, stolen>>
         ELSE close(r.file, fd) /\ UNCHANGED <<requests, uids>>
  BY <1>1, <1>2, <1>3 DEF Completion
<1>5. /\ e \in Results /\ Results' = Results \ {e}
      /\ Range(contexts') = Range(contexts) \ {r} /\ r \notin Range(requests)
  BY <1>1, <1>2, <1>4, PendingHandled
<1>6. r \in Pending /\ r.uid = e.uid /\ r \in Request
  BY <1>2, <1>5, PendingFacts
<1>7. PICK x \in Files : x = r.file
  BY <1>6 DEF Request
<1>8. \A s \in Pending : s.file = x => s = r
  BY <1>0, <1>6, <1>7 DEF OneToken
<1>9. held[x] = -1 /\ -1 \notin Fds
  BY <1>0, <1>6, <1>7, IOAssumption DEF OneToken
<1>10. Meant(r) /\ (r.op = "open" => fd \in Fds \cup {-1}) /\ fd \in Fds \cup {-1}
  BY <1>0, <1>3, <1>5, <1>6 DEF AllMeant, Meant
<1>11. \A g \in Fds : Carries(r, g) <=> g = fd
  <2>1. \A d \in Results : d.uid = e.uid => d = e
    BY <1>5, PendingFacts
  <2>2. CASE r.op = "open"
    <3>1. r.fd = -1 /\ fd = e.res
      BY <1>3, <1>10, <2>2 DEF Meant
    <3> QED BY <1>5, <1>6, <1>9, <2>1, <2>2, <3>1 DEF Carries
  <2>3. CASE r.op # "open"
    BY <1>3, <2>3 DEF Carries
  <2> QED BY <2>2, <2>3
<1>12. \A g \in Fds : Has(x, g) <=> g = fd
  BY <1>6, <1>7, <1>8, <1>9, <1>11 DEF Has
<1>13. \A s \in Pending, g \in Fds : s # r => (Carries(s, g)' <=> Carries(s, g))
  <2>1. \A s \in Pending : s # r => s.uid # e.uid
    BY <1>6, PendingFacts
  <2> QED BY <1>5, <2>1 DEF Carries
<1>14. closers \subseteq closers' /\ closers' \subseteq Files
  BY <1>0, <1>4, <1>7 DEF FileTypes
<1>15. CASE next # None /\ fd > 0
  <2>1. UNCHANGED <<table, stolen>> /\ Submit(x, next, fd) /\ next \in {"read", "close"}
    BY <1>4, <1>7, <1>15
  <2>2. PICK s : /\ s.uid = uids /\ s.file = x /\ s.op = next /\ s.fd = fd
                 /\ Pending' = (Pending \ {r}) \cup {s}
    <3>1. PICK s : s = [uid |-> uids, file |-> x, op |-> next, fd |-> fd]
      OBVIOUS
    <3>2. Range(requests') = Range(requests) \cup {s}
      BY <2>1, <3>1, RangeAppend DEF Submit, RingIInv, RingTypes
    <3>3. s.uid = uids /\ s.file = x /\ s.op = next /\ s.fd = fd
      BY <3>1
    <3>4. s # r
      <4>1. uids # e.uid
        BY <1>5, PendingFacts
      <4> QED BY <1>6, <3>3, <4>1
    <3> QED BY <1>5, <3>2, <3>3, <3>4 DEF Pending
  <2>3. \A g \in Fds : Carries(s, g)' <=> g = fd
    BY <2>1, <2>2 DEF Carries
  <2>4. fd \in Fds
    BY <1>10, <1>15
  <2>5. \A y \in Files, g \in Fds : Has(y, g)' <=> Has(y, g)
    <3> SUFFICES ASSUME NEW y \in Files, NEW g \in Fds PROVE Has(y, g)' <=> Has(y, g)
      OBVIOUS
    <3>1. CASE y = x
      <4>1. Has(x, g)' <=> g = fd
        BY <1>4, <1>8, <1>9, <2>2, <2>3 DEF Has
      <4> QED BY <1>12, <3>1, <4>1
    <3>2. CASE y # x
      BY <1>4, <1>7, <1>13, <2>2, <3>2 DEF Has
    <3> QED BY <3>1, <3>2
  <2>6. Owned' /\ StealsOnlyAfterClose'
    BY <1>0, <1>14, <2>1, <2>5, OwnedQuiet
  <2>7. OneToken'
    BY <1>0, <1>4, <1>8, <1>9, <2>2 DEF OneToken
  <2>8. AllMeant'
    <3>1. Meant(s)'
      BY <1>4, <1>7, <2>1, <2>2, <2>4 DEF Meant
    <3>2. \A q \in Pending : Meant(q)'
      BY <1>0, <1>14 DEF AllMeant, Meant
    <3>3. s.op # "open"
      BY <2>1, <2>2
    <3> QED BY <1>0, <1>5, <2>2, <3>1, <3>2, <3>3 DEF AllMeant
  <2> QED BY <1>0, <1>4, <1>14, <2>1, <2>6, <2>7, <2>8 DEF FilesIInv, FileTypes
<1>16. CASE ~(next # None /\ fd > 0)
  <2>1. close(x, fd) /\ UNCHANGED requests
    BY <1>4, <1>7, <1>16
  <2>2. Pending' = Pending \ {r}
    BY <1>5, <2>1 DEF Pending
  <2>3. \A y \in Files, g \in Fds : y # x => (Has(y, g)' <=> Has(y, g))
    BY <1>4, <1>7, <1>13, <2>2 DEF Has
  <2>4. \A g \in Fds : ~Has(x, g)'
    BY <1>4, <1>8, <1>9, <2>2 DEF Has
  <2>5. Owned' /\ StealsOnlyAfterClose' /\ table' \in [Fds -> Files \cup {None}]
    BY <1>0, <1>12, <1>14, <2>1, <2>3, <2>4, OwnedClose
  <2>6. OneToken'
    BY <1>0, <1>4, <2>2 DEF OneToken
  <2>7. AllMeant'
    <3>1. \A q \in Pending : Meant(q)'
      BY <1>0, <1>14 DEF AllMeant, Meant
    <3> QED BY <1>0, <1>5, <2>2, <3>1 DEF AllMeant
  <2> QED BY <1>0, <1>4, <1>14, <2>5, <2>6, <2>7 DEF FilesIInv, FileTypes
<1> QED BY <1>15, <1>16

LEMMA FilesInitOK == IOInit => FilesIInv
<1> SUFFICES ASSUME IOInit PROVE FilesIInv
  OBVIOUS
<1>1. Pending = {} /\ Results = {}
  BY DEF IOInit, Pending, Results, Range
<1>2. FileTypes /\ OneToken /\ AllMeant
  BY <1>1 DEF IOInit, FileTypes, OneToken, AllMeant
<1>3. \A x \in Files, fd \in Fds : table[fd] # x /\ ~Has(x, fd)
  BY <1>1, IOAssumption DEF IOInit, Has
<1> QED BY <1>2, <1>3 DEF FilesIInv, Owned, StealsOnlyAfterClose, IOInit

LEMMA FilesStep == RingIInv /\ FilesIInv /\ [Next]_vars => FilesIInv'
<1> SUFFICES ASSUME RingIInv, FilesIInv, [Next]_vars PROVE FilesIInv'
  OBVIOUS
<1>0. ASSUME UNCHANGED <<requests, contexts, cq, events, fileVars>> PROVE FilesIInv'
  BY <1>0, FilesQuiet DEF Pending, Results
<1>00. ASSUME UNCHANGED <<ringVars, fileVars>> PROVE FilesIInv'
  BY <1>0, <1>00 DEF ringVars
<1>1. CASE Start \/ AddIOService \/ Finish
  BY <1>00, <1>1 DEF Start, AddIOService, Finish
<1>2. ASSUME NEW key \in Keys, Configure(key) PROVE FilesIInv'
  BY <1>00, <1>2 DEF Configure
<1>3. ASSUME NEW x \in Files, UseFile(x) PROVE FilesIInv'
  BY <1>3, AsyncOpenFiles, AsyncOpFiles, ImmediatelyOpenFiles, CloseFiles DEF UseFile
<1>4. ASSUME NEW t \in Threads, Worker(t) PROVE FilesIInv'
  <2>1. CASE LoopThread(t) \/ FindSelf
    BY <1>00, <2>1 DEF LoopThread, FindSelf
  <2>2. CASE Notifier /\ UNCHANGED fileVars
    BY <2>2, PendingNotifier, FilesQuiet
  <2>3. CASE io_uring_submit /\ UNCHANGED fileVars
    BY <1>0, <2>3 DEF io_uring_submit
  <2>4. CASE SubmitFails /\ UNCHANGED fileVars
    <3>1. events' = events /\ UNCHANGED <<requests, contexts, cq>>
      BY <2>4 DEF SubmitFails, RingIInv, Once
    <3> QED BY <1>0, <2>4, <3>1
  <2>5. CASE Collect /\ UNCHANGED fileVars
    BY <2>5, PendingCollect, FilesQuiet
  <2>6. ASSUME NEW next \in {None, "read", "close"}, Completion(next) PROVE FilesIInv'
    BY <2>6, CompletionFiles
  <2>7. CASE UNCHANGED <<requests, contexts, sq, ring, cq, m_used, events, uids, lost, answered, fails, fileVars>>
    BY <1>0, <2>7
  <2> QED BY <1>4, <2>1, <2>2, <2>3, <2>4, <2>5, <2>6, <2>7 DEF Worker, IOServiceTurn
<1>5. CASE Kernel
  BY <1>5, CompleteFiles DEF Kernel
<1>6. CASE AFileStep
  BY <1>00, <1>6 DEF AFileStep
<1>7. CASE UNCHANGED vars
  BY <1>00, <1>7 DEF vars
<1> QED BY <1>1, <1>2, <1>3, <1>4, <1>5, <1>6, <1>7 DEF Next

LEMMA OneHolderHolds == ASSUME RingIInv, FilesIInv PROVE OneHolder
<1> SUFFICES ASSUME NEW fd \in Fds, table[fd] # None, table[fd] \notin closers, ~stolen
             PROVE  Cardinality(Holders(table[fd], fd)) = 1
  BY DEF OneHolder
<1>0. FileTypes /\ OneToken /\ AllMeant /\ Owned
  BY DEF FilesIInv
<1>1. PICK x \in Files : x = table[fd]
  BY <1>0 DEF FileTypes
<1>2. Has(x, fd)
  BY <1>0, <1>1 DEF Owned
<1>3. -1 # fd
  BY IOAssumption
<1>4. SUFFICES \E h : Holders(x, fd) = {h}
  BY <1>1, FS_Singleton
<1>5. PICK H1, H2, H3, H4 :
        /\ H1 = {<<"request", i>> : i \in {j \in DOMAIN requests : requests[j].fd = fd /\ requests[j].file = x}}
        /\ H2 = {<<"context", u>> : u \in {v \in DOMAIN contexts : contexts[v].fd = fd /\ contexts[v].file = x}}
        /\ H3 = {<<"opened", e.uid>> : e \in {d \in Results :
                    contexts[d.uid].op = "open" /\ contexts[d.uid].file = x /\ d.res = fd}}
        /\ H4 = {<<"main", y>> : y \in {z \in {x} : held[z] = fd}}
  OBVIOUS
<1>6. Holders(x, fd) = H1 \cup H2 \cup H3 \cup H4
  BY <1>5 DEF Holders, Results
<1>7. /\ \A i \in DOMAIN requests : requests[i] \in Pending /\ requests[i].uid \in Uids(requests)
      /\ \A u \in DOMAIN contexts : contexts[u] \in Pending /\ contexts[u].uid = u
      /\ \A e \in Results : contexts[e.uid] \in Pending /\ contexts[e.uid].uid = e.uid
      /\ \A r, s \in Pending : r.file = s.file => r = s
      /\ \A i, j \in DOMAIN requests : requests[i] = requests[j] => i = j
  <2>1. \A u \in DOMAIN contexts : contexts[u].uid = u
    BY DEF RingIInv, InContext
  <2>2. \A i, j \in DOMAIN requests : requests[i] = requests[j] => i = j
    BY DEF RingIInv, Once, Distinct
  <2> QED BY <1>0, <2>1, <2>2, PendingFacts DEF Pending, Range, Uids, OneToken
<1>8. \A e \in Results : e.uid \notin Uids(requests)
  <2>1. Uids(requests) \cap Uids(cq) = {} /\ Uids(requests) \cap Uids(events) = {}
    BY PlaceFacts DEF RingIInv, Divides
  <2> QED BY <2>1 DEF Results, Range, Uids
<1>9. Uids(requests) \cap DOMAIN contexts = {}
  <2>1. Places[1] \cap (Places[2] \cup Places[3] \cup Places[4] \cup Places[5] \cup Places[7]) = {}
    BY PlaceFacts DEF RingIInv, Divides
  <2>2. DOMAIN contexts = Places[2] \cup Places[3] \cup Places[4] \cup Places[5] \cup Places[7]
    BY PlaceFacts DEF RingIInv, InContext
  <2> QED BY <2>1, <2>2, PlaceFacts
<1>10. CASE held[x] = fd
  <2>1. \A r \in Pending : r.file # x
    BY <1>0, <1>3, <1>10 DEF OneToken
  <2>2. H1 = {} /\ H2 = {} /\ H3 = {}
    BY <1>5, <1>7, <2>1
  <2>3. H4 = {<<"main", x>>}
    BY <1>5, <1>10
  <2> QED BY <1>6, <2>2, <2>3
<1>11. ASSUME NEW r \in Pending, r.file = x, Carries(r, fd), held[x] # fd
       PROVE  \E h : Holders(x, fd) = {h}
  <2>1. H4 = {} /\ Meant(r)
    BY <1>0, <1>5, <1>11 DEF AllMeant
  <2>2. \A s \in Pending : s.file = x => s = r
    BY <1>7, <1>11
  <2>3. ASSUME NEW i \in DOMAIN requests, requests[i] = r PROVE \E h : Holders(x, fd) = {h}
    <3>1. r.fd = fd
      <4>1. \A e \in Results : e.uid # r.uid
        BY <1>7, <1>8, <2>3
      <4> QED BY <1>11, <4>1 DEF Carries
    <3>2. \A u \in DOMAIN contexts : contexts[u] # r
      BY <1>7, <1>9, <2>3
    <3>3. H2 = {}
      BY <1>5, <1>7, <2>2, <3>2
    <3>4. H3 = {}
      <4>1. \A e \in Results : contexts[e.uid] # r
        BY <1>7, <1>8, <2>3
      <4> QED BY <1>5, <1>7, <2>2, <4>1
    <3>5. H1 = {<<"request", i>>}
      <4>1. \A j \in DOMAIN requests : requests[j].fd = fd /\ requests[j].file = x => j = i
        BY <1>7, <2>2, <2>3
      <4> QED BY <1>5, <1>11, <2>3, <3>1, <4>1
    <3> QED BY <1>6, <2>1, <3>3, <3>4, <3>5
  <2>4. ASSUME NEW u \in DOMAIN contexts, contexts[u] = r PROVE \E h : Holders(x, fd) = {h}
    <3>1. \A i \in DOMAIN requests : requests[i] # r
      BY <1>7, <1>9, <2>4
    <3>2. H1 = {}
      BY <1>5, <1>7, <2>2, <3>1
    <3>3. \A v \in DOMAIN contexts : contexts[v].file = x => v = u
      BY <1>7, <2>2, <2>4
    <3>4. \A e \in Results : contexts[e.uid].file = x => contexts[e.uid] = r /\ e.uid = u
      BY <1>7, <2>2, <2>4
    <3>5. CASE r.op = "open"
      <4>1. r.fd # fd
        BY <1>3, <2>1, <3>5 DEF Meant
      <4>2. H2 = {}
        BY <1>5, <2>4, <3>3, <4>1
      <4>3. PICK e \in Results : e.uid = r.uid /\ e.res = fd
        BY <1>11, <4>1 DEF Carries
      <4>4. e.uid = u /\ contexts[e.uid] = r
        BY <1>7, <2>4, <4>3
      <4>5. H3 = {<<"opened", u>>}
        <5>1. \A h \in H3 : h = <<"opened", u>>
          BY <1>5, <3>4
        <5>2. <<"opened", u>> \in H3
          BY <1>5, <1>11, <3>5, <4>3, <4>4
        <5> QED BY <5>1, <5>2
      <4> QED BY <1>6, <2>1, <3>2, <4>2, <4>5
    <3>6. CASE r.op # "open"
      <4>1. r.fd = fd
        BY <1>11, <3>6 DEF Carries
      <4>2. H3 = {}
        BY <1>5, <3>4, <3>6
      <4>3. H2 = {<<"context", u>>}
        BY <1>5, <1>11, <2>4, <3>3, <4>1
      <4> QED BY <1>6, <2>1, <3>2, <4>2, <4>3
    <3> QED BY <3>5, <3>6
  <2> QED BY <2>3, <2>4 DEF Pending, Range
<1> QED BY <1>2, <1>10, <1>11 DEF Has

(* Whatever the number of files, descriptors and requests: an open descriptor *)
(* has one holder until its file is closed explicitly, a file closes another  *)
(* one's descriptor only after such a close, and AFile reads the path that    *)
(* areopen was last asked for.                                                *)
THEOREM FilesCorrect == Spec => []FilesHeld
<1>1. Init => LoopIInv /\ RingIInv /\ FilesIInv /\ AFileIInv
  BY LoopInitOK, RingInitOK, FilesInitOK, AFileInitOK DEF Init
<1>2. LoopIInv /\ RingIInv /\ FilesIInv /\ AFileIInv /\ [Next]_vars
        => (LoopIInv /\ RingIInv /\ FilesIInv /\ AFileIInv)'
  BY LoopStep, RingStep, FilesStep, AFileInv
<1>3. Spec => [](LoopIInv /\ RingIInv /\ FilesIInv /\ AFileIInv)
  BY <1>1, <1>2, PTL DEF Spec
<1>4. LoopIInv /\ RingIInv /\ FilesIInv /\ AFileIInv => FilesHeld
  <2> SUFFICES ASSUME LoopIInv, RingIInv, FilesIInv, AFileIInv PROVE FilesHeld
    OBVIOUS
  <2>1. /\ services \in [Threads -> SUBSET Keys] /\ cursor \in [Threads -> Keys \cup {Nowhere}]
        /\ main \in {"new", "run", "join", "end"}
    BY DEF LoopIInv, LoopTypes
  <2>2. m_used \in Nat
    BY DEF RingIInv, RingTypes
  <2>3. \A f \in Fds : table[f] \in Files \cup {None}
    BY DEF FilesIInv, FileTypes
  <2>4. FileTypeOK
    BY <2>1, <2>2, <2>3 DEF FileTypeOK, AFileIInv
  <2> QED BY <2>4, OneHolderHolds DEF FilesHeld, FilesIInv, AFileIInv
<1> QED BY <1>3, <1>4, PTL

=============================================================================
