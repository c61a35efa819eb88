---------------------------- MODULE QueueProofs ----------------------------
(***************************************************************************)
(* Proofs about the queues of include/base.                                *)
(*                                                                         *)
(* MutexQue, for any number of producers and of values: the types, the     *)
(* consumer's invariant, exactly-once and producer order, and the          *)
(* refinement of Fifo.                                                     *)
(*                                                                         *)
(* The circular buffer, for every element type, every minimal capacity of  *)
(* at least 2 (the code has 16) and every number of elements: add and pop  *)
(* do to the contents what Append and Tail do, so CircularQueue implements *)
(* PlainQueue, and MutexQueCircle, which has two buffers, implements       *)
(* MutexQue.                                                               *)
(*                                                                         *)
(* TaskDistributor, the threads that run what is in such queues, for any   *)
(* number of workers, clients, tasks and restarts.                         *)
(***************************************************************************)
EXTENDS Queues, TaskDistributor, SequenceTheorems, TLAPS

(* A non-empty sequence is its head followed by its tail.                    *)
LEMMA HeadTailConcat ==
  ASSUME NEW S, NEW s \in Seq(S), s # <<>>
  PROVE  s = <<Head(s)>> \o Tail(s)
<1>1. Len(s) \in Nat \ {0} /\ s[1] = Head(s)
  BY EmptySeq
<1>2. Tail(s) = SubSeq(s, 2, Len(s))
  BY TailIsSubSeq
<1>3. SubSeq(s, 1, Len(s)) = <<s[1]>> \o SubSeq(s, 1 + 1, Len(s))
  BY <1>1, SubSeqRecursiveFirst
<1>4. SubSeq(s, 1, Len(s)) = s
  BY SubSeqFull
<1> QED BY <1>1, <1>2, <1>3, <1>4

(* Two one-element sequences make a pair.                                    *)
LEMMA PairConcat ==
  ASSUME NEW S, NEW v \in S, NEW w \in S
  PROVE  /\ <<v>> \in Seq(S) /\ <<w>> \in Seq(S)
         /\ <<v>> \o <<w>> = <<v, w>>
<1>1. <<v>> \in Seq(S) /\ <<w>> \in Seq(S)
  OBVIOUS
<1>2. Append(<<v>>, w) = <<v>> \o <<w>>
  BY <1>1, AppendIsConcat
<1>3. Append(<<v>>, w) = <<v, w>>
  <2> DEFINE s == Append(<<v>>, w)
             t == <<v, w>>
  <2>1. s \in Seq(S) /\ Len(s) = 2 /\ s[1] = v /\ s[2] = w
    BY <1>1, AppendProperties
  <2>2. t \in Seq(S) /\ Len(t) = 2 /\ t[1] = v /\ t[2] = w
    OBVIOUS
  <2> HIDE DEF s, t
  <2>3. \A i \in 1 .. Len(s) : s[i] = t[i]
    BY <2>1, <2>2
  <2>4. s = t
    BY <2>1, <2>2, <2>3, SeqEqual
  <2> QED BY <2>4 DEF s, t
<1> QED BY <1>1, <1>2, <1>3

(* Cutting a concatenation where it was joined gives the parts back.         *)
LEMMA CutConcat ==
  ASSUME NEW S, NEW a \in Seq(S), NEW b \in Seq(S)
  PROVE  /\ SubSeq(a \o b, 1, Len(a)) = a
         /\ SubSeq(a \o b, Len(a) + 1, Len(a \o b)) = b
<1> DEFINE s == a \o b
           l == SubSeq(s, 1, Len(a))
           r == SubSeq(s, Len(a) + 1, Len(s))
<1>1. Len(a) \in Nat /\ Len(b) \in Nat
  BY LenProperties
<1>2. /\ s \in Seq(S)
      /\ Len(s) = Len(a) + Len(b)
      /\ \A i \in 1 .. Len(a) + Len(b) :
            s[i] = IF i <= Len(a) THEN a[i] ELSE b[i - Len(a)]
  BY ConcatProperties
<1>3. \A i \in 1 .. Len(s) : s[i] \in S
  BY <1>2, ElementOfSeq
<1> HIDE DEF s
<1>4. /\ l \in Seq(S) /\ Len(l) = Len(a)
      /\ \A i \in 1 .. Len(a) : l[i] = s[i]
  <2>1. \A i \in 1 .. Len(a) : s[i] \in S
    BY <1>1, <1>2, <1>3
  <2> QED BY <1>1, <2>1, SubSeqProperties
<1>5. /\ r \in Seq(S) /\ Len(r) = Len(b)
      /\ \A i \in 1 .. Len(b) : r[i] = s[Len(a) + i]
  <2>1. \A i \in Len(a) + 1 .. Len(s) : s[i] \in S
    BY <1>1, <1>2, <1>3
  <2>2. /\ r \in Seq(S)
        /\ Len(r) = IF Len(a) + 1 <= Len(s) THEN Len(s) - (Len(a) + 1) + 1 ELSE 0
        /\ \A i \in 1 .. Len(s) - (Len(a) + 1) + 1 :
              r[i] = s[(Len(a) + 1) + i - 1]
    BY <1>1, <1>2, <2>1, SubSeqProperties
  <2> HIDE DEF r
  <2>3. Len(r) = Len(b)
    BY <1>1, <1>2, <2>2
  <2>4. ASSUME NEW i \in 1 .. Len(b) PROVE r[i] = s[Len(a) + i]
    <3>1. /\ i \in 1 .. Len(s) - (Len(a) + 1) + 1
          /\ (Len(a) + 1) + i - 1 = Len(a) + i
      BY <1>1, <1>2
    <3> QED BY <2>2, <3>1
  <2> QED BY <2>2, <2>3, <2>4
<1> HIDE DEF l, r
<1>6. l = a
  <2>1. \A i \in 1 .. Len(l) : l[i] = a[i]
    BY <1>1, <1>2, <1>4
  <2> QED BY <1>4, <2>1, SeqEqual
<1>7. r = b
  <2>1. ASSUME NEW i \in 1 .. Len(r) PROVE r[i] = b[i]
    <3>1. /\ r[i] = s[Len(a) + i]
          /\ Len(a) + i \in 1 .. Len(a) + Len(b)
          /\ ~(Len(a) + i <= Len(a))
          /\ (Len(a) + i) - Len(a) = i
      BY <1>1, <1>5
    <3>2. s[Len(a) + i] = b[(Len(a) + i) - Len(a)]
      BY <1>2, <3>1
    <3> QED BY <3>1, <3>2
  <2> QED BY <1>5, <2>1, SeqEqual
<1> QED BY <1>6, <1>7 DEF l, r, s

-----------------------------------------------------------------------------
(* The type invariant: every buffer holds values of the producers, whatever  *)
(* the producers and the consumer do.                                        *)
THEOREM TypeCorrect == Spec => []TypeOK
<1>1. Init => TypeOK
  BY MaxPushAssumption DEF Init, TypeOK
<1>2. TypeOK /\ [Next]_vars => TypeOK'
  <2> SUFFICES ASSUME TypeOK, [Next]_vars PROVE TypeOK'
    OBVIOUS
  <2> USE MaxPushAssumption, InsertersAssumption DEF TypeOK
  <2>1. ASSUME NEW p \in Producers, pushBack(p) PROVE TypeOK'
    <3>1. <<p, sent[p] + 1>> \in Value
      BY <2>1 DEF pushBack, Push, Value
    <3>2. m_tail' \in Seq(Value)
      BY <2>1, <3>1, AppendProperties DEF pushBack, Push
    <3> QED BY <2>1, <3>2 DEF pushBack, Push, cvars
  <2>2. ASSUME NEW p \in Inserters, appendFromDeque(p) PROVE TypeOK'
    <3>1. p \in Producers /\ sent[p] \in 0 .. MaxPush /\ sent[p] + 1 < MaxPush
      BY <2>2 DEF appendFromDeque
    <3>2. << <<p, sent[p] + 1>>, <<p, sent[p] + 2>> >> \in Seq(Value)
      BY <3>1 DEF Value
    <3>3. m_tail' \in Seq(Value)
      BY <2>2, <3>2, ConcatProperties DEF appendFromDeque
    <3> QED BY <2>2, <3>1, <3>3 DEF appendFromDeque, cvars
  <2>3. ASSUME NEW o \in {"takeOne", "takeMulti"}, CallTake(o) PROVE TypeOK'
    BY <2>3 DEF CallTake, qvars
  <2>4. CASE Swap
    BY <2>4 DEF Swap
  <2>5. CASE ReturnNone
    BY <2>5 DEF ReturnNone, qvars
  <2>6. CASE takeOne
    <3>1. Head(m_front) \in Value /\ Tail(m_front) \in Seq(Value)
      BY <2>6, HeadTailProperties DEF takeOne
    <3> QED BY <2>6, <3>1 DEF takeOne
  <2>7. CASE takeMulti
    BY <2>7 DEF takeMulti
  <2>8. CASE Handle
    <3>1. Head(held) \in Value /\ Tail(held) \in Seq(Value)
      BY <2>8, HeadTailProperties DEF Handle
    <3>2. handled' \in Seq(Value)
      BY <2>8, <3>1, AppendProperties DEF Handle
    <3> QED BY <2>8, <3>1, <3>2 DEF Handle, qvars
  <2>9. CASE putBack
    <3>1. m_tail' \in Seq(Value)
      BY <2>9, ConcatProperties DEF putBack
    <3> QED BY <2>9, <3>1 DEF putBack
  <2>10. CASE UNCHANGED vars
    BY <2>10 DEF vars
  <2> QED
    BY <2>1, <2>2, <2>3, <2>4, <2>5, <2>6, <2>7, <2>8, <2>9, <2>10
    DEF Next, Produce, Consume
<1> QED BY <1>1, <1>2, PTL DEF Spec

(* The consumer's invariant: m_front is empty at the swap and while a batch  *)
(* of takeMulti is held, and non-empty where the code reads its front        *)
(* without a second test.                                                    *)
THEOREM ConsumerCorrect == Spec => []ConsumerInv
<1>1. Init => ConsumerInv
  BY DEF Init, ConsumerInv
<1>2. TypeOK /\ ConsumerInv /\ [Next]_vars => ConsumerInv'
  <2> SUFFICES ASSUME TypeOK, ConsumerInv, [Next]_vars PROVE ConsumerInv'
    OBVIOUS
  <2> USE DEF ConsumerInv
  <2>1. CASE Produce
    BY <2>1 DEF Produce, pushBack, Push, appendFromDeque, cvars
  <2>2. ASSUME NEW o \in {"takeOne", "takeMulti"}, CallTake(o)
        PROVE ConsumerInv'
    BY <2>2 DEF CallTake, qvars
  <2>3. CASE Swap
    BY <2>3 DEF Swap
  <2>4. CASE ReturnNone
    BY <2>4 DEF ReturnNone, qvars
  <2>5. CASE takeOne
    BY <2>5 DEF takeOne
  <2>6. CASE takeMulti
    BY <2>6 DEF takeMulti
  <2>7. CASE Handle
    BY <2>7 DEF Handle, qvars
  <2>8. CASE putBack
    BY <2>8 DEF putBack
  <2>9. CASE UNCHANGED vars
    BY <2>9 DEF vars
  <2> QED
    BY <2>1, <2>2, <2>3, <2>4, <2>5, <2>6, <2>7, <2>8, <2>9
    DEF Next, Consume
<1> QED BY <1>1, <1>2, TypeCorrect, PTL DEF Spec

-----------------------------------------------------------------------------
(* One value v put between X and Y: where the elements of the new sequence   *)
(* come from.                                                                *)
LEMMA InsertElements ==
  ASSUME NEW X \in Seq(Value), NEW Y \in Seq(Value), NEW v \in Value
  PROVE  LET s == X \o Y
             t == X \o (<<v>> \o Y)
         IN  /\ s \in Seq(Value) /\ t \in Seq(Value)
             /\ Len(s) = Len(X) + Len(Y)
             /\ Len(t) = Len(s) + 1
             /\ \A i \in 1 .. Len(X) : t[i] = s[i]
             /\ t[Len(X) + 1] = v
             /\ \A i \in Len(X) + 1 .. Len(s) : t[i + 1] = s[i]
<1> DEFINE s == X \o Y
           u == <<v>> \o Y
           t == X \o u
<1>0. Len(X) \in Nat /\ Len(Y) \in Nat
  BY LenProperties
<1>1. /\ <<v>> \in Seq(Value) /\ Len(<<v>>) = 1 /\ <<v>>[1] = v
  OBVIOUS
<1>2. /\ s \in Seq(Value)
      /\ Len(s) = Len(X) + Len(Y)
      /\ \A i \in 1 .. Len(X) + Len(Y) :
            s[i] = IF i <= Len(X) THEN X[i] ELSE Y[i - Len(X)]
  BY ConcatProperties
<1>3. /\ u \in Seq(Value)
      /\ Len(u) = 1 + Len(Y)
      /\ \A i \in 1 .. 1 + Len(Y) :
            u[i] = IF i <= 1 THEN <<v>>[i] ELSE Y[i - 1]
  BY <1>1, ConcatProperties
<1> HIDE DEF u, s
<1>4. /\ t \in Seq(Value)
      /\ Len(t) = Len(X) + Len(u)
      /\ \A i \in 1 .. Len(X) + Len(u) :
            t[i] = IF i <= Len(X) THEN X[i] ELSE u[i - Len(X)]
  BY <1>3, ConcatProperties
<1> HIDE DEF t
<1>5. Len(t) = Len(s) + 1
  BY <1>0, <1>2, <1>3, <1>4
<1>6. \A i \in 1 .. Len(X) : t[i] = s[i]
  BY <1>0, <1>2, <1>3, <1>4
<1>7. t[Len(X) + 1] = v
  <2>1. /\ Len(X) + 1 \in 1 .. Len(X) + Len(u) /\ ~(Len(X) + 1 <= Len(X))
        /\ Len(X) + 1 - Len(X) = 1 /\ 1 \in 1 .. 1 + Len(Y)
    BY <1>0, <1>3
  <2>2. t[Len(X) + 1] = u[1]
    BY <1>4, <2>1
  <2>3. u[1] = v
    BY <1>1, <1>3, <2>1
  <2> QED BY <2>2, <2>3
<1>8. \A i \in Len(X) + 1 .. Len(s) : t[i + 1] = s[i]
  <2> SUFFICES ASSUME NEW i \in Len(X) + 1 .. Len(s) PROVE t[i + 1] = s[i]
    OBVIOUS
  <2>1. t[i + 1] = u[(i + 1) - Len(X)]
    BY <1>0, <1>2, <1>3, <1>4
  <2>2. u[(i + 1) - Len(X)] = Y[((i + 1) - Len(X)) - 1]
    BY <1>0, <1>2, <1>3
  <2>3. s[i] = Y[i - Len(X)]
    <3>1. i \in 1 .. Len(X) + Len(Y) /\ ~(i <= Len(X))
      BY <1>0, <1>2
    <3> QED BY <1>2, <3>1
  <2>4. ((i + 1) - Len(X)) - 1 = i - Len(X)
    BY <1>0, <1>2
  <2> QED BY <2>1, <2>2, <2>3, <2>4
<1> QED
  BY <1>2, <1>4, <1>5, <1>6, <1>7, <1>8 DEF s, t, u

(* A value is a producer and a positive serial.                              *)
LEMMA ValueParts ==
  \A v \in Value : v[1] \in Producers /\ v[2] \in Nat
BY MaxPushAssumption DEF Value

(* A fresh value of p entering anywhere keeps exactly-once.                  *)
LEMMA InsertOnce ==
  ASSUME NEW X \in Seq(Value), NEW Y \in Seq(Value),
         NEW n \in [Producers -> Nat], NEW p \in Producers,
         <<p, n[p] + 1>> \in Value,
         Once(X \o Y, n)
  PROVE  Once(X \o (<< <<p, n[p] + 1>> >> \o Y), [n EXCEPT ![p] = @ + 1])
<1> DEFINE s == X \o Y
           v == <<p, n[p] + 1>>
           t == X \o (<<v>> \o Y)
           m == [n EXCEPT ![p] = @ + 1]
           L == Len(X)
<1>0. L \in Nat /\ Len(Y) \in Nat
  BY LenProperties
<1>1. /\ s \in Seq(Value) /\ t \in Seq(Value)
      /\ Len(s) = L + Len(Y)
      /\ Len(t) = Len(s) + 1
      /\ \A i \in 1 .. L : t[i] = s[i]
      /\ t[L + 1] = v
      /\ \A i \in L + 1 .. Len(s) : t[i + 1] = s[i]
  BY InsertElements
<1>2. /\ v \in Value /\ v[1] = p /\ v[2] = n[p] + 1
      /\ \A i \in 1 .. Len(s) : s[i] \in Value
  BY <1>1, ElementOfSeq
<1>3. \A i \in 1 .. Len(s) : s[i][1] \in Producers /\ s[i][2] \in Nat
  BY <1>2, ValueParts
<1>4. /\ \A q \in Producers : \A k \in 1 .. n[q] :
             \E i \in 1 .. Len(s) : s[i] = <<q, k>>
      /\ \A i \in 1 .. Len(s) : s[i][2] <= n[s[i][1]]
      /\ \A i, j \in 1 .. Len(s) : s[i] = s[j] => i = j
  BY DEF Once
<1>5. m \in [Producers -> Nat] /\ m[p] = n[p] + 1
      /\ \A q \in Producers : q # p => m[q] = n[q]
  OBVIOUS
<1> HIDE DEF s, t, m, L, v
<1>6. \A i \in 1 .. Len(s) : s[i] # v
  BY <1>2, <1>3, <1>4
<1>7. \A i \in 1 .. Len(t) :
         \/ i <= L /\ i \in 1 .. Len(s) /\ t[i] = s[i]
         \/ i = L + 1 /\ t[i] = v
         \/ i > L + 1 /\ (i - 1) \in 1 .. Len(s) /\ t[i] = s[i - 1]
  <2> SUFFICES ASSUME NEW i \in 1 .. Len(t), i > L + 1
               PROVE (i - 1) \in 1 .. Len(s) /\ t[i] = s[i - 1]
    BY <1>0, <1>1
  <2>1. (i - 1) \in L + 1 .. Len(s) /\ (i - 1) + 1 = i
    BY <1>0, <1>1
  <2>2. t[(i - 1) + 1] = s[i - 1]
    BY <1>1, <2>1
  <2> QED BY <1>0, <2>1, <2>2
<1>8. ASSUME NEW q \in Producers, NEW k \in 1 .. m[q]
      PROVE \E i \in 1 .. Len(t) : t[i] = <<q, k>>
  <2>1. CASE q = p /\ k = n[p] + 1
    <3>1. L + 1 \in 1 .. Len(t) /\ t[L + 1] = <<q, k>>
      BY <1>0, <1>1, <2>1 DEF v
    <3> QED BY <3>1
  <2>2. CASE ~(q = p /\ k = n[p] + 1)
    <3>1. k \in 1 .. n[q]
      BY <1>5, <2>2
    <3>2. PICK i \in 1 .. Len(s) : s[i] = <<q, k>>
      BY <1>4, <3>1
    <3>3. CASE i <= L
      <4>1. i \in 1 .. Len(t) /\ t[i] = s[i]
        BY <1>0, <1>1, <3>3
      <4> QED BY <3>2, <4>1
    <3>4. CASE i > L
      <4>1. i \in L + 1 .. Len(s) /\ i + 1 \in 1 .. Len(t)
        BY <1>0, <1>1, <3>4
      <4>2. t[i + 1] = <<q, k>>
        BY <1>1, <3>2, <4>1
      <4> QED BY <4>1, <4>2
    <3> QED BY <1>0, <3>3, <3>4
  <2> QED BY <2>1, <2>2
<1>9. ASSUME NEW i \in 1 .. Len(t) PROVE t[i][2] <= m[t[i][1]]
  <2>1. ASSUME NEW k \in 1 .. Len(s) PROVE s[k][2] <= m[s[k][1]]
    <3>1. /\ s[k][1] \in Producers
          /\ s[k][2] \in Nat
          /\ s[k][2] <= n[s[k][1]]
      BY <1>3, <1>4
    <3>2. CASE s[k][1] = p
      BY <1>5, <3>1, <3>2
    <3>3. CASE s[k][1] # p
      BY <1>5, <3>1, <3>3
    <3> QED BY <3>2, <3>3
  <2>2. v[2] <= m[v[1]]
    BY <1>2, <1>5
  <2> QED BY <1>7, <2>1, <2>2
<1>10. ASSUME NEW i \in 1 .. Len(t), NEW j \in 1 .. Len(t), t[i] = t[j]
       PROVE i = j
  <2>1. \/ i <= L /\ i \in 1 .. Len(s) /\ t[i] = s[i]
        \/ i = L + 1 /\ t[i] = v
        \/ i > L + 1 /\ (i - 1) \in 1 .. Len(s) /\ t[i] = s[i - 1]
    BY <1>7
  <2>2. \/ j <= L /\ j \in 1 .. Len(s) /\ t[j] = s[j]
        \/ j = L + 1 /\ t[j] = v
        \/ j > L + 1 /\ (j - 1) \in 1 .. Len(s) /\ t[j] = s[j - 1]
    BY <1>7
  <2>3. CASE i = L + 1 \/ j = L + 1
    BY <1>0, <1>6, <1>10, <2>1, <2>2, <2>3
  <2>4. CASE i # L + 1 /\ j # L + 1
    BY <1>0, <1>4, <1>10, <2>1, <2>2, <2>4
  <2> QED BY <2>3, <2>4
<1>11. Once(t, m)
  BY <1>8, <1>9, <1>10 DEF Once
<1> QED BY <1>11 DEF t, m, v

(* A fresh value keeps the order of p's values if it enters at the end, and  *)
(* always if p is one of the producers the order does not speak of.          *)
LEMMA InsertOrdered ==
  ASSUME NEW X \in Seq(Value), NEW Y \in Seq(Value),
         NEW n \in [Producers -> Nat], NEW p \in Producers,
         <<p, n[p] + 1>> \in Value,
         Once(X \o Y, n), Ordered(X \o Y),
         p \in Inserters \/ Y = <<>>
  PROVE  Ordered(X \o (<< <<p, n[p] + 1>> >> \o Y))
<1> DEFINE s == X \o Y
           v == <<p, n[p] + 1>>
           t == X \o (<<v>> \o Y)
           L == Len(X)
<1>0. L \in Nat /\ Len(Y) \in Nat /\ (Y = <<>> => Len(Y) = 0)
  BY LenProperties
<1>1. /\ s \in Seq(Value) /\ t \in Seq(Value)
      /\ Len(s) = L + Len(Y)
      /\ Len(t) = Len(s) + 1
      /\ \A i \in 1 .. L : t[i] = s[i]
      /\ t[L + 1] = v
      /\ \A i \in L + 1 .. Len(s) : t[i + 1] = s[i]
  BY InsertElements
<1>2. /\ v[1] = p /\ v[2] = n[p] + 1
      /\ \A i \in 1 .. Len(s) : s[i] \in Value
  BY <1>1, ElementOfSeq
<1>3. \A i \in 1 .. Len(s) : s[i][1] \in Producers /\ s[i][2] \in Nat
  BY <1>2, ValueParts
<1>4. \A i \in 1 .. Len(s) : s[i][2] <= n[s[i][1]]
  BY DEF Once
<1>5. \A i, j \in 1 .. Len(s) :
         i < j /\ s[i][1] = s[j][1] /\ s[i][1] \notin Inserters
         => s[i][2] < s[j][2]
  BY DEF Ordered
<1> HIDE DEF s, t, L, v
<1> SUFFICES ASSUME NEW i \in 1 .. Len(t), NEW j \in 1 .. Len(t),
                    i < j, t[i][1] = t[j][1], t[i][1] \notin Inserters
             PROVE  t[i][2] < t[j][2]
  BY DEF Ordered, t, v
<1>6. \A k \in 1 .. Len(t) :
         \/ k <= L /\ k \in 1 .. Len(s) /\ t[k] = s[k]
         \/ k = L + 1 /\ t[k] = v
         \/ k > L + 1 /\ (k - 1) \in 1 .. Len(s) /\ t[k] = s[k - 1]
  <2> SUFFICES ASSUME NEW k \in 1 .. Len(t), k > L + 1
               PROVE (k - 1) \in 1 .. Len(s) /\ t[k] = s[k - 1]
    <3>1. \A k \in 1 .. Len(t) :
             (k <= L /\ k \in 1 .. Len(s) /\ k \in 1 .. L) \/ k = L + 1 \/ k > L + 1
      BY <1>0, <1>1
    <3> QED BY <1>1, <3>1
  <2>1. (k - 1) \in L + 1 .. Len(s) /\ (k - 1) + 1 = k
    <3>1. Len(s) \in Nat /\ Len(t) = Len(s) + 1
      BY <1>0, <1>1
    <3> QED BY <1>0, <3>1
  <2>2. t[(k - 1) + 1] = s[k - 1]
    BY <1>1, <2>1
  <2> QED BY <1>0, <2>1, <2>2
<1>7. CASE j = L + 1
  <2>1. i \in 1 .. Len(s) /\ t[i] = s[i] /\ t[j] = v
    BY <1>0, <1>6, <1>7
  <2>2. s[i][2] <= n[p] /\ s[i][2] \in Nat /\ n[p] \in Nat
    BY <1>2, <1>3, <1>4, <2>1
  <2> QED BY <1>2, <2>1, <2>2
<1>8. CASE i = L + 1
  \* Then j is beyond it, so Y is not empty and p inserts.
  <2>1. Len(Y) # 0
    BY <1>0, <1>1, <1>8
  <2>2. p \in Inserters /\ t[i][1] = p
    BY <1>0, <1>1, <1>2, <1>8, <2>1
  <2> QED BY <2>2
<1>9. CASE i # L + 1 /\ j # L + 1
  <2>0. ASSUME NEW k \in 1 .. Len(t), k # L + 1
        PROVE \E a \in 1 .. Len(s) :
                 /\ t[k] = s[a]
                 /\ (a = k /\ k <= L) \/ (a = k - 1 /\ k > L + 1)
    <3>1. CASE k <= L
      <4>1. k \in 1 .. Len(s) /\ t[k] = s[k]
        BY <1>0, <1>1, <3>1
      <4> QED BY <3>1, <4>1
    <3>2. CASE k > L + 1
      <4>1. (k - 1) \in 1 .. Len(s) /\ t[k] = s[k - 1]
        BY <1>0, <1>6, <3>2
      <4> QED BY <3>2, <4>1
    <3> QED BY <1>0, <2>0, <3>1, <3>2
  <2>1. PICK a \in 1 .. Len(s) :
           /\ t[i] = s[a]
           /\ (a = i /\ i <= L) \/ (a = i - 1 /\ i > L + 1)
    BY <1>9, <2>0
  <2>2. PICK b \in 1 .. Len(s) :
           /\ t[j] = s[b]
           /\ (b = j /\ j <= L) \/ (b = j - 1 /\ j > L + 1)
    BY <1>9, <2>0
  <2>3. a < b
    BY <1>0, <2>1, <2>2
  <2> QED BY <1>5, <2>1, <2>2, <2>3
<1> QED BY <1>7, <1>8, <1>9

-----------------------------------------------------------------------------
(* What each step does to All, the sequence of everything there has been:    *)
(* the consumer's steps leave it alone, a push extends it, and a batch       *)
(* enters it between what has been swapped out and what has not.             *)
LEMMA ConsumeKeepsAll ==
  ASSUME TypeOK, ConsumerInv, Consume
  PROVE  All' = All /\ sent' = sent
<1> USE DEF TypeOK, ConsumerInv, All, Pending
<1>1. ASSUME NEW o \in {"takeOne", "takeMulti"}, CallTake(o)
      PROVE All' = All /\ sent' = sent
  BY <1>1 DEF CallTake, qvars
<1>2. CASE Swap
  <2>1. m_front = <<>> /\ m_front' = m_tail /\ m_tail' = <<>>
    BY <1>2 DEF Swap
  <2>2. m_front' \o m_tail' = m_front \o m_tail
    BY <2>1, ConcatEmptySeq
  <2> QED BY <1>2, <2>2 DEF Swap
<1>3. CASE ReturnNone
  BY <1>3 DEF ReturnNone, qvars
<1>4. CASE takeOne
  <2>1. held = <<>> /\ m_front # <<>>
    BY <1>4 DEF takeOne
  <2>2. Head(m_front) \in Value /\ Tail(m_front) \in Seq(Value)
    BY <2>1, HeadTailProperties
  <2>3. m_front = <<Head(m_front)>> \o Tail(m_front)
    BY <2>1, <2>2, HeadTailConcat
  <2>4. held' \o (m_front' \o m_tail') = m_front \o m_tail
    <3>1. <<Head(m_front)>> \in Seq(Value)
      BY <2>2
    <3>2. (<<Head(m_front)>> \o Tail(m_front)) \o m_tail
             = <<Head(m_front)>> \o (Tail(m_front) \o m_tail)
      BY <2>2, <3>1, ConcatAssociative
    <3> QED BY <1>4, <2>3, <3>2 DEF takeOne
  <2>5. held \o (m_front \o m_tail) = m_front \o m_tail
    <3>1. m_front \o m_tail \in Seq(Value)
      BY ConcatProperties
    <3> QED BY <2>1, <3>1, ConcatEmptySeq
  <2> QED BY <1>4, <2>4, <2>5 DEF takeOne
<1>5. CASE takeMulti
  <2>1. held = <<>> /\ held' = m_front /\ m_front' = <<>> /\ m_tail' = m_tail
    BY <1>5 DEF takeMulti
  <2>2. m_front \o m_tail \in Seq(Value)
    BY ConcatProperties
  <2>3. held' \o (m_front' \o m_tail') = held \o (m_front \o m_tail)
    BY <2>1, <2>2, ConcatEmptySeq
  <2> QED BY <1>5, <2>3 DEF takeMulti
<1>6. CASE Handle
  <2>1. held # <<>>
    BY <1>6 DEF Handle
  <2>2. /\ Head(held) \in Value /\ Tail(held) \in Seq(Value)
        /\ <<Head(held)>> \in Seq(Value)
    BY <2>1, HeadTailProperties
  <2>3. held = <<Head(held)>> \o Tail(held)
    BY <2>1, <2>2, HeadTailConcat
  <2> DEFINE P == m_front \o m_tail
  <2>4. P \in Seq(Value)
    BY ConcatProperties
  <2> HIDE DEF P
  <2>5. handled' = handled \o <<Head(held)>>
    BY <1>6, <2>2, AppendIsConcat DEF Handle
  <2>6. Tail(held) \o P \in Seq(Value)
    BY <2>2, <2>4, ConcatProperties
  <2>7. (handled \o <<Head(held)>>) \o (Tail(held) \o P)
           = handled \o (<<Head(held)>> \o (Tail(held) \o P))
    <3> DEFINE h == <<Head(held)>>
               r == Tail(held) \o P
    <3>1. handled \in Seq(Value) /\ h \in Seq(Value) /\ r \in Seq(Value)
      BY <2>2, <2>6
    <3> HIDE DEF h, r
    <3>2. (handled \o h) \o r = handled \o (h \o r)
      BY <3>1, ConcatAssociative
    <3> QED BY <3>2 DEF h, r
  <2>8. held \o P = <<Head(held)>> \o (Tail(held) \o P)
    BY <2>2, <2>3, <2>4, ConcatAssociative
  <2> QED BY <1>6, <2>5, <2>7, <2>8 DEF Handle, qvars, P
<1>7. CASE putBack
  <2>1. /\ m_front = <<>> /\ m_front' = <<>> /\ held' = <<>>
        /\ m_tail' = held \o m_tail
    BY <1>7 DEF putBack
  <2>2. held \o m_tail \in Seq(Value)
    BY ConcatProperties
  <2>3. held' \o (m_front' \o m_tail') = held \o (m_front \o m_tail)
    BY <2>1, <2>2, ConcatEmptySeq
  <2> QED BY <1>7, <2>3 DEF putBack
<1> QED BY <1>1, <1>2, <1>3, <1>4, <1>5, <1>6, <1>7 DEF Consume

(* Concatenation of sequences of values, in the forms used below.            *)
LEMMA Assoc ==
  \A s, t, u \in Seq(Value) : (s \o t) \o u = s \o (t \o u)
BY ConcatAssociative

(* Concatenation stays within the sequences of values.                       *)
LEMMA Closed ==
  \A s, t \in Seq(Value) : s \o t \in Seq(Value)
BY ConcatProperties

(* The place where a value or a batch d enters All: behind all the consumer  *)
(* has swapped out.                                                          *)
LEMMA AllCut ==
  ASSUME TypeOK
  PROVE  /\ handled \o (held \o m_front) \in Seq(Value)
         /\ \A d \in Seq(Value) :
               handled \o (held \o (m_front \o d))
                 = (handled \o (held \o m_front)) \o d
<1>1. /\ handled \in Seq(Value) /\ held \in Seq(Value)
      /\ m_front \in Seq(Value)
  BY DEF TypeOK
<1>2. held \o m_front \in Seq(Value)
  BY <1>1, Closed
<1>3. handled \o (held \o m_front) \in Seq(Value)
  BY <1>1, <1>2, Closed
<1>4. ASSUME NEW d \in Seq(Value)
      PROVE handled \o (held \o (m_front \o d))
              = (handled \o (held \o m_front)) \o d
  <2>1. (held \o m_front) \o d = held \o (m_front \o d)
    BY <1>1, Assoc, Zenon
  <2>2. (handled \o (held \o m_front)) \o d
          = handled \o ((held \o m_front) \o d)
    BY <1>1, <1>2, Assoc, Zenon
  <2> QED BY <2>1, <2>2, Zenon
<1> QED BY <1>3, <1>4, Zenon

(* pushBack puts one value at the end of all of them.                        *)
LEMMA ProduceExtendsAll ==
  ASSUME TypeOK,
         NEW p \in Producers, pushBack(p)
  PROVE  /\ All \in Seq(Value)
         /\ <<p, sent[p] + 1>> \in Value
         /\ All' = All \o << <<p, sent[p] + 1>> >>
         /\ sent' = [sent EXCEPT ![p] = @ + 1]
<1> DEFINE v == <<p, sent[p] + 1>>
           X == handled \o (held \o m_front)
<1>1. v \in Value
  BY MaxPushAssumption DEF pushBack, Push, TypeOK, Value
<1>2. /\ handled \in Seq(Value) /\ held \in Seq(Value)
      /\ m_front \in Seq(Value) /\ m_tail \in Seq(Value)
  BY DEF TypeOK
<1>20. m_tail' = Append(m_tail, v)
      /\ handled' = handled /\ held' = held /\ m_front' = m_front
  BY DEF pushBack, Push, cvars
<1> HIDE DEF v
<1>3. /\ m_tail' = m_tail \o <<v>>
      /\ <<v>> \in Seq(Value)
      /\ m_tail' \in Seq(Value)
  BY <1>1, <1>2, <1>20, AppendIsConcat, AppendProperties
<1>4. All = X \o m_tail /\ X \in Seq(Value)
  BY <1>2, AllCut, Zenon DEF All, Pending
<1>5. All' = X \o m_tail'
  <2>1. handled \o (held \o (m_front \o m_tail')) = X \o m_tail'
    BY <1>3, AllCut, Zenon
  <2> QED BY <1>20, <2>1 DEF All, Pending
<1> HIDE DEF X
<1>6. All' = (X \o m_tail) \o <<v>>
  <2> DEFINE y == <<v>>
  <2>1. X \in Seq(Value) /\ m_tail \in Seq(Value) /\ y \in Seq(Value)
    BY <1>2, <1>3, <1>4
  <2> HIDE DEF y
  <2>2. (X \o m_tail) \o y = X \o (m_tail \o y)
    BY <2>1, Assoc
  <2> QED BY <1>3, <1>5, <2>2 DEF y
<1>7. All \in Seq(Value)
  BY <1>2, <1>4, ConcatProperties
<1> QED BY <1>1, <1>4, <1>6, <1>7 DEF v, pushBack, Push

(* appendFromDeque puts a batch in front of m_tail, between parts of all.    *)
LEMMA AppendFromDequeSplitsAll ==
  ASSUME TypeOK,
         NEW p \in Inserters, appendFromDeque(p)
  PROVE  LET v == <<p, sent[p] + 1>>
             w == <<p, sent[p] + 2>>
             X == handled \o (held \o m_front)
         IN  /\ v \in Value /\ w \in Value
             /\ X \in Seq(Value)
             /\ All = X \o m_tail
             /\ All' = X \o (<<v, w>> \o m_tail)
             /\ sent' = [sent EXCEPT ![p] = @ + 2]
<1> DEFINE v == <<p, sent[p] + 1>>
           w == <<p, sent[p] + 2>>
           X == handled \o (held \o m_front)
<1>1. v \in Value /\ w \in Value
  BY MaxPushAssumption, InsertersAssumption DEF appendFromDeque, TypeOK, Value
<1>2. /\ handled \in Seq(Value) /\ held \in Seq(Value)
      /\ m_front \in Seq(Value) /\ m_tail \in Seq(Value)
  BY DEF TypeOK
<1>20. m_tail' = <<v, w>> \o m_tail
      /\ handled' = handled /\ held' = held /\ m_front' = m_front
  BY DEF appendFromDeque, cvars
<1> HIDE DEF v, w
<1>3. m_tail' \in Seq(Value)
  BY <1>1, <1>2, <1>20, ConcatProperties
<1>4. All = X \o m_tail /\ X \in Seq(Value)
  BY <1>2, AllCut, Zenon DEF All, Pending
<1>5. All' = X \o m_tail'
  <2>1. handled \o (held \o (m_front \o m_tail')) = X \o m_tail'
    BY <1>3, AllCut, Zenon
  <2> QED BY <1>20, <2>1 DEF All, Pending
<1> QED BY <1>1, <1>20, <1>4, <1>5 DEF v, w, appendFromDeque

(* Two consecutive values of p entering between X and Y are two insertions.  *)
LEMMA InsertBatch ==
  ASSUME NEW X \in Seq(Value), NEW Y \in Seq(Value),
         NEW n \in [Producers -> Nat], NEW p \in Inserters,
         <<p, n[p] + 1>> \in Value, <<p, n[p] + 2>> \in Value,
         Once(X \o Y, n), Ordered(X \o Y)
  PROVE  LET t == X \o (<< <<p, n[p] + 1>>, <<p, n[p] + 2>> >> \o Y)
         IN  Once(t, [n EXCEPT ![p] = @ + 2]) /\ Ordered(t)
<1> DEFINE v == <<p, n[p] + 1>>
           w == <<p, n[p] + 2>>
           n1 == [n EXCEPT ![p] = @ + 1]
           V == <<v>>
           W == <<w>>
<1>1. p \in Producers
  BY InsertersAssumption
<1>2. V \in Seq(Value) /\ W \in Seq(Value) /\ V \o W = <<v, w>>
  <2>1. v \in Value /\ w \in Value
    OBVIOUS
  <2> HIDE DEF v, w
  <2> QED BY <2>1, PairConcat
<1>3. Once(X \o (V \o Y), n1) /\ Ordered(X \o (V \o Y))
  BY <1>1, InsertOnce, InsertOrdered
<1>4. /\ n1 \in [Producers -> Nat] /\ w = <<p, n1[p] + 1>>
      /\ [n1 EXCEPT ![p] = @ + 1] = [n EXCEPT ![p] = @ + 2]
  BY <1>1
<1> HIDE DEF V, W, n1
<1>5. X \o V \in Seq(Value) /\ W \o Y \in Seq(Value)
  BY <1>2, Closed
<1>6. (X \o V) \o Y = X \o (V \o Y)
  BY <1>2, Assoc
<1>7. (X \o V) \o (W \o Y) = X \o ((V \o W) \o Y)
  <2>1. (V \o W) \o Y = V \o (W \o Y)
    BY <1>2, Assoc
  <2>2. (X \o V) \o (W \o Y) = X \o (V \o (W \o Y))
    BY <1>2, <1>5, Assoc, Zenon
  <2> QED BY <2>1, <2>2
<1> DEFINE X2 == X \o V
<1>8. /\ X2 \in Seq(Value)
      /\ Once(X2 \o Y, n1) /\ Ordered(X2 \o Y)
      /\ <<p, n1[p] + 1>> \in Value
  BY <1>3, <1>4, <1>5, <1>6
<1> HIDE DEF X2
<1>9. /\ Once(X2 \o (<< <<p, n1[p] + 1>> >> \o Y), [n1 EXCEPT ![p] = @ + 1])
      /\ Ordered(X2 \o (<< <<p, n1[p] + 1>> >> \o Y))
  BY <1>1, <1>4, <1>8, InsertOnce, InsertOrdered
<1>10. X2 \o (<< <<p, n1[p] + 1>> >> \o Y) = X \o (<<v, w>> \o Y)
  BY <1>2, <1>4, <1>7 DEF X2, W
<1> QED BY <1>4, <1>9, <1>10

(* Exactly once and in order, for every number of producers and values: no   *)
(* interleaving of the unlocked tests, the swap, the takes, a batch thrown   *)
(* back and the pushes loses, repeats or reorders a producer's values.       *)
THEOREM DeliveryCorrect == Spec => [](ExactlyOnce /\ ProducerOrder)
<1>1. Init => ExactlyOnce /\ ProducerOrder
  <2> SUFFICES ASSUME Init PROVE ExactlyOnce /\ ProducerOrder
    OBVIOUS
  <2>1. All = <<>> /\ Len(All) = 0
    BY DEF Init, All, Pending
  <2>2. \A p \in Producers : sent[p] = 0
    BY DEF Init
  <2> QED BY <2>1, <2>2 DEF ExactlyOnce, ProducerOrder, Once, Ordered
<1>2. ASSUME TypeOK, ConsumerInv, ExactlyOnce, ProducerOrder, [Next]_vars
      PROVE ExactlyOnce' /\ ProducerOrder'
  <2>0. sent \in [Producers -> Nat]
    BY <1>2, MaxPushAssumption DEF TypeOK
  <2>1. ASSUME NEW p \in Producers, pushBack(p)
        PROVE ExactlyOnce' /\ ProducerOrder'
    <3> DEFINE v == <<p, sent[p] + 1>>
               X == All
               Y == <<>>
    <3>1. /\ X \in Seq(Value) /\ Y \in Seq(Value) /\ v \in Value
          /\ All' = X \o <<v>> /\ sent' = [sent EXCEPT ![p] = @ + 1]
      BY <1>2, <2>1, ProduceExtendsAll
    <3>2. <<v>> \o Y = <<v>>
      OBVIOUS
    <3>3. X \o Y = All
      BY <3>1, ConcatEmptySeq
    <3> HIDE DEF X
    <3>4. Once(X \o Y, sent) /\ Ordered(X \o Y)
      BY <1>2, <3>3 DEF ExactlyOnce, ProducerOrder
    <3>5. /\ Once(X \o (<<v>> \o Y), [sent EXCEPT ![p] = @ + 1])
          /\ Ordered(X \o (<<v>> \o Y))
      BY <2>0, <3>1, <3>4, InsertOnce, InsertOrdered
    <3> QED BY <3>1, <3>2, <3>5 DEF ExactlyOnce, ProducerOrder
  <2>2. ASSUME NEW p \in Inserters, appendFromDeque(p)
        PROVE ExactlyOnce' /\ ProducerOrder'
    <3> DEFINE X == handled \o (held \o m_front)
               Y == m_tail
               t == X \o (<< <<p, sent[p] + 1>>, <<p, sent[p] + 2>> >> \o Y)
    <3>1. /\ <<p, sent[p] + 1>> \in Value /\ <<p, sent[p] + 2>> \in Value
          /\ X \in Seq(Value)
          /\ All = X \o Y
          /\ All' = t
          /\ sent' = [sent EXCEPT ![p] = @ + 2]
      BY <1>2, <2>2, AppendFromDequeSplitsAll
    <3>2. Y \in Seq(Value)
      BY <1>2 DEF TypeOK
    <3>3. Once(X \o Y, sent) /\ Ordered(X \o Y)
      BY <1>2, <3>1 DEF ExactlyOnce, ProducerOrder
    <3> HIDE DEF X, Y
    <3>4. Once(t, [sent EXCEPT ![p] = @ + 2]) /\ Ordered(t)
      BY <2>0, <3>1, <3>2, <3>3, InsertBatch
    <3> QED BY <3>1, <3>4 DEF ExactlyOnce, ProducerOrder
  <2>3. CASE Consume
    BY <1>2, <2>3, ConsumeKeepsAll DEF ExactlyOnce, ProducerOrder
  <2>4. CASE UNCHANGED vars
    BY <1>2, <2>4 DEF vars, ExactlyOnce, ProducerOrder, All, Pending
  <2> QED BY <1>2, <2>1, <2>2, <2>3, <2>4 DEF Next, Produce
<1> QED BY <1>1, <1>2, TypeCorrect, ConsumerCorrect, PTL DEF Spec

-----------------------------------------------------------------------------
(* A take of the first part of the queue is a Take of Fifo.                  *)
LEMMA TakeStep ==
  ASSUME NEW a \in Seq(Value), NEW b \in Seq(Value), a # <<>>
  PROVE  \E n \in 1 .. Len(a \o b) :
            /\ a = SubSeq(a \o b, 1, n)
            /\ b = SubSeq(a \o b, n + 1, Len(a \o b))
<1>1. Len(a) \in Nat \ {0} /\ Len(b) \in Nat
  BY EmptySeq, LenProperties
<1>2. Len(a \o b) = Len(a) + Len(b)
  BY ConcatProperties
<1>3. Len(a) \in 1 .. Len(a \o b)
  BY <1>1, <1>2
<1>4. /\ a = SubSeq(a \o b, 1, Len(a))
      /\ b = SubSeq(a \o b, Len(a) + 1, Len(a \o b))
  BY CutConcat
<1> QED BY <1>3, <1>4, Zenon

(* Every producer step is a step of Fifo on m_front \o m_tail.               *)
LEMMA ProduceRefines ==
  ASSUME TypeOK, Produce
  PROVE  F!Next
<1>0. m_front \in Seq(Value) /\ m_tail \in Seq(Value)
  BY DEF TypeOK
<1>1. ASSUME NEW p \in Producers, pushBack(p) PROVE F!Push
  <2> DEFINE v == <<p, sent[p] + 1>>
             V == <<v>>
  <2>0. v \in Value
    BY <1>1, ProduceExtendsAll
  <2> HIDE DEF v
  <2>1. v \in Value /\ V \in Seq(Value)
    BY <2>0
  <2>2. m_tail' = m_tail \o V /\ m_front' = m_front
    BY <1>0, <1>1, <2>1, AppendIsConcat DEF pushBack, Push, v
  <2>3. Append(m_front \o m_tail, v) = (m_front \o m_tail) \o V
    BY <1>0, <2>1, Closed, AppendIsConcat
  <2> HIDE DEF V
  <2>4. (m_front \o m_tail) \o V = m_front \o (m_tail \o V)
    BY <1>0, <2>1, Assoc
  <2>5. Pending' = Append(Pending, v)
    BY <2>2, <2>3, <2>4 DEF Pending
  <2>6. UNCHANGED <<held, handled, LastSeen>>
    BY <1>1, <2>2 DEF pushBack, Push, cvars, LastSeen
  <2> QED BY <2>1, <2>5, <2>6 DEF F!Push
<1>2. ASSUME NEW p \in Inserters, appendFromDeque(p) PROVE F!Insert
  <2> DEFINE v == <<p, sent[p] + 1>>
             w == <<p, sent[p] + 2>>
             b == <<v, w>>
  <2>1. v \in Value /\ w \in Value
    BY <1>2, AppendFromDequeSplitsAll
  <2>2. m_tail' = b \o m_tail /\ m_front' = m_front
    BY <1>2 DEF appendFromDeque
  <2>3. b \in Value \X Value /\ b \in Seq(Value)
    BY <2>1
  <2>4. /\ m_front = SubSeq(Pending, 1, Len(m_front))
        /\ m_tail = SubSeq(Pending, Len(m_front) + 1, Len(Pending))
    BY <1>0, CutConcat DEF Pending
  <2>5. Len(m_front) \in 0 .. Len(Pending)
    <3>1. Len(Pending) = Len(m_front) + Len(m_tail)
      BY <1>0, ConcatProperties DEF Pending
    <3>2. Len(m_front) \in Nat /\ Len(m_tail) \in Nat
      BY <1>0, LenProperties
    <3> QED BY <3>1, <3>2
  <2> HIDE DEF b
  <2>6. m_front \o (b \o m_tail) = (m_front \o b) \o m_tail
    BY <1>0, <2>3, Assoc
  <2>7. Pending' = SubSeq(Pending, 1, Len(m_front)) \o b
                     \o SubSeq(Pending, Len(m_front) + 1, Len(Pending))
    <3>1. Pending' = (m_front \o b) \o m_tail
      BY <2>2, <2>6 DEF Pending
    <3> QED BY <2>4, <3>1, Zenon
  <2>8. UNCHANGED <<held, handled, LastSeen>>
    BY <1>2, <2>2 DEF appendFromDeque, cvars, LastSeen
  <2> QED BY <2>3, <2>5, <2>7, <2>8, Zenon DEF F!Insert
<1> QED BY <1>1, <1>2 DEF Produce, F!Next

(* Every step of the consumer is one too, or leaves the mapped state alone.  *)
LEMMA ConsumeRefines ==
  ASSUME TypeOK, ConsumerInv, Consume
  PROVE  F!Next \/ UNCHANGED F!vars
<1>0. /\ m_front \in Seq(Value) /\ m_tail \in Seq(Value)
      /\ held \in Seq(Value) /\ Pending \in Seq(Value)
  BY Closed DEF TypeOK, Pending
<1>1. ASSUME NEW o \in {"takeOne", "takeMulti"}, CallTake(o)
      PROVE UNCHANGED F!vars
  BY <1>1 DEF CallTake, qvars, F!vars, Pending, LastSeen
<1>2. CASE Swap
  <2>1. /\ m_front = <<>> /\ held = <<>>
        /\ m_front' = m_tail /\ m_tail' = <<>>
        /\ UNCHANGED <<held, handled, last>>
        /\ pc = "swap" /\ pc' = "retest"
    BY <1>2 DEF Swap, ConsumerInv
  <2>2. Pending = m_tail /\ Pending' = m_tail
    BY <1>0, <2>1, ConcatEmptySeq DEF Pending
  <2>3. CASE m_tail = <<>>
    BY <2>1, <2>2, <2>3 DEF F!Next, F!TakeNone, LastSeen
  <2>4. CASE m_tail # <<>>
    BY <2>1, <2>2, <2>4 DEF F!vars, LastSeen
  <2> QED BY <2>3, <2>4
<1>3. CASE ReturnNone
  BY <1>3 DEF ReturnNone, qvars, F!vars, Pending, LastSeen
<1>4. CASE takeOne
  <2> DEFINE a == <<Head(m_front)>>
             b == Tail(m_front) \o m_tail
  <2>1. held = <<>> /\ m_front # <<>>
    BY <1>4 DEF takeOne, ConsumerInv
  <2>2. /\ a \in Seq(Value) /\ a # <<>>
        /\ Tail(m_front) \in Seq(Value)
        /\ m_front = a \o Tail(m_front)
    BY <1>0, <2>1, HeadTailProperties, HeadTailConcat
  <2>3. b \in Seq(Value)
    BY <1>0, <2>2, Closed
  <2>4. held' = a /\ Pending' = b
    BY <1>4 DEF takeOne, Pending
  <2>5. LastSeen' = "some" /\ handled' = handled
    BY <1>4 DEF takeOne, LastSeen
  <2> HIDE DEF a
  <2>6. (a \o Tail(m_front)) \o m_tail = a \o b
    BY <1>0, <2>2, Assoc
  <2>7. Pending = a \o b
    BY <2>2, <2>6 DEF Pending
  <2> HIDE DEF b
  <2>8. \E n \in 1 .. Len(Pending) :
           /\ a = SubSeq(Pending, 1, n)
           /\ b = SubSeq(Pending, n + 1, Len(Pending))
    BY <2>2, <2>3, <2>7, TakeStep
  <2>9. F!Take
    BY <2>1, <2>4, <2>5, <2>8, Zenon DEF F!Take
  <2> QED BY <2>9 DEF F!Next
<1>5. CASE takeMulti
  <2>1. /\ held = <<>> /\ m_front # <<>> /\ held' = m_front
        /\ Pending' = m_tail
    BY <1>0, <1>5, ConcatEmptySeq DEF takeMulti, ConsumerInv, Pending
  <2>2. LastSeen' = "some" /\ handled' = handled
    BY <1>5 DEF takeMulti, LastSeen
  <2>3. \E n \in 1 .. Len(Pending) :
           /\ m_front = SubSeq(Pending, 1, n)
           /\ m_tail = SubSeq(Pending, n + 1, Len(Pending))
    BY <1>0, <2>1, TakeStep DEF Pending
  <2>4. F!Take
    BY <2>1, <2>2, <2>3, Zenon DEF F!Take
  <2> QED BY <2>4 DEF F!Next
<1>6. CASE Handle
  <2>1. F!Handle
    BY <1>6 DEF Handle, qvars, F!Handle, Pending, LastSeen
  <2> QED BY <2>1 DEF F!Next
<1>7. CASE putBack
  <2>1. /\ m_front = <<>> /\ m_front' = <<>>
        /\ m_tail' = held \o m_tail
        /\ held # <<>> /\ held' = <<>>
    BY <1>7 DEF putBack, ConsumerInv
  <2>2. Pending = m_tail
    BY <1>0, <2>1, ConcatEmptySeq DEF Pending
  <2>3. Pending' = held \o m_tail
    <3>1. held \o m_tail \in Seq(Value)
      BY <1>0, Closed
    <3> QED BY <2>1, <3>1, ConcatEmptySeq DEF Pending
  <2>4. UNCHANGED <<handled, LastSeen>>
    BY <1>7 DEF putBack, LastSeen
  <2>5. F!PutBack
    BY <2>1, <2>2, <2>3, <2>4 DEF F!PutBack
  <2> QED BY <2>5 DEF F!Next
<1> QED BY <1>1, <1>2, <1>3, <1>4, <1>5, <1>6, <1>7 DEF Consume

(* The double-buffered queue implements the FIFO queue: the buffers, the     *)
(* unlocked tests and the swap are invisible to producers and consumer.      *)
THEOREM Refinement == Spec => ImplementsFifo
<1>1. Init => F!Init
  BY DEF Init, F!Init, Pending, LastSeen
<1>2. TypeOK /\ ConsumerInv /\ [Next]_vars => [F!Next]_(F!vars)
  <2> SUFFICES ASSUME TypeOK, ConsumerInv, [Next]_vars
               PROVE F!Next \/ UNCHANGED F!vars
    OBVIOUS
  <2>1. CASE Produce
    BY <2>1, ProduceRefines
  <2>2. CASE Consume
    BY <2>2, ConsumeRefines
  <2>3. CASE UNCHANGED vars
    BY <2>3 DEF vars, F!vars, Pending, LastSeen
  <2> QED BY <2>1, <2>2, <2>3 DEF Next
<1> QED BY <1>1, <1>2, TypeCorrect, ConsumerCorrect, PTL
        DEF Spec, ImplementsFifo, F!Spec
-----------------------------------------------------------------------------
(* The circular buffer. *)

\* The slot of the i-th element.
Slot(q, i) ==
  IF q.head + i - 1 < q.size THEN q.head + i - 1 ELSE q.head + i - 1 - q.size

(* The contents of a sound object are a sequence of Size(q) elements.        *)
LEMMA ContentsFacts ==
  ASSUME NEW q, Sound(q)
  PROVE  /\ Size(q) \in Nat
         /\ Size(q) < q.size
         /\ \A i \in 1 .. Size(q) + 1 : Slot(q, i) \in 0 .. q.size - 1
         /\ Contents(q) \in Seq(Element)
         /\ Len(Contents(q)) = Size(q)
         /\ \A i \in 1 .. Size(q) : Contents(q)[i] = q.vec[Slot(q, i)]
<1> USE DEF Sound
<1>1. Size(q) \in Nat /\ Size(q) < q.size
  BY DEF Size
<1>2. \A i \in 1 .. Size(q) + 1 : Slot(q, i) \in 0 .. q.size - 1
  <2>1. /\ q.size \in Nat /\ q.head \in 0 .. q.size - 1
        /\ q.current \in 0 .. q.size - 1
    OBVIOUS
  <2> HIDE DEF Sound
  <2>2. ASSUME NEW i \in 1 .. Size(q) + 1
        PROVE  Slot(q, i) \in 0 .. q.size - 1
    <3>1. i \in 1 .. q.size
      BY <1>1, <2>1
    <3> QED BY <2>1, <3>1 DEF Slot
  <2> QED BY <2>2
<1>3. \A i \in 1 .. Size(q) : q.vec[Slot(q, i)] \in Element
  BY <1>1, <1>2
<1>4. Contents(q) = [i \in 1 .. Size(q) |-> q.vec[Slot(q, i)]]
  BY DEF Contents, Slot
<1>5. Contents(q) \in [1 .. Size(q) -> Element]
  BY <1>3, <1>4
<1>6. Contents(q) \in Seq(Element) /\ Len(Contents(q)) = Size(q)
  BY <1>1, <1>5, SeqDef
<1>7. \A i \in 1 .. Size(q) : Contents(q)[i] = q.vec[Slot(q, i)]
  BY <1>4
<1> QED BY <1>1, <1>2, <1>6, <1>7

(* Storing v in the next free slot does not disturb the elements, and the    *)
(* slot is the one behind the last of them.                                  *)
LEMMA StoredFacts ==
  ASSUME NEW q, Sound(q), NEW v \in Element
  PROVE  LET stored == [q.vec EXCEPT ![q.current] = v]
         IN  /\ stored \in [0 .. q.size - 1 -> Element]
             /\ \A i \in 1 .. Size(q) : stored[Slot(q, i)] = q.vec[Slot(q, i)]
             /\ Slot(q, Size(q) + 1) = q.current
             /\ stored[Slot(q, Size(q) + 1)] = v
<1> DEFINE stored == [q.vec EXCEPT ![q.current] = v]
<1> USE DEF Sound
<1>1. stored \in [0 .. q.size - 1 -> Element]
  OBVIOUS
<1>2. Slot(q, Size(q) + 1) = q.current
  BY DEF Slot, Size
<1>3. \A i \in 1 .. Size(q) : Slot(q, i) # q.current
  BY DEF Slot, Size
<1>4. \A i \in 1 .. Size(q) : stored[Slot(q, i)] = q.vec[Slot(q, i)]
  BY <1>3, ContentsFacts
<1>5. stored[q.current] = v
  OBVIOUS
<1> QED BY <1>1, <1>2, <1>4, <1>5

(* An object of size + 1 elements that agree with those of q and end in v    *)
(* has the contents of q with v appended.                                    *)
LEMMA AppendedContents ==
  ASSUME NEW q, Sound(q), NEW r, Sound(r), NEW v \in Element,
         Size(r) = Size(q) + 1,
         \A i \in 1 .. Size(q) : r.vec[Slot(r, i)] = q.vec[Slot(q, i)],
         r.vec[Slot(r, Size(q) + 1)] = v
  PROVE  Contents(r) = Append(Contents(q), v)
<1> DEFINE s == Contents(q)
           t == Contents(r)
           u == Append(s, v)
<1>1. /\ s \in Seq(Element) /\ Len(s) = Size(q) /\ Size(q) \in Nat
      /\ \A i \in 1 .. Size(q) : s[i] = q.vec[Slot(q, i)]
  BY ContentsFacts
<1>2. /\ t \in Seq(Element) /\ Len(t) = Size(q) + 1
      /\ \A i \in 1 .. Size(q) + 1 : t[i] = r.vec[Slot(r, i)]
  BY ContentsFacts
<1> HIDE DEF s, t
<1>3. /\ u \in Seq(Element) /\ Len(u) = Size(q) + 1
      /\ \A i \in 1 .. Size(q) : u[i] = s[i]
      /\ u[Size(q) + 1] = v
  BY <1>1, AppendProperties
<1> HIDE DEF u
<1>4. ASSUME NEW i \in 1 .. Len(t) PROVE t[i] = u[i]
  <2>1. CASE i = Size(q) + 1
    BY <1>1, <1>2, <1>3, <2>1
  <2>2. CASE i \in 1 .. Size(q)
    BY <1>1, <1>2, <1>3, <2>2
  <2> QED BY <1>1, <1>2, <2>1, <2>2
<1>5. t = u
  BY <1>2, <1>3, <1>4, SeqEqual
<1> QED BY <1>5 DEF s, t, u

(* add appends, in each of its branches: growing in place, growing with a    *)
(* rotation, wrapping and plainly advancing.                                 *)
LEMMA AddCorrect ==
  ASSUME NEW q, Sound(q), NEW v \in Element
  PROVE  /\ Sound(add(q, v))
         /\ Contents(add(q, v)) = Append(Contents(q), v)
<1> DEFINE stored == [q.vec EXCEPT ![q.current] = v]
           r == add(q, v)
<1>0. /\ stored \in [0 .. q.size - 1 -> Element]
      /\ \A i \in 1 .. Size(q) : stored[Slot(q, i)] = q.vec[Slot(q, i)]
      /\ Slot(q, Size(q) + 1) = q.current
      /\ stored[Slot(q, Size(q) + 1)] = v
  BY StoredFacts
<1>00. /\ Size(q) \in Nat /\ Size(q) < q.size
       /\ \A i \in 1 .. Size(q) + 1 : Slot(q, i) \in 0 .. q.size - 1
  BY ContentsFacts
<1>000. /\ q.size \in Nat /\ q.size >= 2
        /\ q.head \in 0 .. q.size - 1 /\ q.current \in 0 .. q.size - 1
  BY DEF Sound
<1> DEFINE growing == q.head < q.current /\ q.current = q.size - 1 /\ q.head = 0
           turning == q.head > q.current /\ q.current = q.head - 1
<1>1. CASE growing
  <2> DEFINE n == 2 * q.size
             vec == Resize(stored, q.size, n)
  <2>1. r = Object(vec, n, q.head, q.current + 1)
    BY <1>1 DEF add
  <2> HIDE DEF stored
  <2>2. /\ vec \in [0 .. n - 1 -> Element] /\ n \in Nat /\ n >= 2
        /\ \A k \in 0 .. q.size - 1 : vec[k] = stored[k]
    BY <1>0, <1>000, DefaultAssumption DEF Resize
  <2> HIDE DEF vec, r
  <2>3. /\ r.vec = vec /\ r.size = n /\ r.head = q.head
        /\ r.current = q.current + 1
        /\ r = Object(r.vec, r.size, r.head, r.current)
    BY <2>1 DEF Object
  <2>4. Sound(r)
    BY <1>1, <1>000, <2>2, <2>3 DEF Sound
  <2>5. Size(r) = Size(q) + 1 /\ Size(q) = q.size - 1
    BY <1>1, <1>000, <2>3 DEF Size
  <2>6. \A i \in 1 .. Size(q) + 1 : Slot(r, i) = Slot(q, i)
    BY <1>1, <1>000, <2>3, <2>5 DEF Slot
  <2>7. \A i \in 1 .. Size(q) + 1 : r.vec[Slot(r, i)] = stored[Slot(q, i)]
    BY <1>00, <2>2, <2>3, <2>6
  <2>8. /\ \A i \in 1 .. Size(q) : r.vec[Slot(r, i)] = q.vec[Slot(q, i)]
        /\ r.vec[Slot(r, Size(q) + 1)] = v
    BY <1>0, <1>00, <2>7
  <2>9. Contents(r) = Append(Contents(q), v)
    BY <2>4, <2>5, <2>8, AppendedContents
  <2> QED BY <2>4, <2>9 DEF r
<1>2. CASE turning
  <2> DEFINE n == 2 * q.size
             rot == Rotate(stored, q.size, q.head)
             vec == Resize(rot, q.size, n)
  <2>1. r = Object(vec, n, 0, q.size)
    BY <1>2, <1>000 DEF add
  <2> HIDE DEF stored
  <2>a. /\ rot \in [0 .. q.size - 1 -> Element]
        /\ \A k \in 0 .. q.size - 1 :
              rot[k] = stored[IF q.head + k < q.size THEN q.head + k
                                                   ELSE q.head + k - q.size]
    <3> DEFINE at(k) == IF q.head + k < q.size THEN q.head + k
                                              ELSE q.head + k - q.size
    <3>1. \A k \in 0 .. q.size - 1 : at(k) \in 0 .. q.size - 1
      BY <1>000
    <3>2. rot = [k \in 0 .. q.size - 1 |-> stored[at(k)]]
      BY DEF Rotate
    <3> HIDE DEF rot, at
    <3>3. \A k \in 0 .. q.size - 1 : rot[k] = stored[at(k)]
      BY <3>2
    <3>4. rot \in [0 .. q.size - 1 -> Element]
      BY <1>0, <3>1, <3>2
    <3> QED BY <3>3, <3>4 DEF at
  <2> HIDE DEF rot
  <2>2. /\ vec \in [0 .. n - 1 -> Element] /\ n \in Nat /\ n >= 2
        /\ \A k \in 0 .. q.size - 1 : vec[k] = rot[k]
    BY <2>a, <1>000, DefaultAssumption DEF Resize
  <2> HIDE DEF vec, r
  <2>3. /\ r.vec = vec /\ r.size = n /\ r.head = 0 /\ r.current = q.size
        /\ r = Object(r.vec, r.size, r.head, r.current)
    BY <2>1 DEF Object
  <2>4. Sound(r)
    BY <1>000, <2>2, <2>3 DEF Sound
  <2>5. Size(r) = Size(q) + 1 /\ Size(q) = q.size - 1
    BY <1>2, <1>000, <2>3 DEF Size
  <2>6. ASSUME NEW i \in 1 .. Size(q) + 1
        PROVE r.vec[Slot(r, i)] = stored[Slot(q, i)]
    <3>1. Slot(r, i) = i - 1 /\ i - 1 \in 0 .. q.size - 1
      BY <1>000, <2>3, <2>5 DEF Slot
    <3>2. r.vec[Slot(r, i)] = rot[i - 1]
      BY <2>2, <2>3, <3>1
    <3>3. rot[i - 1] = stored[IF q.head + (i - 1) < q.size
                              THEN q.head + (i - 1)
                              ELSE q.head + (i - 1) - q.size]
      BY <2>a, <3>1
    <3>4. Slot(q, i) = IF q.head + (i - 1) < q.size
                       THEN q.head + (i - 1)
                       ELSE q.head + (i - 1) - q.size
      BY <1>000, <3>1 DEF Slot
    <3> QED BY <3>2, <3>3, <3>4
  <2>8. /\ \A i \in 1 .. Size(q) : r.vec[Slot(r, i)] = q.vec[Slot(q, i)]
        /\ r.vec[Slot(r, Size(q) + 1)] = v
    BY <1>0, <1>00, <2>6
  <2>9. Contents(r) = Append(Contents(q), v)
    BY <2>4, <2>5, <2>8, AppendedContents
  <2> QED BY <2>4, <2>9 DEF r
<1>3. CASE ~growing /\ ~turning
  <2>1. r = Object(stored, q.size, q.head, Step(q.current, q.size))
    BY <1>3 DEF add
  <2> HIDE DEF stored, r
  <2>2. /\ r.vec = stored /\ r.size = q.size /\ r.head = q.head
        /\ r.current = Step(q.current, q.size)
        /\ r = Object(r.vec, r.size, r.head, r.current)
    BY <2>1 DEF Object
  <2>3. Sound(r)
    BY <1>0, <1>000, <2>2 DEF Sound, Step
  <2>4. Size(r) = Size(q) + 1
    BY <1>3, <1>000, <2>2 DEF Size, Step
  <2>5. \A i \in 1 .. Size(q) + 1 : Slot(r, i) = Slot(q, i)
    BY <2>2 DEF Slot
  <2>8. /\ \A i \in 1 .. Size(q) : r.vec[Slot(r, i)] = q.vec[Slot(q, i)]
        /\ r.vec[Slot(r, Size(q) + 1)] = v
    BY <1>0, <1>00, <2>2, <2>5
  <2>9. Contents(r) = Append(Contents(q), v)
    BY <2>3, <2>4, <2>8, AppendedContents
  <2> QED BY <2>3, <2>9 DEF r
<1> QED BY <1>1, <1>2, <1>3

(* pop removes the oldest element, which is the one front names.             *)
LEMMA PopCorrect ==
  ASSUME NEW q, Sound(q), ~empty(q)
  PROVE  /\ Sound(pop(q))
         /\ Contents(q) # <<>>
         /\ front(q) = Head(Contents(q))
         /\ Contents(pop(q)) = Tail(Contents(q))
<1> DEFINE r == pop(q)
           s == Contents(q)
           t == Contents(r)
           u == Tail(s)
<1>0. /\ q.size \in Nat /\ q.size >= 2 /\ q.vec \in [0 .. q.size - 1 -> Element]
      /\ q.head \in 0 .. q.size - 1 /\ q.current \in 0 .. q.size - 1
  BY DEF Sound
<1>1. r = Object(q.vec, q.size, Step(q.head, q.size), q.current)
  BY DEF pop
<1> HIDE DEF r
<1>2. /\ r.vec = q.vec /\ r.size = q.size /\ r.current = q.current
      /\ r.head = Step(q.head, q.size)
      /\ r = Object(r.vec, r.size, r.head, r.current)
  BY <1>1 DEF Object
<1>3. Sound(r)
  BY <1>0, <1>2 DEF Sound, Step
<1>4. Size(q) \in Nat /\ Size(q) >= 1 /\ Size(r) = Size(q) - 1
  <2>1. q.head # q.current
    BY DEF empty
  <2>2. CASE q.head < q.current
    BY <1>0, <1>2, <2>2 DEF Size, Step
  <2>3. CASE q.head > q.current /\ q.head = q.size - 1
    <3>1. r.head = 0
      BY <1>2, <2>3 DEF Step
    <3>2. Size(q) = q.current + 1
      BY <1>0, <2>3 DEF Size
    <3>3. Size(r) = q.current
      BY <1>0, <1>2, <3>1 DEF Size
    <3> QED BY <1>0, <3>2, <3>3
  <2>4. CASE q.head > q.current /\ q.head # q.size - 1
    <3>1. r.head = q.head + 1
      BY <1>2, <2>4 DEF Step
    <3>2. Size(q) = q.size - (q.head - q.current)
      BY <1>0, <2>4 DEF Size
    <3>3. Size(r) = q.size - (q.head + 1 - q.current)
      BY <1>0, <1>2, <2>4, <3>1 DEF Size
    <3> QED BY <1>0, <2>4, <3>2, <3>3
  <2> QED BY <1>0, <2>1, <2>2, <2>3, <2>4
<1>5. ASSUME NEW i \in 1 .. Size(q) - 1
      PROVE  Slot(r, i) = Slot(q, i + 1)
  <2>1. Size(q) < q.size
    BY ContentsFacts
  <2>2. i \in 1 .. q.size - 2
    BY <1>0, <1>4, <2>1
  <2>3. CASE q.head = q.size - 1
    <3>1. r.head = 0
      BY <1>2, <2>3 DEF Step
    <3>2. Slot(r, i) = i - 1
      <4>1. r.size = q.size
        BY <1>2
      <4> QED BY <1>0, <2>2, <3>1, <4>1 DEF Slot
    <3>3. Slot(q, i + 1) = i - 1
      BY <1>0, <2>2, <2>3 DEF Slot
    <3> QED BY <3>2, <3>3
  <2>4. CASE q.head # q.size - 1
    <3>1. r.head = q.head + 1
      BY <1>2, <2>4 DEF Step
    <3>2. Slot(r, i) = IF q.head + i < q.size THEN q.head + i ELSE q.head + i - q.size
      <4>1. r.size = q.size
        BY <1>2
      <4> QED BY <1>0, <2>2, <3>1, <4>1 DEF Slot
    <3>3. Slot(q, i + 1) = IF q.head + i < q.size THEN q.head + i ELSE q.head + i - q.size
      BY <1>0, <2>2 DEF Slot
    <3> QED BY <3>2, <3>3
  <2> QED BY <2>3, <2>4
<1>6. Slot(q, 1) = q.head
  BY <1>0 DEF Slot
<1>7. /\ s \in Seq(Element) /\ Len(s) = Size(q)
      /\ \A i \in 1 .. Size(q) : s[i] = q.vec[Slot(q, i)]
  BY ContentsFacts
<1>8. /\ t \in Seq(Element) /\ Len(t) = Size(q) - 1
      /\ \A i \in 1 .. Size(q) - 1 : t[i] = r.vec[Slot(r, i)]
  BY <1>3, <1>4, ContentsFacts
<1> HIDE DEF s, t
<1>9. s # <<>> /\ Head(s) = s[1]
  BY <1>4, <1>7
<1>10. /\ u \in Seq(Element) /\ Len(u) = Size(q) - 1
       /\ \A i \in 1 .. Size(q) - 1 : u[i] = s[i + 1]
  BY <1>4, <1>7, <1>9
<1> HIDE DEF u
<1>11. ASSUME NEW i \in 1 .. Len(t) PROVE t[i] = u[i]
  <2>1. i \in 1 .. Size(q) - 1 /\ i + 1 \in 1 .. Size(q)
    BY <1>4, <1>8
  <2>2. t[i] = q.vec[Slot(q, i + 1)]
    BY <1>2, <1>5, <1>8, <2>1
  <2>3. u[i] = q.vec[Slot(q, i + 1)]
    BY <1>7, <1>10, <2>1
  <2> QED BY <2>2, <2>3
<1>12. t = u
  BY <1>8, <1>10, <1>11, SeqEqual
<1>13. front(q) = Head(s)
  BY <1>4, <1>6, <1>7, <1>9 DEF front
<1> QED BY <1>3, <1>9, <1>12, <1>13 DEF r, s, t, u

(* An object whose indexes meet has no elements; a new one and a cleared one *)
(* are such objects.                                                         *)
LEMMA EmptyContents ==
  ASSUME NEW q, Sound(q), empty(q)
  PROVE  Contents(q) = <<>>
<1>1. Size(q) = 0
  BY DEF Sound, Size, empty
<1>2. Contents(q) \in Seq(Element) /\ Len(Contents(q)) = 0
  BY <1>1, ContentsFacts
<1> QED BY <1>2

(* clear() leaves a sound, empty object of the same size.                    *)
LEMMA ClearedCorrect ==
  ASSUME NEW q, q.size \in Nat
  PROVE  /\ Cleared(q).size = q.size
         /\ q.size >= 2 => Sound(Cleared(q)) /\ Contents(Cleared(q)) = <<>>
<1> DEFINE r == Cleared(q)
           vec == [i \in 0 .. q.size - 1 |-> Default]
<1>1. vec \in [0 .. q.size - 1 -> Element]
  BY DefaultAssumption
<1>2. r = Object(vec, q.size, 0, 0)
  BY DEF Cleared
<1> HIDE DEF r, vec
<1>3. /\ r.vec = vec /\ r.size = q.size /\ r.head = 0 /\ r.current = 0
      /\ r = Object(r.vec, r.size, r.head, r.current)
  BY <1>2 DEF Object
<1>4. ASSUME q.size >= 2 PROVE Sound(r) /\ empty(r)
  BY <1>1, <1>3, <1>4 DEF Sound, empty
<1>5. ASSUME q.size >= 2 PROVE Sound(r) /\ Contents(r) = <<>>
  BY <1>4, <1>5, EmptyContents
<1> QED BY <1>3, <1>5 DEF r

(* A constructed object is sound and empty.                                  *)
LEMMA ConstructedCorrect ==
  ASSUME NEW presize \in Nat
  PROVE  /\ Sound(Constructed(presize))
         /\ Contents(Constructed(presize)) = <<>>
<1> DEFINE n == IF presize > MinCapacity THEN presize ELSE MinCapacity
           vec == [i \in 0 .. n - 1 |-> Default]
           r == Constructed(presize)
<1>0. n \in Nat /\ n >= 2
  BY MinCapacityAssumption
<1>1. vec \in [0 .. n - 1 -> Element]
  BY DefaultAssumption
<1>2. r = Object(vec, n, 0, 0)
  BY DEF Constructed
<1> HIDE DEF r, vec, n
<1>3. /\ r.vec = vec /\ r.size = n /\ r.head = 0 /\ r.current = 0
      /\ r = Object(r.vec, r.size, r.head, r.current)
  BY <1>2 DEF Object
<1>4. Sound(r) /\ empty(r)
  BY <1>0, <1>1, <1>3 DEF Sound, empty
<1>5. Contents(r) = <<>>
  BY <1>4, EmptyContents
<1> QED BY <1>4, <1>5 DEF r
-----------------------------------------------------------------------------
(* The algorithms CircularQueue uses are those above.                        *)
LEMMA SameBuffer ==
  /\ \A q : Q!Sound(q) = Sound(q) /\ Q!Contents(q) = Contents(q)
  /\ \A q : Q!empty(q) = empty(q) /\ Q!front(q) = front(q) /\ Q!pop(q) = pop(q)
  /\ \A q : Q!Cleared(q) = Cleared(q)
  /\ \A q, v : Q!add(q, v) = add(q, v)
  /\ \A n : Q!Constructed(n) = Constructed(n)
BY DEF Q!Sound, Sound, Q!Contents, Contents, Q!empty, empty, Q!front, front, Q!pop, pop,
       Q!add, add, Q!Constructed, Constructed, Q!Object, Object, Q!Size, Size,
       Q!Step, Step, Q!Resize, Resize, Q!Rotate, Rotate, Q!Cleared, Cleared

\* The inductive invariant: every object is sound or was moved from, and que has
\* a value for each object only.
BufferInv ==
  /\ \A o \in Objects : Sound(que[o]) \/ que[o].size = 0
  /\ ret \in Element \cup {NoValue}
  /\ que = [o \in Objects |-> que[o]]

\* What a possibly moved-from object holds.
Held(q) == IF q.size > 0 THEN Contents(q) ELSE <<>>

(* The elements CircularQueue says an object has are those it holds, before  *)
(* and after a step.                                                         *)
LEMMA ElementsHeld ==
  /\ \A o : Q!Elements(o) = Held(que[o])
  /\ \A o : Q!Elements(o)' = Held(que[o])'
<1>1. \A q : Q!Contents(q) = Contents(q)
  BY SameBuffer
<1>2. \A o : Q!Contents(que[o])' = Contents(que[o])'
  BY DEF Q!Contents, Contents, Q!Size, Size
<1> QED BY <1>1, <1>2 DEF Q!Elements, Q!Usable, Held

(* New objects are sound and empty.                                          *)
LEMMA BufferInit == Q!Init => BufferInv /\ Q!P!Init
<1> SUFFICES ASSUME Q!Init PROVE BufferInv /\ Q!P!Init
  OBVIOUS
<1>1. \A o \in Objects : Sound(que[o]) /\ Contents(que[o]) = <<>>
  BY ConstructedCorrect, PresizesAssumption, SameBuffer DEF Q!Init
<1>2. BufferInv
  BY <1>1 DEF Q!Init, BufferInv
<1>3. \A o \in Objects : Q!Elements(o) = <<>>
  BY <1>1, ElementsHeld DEF Held
<1>4. Q!P!Init
  BY <1>3 DEF Q!Init, Q!P!Init
<1> QED BY <1>2, <1>4

\* A step that replaces one object.
LEMMA ReplaceOne ==
  ASSUME BufferInv, NEW o \in Objects, NEW q, Sound(q) \/ q.size = 0,
         que' = [que EXCEPT ![o] = q],
         ret' \in Element \cup {NoValue}
  PROVE  /\ BufferInv'
         /\ [x \in Objects |-> Q!Elements(x)]'
              = [[x \in Objects |-> Q!Elements(x)] EXCEPT ![o] = Held(q)]
<1>1. que' = [x \in Objects |-> IF x = o THEN q ELSE que[x]]
  BY DEF BufferInv
<1>2. BufferInv'
  BY <1>1 DEF BufferInv, Q!TypeOK
<1>3. \A x \in Objects : Q!Elements(x)' = IF x = o THEN Held(q) ELSE Q!Elements(x)
  BY <1>1, ElementsHeld DEF Held
<1>4. [x \in Objects |-> Q!Elements(x)]'
        = [x \in Objects |-> IF x = o THEN Held(q) ELSE Q!Elements(x)]
  BY <1>3
<1> QED BY <1>2, <1>4

\* A step that replaces two objects.
LEMMA ReplaceTwo ==
  ASSUME BufferInv, NEW o \in Objects, NEW p \in Objects \ {o}, NEW q, NEW r,
         Sound(q) \/ q.size = 0, Sound(r) \/ r.size = 0,
         que' = [x \in Objects |-> IF x = p THEN r
                                   ELSE IF x = o THEN q ELSE que[x]],
         ret' = ret
  PROVE  /\ BufferInv'
         /\ [x \in Objects |-> Q!Elements(x)]'
              = [x \in Objects |-> IF x = p THEN Held(r)
                                   ELSE IF x = o THEN Held(q) ELSE Q!Elements(x)]
<1>1. BufferInv'
  BY DEF BufferInv
<1>2. \A x \in Objects : Q!Elements(x)' = IF x = p THEN Held(r)
                                       ELSE IF x = o THEN Held(q) ELSE Q!Elements(x)
  BY ElementsHeld DEF Held
<1> QED BY <1>1, <1>2

(* Every operation keeps the invariant and is an operation on plain queues.  *)
LEMMA BufferNext ==
  ASSUME BufferInv, [Q!Next]_(Q!vars)
  PROVE  BufferInv' /\ [Q!P!Next]_(Q!P!vars)
<1> DEFINE seq == [x \in Objects |-> Q!Elements(x)]
<1>0. /\ \A o \in Objects : Sound(que[o]) \/ que[o].size = 0
      /\ \A o \in Objects : seq[o] = Held(que[o])
      /\ ret \in Element \cup {NoValue}
  BY ElementsHeld DEF BufferInv
<1>00. \A q : Sound(q) => q.size \in Nat /\ q.size >= 2 /\ Held(q) = Contents(q)
  BY DEF Sound, Held
<1>000. \A q : q.size = 0 => Held(q) = <<>>
  BY DEF Held
<1>1. ASSUME NEW o \in Objects, Q!push_back(o)
      PROVE  BufferInv' /\ Q!P!PushBack(o)
  <2>1. Sound(que[o])
    BY <1>0, <1>1 DEF Q!push_back, Q!Usable
  <2>2. PICK v \in Element : que' = [que EXCEPT ![o] = add(que[o], v)]
    BY <1>1, SameBuffer, ElementAssumption DEF Q!push_back
  <2>3. Sound(add(que[o], v)) /\ Contents(add(que[o], v)) = Append(Contents(que[o]), v)
    BY <2>1, AddCorrect
  <2>4. Held(add(que[o], v)) = Append(seq[o], v)
    BY <1>0, <1>00, <2>1, <2>3
  <2>5. ret' = ret
    BY <1>1 DEF Q!push_back
  <2>6. BufferInv' /\ seq' = [seq EXCEPT ![o] = Held(add(que[o], v))]
    BY <1>0, <2>2, <2>3, <2>5, ReplaceOne
  <2> HIDE DEF seq
  <2>7. \E w \in Element : seq' = [seq EXCEPT ![o] = Append(seq[o], w)]
    BY <2>4, <2>6
  <2> QED BY <2>5, <2>6, <2>7 DEF Q!P!PushBack, seq
<1>2. ASSUME NEW o \in Objects, Q!pop_front(o)
      PROVE  BufferInv' /\ (Q!P!PopFront(o) \/ Q!P!PopNothing(o))
  <2>1. CASE empty(que[o])
    <3>1. que' = [que EXCEPT ![o] = que[o]] /\ ret' = NoValue
      BY <1>2, <2>1, SameBuffer DEF Q!pop_front, pop
    <3>2. que' = que
      BY <3>1 DEF BufferInv
    <3>3. seq' = seq
      BY <3>2 DEF Q!Elements, Q!Usable
    <3>4. Held(que[o]) = <<>>
      BY <1>0, <1>00, <1>000, <2>1, EmptyContents
    <3>5. BufferInv'
      BY <3>1, <3>2 DEF BufferInv, Q!TypeOK
    <3>6. seq[o] = <<>>
      BY <1>0, <3>4
    <3> HIDE DEF seq
    <3> QED BY <3>1, <3>3, <3>5, <3>6 DEF Q!P!PopNothing, seq
  <2>2. CASE ~empty(que[o])
    <3>1. Sound(que[o])
      BY <1>0, <1>2, <2>2, SameBuffer DEF Q!pop_front, Q!Usable
    <3>2. que' = [que EXCEPT ![o] = pop(que[o])] /\ ret' = front(que[o])
      BY <1>2, <2>2, SameBuffer DEF Q!pop_front
    <3>3. /\ Sound(pop(que[o])) /\ Contents(que[o]) # <<>>
          /\ front(que[o]) = Head(Contents(que[o]))
          /\ Contents(pop(que[o])) = Tail(Contents(que[o]))
      BY <2>2, <3>1, PopCorrect
    <3>4. seq[o] # <<>> /\ ret' = Head(seq[o]) /\ Held(pop(que[o])) = Tail(seq[o])
      BY <1>0, <1>00, <3>1, <3>2, <3>3
    <3>5. ret' \in Element
      BY <3>1, <3>2 DEF Sound, front
    <3>6. BufferInv' /\ seq' = [seq EXCEPT ![o] = Held(pop(que[o]))]
      BY <3>2, <3>3, <3>5, ReplaceOne
    <3> HIDE DEF seq
    <3>7. seq' = [seq EXCEPT ![o] = Tail(seq[o])]
      BY <3>4, <3>6
    <3> QED BY <3>4, <3>6, <3>7 DEF Q!P!PopFront, seq
  <2> QED BY <2>1, <2>2
<1>3. ASSUME NEW o \in Objects, Q!clear(o)
      PROVE  BufferInv' /\ Q!P!Clear(o)
  <2>1. que' = [que EXCEPT ![o] = Cleared(que[o])] /\ ret' = ret
    BY <1>3, SameBuffer DEF Q!clear
  <2>2. /\ Sound(Cleared(que[o])) \/ Cleared(que[o]).size = 0
        /\ Held(Cleared(que[o])) = <<>>
    <3>1. CASE Sound(que[o])
      BY <1>00, <3>1, ClearedCorrect
    <3>2. CASE que[o].size = 0
      BY <1>000, <3>2, ClearedCorrect
    <3> QED BY <1>0, <3>1, <3>2
  <2>3. BufferInv' /\ seq' = [seq EXCEPT ![o] = Held(Cleared(que[o]))]
    BY <1>0, <2>1, <2>2, ReplaceOne
  <2> HIDE DEF seq
  <2>4. seq' = [seq EXCEPT ![o] = <<>>]
    BY <2>2, <2>3
  <2> QED BY <2>1, <2>3, <2>4 DEF Q!P!Clear, seq
<1>4. ASSUME NEW o \in Objects, NEW p \in Objects \ {o}, Q!swap(o, p)
      PROVE  BufferInv' /\ Q!P!Swap(o, p)
  <2>1. que' = [que EXCEPT ![o] = que[p], ![p] = que[o]] /\ ret' = ret
    BY <1>4 DEF Q!swap
  <2>2. BufferInv' /\ seq' = [x \in Objects |->
                          IF x = p THEN Held(que[o])
                          ELSE IF x = o THEN Held(que[p]) ELSE Q!Elements(x)]
    <3> DEFINE q == que[p]
               r == que[o]
    <3>1. (Sound(q) \/ q.size = 0) /\ (Sound(r) \/ r.size = 0)
      BY <1>0
    <3>2. que' = [x \in Objects |-> IF x = p THEN r
                                    ELSE IF x = o THEN q ELSE que[x]]
      BY <2>1 DEF BufferInv
    <3>4. ret' = ret
      BY <2>1
    <3> HIDE DEF q, r
    <3>3. BufferInv' /\ seq' = [x \in Objects |->
                            IF x = p THEN Held(r)
                            ELSE IF x = o THEN Held(q) ELSE Q!Elements(x)]
      BY <3>1, <3>2, <3>4, ReplaceTwo
    <3> QED BY <3>3 DEF q, r
  <2>3. Held(que[p]) = seq[p] /\ Held(que[o]) = seq[o]
    BY <1>0
  <2>4. seq' = [seq EXCEPT ![o] = seq[p], ![p] = seq[o]]
    BY <2>2, <2>3
  <2> HIDE DEF seq
  <2> QED BY <2>1, <2>2, <2>4 DEF Q!P!Swap, seq
<1>5. ASSUME NEW o \in Objects, NEW p \in Objects \ {o}, Q!copy(o, p)
      PROVE  BufferInv' /\ Q!P!Copy(o, p)
  <2>1. que' = [que EXCEPT ![o] = que[p]] /\ ret' = ret
    BY <1>5 DEF Q!copy
  <2>2. BufferInv' /\ seq' = [seq EXCEPT ![o] = Held(que[p])]
    BY <1>0, <2>1, ReplaceOne
  <2>3. Held(que[p]) = seq[p]
    BY <1>0
  <2> HIDE DEF seq
  <2>4. seq' = [seq EXCEPT ![o] = seq[p]]
    BY <2>2, <2>3
  <2> QED BY <2>1, <2>2, <2>4 DEF Q!P!Copy, seq
<1>6. ASSUME NEW o \in Objects, NEW p \in Objects \ {o},
             Q!moveAssign(o, p) \/ Q!moveConstruct(o, p)
      PROVE  BufferInv' /\ Q!P!Move(o, p)
  <2>1. PICK h, c : que' = [que EXCEPT ![o] = que[p], ![p] = Q!MovedFrom(h, c)]
    BY <1>6 DEF Q!moveAssign, Q!moveConstruct
  <2>2. ret' = ret
    BY <1>6 DEF Q!moveAssign, Q!moveConstruct
  <2>3. Q!MovedFrom(h, c).size = 0
    BY DEF Q!MovedFrom, Q!Object
  <2>4. BufferInv' /\ seq' = [x \in Objects |->
                          IF x = p THEN Held(Q!MovedFrom(h, c))
                          ELSE IF x = o THEN Held(que[p]) ELSE Q!Elements(x)]
    <3>1. Sound(que[p]) \/ que[p].size = 0
      BY <1>0
    <3>2. que' = [x \in Objects |-> IF x = p THEN Q!MovedFrom(h, c)
                                    ELSE IF x = o THEN que[p] ELSE que[x]]
      BY <2>1 DEF BufferInv
    <3> QED BY <2>2, <2>3, <3>1, <3>2, ReplaceTwo
  <2>5. Held(que[p]) = seq[p] /\ Held(Q!MovedFrom(h, c)) = <<>>
    BY <1>0, <1>000, <2>3
  <2>6. seq' = [seq EXCEPT ![o] = seq[p], ![p] = <<>>]
    BY <2>4, <2>5
  <2> HIDE DEF seq
  <2> QED BY <2>2, <2>4, <2>6 DEF Q!P!Move, seq
<1>7. ASSUME UNCHANGED Q!vars
      PROVE  BufferInv' /\ UNCHANGED Q!P!vars
  <2>1. que' = que /\ ret' = ret
    BY <1>7 DEF Q!vars
  <2> QED BY <2>1 DEF BufferInv, Q!P!vars, Q!Elements, Q!Usable
<1> QED BY <1>1, <1>2, <1>3, <1>4, <1>5, <1>6, <1>7 DEF Q!Next, Q!P!Next

(* After any sequence of operations the indexes of every object that was not *)
(* moved from are inside its vector.                                         *)
THEOREM BufferTypeCorrect == Q!Spec => []Q!TypeOK
<1>1. BufferInv => Q!TypeOK
  <2>1. \A q : Q!Sound(q) = Sound(q)
    BY SameBuffer
  <2> QED BY <2>1 DEF BufferInv, Q!TypeOK
<1>2. BufferInv /\ [Q!Next]_(Q!vars) => BufferInv'
  BY BufferNext
<1> QED BY <1>1, <1>2, BufferInit, PTL DEF Q!Spec

(* The circular buffer implements a queue: whatever its operations, however  *)
(* often its indexes wrapped and its vector grew, it holds the elements      *)
(* pushed and not popped, in order.                                          *)
THEOREM BufferRefinement == Q!Spec => ImplementsQueue
BY BufferInit, BufferNext, PTL DEF Q!Spec, ImplementsQueue, Q!ImplementsQueue, Q!P!Spec
-----------------------------------------------------------------------------
(* MutexQueCircle: two of these buffers that change sides. *)

\* The algorithms of the two buffers are those above.
LEMMA SameAlgorithms ==
  /\ \A q : C!Sound(q) = Sound(q) /\ C!Contents(q) = Contents(q)
  /\ \A q : C!empty(q) = empty(q) /\ C!front(q) = front(q) /\ C!pop(q) = pop(q)
  /\ \A q, v : C!add(q, v) = add(q, v)
  /\ C!Constructed(Presize) = Constructed(Presize)
BY DEF C!Sound, Sound, C!Contents, Contents, C!empty, empty, C!front, front, C!pop, pop,
       C!add, add, C!Constructed, Constructed, C!Object, Object, C!Size, Size,
       C!Step, Step, C!Resize, Resize, C!Rotate, Rotate

\* Both buffers are sound, and a consumer on its way to front() has tested.
CircleInv ==
  /\ Sound(c_front) /\ Sound(c_tail)
  /\ c_sent \in [Producers -> 0 .. MaxPush]
  /\ c_pc = "take" => ~empty(c_front)

\* A step of the MutexQue of ints that the buffers stand for.
CircleStep == C!PushConverted \/ C!M!Consume

(* An int is a remainder modulo the number of ints.                          *)
LEMMA StoredIsElement ==
  ASSUME NEW p \in Producers, NEW k \in Nat
  PROVE  C!Stored(p, k) \in Element
<1>1. k % IntRange \in 0 .. IntRange - 1
  BY IntRangeAssumption
<1> QED BY <1>1, ElementAssumption DEF C!Stored, Converted

(* Two new buffers are sound and stand for two empty sequences.              *)
LEMMA CircleInit ==
  ASSUME C!Init
  PROVE  CircleInv /\ C!M!Init
<1>1. c_front = Constructed(Presize) /\ c_tail = Constructed(Presize)
  BY SameAlgorithms DEF C!Init
<1>2. /\ Sound(c_front) /\ Contents(c_front) = <<>>
      /\ Sound(c_tail) /\ Contents(c_tail) = <<>>
  BY <1>1, ConstructedCorrect, PresizeAssumption
<1>3. C!Contents(c_front) = <<>> /\ C!Contents(c_tail) = <<>>
  BY <1>2, SameAlgorithms
<1> QED BY <1>2, <1>3, MaxPushAssumption DEF C!Init, C!M!Init, CircleInv

(* Each step keeps the buffers sound and is a step of MutexQue on their      *)
(* contents.                                                                 *)
LEMMA CircleNext ==
  ASSUME CircleInv, [C!Next]_(C!vars)
  PROVE  CircleInv' /\ [CircleStep]_(C!M!vars)
<1>0. /\ Sound(c_front) /\ Sound(c_tail) /\ c_sent \in [Producers -> 0 .. MaxPush]
      /\ c_pc = "take" => ~empty(c_front)
  BY DEF CircleInv
<1>1. /\ \A q : C!Contents(q) = Contents(q) /\ C!empty(q) = empty(q)
      /\ \A q : C!front(q) = front(q) /\ C!pop(q) = pop(q)
      /\ \A q, v : C!add(q, v) = add(q, v)
  BY SameAlgorithms
<1>2. /\ empty(c_front) => C!Contents(c_front) = <<>>
      /\ ~empty(c_front) => C!Contents(c_front) # <<>>
  BY <1>0, <1>1, EmptyContents, PopCorrect
<1>3. ASSUME NEW p \in Producers, C!pushBack(p)
      PROVE  CircleInv' /\ CircleStep
  <2>0. PICK v : v = C!Stored(p, c_sent[p] + 1)
    OBVIOUS
  <2>1. /\ c_tail' = add(c_tail, v) /\ c_sent' = [c_sent EXCEPT ![p] = c_sent[p] + 1]
        /\ c_front' = c_front /\ c_pc' = c_pc /\ c_sent[p] < MaxPush
    BY <1>1, <1>3, <2>0 DEF C!pushBack
  <2>2. v \in Element
    <3>1. c_sent[p] + 1 \in Nat
      BY <1>0, MaxPushAssumption
    <3> QED BY <2>0, <3>1, StoredIsElement
  <2>3. Sound(c_tail') /\ Contents(c_tail') = Append(Contents(c_tail), v)
    BY <1>0, <2>1, <2>2, AddCorrect
  <2>4. c_sent' \in [Producers -> 0 .. MaxPush]
    BY <1>0, <2>1, MaxPushAssumption
  <2>5. CircleInv'
    BY <1>0, <2>1, <2>3, <2>4 DEF CircleInv, empty
  <2>6. /\ C!Contents(c_tail)' = Append(C!Contents(c_tail), v)
        /\ C!Contents(c_front)' = C!Contents(c_front)
    BY <1>1, <2>1, <2>3 DEF C!Contents, C!Size, Contents, Size
  <2>7. C!M!Push(p, C!Stored(p, c_sent[p] + 1))
    BY <1>3, <2>0, <2>6 DEF C!pushBack, C!M!Push, C!M!cvars
  <2> QED BY <2>5, <2>7 DEF CircleStep, C!PushConverted
<1>4. ASSUME c_front' = c_front, c_tail' = c_tail
      PROVE  /\ C!Contents(c_front)' = C!Contents(c_front)
             /\ C!Contents(c_tail)' = C!Contents(c_tail)
  BY <1>4 DEF C!Contents, C!Size
<1>5. ASSUME C!CallTake
      PROVE  CircleInv' /\ CircleStep
  <2>1. c_front' = c_front /\ c_tail' = c_tail /\ c_sent' = c_sent
    BY <1>5 DEF C!CallTake
  <2>2. c_pc' = (IF empty(c_front) THEN "swap" ELSE "take")
    BY <1>1, <1>5 DEF C!CallTake
  <2>3. CircleInv'
    BY <1>0, <2>1, <2>2 DEF CircleInv, empty
  <2>4. C!M!CallTake("takeOne")
    BY <1>2, <1>4, <1>5, <2>1, <2>2 DEF C!CallTake, C!M!CallTake, C!M!qvars
  <2> QED BY <2>3, <2>4 DEF CircleStep, C!M!Consume
<1>6. ASSUME C!Swap
      PROVE  CircleInv' /\ CircleStep
  <2>1. /\ c_front' = c_tail /\ c_tail' = c_front /\ c_sent' = c_sent
        /\ c_pc' = "retest"
    BY <1>6 DEF C!Swap
  <2>2. CircleInv'
    BY <1>0, <2>1 DEF CircleInv
  <2>3. /\ C!Contents(c_front)' = C!Contents(c_tail)
        /\ C!Contents(c_tail)' = C!Contents(c_front)
    BY <2>1 DEF C!Contents, C!Size
  <2>4. C!M!Swap
    BY <1>6, <2>3 DEF C!Swap, C!M!Swap
  <2> QED BY <2>2, <2>4 DEF CircleStep, C!M!Consume
<1>7. ASSUME C!ReturnNone
      PROVE  CircleInv' /\ CircleStep
  <2>1. /\ c_front' = c_front /\ c_tail' = c_tail /\ c_sent' = c_sent
        /\ c_pc' = "idle"
    BY <1>7 DEF C!ReturnNone
  <2>2. empty(c_front)
    BY <1>1, <1>7 DEF C!ReturnNone
  <2>3. CircleInv'
    BY <1>0, <2>1 DEF CircleInv
  <2>4. C!M!ReturnNone
    BY <1>2, <1>4, <1>7, <2>1, <2>2 DEF C!ReturnNone, C!M!ReturnNone, C!M!qvars
  <2> QED BY <2>3, <2>4 DEF CircleStep, C!M!Consume
<1>8. ASSUME C!takeOne
      PROVE  CircleInv' /\ CircleStep
  <2>1. /\ c_front' = pop(c_front) /\ c_tail' = c_tail /\ c_sent' = c_sent
        /\ c_pc' = "idle" /\ c_held' = <<front(c_front)>>
    BY <1>1, <1>8 DEF C!takeOne
  <2>2. ~empty(c_front)
    BY <1>0, <1>1, <1>8 DEF C!takeOne
  <2>3. /\ Sound(c_front') /\ Contents(c_front') = Tail(Contents(c_front))
        /\ front(c_front) = Head(Contents(c_front))
    BY <1>0, <2>1, <2>2, PopCorrect
  <2>4. CircleInv'
    BY <1>0, <2>1, <2>3 DEF CircleInv
  <2>5. /\ C!Contents(c_front)' = Tail(C!Contents(c_front))
        /\ c_held' = <<Head(C!Contents(c_front))>>
        /\ C!Contents(c_tail)' = C!Contents(c_tail)
    BY <1>1, <2>1, <2>3 DEF C!Contents, C!Size, Contents, Size
  <2>6. C!M!takeOne
    BY <1>2, <1>8, <2>2, <2>5 DEF C!takeOne, C!M!takeOne
  <2> QED BY <2>4, <2>6 DEF CircleStep, C!M!Consume
<1>9. ASSUME C!Handle
      PROVE  CircleInv' /\ CircleStep
  <2>1. c_front' = c_front /\ c_tail' = c_tail /\ c_sent' = c_sent /\ c_pc' = c_pc
    BY <1>9 DEF C!Handle
  <2>2. CircleInv'
    BY <1>0, <2>1 DEF CircleInv, empty
  <2>3. C!M!Handle
    BY <1>4, <1>9, <2>1 DEF C!Handle, C!M!Handle, C!M!qvars
  <2> QED BY <2>2, <2>3 DEF CircleStep, C!M!Consume
<1>10. ASSUME UNCHANGED C!vars
       PROVE  CircleInv' /\ UNCHANGED C!M!vars
  <2>1. /\ c_front' = c_front /\ c_tail' = c_tail /\ c_sent' = c_sent /\ c_pc' = c_pc
        /\ c_held' = c_held /\ c_last' = c_last /\ c_handled' = c_handled
    BY <1>10 DEF C!vars
  <2>2. CircleInv'
    BY <1>0, <2>1 DEF CircleInv, empty
  <2> QED BY <1>4, <2>1, <2>2 DEF C!M!vars
<1> QED BY <1>3, <1>5, <1>6, <1>7, <1>8, <1>9, <1>10 DEF C!Next

(* MutexQueCircle is a MutexQue of ints: for every number of producers, of   *)
(* values, of slots and of ints, each takeOne is a step of that module on    *)
(* the contents of the two buffers, and each pushBack puts the int it        *)
(* converts its argument to at their end, while they change sides, wrap and  *)
(* grow.                                                                     *)
THEOREM CircleRefinement == C!Spec => ImplementsMutexQue
<1>1. C!Init => CircleInv /\ C!M!Init
  BY CircleInit
<1>2. CircleInv /\ [C!Next]_(C!vars) => CircleInv' /\ [CircleStep]_(C!M!vars)
  BY CircleNext
<1>3. ImplementsMutexQue <=> C!M!Init /\ [][CircleStep]_(C!M!vars)
  BY DEF ImplementsMutexQue, C!ImplementsMutexQue, CircleStep
<1> QED BY <1>1, <1>2, <1>3, PTL DEF C!Spec

(* A value that an int can hold comes back as it was pushed: when the values *)
(* of the producers are fewer than the ints, MutexQueCircle of T is a        *)
(* MutexQue of T.                                                            *)
THEOREM CircleHoldsInts ==
  ASSUME MaxPush < IntRange
  PROVE  C!Spec => C!M!Spec
<1>1. C!Init => CircleInv /\ C!M!Init
  BY CircleInit
<1>2. ASSUME NEW p \in Producers, CircleInv, C!M!Push(p, C!Stored(p, c_sent[p] + 1))
      PROVE  C!M!pushBack(p)
  <2>1. PICK k : k = c_sent[p] + 1
    OBVIOUS
  <2>2. k \in Nat /\ k < IntRange
    BY <1>2, <2>1, MaxPushAssumption, IntRangeAssumption DEF CircleInv, C!M!Push
  <2>3. k % IntRange = k
    BY <2>2, IntRangeAssumption
  <2>4. C!Stored(p, c_sent[p] + 1) = <<p, c_sent[p] + 1>>
    BY <2>1, <2>3 DEF C!Stored
  <2> QED BY <1>2, <2>4 DEF C!M!pushBack
<1>3. CircleInv /\ CircleStep => C!M!Next
  BY <1>2 DEF CircleStep, C!PushConverted, C!M!Next, C!M!Produce
<1>4. CircleInv /\ [C!Next]_(C!vars) => CircleInv' /\ [C!M!Next]_(C!M!vars)
  BY <1>3, CircleNext
<1> QED BY <1>1, <1>4, PTL DEF C!Spec, C!M!Spec

-----------------------------------------------------------------------------
(* The threads of TaskDistributor. *)

(* The workers are the natural numbers below m_size, and a clamped index is  *)
(* one of them.                                                              *)
LEMMA WorkersFacts ==
  /\ Workers \subseteq Nat
  /\ 0 \in Workers
  /\ m_size - 1 \in Workers
  /\ NoIndex \notin Workers
  /\ \A k \in 0 .. m_size : Clamp(k) \in Workers
BY SizeAssumption DEF Workers, NoIndex, Clamp

LEMMA TypeIndexFacts ==
  \A type \in {"IO_TASK", "SHCEDULE_TASK", "FURTURE_TASK"} :
     IndexOfType(type) \subseteq 0 .. m_size
BY SizeAssumption DEF IndexOfType

(* Every way of adding a task is a push to a worker's queue, a run on the    *)
(* spot, or the notification.                                                *)
Pushing(c, i) == CanCall(c) /\ accepted < MaxTasks /\ m_tpool /\ PushTask(c, i)

Inlining(i) ==
  /\ stack[i] # <<>>
  /\ accepted < MaxTasks
  /\ stack' = [stack EXCEPT ![i] = <<accepted + 1>> \o @]
  /\ inlined' = [inlined EXCEPT ![i] = @ \cup {accepted + 1}]
  /\ accepted' = accepted + 1
  /\ UNCHANGED <<ques, thr, batch, begun, pend>>
  /\ UNCHANGED pool

LEMMA AddingCases ==
  ASSUME NEW c \in Callers, Adding(c)
  PROVE  \/ \E i \in Workers : Pushing(c, i)
         \/ \E i \in Workers : Inlining(i)
         \/ Notify(c)
<1>1. ASSUME NEW k \in 0 .. m_size, addTask(c, k)
      PROVE \E i \in Workers : Pushing(c, i)
  BY <1>1, WorkersFacts DEF addTask, Pushing
<1>2. ASSUME NEW type \in {"IO_TASK", "SHCEDULE_TASK", "FURTURE_TASK"},
             addTaskOfType(c, type)
      PROVE \E i \in Workers : Pushing(c, i)
  BY <1>1, <1>2, TypeIndexFacts DEF addTaskOfType
<1>3. ASSUME NEW k \in 0 .. m_size, addTask_ASAP(c, k)
      PROVE \/ \E i \in Workers : Pushing(c, i)
            \/ \E i \in Workers : Inlining(i)
  <2>1. Clamp(k) \in Workers
    BY WorkersFacts
  <2>2. CASE OnThread(c, Clamp(k))
    BY <1>3, <2>1, <2>2 DEF addTask_ASAP, OnThread, CanCall, Inlining
  <2>3. CASE ~OnThread(c, Clamp(k))
    BY <1>3, <2>1, <2>3 DEF addTask_ASAP, Pushing
  <2> QED BY <2>2, <2>3
<1> QED BY <1>1, <1>2, <1>3 DEF Adding

(* Type correctness: whatever the clients, the workers and the owner do, a   *)
(* task or an index never leaves its range (the clamped index included).     *)
THEOREM DistributorTypeCorrect == DistributorSpec => []DistributorTypeOK
<1>1. DistributorInit => DistributorTypeOK
  BY WorkersFacts, BoundsAssumption DEF DistributorInit, DistributorTypeOK
<1>2. DistributorTypeOK /\ [DistributorNext]_distributorVars => DistributorTypeOK'
  <2> SUFFICES ASSUME DistributorTypeOK, [DistributorNext]_distributorVars PROVE DistributorTypeOK'
    OBVIOUS
  <2> USE DEF DistributorTypeOK
  <2>0. accepted \in Nat /\ starts \in Nat
    BY BoundsAssumption
  <2>1. ASSUME NEW c \in Callers, NEW i \in Workers, Pushing(c, i)
        PROVE DistributorTypeOK'
    <3>1. Append(ques[i], accepted + 1) \in Seq(Nat)
      BY <2>0, AppendProperties
    <3>2. ques' \in [Workers -> Seq(Nat)]
      BY <2>1, <3>1 DEF Pushing, PushTask
    <3>3. accepted' \in 0 .. MaxTasks
      BY <2>0, <2>1, BoundsAssumption DEF Pushing, PushTask
    <3>4. pend' \in [Callers -> Workers \cup {NoIndex}]
      BY <2>1 DEF Pushing, PushTask
    <3> QED BY <2>1, <3>2, <3>3, <3>4 DEF Pushing, PushTask, pool
  <2>2. ASSUME NEW i \in Workers, Inlining(i) PROVE DistributorTypeOK'
    <3>1. <<accepted + 1>> \o stack[i] \in Seq(Nat)
      BY <2>0, ConcatProperties
    <3>2. stack' \in [Workers -> Seq(Nat)]
      BY <2>2, <3>1 DEF Inlining
    <3>3. accepted' \in 0 .. MaxTasks
      BY <2>0, <2>2, BoundsAssumption DEF Inlining
    <3>4. inlined' \in [Workers -> SUBSET Nat]
      BY <2>0, <2>2 DEF Inlining
    <3> QED BY <2>2, <3>2, <3>3, <3>4 DEF Inlining, pool
  <2>3. ASSUME NEW c \in Callers, Notify(c) PROVE DistributorTypeOK'
    <3>1. pend' \in [Callers -> Workers \cup {NoIndex}]
      BY <2>3 DEF Notify
    <3>2. thr' \in [Workers -> {"none", "loop", "take", "dry", "wait", "run",
                               "exited"}]
      BY <2>3 DEF Notify, Wake
    <3> QED BY <2>3, <3>1, <3>2 DEF Notify, tasks, pool
  <2>4. ASSUME NEW i \in Workers, startNextLoop(i) PROVE DistributorTypeOK'
    BY <2>4 DEF startNextLoop, tasks, pool
  <2>5. ASSUME NEW i \in Workers, work(i) PROVE DistributorTypeOK'
    <3>1. /\ ques' \in [Workers -> Seq(Nat)]
          /\ batch' \in [Workers -> Seq(Nat)]
      BY <2>5 DEF work
    <3>2. thr' \in [Workers -> {"none", "loop", "take", "dry", "wait", "run",
                               "exited"}]
      BY <2>5 DEF work
    <3> QED BY <2>5, <3>1, <3>2 DEF work, pool
  <2>6. ASSUME NEW i \in Workers, EnterWait(i) PROVE DistributorTypeOK'
    BY <2>6 DEF EnterWait, tasks, pool
  <2>7. ASSUME NEW i \in Workers, WaitTimeout(i) PROVE DistributorTypeOK'
    BY <2>7 DEF WaitTimeout, tasks, pool
  <2>8. ASSUME NEW i \in Workers, RunNext(i) PROVE DistributorTypeOK'
    <3>1. Head(batch[i]) \in Nat /\ Tail(batch[i]) \in Seq(Nat)
      BY <2>8, HeadTailProperties DEF RunNext, pool
    <3>2. Append(begun[i], Head(batch[i])) \in Seq(Nat)
      BY <3>1, AppendProperties
    <3>3. <<Head(batch[i])>> \in Seq(Nat)
      BY <3>1
    <3>4. batch' \in [Workers -> Seq(Nat)]
      BY <2>8, <3>1 DEF RunNext
    <3>5. begun' \in [Workers -> Seq(Nat)]
      BY <2>8, <3>2 DEF RunNext
    <3>6. stack' \in [Workers -> Seq(Nat)]
      BY <2>8, <3>3 DEF RunNext
    <3> QED BY <2>8, <3>4, <3>5, <3>6 DEF RunNext, pool
  <2>9. ASSUME NEW i \in Workers, TaskReturns(i) PROVE DistributorTypeOK'
    <3>1. Tail(stack[i]) \in Seq(Nat)
      BY <2>9, HeadTailProperties DEF TaskReturns, pool
    <3>2. stack' \in [Workers -> Seq(Nat)]
      BY <2>9, <3>1 DEF TaskReturns
    <3> QED BY <2>9, <3>2 DEF TaskReturns, pool
  <2>10. ASSUME NEW i \in Workers, BatchDone(i) PROVE DistributorTypeOK'
    BY <2>10 DEF BatchDone, tasks, pool
  <2>11. CASE start
    <3>1. m_exit' \in BOOLEAN /\ m_tpool' \in BOOLEAN
      BY <2>11, Zenon DEF start
    <3>2. joinable' \in [Workers -> BOOLEAN]
      BY <2>11 DEF start
    <3>3. /\ owner' \in {"idle", "spawn", "assign", "notify", "join"}
          /\ ownerI' \in Workers
          /\ starts' \in 0 .. MaxStarts
      BY <2>0, <2>11, BoundsAssumption, WorkersFacts DEF start
    <3> QED BY <2>11, <3>1, <3>2, <3>3 DEF start, tasks
  <2>12. CASE Spawn
    BY <2>12 DEF Spawn, tasks, pool
  <2>13. ASSUME NEW at \in {"spawn", "notify"}, Advance(at)
         PROVE /\ owner' \in {"idle", "spawn", "assign", "notify", "join"}
               /\ ownerI' \in Workers
    <3>1. CASE ownerI + 1 < m_size
      <4>1. owner' = at /\ ownerI' = ownerI + 1
        BY <2>13, <3>1 DEF Advance
      <4>2. ownerI + 1 \in Workers
        BY <3>1, SizeAssumption DEF Workers
      <4> QED BY <4>1, <4>2
    <3>2. CASE ~(ownerI + 1 < m_size)
      BY <2>13, <3>2, WorkersFacts DEF Advance
    <3> QED BY <3>1, <3>2
  <2>14. CASE AssignThread
    BY <2>13, <2>14 DEF AssignThread, tasks, pool
  <2>15. CASE shutdown
    <3>1. m_exit' \in BOOLEAN
      BY <2>15, Zenon DEF shutdown
    <3>2. /\ owner' \in {"idle", "spawn", "assign", "notify", "join"}
          /\ ownerI' \in Workers
      BY <2>15, WorkersFacts DEF shutdown
    <3> QED BY <2>15, <3>1, <3>2 DEF shutdown, tasks
  <2>16. CASE NotifyAll
    BY <2>16 DEF NotifyAll, Wake, tasks, pool
  <2>17. CASE Join
    BY <2>13, <2>17 DEF Join, tasks, pool
  <2>18. CASE UNCHANGED distributorVars
    BY <2>18 DEF distributorVars
  <2> QED
    BY <2>1, <2>2, <2>3, <2>4, <2>5, <2>6, <2>7, <2>8, <2>9, <2>10, <2>11,
       <2>12, <2>14, <2>15, <2>16, <2>17, <2>18, AddingCases
    DEF DistributorNext, Working, Owning
<1> QED BY <1>1, <1>2, PTL DEF DistributorSpec

-----------------------------------------------------------------------------
(* Where the owner stands in start() and shutdown(): the threads it has not  *)
(* yet spawned do not run, the ones it has joined have exited, and once a    *)
(* shutdown has returned there is none left.                                 *)
THEOREM OwnerCorrect == DistributorSpec => []OwnerInv
<1>1. DistributorInit => OwnerInv
  BY DEF DistributorInit, OwnerInv
<1>2. DistributorTypeOK /\ OwnerInv /\ [DistributorNext]_distributorVars => OwnerInv'
  <2> SUFFICES ASSUME DistributorTypeOK, OwnerInv, [DistributorNext]_distributorVars PROVE OwnerInv'
    OBVIOUS
  <2> USE DEF DistributorTypeOK, OwnerInv
  <2>0. ownerI \in Nat /\ Workers \subseteq Nat
    BY WorkersFacts
  \* A step of a worker or a caller moves a thread between the places of its
  \* loop, or to its exit: never from "none" or "exited".
  <2>1. ASSUME UNCHANGED pool,
               \A k \in Workers :
                  thr[k] \in {"none", "exited"} => thr'[k] = thr[k]
        PROVE OwnerInv'
    BY <2>1 DEF pool
  <2>2. ASSUME NEW c \in Callers, Adding(c) PROVE OwnerInv'
    <3>1. ASSUME NEW i \in Workers, Pushing(c, i) PROVE OwnerInv'
      BY <2>1, <3>1 DEF Pushing, PushTask
    <3>2. ASSUME NEW i \in Workers, Inlining(i) PROVE OwnerInv'
      BY <2>1, <3>2 DEF Inlining
    <3>3. CASE Notify(c)
      BY <2>1, <3>3 DEF Notify, Wake
    <3> QED BY <2>2, <3>1, <3>2, <3>3, AddingCases
  <2>3. ASSUME NEW i \in Workers, Working(i) PROVE OwnerInv'
    <3>1. UNCHANGED pool
      BY <2>3 DEF Working, startNextLoop, work, EnterWait, WaitTimeout, RunNext,
         TaskReturns, BatchDone
    <3>2. \A k \in Workers : thr[k] \in {"none", "exited"} => thr'[k] = thr[k]
      BY <2>3 DEF Working, startNextLoop, work, EnterWait, WaitTimeout, RunNext,
         TaskReturns, BatchDone
    <3> QED BY <2>1, <3>1, <3>2
  <2>4. CASE start
    BY <2>0, <2>4 DEF start
  <2>5. CASE Spawn
    BY <2>0, <2>5 DEF Spawn
  <2>6. CASE AssignThread
    BY <2>0, <2>6, SizeAssumption DEF AssignThread, Advance
  <2>7. CASE shutdown
    BY <2>0, <2>7 DEF shutdown
  <2>8. CASE NotifyAll
    BY <2>0, <2>8 DEF NotifyAll, Wake
  <2>9. CASE Join
    <3>1. \A k \in Workers : k < ownerI + 1 => thr[k] = "exited"
      BY <2>0, <2>9 DEF Join
    <3>2. ~(ownerI + 1 < m_size) => \A k \in Workers : k < ownerI + 1
      BY <2>0, SizeAssumption DEF Workers
    <3> QED BY <2>0, <2>9, <3>1, <3>2 DEF Join, Advance
  <2>10. CASE UNCHANGED distributorVars
    BY <2>10 DEF distributorVars
  <2> QED
    BY <2>2, <2>3, <2>4, <2>5, <2>6, <2>7, <2>8, <2>9, <2>10 DEF DistributorNext, Owning
<1> QED BY <1>1, <1>2, DistributorTypeCorrect, PTL DEF DistributorSpec

(* Tasks only run inside the loop of a worker that has taken a batch.        *)
THEOREM RunsInLoopCorrect == DistributorSpec => []RunsInLoop
<1>1. DistributorInit => RunsInLoop
  BY DEF DistributorInit, RunsInLoop
<1>2. DistributorTypeOK /\ OwnerInv /\ RunsInLoop /\ [DistributorNext]_distributorVars => RunsInLoop'
  <2> SUFFICES ASSUME DistributorTypeOK, OwnerInv, RunsInLoop, [DistributorNext]_distributorVars,
                      NEW w \in Workers, thr'[w] # "run"
               PROVE  batch'[w] = <<>> /\ stack'[w] = <<>>
    BY DEF RunsInLoop
  <2>0. thr[w] # "run" => batch[w] = <<>> /\ stack[w] = <<>>
    BY DEF RunsInLoop
  <2> USE DEF DistributorTypeOK
  <2>1. ASSUME NEW c \in Callers, NEW i \in Workers, Pushing(c, i)
        PROVE batch'[w] = <<>> /\ stack'[w] = <<>>
    BY <2>0, <2>1 DEF Pushing, PushTask
  <2>2. ASSUME NEW i \in Workers, Inlining(i)
        PROVE batch'[w] = <<>> /\ stack'[w] = <<>>
    BY <2>0, <2>2 DEF Inlining
  <2>3. ASSUME NEW c \in Callers, Notify(c)
        PROVE batch'[w] = <<>> /\ stack'[w] = <<>>
    BY <2>0, <2>3 DEF Notify, Wake, tasks
  <2>4. ASSUME NEW i \in Workers, startNextLoop(i)
        PROVE batch'[w] = <<>> /\ stack'[w] = <<>>
    BY <2>0, <2>4 DEF startNextLoop, tasks
  <2>5. ASSUME NEW i \in Workers, work(i)
        PROVE batch'[w] = <<>> /\ stack'[w] = <<>>
    BY <2>0, <2>5 DEF work
  <2>6. ASSUME NEW i \in Workers, EnterWait(i) \/ WaitTimeout(i)
        PROVE batch'[w] = <<>> /\ stack'[w] = <<>>
    BY <2>0, <2>6 DEF EnterWait, WaitTimeout, tasks
  <2>7. ASSUME NEW i \in Workers, RunNext(i)
        PROVE batch'[w] = <<>> /\ stack'[w] = <<>>
    BY <2>0, <2>7 DEF RunNext
  <2>8. ASSUME NEW i \in Workers, TaskReturns(i)
        PROVE batch'[w] = <<>> /\ stack'[w] = <<>>
    BY <2>0, <2>8 DEF TaskReturns
  <2>9. ASSUME NEW i \in Workers, BatchDone(i)
        PROVE batch'[w] = <<>> /\ stack'[w] = <<>>
    BY <2>0, <2>9 DEF BatchDone, tasks
  <2>10. CASE Owning
    <3>1. CASE Spawn
      <4>1. thr[ownerI] \in {"none", "exited"}
        BY <3>1 DEF OwnerInv, Spawn
      <4> QED BY <2>0, <3>1, <4>1 DEF Spawn, tasks
    <3>2. CASE NotifyAll
      BY <2>0, <3>2 DEF NotifyAll, Wake, tasks
    <3>3. CASE start \/ AssignThread \/ shutdown \/ Join
      BY <2>0, <3>3 DEF start, AssignThread, shutdown, Join, tasks
    <3> QED BY <2>10, <3>1, <3>2, <3>3 DEF Owning
  <2>11. CASE UNCHANGED distributorVars
    BY <2>0, <2>11 DEF distributorVars
  <2> QED
    BY <2>1, <2>2, <2>3, <2>4, <2>5, <2>6, <2>7, <2>8, <2>9, <2>10, <2>11,
       AddingCases
    DEF DistributorNext, Working
<1> QED BY <1>1, <1>2, DistributorTypeCorrect, OwnerCorrect, PTL DEF DistributorSpec

(* shutdown() leaves nothing running behind: when it has returned, every     *)
(* worker has exited with its batch run to the end.                          *)
THEOREM ShutdownCorrect == DistributorSpec => []QuietAfterShutdown
<1>1. OwnerInv /\ RunsInLoop => QuietAfterShutdown
  BY DEF OwnerInv, RunsInLoop, QuietAfterShutdown
<1> QED BY <1>1, OwnerCorrect, RunsInLoopCorrect, PTL

-----------------------------------------------------------------------------
(* What a step does to the tasks given to the queues: nothing, or it gives   *)
(* the next task to the end of one of them, or runs it on the spot.          *)
GivenKept == \A w \in Workers : Given(w)' = Given(w)

GivenGrows(i) ==
  /\ accepted' = accepted + 1
  /\ inlined' = inlined
  /\ Given(i)' = Append(Given(i), accepted + 1)
  /\ \A w \in Workers \ {i} : Given(w)' = Given(w)

RunOnTheSpot(i) ==
  /\ accepted' = accepted + 1
  /\ inlined' = [inlined EXCEPT ![i] = @ \cup {accepted + 1}]
  /\ GivenKept

LEMMA AssocNat ==
  \A s, t, u \in Seq(Nat) : (s \o t) \o u = s \o (t \o u)
BY ConcatAssociative

LEMMA GivenType ==
  ASSUME DistributorTypeOK, NEW w \in Workers
  PROVE  Given(w) \in Seq(Nat)
<1>1. /\ begun[w] \in Seq(Nat) /\ batch[w] \in Seq(Nat)
      /\ ques[w] \in Seq(Nat)
  BY DEF DistributorTypeOK
<1>2. batch[w] \o ques[w] \in Seq(Nat)
  BY <1>1, ConcatProperties
<1> QED BY <1>1, <1>2, ConcatProperties DEF Given

LEMMA GivenSteps ==
  ASSUME DistributorTypeOK, RunsInLoop, [DistributorNext]_distributorVars
  PROVE  \/ GivenKept /\ UNCHANGED <<accepted, inlined>>
         \/ \E i \in Workers : GivenGrows(i)
         \/ \E i \in Workers : RunOnTheSpot(i)
<1>0. \A w \in Workers : /\ begun[w] \in Seq(Nat) /\ batch[w] \in Seq(Nat)
                         /\ ques[w] \in Seq(Nat)
  BY DEF DistributorTypeOK
<1>1. ASSUME UNCHANGED <<begun, batch, ques>> PROVE GivenKept
  BY <1>1 DEF GivenKept, Given
<1>2. ASSUME NEW c \in Callers, NEW i \in Workers, Pushing(c, i)
      PROVE GivenGrows(i)
  <2> DEFINE a == begun[i]
             b == batch[i]
             q == ques[i]
             t == <<accepted + 1>>
  <2>1. /\ a \in Seq(Nat) /\ b \in Seq(Nat) /\ q \in Seq(Nat)
        /\ accepted + 1 \in Nat /\ t \in Seq(Nat)
    BY <1>0, BoundsAssumption DEF DistributorTypeOK
  <2>2. ques'[i] = Append(q, accepted + 1) /\ batch'[i] = b /\ begun'[i] = a
    BY <1>2 DEF Pushing, PushTask, DistributorTypeOK
  <2>3. ques'[i] = q \o t
    BY <2>1, <2>2, AppendIsConcat
  <2>4. b \o q \in Seq(Nat) /\ a \o (b \o q) \in Seq(Nat)
    BY <1>2, <2>1, ConcatProperties, GivenType DEF Given
  <2> HIDE DEF a, b, q, t
  <2>5. (b \o q) \o t = b \o (q \o t)
    BY <2>1, AssocNat, Zenon
  <2> DEFINE s == b \o q
  <2>6. (a \o s) \o t = a \o (s \o t)
    <3>1. s \in Seq(Nat)
      BY <2>4
    <3> HIDE DEF s
    <3> QED BY <2>1, <3>1, AssocNat, Zenon
  <2>7. Append(a \o s, accepted + 1) = (a \o s) \o t
    BY <2>1, <2>4, AppendIsConcat DEF t
  <2>8. Given(i)' = a \o (b \o (q \o t)) /\ Given(i) = a \o (b \o q)
    BY <2>2, <2>3 DEF Given, a, b, q
  <2>9. Given(i)' = Append(Given(i), accepted + 1)
    BY <2>5, <2>6, <2>7, <2>8
  <2>10. ASSUME NEW w \in Workers \ {i} PROVE Given(w)' = Given(w)
    BY <1>2, <2>10 DEF Pushing, PushTask, DistributorTypeOK, Given
  <2> QED BY <1>2, <2>9, <2>10 DEF GivenGrows, Pushing, PushTask
<1>3. ASSUME NEW i \in Workers, Inlining(i) PROVE RunOnTheSpot(i)
  BY <1>1, <1>3 DEF Inlining, RunOnTheSpot
<1>4. ASSUME NEW i \in Workers, work(i)
      PROVE GivenKept /\ UNCHANGED <<accepted, inlined>>
  <2>1. batch[i] = <<>>
    BY <1>4 DEF work, RunsInLoop
  <2>2. begun'[i] = begun[i] /\ batch'[i] = ques[i] /\ ques'[i] = <<>>
    BY <1>4 DEF work, DistributorTypeOK
  <2>3. ques[i] \o <<>> = ques[i] /\ <<>> \o ques[i] = ques[i]
    BY <1>0, ConcatEmptySeq
  <2>4. Given(i)' = Given(i)
    BY <2>1, <2>2, <2>3 DEF Given
  <2>5. ASSUME NEW w \in Workers \ {i} PROVE Given(w)' = Given(w)
    BY <1>4, <2>5 DEF work, DistributorTypeOK, Given
  <2> QED BY <1>4, <2>4, <2>5 DEF work, GivenKept
<1>5. ASSUME NEW i \in Workers, RunNext(i)
      PROVE GivenKept /\ UNCHANGED <<accepted, inlined>>
  <2> DEFINE a == begun[i]
             h == <<Head(batch[i])>>
             r == Tail(batch[i])
             q == ques[i]
  <2>1. batch[i] # <<>>
    BY <1>5 DEF RunNext
  <2>2. /\ Head(batch[i]) \in Nat /\ r \in Seq(Nat)
        /\ a \in Seq(Nat) /\ q \in Seq(Nat)
    BY <1>0, <2>1, HeadTailProperties
  <2>3. h \in Seq(Nat) /\ batch[i] = h \o r
    BY <1>0, <2>1, <2>2, HeadTailConcat
  <2>4. begun'[i] = a \o h
    <3>1. begun'[i] = Append(begun[i], Head(batch[i]))
      BY <1>5 DEF RunNext, DistributorTypeOK
    <3>2. Append(begun[i], Head(batch[i])) = begun[i] \o <<Head(batch[i])>>
      BY <1>0, <2>2, AppendIsConcat
    <3> QED BY <3>1, <3>2
  <2>5. batch'[i] = r /\ ques'[i] = q
    BY <1>5 DEF RunNext, DistributorTypeOK
  <2>6. r \o q \in Seq(Nat)
    BY <2>2, ConcatProperties
  <2> HIDE DEF a, h, r, q
  <2>7. (h \o r) \o q = h \o (r \o q)
    BY <2>2, <2>3, AssocNat, Zenon
  <2> DEFINE s == r \o q
  <2>8. (a \o h) \o s = a \o (h \o s)
    <3>1. s \in Seq(Nat)
      BY <2>6
    <3> HIDE DEF s
    <3> QED BY <2>2, <2>3, <3>1, AssocNat, Zenon
  <2>9. Given(i)' = (a \o h) \o s /\ Given(i) = a \o ((h \o r) \o q)
    BY <2>3, <2>4, <2>5 DEF Given, a, q
  <2>10. Given(i)' = Given(i)
    BY <2>7, <2>8, <2>9
  <2>11. ASSUME NEW w \in Workers \ {i} PROVE Given(w)' = Given(w)
    BY <1>5, <2>11 DEF RunNext, DistributorTypeOK, Given
  <2> QED BY <1>5, <2>10, <2>11 DEF RunNext, GivenKept
<1>6. ASSUME NEW c \in Callers, Notify(c)
      PROVE GivenKept /\ UNCHANGED <<accepted, inlined>>
  BY <1>1, <1>6 DEF Notify, tasks
<1>7. ASSUME NEW i \in Workers,
             startNextLoop(i) \/ EnterWait(i) \/ WaitTimeout(i)
               \/ TaskReturns(i) \/ BatchDone(i)
      PROVE GivenKept /\ UNCHANGED <<accepted, inlined>>
  BY <1>1, <1>7
  DEF startNextLoop, EnterWait, WaitTimeout, TaskReturns, BatchDone, tasks
<1>8. CASE Owning
  BY <1>1, <1>8
  DEF Owning, start, Spawn, AssignThread, shutdown, NotifyAll, Join, tasks
<1>9. CASE UNCHANGED distributorVars
  BY <1>1, <1>9 DEF distributorVars
<1> QED
  BY <1>2, <1>3, <1>4, <1>5, <1>6, <1>7, <1>8, <1>9, AddingCases
  DEF DistributorNext, Working

\* The elements of Given(i) after it has grown.
LEMMA GrownElements ==
  ASSUME DistributorTypeOK, NEW i \in Workers, GivenGrows(i)
  PROVE  /\ Len(Given(i)) \in Nat
         /\ Len(Given(i)') = Len(Given(i)) + 1
         /\ \A k \in 1 .. Len(Given(i)) : Given(i)'[k] = Given(i)[k]
         /\ Given(i)'[Len(Given(i)) + 1] = accepted + 1
<1> DEFINE s == Given(i)
           s1 == Given(i)'
<1>1. s \in Seq(Nat)
  BY GivenType
<1>2. accepted + 1 \in Nat
  BY BoundsAssumption DEF DistributorTypeOK
<1>3. s1 = Append(s, accepted + 1)
  BY DEF GivenGrows
<1> HIDE DEF s, s1
<1>4. /\ Len(s) \in Nat
      /\ Len(s1) = Len(s) + 1
      /\ \A k \in 1 .. Len(s) : s1[k] = s[k]
      /\ s1[Len(s) + 1] = accepted + 1
  BY <1>1, <1>2, <1>3, AppendProperties, LenProperties
<1> QED BY <1>4 DEF s, s1

(* No task is lost, doubled or reordered: the tasks given to a queue begin   *)
(* in the order of their acceptance, and each accepted task is with one      *)
(* queue or was run on the spot, for any number of workers, callers, tasks,  *)
(* shutdowns and restarts.                                                   *)
THEOREM TasksCorrect == DistributorSpec => [](QueueOrder /\ AcceptedOnce)
<1>1. DistributorInit => QueueOrder /\ AcceptedOnce
  <2> SUFFICES ASSUME DistributorInit PROVE QueueOrder /\ AcceptedOnce
    OBVIOUS
  <2>1. \A w \in Workers : Given(w) = <<>> /\ Len(Given(w)) = 0
    BY DEF DistributorInit, Given
  <2>2. accepted = 0 /\ \A w \in Workers : inlined[w] = {}
    BY DEF DistributorInit
  <2> QED BY <2>1, <2>2 DEF QueueOrder, AcceptedOnce, Task
<1>2. ASSUME DistributorTypeOK, RunsInLoop, QueueOrder, AcceptedOnce, [DistributorNext]_distributorVars
      PROVE QueueOrder' /\ AcceptedOnce'
  <2>0. accepted \in Nat /\ inlined \in [Workers -> SUBSET Nat]
    BY <1>2, BoundsAssumption DEF DistributorTypeOK
  <2>a. \A w \in Workers : \A k \in 1 .. Len(Given(w)) : Given(w)[k] \in Task
    BY <1>2 DEF AcceptedOnce
  <2>1. CASE GivenKept /\ UNCHANGED <<accepted, inlined>>
    <3>1. \A w \in Workers : Given(w)' = Given(w)
      BY <2>1 DEF GivenKept
    <3>2. QueueOrder'
      BY <1>2, <3>1 DEF QueueOrder
    <3>3. AcceptedOnce'
      BY <1>2, <2>1, <3>1 DEF AcceptedOnce, Task
    <3> QED BY <3>2, <3>3
  <2>2. ASSUME NEW i \in Workers, RunOnTheSpot(i)
        PROVE QueueOrder' /\ AcceptedOnce'
    <3>1. \A w \in Workers : Given(w)' = Given(w)
      BY <2>2 DEF RunOnTheSpot, GivenKept
    <3>2. QueueOrder'
      BY <1>2, <3>1 DEF QueueOrder
    <3>3. /\ accepted' = accepted + 1
          /\ \A w \in Workers : inlined'[w] = IF w = i
                THEN inlined[i] \cup {accepted + 1} ELSE inlined[w]
      BY <2>0, <2>2 DEF RunOnTheSpot
    <3>4. ASSUME NEW t \in Task'
          PROVE \E w \in Workers : t \in inlined'[w] \/
                   \E k \in 1 .. Len(Given(w)') : Given(w)'[k] = t
      <4>1. CASE t = accepted + 1
        BY <3>3, <4>1
      <4>2. CASE t # accepted + 1
        <5>1. t \in Task
          BY <2>0, <3>3, <4>2 DEF Task
        <5>2. PICK w \in Workers : t \in inlined[w] \/
                 \E k \in 1 .. Len(Given(w)) : Given(w)[k] = t
          BY <1>2, <5>1 DEF AcceptedOnce
        <5>3. t \in inlined[w] => t \in inlined'[w]
          BY <3>3
        <5> QED BY <3>1, <5>2, <5>3
      <4> QED BY <4>1, <4>2
    <3>5. ASSUME NEW w \in Workers, NEW k \in 1 .. Len(Given(w)')
          PROVE /\ Given(w)'[k] \in Task'
                /\ \A j \in Workers : Given(w)'[k] \notin inlined'[j]
                /\ \A j \in Workers \ {w} : \A l \in 1 .. Len(Given(j)') :
                      Given(j)'[l] # Given(w)'[k]
      <4>1. Given(w)' = Given(w) /\ k \in 1 .. Len(Given(w))
        BY <3>1
      <4>2. Given(w)[k] \in Task /\ Given(w)[k] # accepted + 1
        BY <2>0, <2>a, <4>1 DEF Task
      <4>3. Given(w)[k] \in Task'
        BY <2>0, <3>3, <4>2 DEF Task
      <4>4. \A j \in Workers : Given(w)[k] \notin inlined'[j]
        BY <1>2, <3>3, <4>1, <4>2 DEF AcceptedOnce
      <4>5. \A j \in Workers \ {w} : \A l \in 1 .. Len(Given(j)) :
               Given(j)[l] # Given(w)[k]
        BY <1>2, <4>1 DEF AcceptedOnce
      <4> QED BY <3>1, <4>1, <4>3, <4>4, <4>5
    <3>6. ASSUME NEW w \in Workers
          PROVE /\ inlined'[w] \subseteq Task'
                /\ \A j \in Workers \ {w} : inlined'[w] \cap inlined'[j] = {}
      <4>1. \A j \in Workers : inlined[j] \subseteq Task
        BY <1>2 DEF AcceptedOnce
      <4>2. Task' = Task \cup {accepted + 1} /\ accepted + 1 \notin Task
        BY <2>0, <3>3 DEF Task
      <4>3. \A j \in Workers : accepted + 1 \notin inlined[j]
        BY <4>1, <4>2
      <4>4. inlined'[w] \subseteq Task'
        BY <3>3, <4>1, <4>2
      <4>5. ASSUME NEW j \in Workers \ {w}
            PROVE inlined'[w] \cap inlined'[j] = {}
        <5>1. inlined[w] \cap inlined[j] = {}
          BY <1>2 DEF AcceptedOnce
        <5> QED BY <3>3, <4>3, <5>1
      <4> QED BY <4>4, <4>5
    <3>7. AcceptedOnce'
      BY <3>4, <3>5, <3>6 DEF AcceptedOnce
    <3> QED BY <3>2, <3>7
  <2>3. ASSUME NEW i \in Workers, GivenGrows(i)
        PROVE QueueOrder' /\ AcceptedOnce'
    <3> DEFINE n == Len(Given(i))
    <3>1. /\ accepted' = accepted + 1 /\ inlined' = inlined
          /\ \A w \in Workers \ {i} : Given(w)' = Given(w)
      BY <2>3 DEF GivenGrows
    <3>2. /\ n \in Nat
          /\ Len(Given(i)') = n + 1
          /\ \A k \in 1 .. n : Given(i)'[k] = Given(i)[k]
          /\ Given(i)'[n + 1] = accepted + 1
      BY <1>2, <2>3, GrownElements
    <3> HIDE DEF n
    <3>3. /\ Task' = Task \cup {accepted + 1} /\ accepted + 1 \notin Task
          /\ \A t \in Task : t \in Nat /\ t < accepted + 1
      BY <2>0, <3>1 DEF Task
    \* An element of a grown queue is an old one, or the new task.
    <3>4. ASSUME NEW w \in Workers, NEW k \in 1 .. Len(Given(w)')
          PROVE \/ k \in 1 .. Len(Given(w)) /\ Given(w)'[k] = Given(w)[k]
                \/ w = i /\ k = n + 1 /\ Given(w)'[k] = accepted + 1
      <4>1. CASE w = i
        <5>1. k \in 1 .. n \/ k = n + 1
          BY <3>2, <4>1
        <5> QED BY <3>2, <4>1, <5>1 DEF n
      <4>2. CASE w # i
        BY <3>1, <4>2
      <4> QED BY <4>1, <4>2
    <3>5. ASSUME NEW w \in Workers, NEW j \in 1 .. Len(Given(w)'),
                 NEW k \in 1 .. Len(Given(w)'), j < k
          PROVE Given(w)'[j] < Given(w)'[k]
      <4>1. CASE k \in 1 .. Len(Given(w)) /\ Given(w)'[k] = Given(w)[k]
        <5>1. Len(Given(w)) \in Nat
          BY <1>2, GivenType, LenProperties
        <5>2. j \in 1 .. Len(Given(w))
          BY <3>5, <4>1, <5>1
        <5>3. Given(w)'[j] = Given(w)[j]
          <6>1. ~(w = i /\ j = n + 1)
            BY <3>2, <5>2 DEF n
          <6> QED BY <3>4, <6>1
        <5> QED BY <1>2, <3>5, <4>1, <5>2, <5>3 DEF QueueOrder
      <4>2. CASE w = i /\ k = n + 1 /\ Given(w)'[k] = accepted + 1
        <5>1. j \in 1 .. n
          BY <3>2, <3>5, <4>2
        <5>2. Given(w)'[j] \in Task
          BY <2>a, <3>2, <4>2, <5>1 DEF n
        <5> QED BY <3>3, <4>2, <5>2
      <4> QED BY <3>4, <4>1, <4>2
    <3>6. QueueOrder'
      BY <3>5 DEF QueueOrder
    <3>7. ASSUME NEW t \in Task'
          PROVE \E w \in Workers : t \in inlined'[w] \/
                   \E k \in 1 .. Len(Given(w)') : Given(w)'[k] = t
      <4>1. CASE t = accepted + 1
        <5>1. n + 1 \in 1 .. Len(Given(i)') /\ Given(i)'[n + 1] = t
          BY <3>2, <4>1
        <5> QED BY <5>1
      <4>2. CASE t # accepted + 1
        <5>1. t \in Task
          BY <3>3, <4>2
        <5>2. PICK w \in Workers : t \in inlined[w] \/
                 \E k \in 1 .. Len(Given(w)) : Given(w)[k] = t
          BY <1>2, <5>1 DEF AcceptedOnce
        <5>3. CASE t \in inlined[w]
          BY <3>1, <5>3
        <5>4. ASSUME NEW k \in 1 .. Len(Given(w)), Given(w)[k] = t
              PROVE \E l \in 1 .. Len(Given(w)') : Given(w)'[l] = t
          <6>1. CASE w = i
            <7>1. k \in 1 .. Len(Given(w)') /\ Given(w)'[k] = t
              BY <3>2, <5>4, <6>1 DEF n
            <7> QED BY <7>1
          <6>2. CASE w # i
            BY <3>1, <5>4, <6>2
          <6> QED BY <6>1, <6>2
        <5> QED BY <5>2, <5>3, <5>4
      <4> QED BY <4>1, <4>2
    <3>8. ASSUME NEW w \in Workers, NEW k \in 1 .. Len(Given(w)')
          PROVE /\ Given(w)'[k] \in Task'
                /\ \A j \in Workers : Given(w)'[k] \notin inlined'[j]
                /\ \A j \in Workers \ {w} : \A l \in 1 .. Len(Given(j)') :
                      Given(j)'[l] # Given(w)'[k]
      <4>1. \A j \in Workers : inlined[j] \subseteq Task
        BY <1>2 DEF AcceptedOnce
      <4>2. Given(w)'[k] \in Task'
        BY <2>a, <3>3, <3>4
      <4>3. ASSUME NEW j \in Workers PROVE Given(w)'[k] \notin inlined'[j]
        <5>1. CASE k \in 1 .. Len(Given(w)) /\ Given(w)'[k] = Given(w)[k]
          BY <1>2, <3>1, <5>1 DEF AcceptedOnce
        <5>2. CASE Given(w)'[k] = accepted + 1
          BY <3>1, <3>3, <4>1, <5>2
        <5> QED BY <3>4, <5>1, <5>2
      <4>4. ASSUME NEW j \in Workers \ {w}, NEW l \in 1 .. Len(Given(j)')
            PROVE Given(j)'[l] # Given(w)'[k]
        <5>1. \/ k \in 1 .. Len(Given(w)) /\ Given(w)'[k] = Given(w)[k]
              \/ w = i /\ Given(w)'[k] = accepted + 1
          BY <3>4
        <5>2. \/ l \in 1 .. Len(Given(j)) /\ Given(j)'[l] = Given(j)[l]
              \/ j = i /\ Given(j)'[l] = accepted + 1
          BY <3>4
        <5>3. CASE /\ k \in 1 .. Len(Given(w)) /\ Given(w)'[k] = Given(w)[k]
                   /\ l \in 1 .. Len(Given(j)) /\ Given(j)'[l] = Given(j)[l]
          BY <1>2, <5>3 DEF AcceptedOnce
        <5>4. CASE w = i /\ Given(w)'[k] = accepted + 1
          BY <2>a, <3>3, <5>2, <5>4
        <5>5. CASE j = i /\ Given(j)'[l] = accepted + 1
          BY <2>a, <3>3, <5>1, <5>5
        <5> QED BY <5>1, <5>2, <5>3, <5>4, <5>5
      <4> QED BY <4>2, <4>3, <4>4
    <3>9. ASSUME NEW w \in Workers
          PROVE /\ inlined'[w] \subseteq Task'
                /\ \A j \in Workers \ {w} : inlined'[w] \cap inlined'[j] = {}
      <4>1. /\ inlined[w] \subseteq Task
            /\ \A j \in Workers \ {w} : inlined[w] \cap inlined[j] = {}
        BY <1>2 DEF AcceptedOnce
      <4> QED BY <3>1, <3>3, <4>1
    <3>10. AcceptedOnce'
      BY <3>7, <3>8, <3>9 DEF AcceptedOnce
    <3> QED BY <3>6, <3>10
  <2> QED BY <1>2, <2>1, <2>2, <2>3, GivenSteps
<1> QED BY <1>1, <1>2, DistributorTypeCorrect, RunsInLoopCorrect, PTL DEF DistributorSpec
=============================================================================
