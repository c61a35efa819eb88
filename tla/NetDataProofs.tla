---------------------------- MODULE NetDataProofs ----------------------------
(***************************************************************************)
(* Proofs about the data that programs send each other: what the calls of  *)
(* the streams leave queued, sent, in flight and read, and the invariant   *)
(* that keeps it in order.                                                 *)
(***************************************************************************)
EXTENDS NetSystemProofs

\* f holds the concatenations of the first elements of q.
Joined(q, f) == f = [i \in 1 .. Len(q) |-> IF i = 1 THEN q[i] ELSE f[i-1] \o q[i]]

(* Concatenations of a sequence's elements exist. *)
LEMMA JoinsExist ==
  ASSUME NEW q, Len(q) \in Nat
  PROVE  \E f : Joined(q, f)
<1> DEFINE Upto(n, f) == f = [i \in 1 .. n |-> IF i = 1 THEN q[i] ELSE f[i-1] \o q[i]]
           Bad == {n \in Nat : ~ \E f : Upto(n, f)}
<1>1. SUFFICES ASSUME Bad # {} PROVE FALSE
  BY Zenon DEF Joined
<1>2. PICK n \in Bad : \A k \in Bad : ~(<<k, n>> \in OpToRel(<, Nat))
  BY <1>1, WFMin, NatLessThanWellFounded, Zenon
<1> HIDE DEF Bad
<1>0. n \in Nat /\ ~ \E f : Upto(n, f)
  BY Zenon DEF Bad
<1>3. \A k \in Nat : k < n => \E f : Upto(k, f)
  <2>1. \A k \in Nat : k < n => <<k, n>> \in OpToRel(<, Nat)
    BY <1>0, Zenon DEF OpToRel
  <2>2. \A k \in Nat : k \notin Bad => \E f : Upto(k, f)
    BY Zenon DEF Bad
  <2> QED BY Zenon, <1>2, <2>1, <2>2
<1> HIDE DEF Upto
<1>4. CASE n = 0
  <2>1. Upto(0, [i \in 1 .. 0 |-> 0])
    BY DEF Upto
  <2> QED BY <1>0, <1>4, <2>1
<1>5. CASE n # 0
  <2>1. n - 1 \in Nat /\ n - 1 < n
    BY <1>0, <1>5
  <2>2. PICK g : Upto(n - 1, g)
    BY <1>3, <2>1
  <2> DEFINE h == [i \in 1 .. n |-> IF i < n THEN g[i] ELSE IF i = 1 THEN q[i] ELSE g[i-1] \o q[i]]
  <2>3. ASSUME NEW i \in 1 .. n PROVE h[i] = IF i = 1 THEN q[i] ELSE h[i-1] \o q[i]
    <3>0. n \in Nat /\ i \in Nat
      BY <1>0
    <3>1. CASE i = n
      <4>1. i # 1 => i - 1 \in 1 .. n /\ i - 1 < n
        BY <3>0, <3>1
      <4> QED BY <3>1, <4>1
    <3>2. CASE i # n
      <4>1. i \in 1 .. n - 1 /\ i < n
        BY <3>0, <3>2
      <4>2. g[i] = IF i = 1 THEN q[i] ELSE g[i-1] \o q[i]
        BY <2>2, <4>1 DEF Upto
      <4>3. i # 1 => i - 1 \in 1 .. n /\ i - 1 < n
        BY <3>0
      <4> QED BY <4>1, <4>2, <4>3
    <3> QED BY <3>1, <3>2
  <2>4. Upto(n, h)
    BY <2>3 DEF Upto
  <2> QED BY <1>0, <2>4
<1> QED BY <1>4, <1>5

(* What flattening gives is the last of them. *)
LEMMA FlatJoins ==
  ASSUME NEW q, Len(q) \in Nat \ {0}
  PROVE  \E f : Joined(q, f) /\ FlattenSeq(q) = f[Len(q)]
<1> DEFINE F == CHOOSE f : Joined(q, f)
<1>1. Joined(q, F)
  BY JoinsExist
<1>2. FlattenSeq(q) = F[Len(q)]
  BY DEF FlattenSeq, Joined
<1> QED BY <1>1, <1>2

(* Flattening with one more element. *)
LEMMA FlatAppend ==
  ASSUME NEW S, NEW q \in Seq(Seq(S)), NEW x \in Seq(S)
  PROVE  FlattenSeq(q) \in Seq(S) /\ FlattenSeq(Append(q, x)) = FlattenSeq(q) \o x
<1> DEFINE r == Append(q, x)
<1>1. /\ Len(q) \in Nat /\ Len(r) = Len(q) + 1 /\ r \in Seq(Seq(S))
      /\ \A i \in 1 .. Len(q) : r[i] = q[i] /\ q[i] \in Seq(S)
      /\ r[Len(q) + 1] = x
  BY AppendProperties, LenProperties, ElementOfSeq
<1> HIDE DEF r
<1>a. Len(r) \in Nat \ {0}
  BY <1>1
<1>2. PICK g : Joined(r, g) /\ FlattenSeq(r) = g[Len(r)]
  BY <1>a, FlatJoins
<1>3. \A i \in 1 .. Len(q) + 1 : g[i] = IF i = 1 THEN r[i] ELSE g[i-1] \o r[i]
  BY <1>1, <1>2 DEF Joined
<1>4. CASE Len(q) = 0
  <2>1. q = <<>>
    BY <1>4, EmptySeq
  <2>2. FlattenSeq(q) = <<>>
    BY <1>4, <2>1 DEF FlattenSeq
  <2>3. FlattenSeq(r) = x
    BY <1>1, <1>2, <1>3, <1>4
  <2> QED BY <2>2, <2>3, EmptySeq, ConcatEmptySeq DEF r
<1>5. CASE Len(q) # 0
  <2>1. PICK f : Joined(q, f) /\ FlattenSeq(q) = f[Len(q)]
    BY <1>1, <1>5, FlatJoins
  <2>2. \A i \in 1 .. Len(q) : f[i] = IF i = 1 THEN q[i] ELSE f[i-1] \o q[i]
    BY <2>1 DEF Joined
  <2> DEFINE Bad == {i \in Nat : i \in 1 .. Len(q) /\ ~(f[i] \in Seq(S) /\ g[i] = f[i])}
  <2>3. Bad = {}
    <3>1. SUFFICES ASSUME Bad # {} PROVE FALSE
      OBVIOUS
    <3>2. PICK n \in Bad : \A k \in Bad : ~(<<k, n>> \in OpToRel(<, Nat))
      BY <3>1, WFMin, NatLessThanWellFounded, Zenon
    <3>3. n \in Nat /\ n \in 1 .. Len(q) /\ ~(f[n] \in Seq(S) /\ g[n] = f[n])
      BY Zenon
    <3>4. \A k \in Nat : k < n => <<k, n>> \in OpToRel(<, Nat)
      BY <3>3, Zenon DEF OpToRel
    <3>5. \A k \in Nat : k \notin Bad /\ k \in 1 .. Len(q) => f[k] \in Seq(S) /\ g[k] = f[k]
      BY Zenon
    <3> HIDE DEF Bad
    <3>6. \A k \in Nat : k < n /\ k \in 1 .. Len(q) => f[k] \in Seq(S) /\ g[k] = f[k]
      BY Zenon, <3>2, <3>4, <3>5
    <3>7. n # 1 => n - 1 \in Nat /\ n - 1 < n /\ n - 1 \in 1 .. Len(q)
      BY <1>1, <3>3
    <3>8. n # 1 => f[n-1] \in Seq(S) /\ g[n-1] = f[n-1]
      BY <3>6, <3>7
    <3>9. q[n] \in Seq(S) /\ r[n] = q[n] /\ n \in 1 .. Len(q) + 1
      BY <1>1, <3>3
    <3>10. g[n] = f[n]
      BY <1>3, <2>2, <3>3, <3>8, <3>9
    <3>11. f[n] \in Seq(S)
      BY <2>2, <3>3, <3>8, <3>9, ConcatProperties
    <3> QED BY <3>3, <3>10, <3>11
  <2>4. Len(q) \in Nat /\ Len(q) \in 1 .. Len(q)
    BY <1>1, <1>5
  <2>5. Len(q) \notin Bad
    BY <2>3
  <2>6. f[Len(q)] \in Seq(S) /\ g[Len(q)] = f[Len(q)]
    BY <2>4, <2>5, Zenon
  <2>7. g[Len(q) + 1] = g[Len(q)] \o x
    <3>1. /\ Len(q) + 1 \in 1 .. Len(q) + 1 /\ Len(q) + 1 # 1
          /\ (Len(q) + 1) - 1 = Len(q)
      BY <1>1, <1>5
    <3> QED BY <1>1, <1>3, <3>1
  <2> QED BY <1>1, <1>2, <2>1, <2>6, <2>7 DEF r
<1> QED BY <1>4, <1>5

(* Flattening from the first element on. *)
LEMMA FlatTail ==
  ASSUME NEW S, NEW q \in Seq(Seq(S)), q # <<>>
  PROVE  FlattenSeq(q) = Head(q) \o FlattenSeq(Tail(q))
<1> DEFINE r == Tail(q)
<1>1. /\ Len(q) \in Nat \ {0} /\ Len(r) = Len(q) - 1 /\ r \in Seq(Seq(S))
      /\ Head(q) = q[1] /\ q[1] \in Seq(S)
      /\ \A i \in 1 .. Len(r) : r[i] = q[i+1] /\ r[i] \in Seq(S)
  <2>1. /\ r \in Seq(Seq(S)) /\ Len(r) = Len(q) - 1 /\ \A i \in 1 .. Len(r) : r[i] = q[i+1]
    BY HeadTailProperties
  <2>2. Len(q) \in Nat \ {0}
    BY EmptySeq
  <2>3. \A i \in 1 .. Len(r) : r[i] \in Seq(S)
    BY <2>1, ElementOfSeq
  <2>4. q[1] \in Seq(S)
    BY <2>2, ElementOfSeq
  <2> QED BY <2>1, <2>2, <2>3, <2>4
<1> HIDE DEF r
<1>2. PICK f : Joined(q, f) /\ FlattenSeq(q) = f[Len(q)]
  BY <1>1, FlatJoins
<1>3. \A i \in 1 .. Len(q) : f[i] = IF i = 1 THEN q[i] ELSE f[i-1] \o q[i]
  BY <1>2 DEF Joined
<1>4. CASE Len(r) = 0
  <2>1. r = <<>>
    BY <1>1, <1>4, EmptySeq
  <2>2. FlattenSeq(r) = <<>>
    BY <1>4, <2>1 DEF FlattenSeq
  <2>3. FlattenSeq(q) = q[1]
    <3>1. Len(q) = 1 /\ 1 \in 1 .. Len(q)
      BY <1>1, <1>4
    <3> QED BY <1>2, <1>3, <3>1
  <2> QED BY <1>1, <2>2, <2>3, ConcatEmptySeq DEF r
<1>5. CASE Len(r) # 0
  <2>0. Len(r) \in Nat \ {0}
    BY <1>1, <1>5
  <2>1. PICK g : Joined(r, g) /\ FlattenSeq(r) = g[Len(r)]
    BY <2>0, FlatJoins
  <2>2. \A i \in 1 .. Len(r) : g[i] = IF i = 1 THEN r[i] ELSE g[i-1] \o r[i]
    BY <2>1 DEF Joined
  <2> DEFINE Bad == {i \in Nat : i \in 1 .. Len(r) /\ ~(g[i] \in Seq(S) /\ f[i+1] = q[1] \o g[i])}
  <2>3. Bad = {}
    <3>1. SUFFICES ASSUME Bad # {} PROVE FALSE
      OBVIOUS
    <3>2. PICK n \in Bad : \A k \in Bad : ~(<<k, n>> \in OpToRel(<, Nat))
      BY <3>1, WFMin, NatLessThanWellFounded, Zenon
    <3>3. n \in Nat /\ n \in 1 .. Len(r) /\ ~(g[n] \in Seq(S) /\ f[n+1] = q[1] \o g[n])
      BY Zenon
    <3>4. \A k \in Nat : k < n => <<k, n>> \in OpToRel(<, Nat)
      BY <3>3, Zenon DEF OpToRel
    <3>5. \A k \in Nat : k \notin Bad /\ k \in 1 .. Len(r) => g[k] \in Seq(S) /\ f[k+1] = q[1] \o g[k]
      BY Zenon
    <3> HIDE DEF Bad
    <3>6. \A k \in Nat : k < n /\ k \in 1 .. Len(r) => g[k] \in Seq(S) /\ f[k+1] = q[1] \o g[k]
      BY Zenon, <3>2, <3>4, <3>5
    <3>7. n # 1 => n - 1 \in Nat /\ n - 1 < n /\ n - 1 \in 1 .. Len(r) /\ (n - 1) + 1 = n
      BY <1>1, <3>3
    <3>8. n # 1 => g[n-1] \in Seq(S) /\ f[n] = q[1] \o g[n-1]
      BY <3>6, <3>7
    <3>9. r[n] \in Seq(S) /\ r[n] = q[n+1] /\ n + 1 \in 1 .. Len(q) /\ n + 1 # 1 /\ (n + 1) - 1 = n
      BY <1>1, <3>3
    <3>10. f[n+1] = f[n] \o r[n]
      BY <1>3, <3>9
    <3>11. g[n] = IF n = 1 THEN r[n] ELSE g[n-1] \o r[n]
      BY <2>2, <3>3
    <3>12. g[n] \in Seq(S)
      BY <3>8, <3>9, <3>11, ConcatProperties
    <3>13. CASE n = 1
      <4>1. f[1] = q[1]
        BY <1>1, <1>3
      <4> QED BY <3>3, <3>9, <3>10, <3>11, <3>12, <3>13, <4>1
    <3>14. CASE n # 1
      <4>1. f[n+1] = (q[1] \o g[n-1]) \o r[n]
        BY <3>8, <3>10, <3>14
      <4>2. f[n+1] = q[1] \o (g[n-1] \o r[n])
        <5>1. q[1] \in Seq(S) /\ g[n-1] \in Seq(S) /\ r[n] \in Seq(S)
          BY <1>1, <3>8, <3>9, <3>14
        <5>2. \A a, b, c \in Seq(S) : (a \o b) \o c = a \o (b \o c)
          BY ConcatAssociative
        <5> QED BY <4>1, <5>1, <5>2
      <4> QED BY <3>3, <3>11, <3>12, <3>14, <4>2
    <3> QED BY <3>13, <3>14
  <2>4. Len(r) \in Nat /\ Len(r) \in 1 .. Len(r)
    BY <1>1, <1>5
  <2>5. Len(r) \notin Bad
    BY <2>3
  <2>6. f[Len(r) + 1] = q[1] \o g[Len(r)]
    BY <2>4, <2>5, Zenon
  <2>7. Len(r) + 1 = Len(q)
    BY <1>1
  <2> QED BY <1>1, <1>2, <2>1, <2>6, <2>7 DEF r
<1> QED BY <1>4, <1>5

IsSeq(q) == q \in Seq(Range(q))

(* Sequences put together. *)
LEMMA Concats ==
  /\ \A a : IsSeq(a) => a \o <<>> = a /\ <<>> \o a = a
  /\ \A a, b : IsSeq(a) /\ IsSeq(b) => IsSeq(a \o b)
  /\ \A a, b, c : IsSeq(a) /\ IsSeq(b) /\ IsSeq(c) => (a \o b) \o c = a \o (b \o c)
  /\ IsSeq(<<>>)
  /\ \A S : \A a \in Seq(S) : IsSeq(a)
<1>1. \A S : \A a \in Seq(S) : IsSeq(a)
  <2> SUFFICES ASSUME NEW S, NEW a \in Seq(S) PROVE IsSeq(a)
    OBVIOUS
  <2>1. Len(a) \in Nat /\ DOMAIN a = 1 .. Len(a) /\ a = [i \in DOMAIN a |-> a[i]]
    OBVIOUS
  <2>2. a \in [1 .. Len(a) -> Range(a)]
    BY <2>1 DEF Range
  <2> QED BY <2>1, <2>2, SeqDef DEF IsSeq
<1>2. IsSeq(<<>>)
  BY <1>1, EmptySeq
<1>3. \A a : IsSeq(a) => a \o <<>> = a /\ <<>> \o a = a
  BY ConcatEmptySeq DEF IsSeq
<1>4. ASSUME NEW a, NEW b, IsSeq(a), IsSeq(b)
      PROVE  a \in Seq(Range(a) \cup Range(b)) /\ b \in Seq(Range(a) \cup Range(b))
  BY <1>4, SeqMonotonic DEF IsSeq
<1>5. \A a, b : IsSeq(a) /\ IsSeq(b) => IsSeq(a \o b)
  BY <1>1, <1>4, ConcatProperties
<1>6. ASSUME NEW a, NEW b, NEW c, IsSeq(a), IsSeq(b), IsSeq(c)
      PROVE  (a \o b) \o c = a \o (b \o c)
  <2> DEFINE S == Range(a) \cup Range(b) \cup Range(c)
  <2>1. a \in Seq(S) /\ b \in Seq(S) /\ c \in Seq(S)
    BY <1>6, SeqMonotonic DEF IsSeq
  <2> HIDE DEF S
  <2> QED BY <2>1, ConcatAssociative
<1> QED BY <1>1, <1>2, <1>3, <1>5, <1>6

-----------------------------------------------------------------------------

\* What the streams write.
Token == Nat \ {0}
Writers == {"send", "ssl_send"}
Carries(P) == \A t \in Range(P.tasks) : t.op \in Writers => t.data \in Seq(Token)
CarriesTask(t) == t.op \in Writers => t.data \in Seq(Token)

WritesOf(q, s) == [i \in DOMAIN q |-> Writes(q[i], s)]

(* What a task writes is a sequence. *)
LEMMA WritesSeq ==
  ASSUME NEW t, CarriesTask(t), NEW s
  PROVE  Writes(t, s) \in Seq(Token \cup {t.data})
<1>1. t.op \in Writers => t.data \in Seq(Token \cup {t.data})
  BY SeqMonotonic DEF CarriesTask
<1>2. <<t.data>> \in Seq(Token \cup {t.data}) /\ <<>> \in Seq(Token \cup {t.data})
  OBVIOUS
<1> QED BY <1>1, <1>2 DEF Writes, Writers

(* What the tasks of a queue write. *)
LEMMA WritesQueue ==
  ASSUME NEW q, q \in Seq(Range(q)), \A t \in Range(q) : CarriesTask(t), NEW s
  PROVE  LET S == Token \cup {t.data : t \in Range(q)}
         IN  /\ WritesOf(q, s) \in Seq(Seq(S)) /\ Len(WritesOf(q, s)) = Len(q)
             /\ DOMAIN q = 1 .. Len(q) /\ Len(q) \in Nat
<1> DEFINE S == Token \cup {t.data : t \in Range(q)}
           w == WritesOf(q, s)
<1>1. Len(q) \in Nat /\ DOMAIN q = 1 .. Len(q)
  OBVIOUS
<1>2. ASSUME NEW i \in DOMAIN q PROVE Writes(q[i], s) \in Seq(S)
  <2>1. q[i] \in Range(q)
    BY DEF Range
  <2>2. Writes(q[i], s) \in Seq(Token \cup {q[i].data})
    BY <2>1, WritesSeq
  <2>3. Token \cup {q[i].data} \subseteq S
    BY <2>1
  <2> HIDE DEF S
  <2> QED BY <2>2, <2>3, SeqMonotonic
<1> HIDE DEF S
<1>3. w \in [1 .. Len(q) -> Seq(S)]
  BY <1>1, <1>2 DEF WritesOf
<1>4. w \in Seq(Seq(S))
  BY <1>1, <1>3, SeqDef
<1>5. Len(w) = Len(q)
  BY <1>1, <1>3
<1> QED BY <1>1, <1>4, <1>5 DEF S

(* What is queued to be written, with one more task. *)
LEMMA PendingAdd ==
  ASSUME NEW P, Sane(P), Carries(P), NEW t, CarriesTask(t), NEW s
  PROVE  /\ IsSeq(Pending(P, s))
         /\ Pending(AddTask(P, t), s) = Pending(P, s) \o Writes(t, s)
<1> DEFINE q == P.tasks
           r == Append(q, t)
           S == Token \cup {u.data : u \in Range(q)} \cup {t.data}
<1>1. q \in Seq(Range(q)) /\ DOMAIN P = Fields
  BY DEF Sane, Typed
<1>2. AddTask(P, t).tasks = r
  BY <1>1 DEF AddTask, Fields
<1>3. /\ r \in Seq(Range(r)) /\ Range(r) = Range(q) \cup {t}
      /\ DOMAIN r = 1 .. Len(q) + 1 /\ DOMAIN q = 1 .. Len(q) /\ Len(q) \in Nat
      /\ \A i \in DOMAIN q : r[i] = q[i]
      /\ r[Len(q) + 1] = t
  BY <1>1, AppendTask
<1>4. \A u \in Range(q) : CarriesTask(u)
  BY DEF Carries, CarriesTask
<1> HIDE DEF q, r
<1>5. /\ WritesOf(q, s) \in Seq(Seq(Token \cup {u.data : u \in Range(q)}))
      /\ Len(WritesOf(q, s)) = Len(q)
  BY <1>1, <1>4, WritesQueue
<1>6. Token \cup {u.data : u \in Range(q)} \subseteq S /\ Token \cup {t.data} \subseteq S
  OBVIOUS
<1> HIDE DEF S
<1>7. Seq(Token \cup {u.data : u \in Range(q)}) \subseteq Seq(S)
  BY <1>6, SeqMonotonic
<1>8. WritesOf(q, s) \in Seq(Seq(S))
  BY <1>5, <1>7, SeqMonotonic
<1>9. Writes(t, s) \in Seq(S)
  BY ZenonT(40), <1>6, WritesSeq, SeqMonotonic
<1>10. WritesOf(r, s) = Append(WritesOf(q, s), Writes(t, s))
  <2> DEFINE w == WritesOf(q, s)
             v == WritesOf(r, s)
             x == Append(w, Writes(t, s))
  <2>1. /\ x \in Seq(Seq(S)) /\ Len(x) = Len(q) + 1
        /\ \A i \in 1 .. Len(q) : x[i] = w[i]
        /\ x[Len(q) + 1] = Writes(t, s)
    BY <1>5, <1>8, <1>9, AppendProperties
  <2>2. /\ DOMAIN v = 1 .. Len(q) + 1
        /\ \A i \in 1 .. Len(q) + 1 : v[i] = Writes(r[i], s)
        /\ \A i \in 1 .. Len(q) : w[i] = Writes(q[i], s)
    BY <1>3 DEF WritesOf
  <2>3. v = [i \in 1 .. Len(q) + 1 |-> v[i]]
    BY <2>2 DEF WritesOf
  <2> HIDE DEF w, v, x
  <2>4. ASSUME NEW i \in 1 .. Len(q) + 1 PROVE v[i] = x[i]
    <3>1. CASE i = Len(q) + 1
      BY <1>3, <2>1, <2>2, <3>1
    <3>2. CASE i # Len(q) + 1
      <4>1. i \in 1 .. Len(q) /\ i \in DOMAIN q
        BY <1>3, <3>2
      <4> QED BY <1>3, <2>1, <2>2, <4>1
    <3> QED BY <3>1, <3>2
  <2>5. x = [i \in 1 .. Len(q) + 1 |-> x[i]]
    BY <2>1
  <2> QED BY <2>3, <2>4, <2>5 DEF w, v, x
<1>11. /\ FlattenSeq(WritesOf(q, s)) \in Seq(S)
       /\ FlattenSeq(WritesOf(r, s)) = FlattenSeq(WritesOf(q, s)) \o Writes(t, s)
  BY <1>8, <1>9, <1>10, FlatAppend
<1> QED BY <1>2, <1>11, Concats DEF Pending, WritesOf, q

(* What is queued to be written, without the first task. *)
LEMMA PendingTail ==
  ASSUME NEW P, Sane(P), Carries(P), P.tasks # <<>>, NEW s
  PROVE  LET Q == [P EXCEPT !.tasks = Tail(@)]
         IN  /\ Carries(Q) /\ CarriesTask(Head(P.tasks))
             /\ Pending(P, s) = Writes(Head(P.tasks), s) \o Pending(Q, s)
<1> DEFINE q == P.tasks
           r == Tail(q)
           Q == [P EXCEPT !.tasks = Tail(@)]
           S == Token \cup {u.data : u \in Range(q)}
<1>1. q \in Seq(Range(q)) /\ DOMAIN P = Fields /\ q # <<>>
  BY DEF Sane, Typed
<1>2. Q.tasks = r
  BY <1>1 DEF Fields
<1> HIDE DEF Q
<1>3. /\ r \in Seq(Range(r)) /\ Range(r) \subseteq Range(q)
      /\ Head(q) \in Range(q) /\ Head(q) = q[1] /\ 1 \in DOMAIN q
      /\ \A i \in DOMAIN r : i \in Nat /\ i + 1 \in DOMAIN q /\ r[i] = q[i + 1]
  BY <1>1, TailTask
<1>4. \A u \in Range(q) : CarriesTask(u)
  BY DEF Carries, CarriesTask
<1>a. Len(r) = Len(q) - 1 /\ DOMAIN r = 1 .. Len(r)
  BY <1>1, HeadTailProperties
<1> HIDE DEF q, r
<1>5. /\ WritesOf(q, s) \in Seq(Seq(S)) /\ Len(WritesOf(q, s)) = Len(q)
      /\ DOMAIN q = 1 .. Len(q) /\ Len(q) \in Nat
  BY <1>1, <1>4, WritesQueue
<1> HIDE DEF S
<1> DEFINE w == WritesOf(q, s)
           v == WritesOf(r, s)
<1>6. w # <<>> /\ Len(w) \in Nat \ {0}
  BY <1>3, <1>5
<1>7. Head(w) = Writes(Head(q), s)
  BY <1>3, <1>5, <1>6 DEF WritesOf
<1>8. Tail(w) = v
  <2>1. /\ Tail(w) \in Seq(Seq(S)) /\ Len(Tail(w)) = Len(q) - 1
        /\ \A i \in 1 .. Len(q) - 1 : Tail(w)[i] = w[i + 1]
    BY <1>5, <1>6, HeadTailProperties
  <2>2. v = [i \in 1 .. Len(q) - 1 |-> Writes(r[i], s)]
    BY <1>a DEF WritesOf
  <2>3. \A i \in 1 .. Len(q) - 1 : w[i + 1] = Writes(q[i + 1], s) /\ r[i] = q[i + 1]
    BY <1>3, <1>5, <1>a DEF WritesOf
  <2> DEFINE x == Tail(w)
  <2> HIDE DEF w, v, x
  <2>a. x \in Seq(Seq(S)) /\ Len(x) = Len(q) - 1 /\ \A i \in 1 .. Len(q) - 1 : x[i] = w[i + 1]
    BY <2>1 DEF x
  <2>4. x = [i \in 1 .. Len(q) - 1 |-> x[i]]
    BY <2>a
  <2> QED BY <2>2, <2>3, <2>4, <2>a DEF x
<1>9. FlattenSeq(w) = Head(w) \o FlattenSeq(Tail(w))
  BY <1>5, <1>6, FlatTail
<1>10. Pending(P, s) = Writes(Head(P.tasks), s) \o Pending(Q, s)
  BY <1>2, <1>7, <1>8, <1>9 DEF Pending, WritesOf, q
<1>11. Carries(Q) /\ CarriesTask(Head(P.tasks))
  BY <1>2, <1>3, <1>4 DEF Carries, CarriesTask, q
<1> QED BY <1>10, <1>11 DEF Q

\* No frame of Q's tasks is not among those of P's.
SameFrames(P, Q) ==
  /\ \A i \in DOMAIN P.tasks : i \in DOMAIN Q.tasks /\ Q.tasks[i] = P.tasks[i]
  /\ \A i \in DOMAIN Q.tasks : i \in DOMAIN P.tasks \/ Q.tasks[i].op # "frame"
  /\ Q.slot = P.slot /\ Q.uid = P.uid

\* Where the frames are, and the number of the one at a place.
Waits(P) == {i \in DOMAIN P.tasks : P.tasks[i].op = "frame"}
Places(F, P) ==
  ({"taken"} \X DOMAIN F) \cup ({"waits"} \X Waits(P)) \cup ({"held"} \X P.slot)
Number(F, P, w) ==
  IF w[1] = "taken" THEN F[w[2]].uid
  ELSE IF w[1] = "waits" THEN P.tasks[w[2]].data.uid
  ELSE w[2].uid

\* The frames numbered so far are each in one place.
Once(F, P) ==
  /\ F \in Seq(Range(F)) /\ P.uid \in Nat \ {0}
  /\ \A v, w \in Places(F, P) : Number(F, P, v) = Number(F, P, w) => v = w
  /\ \A w \in Places(F, P) : Number(F, P, w) \in 1 .. P.uid - 1
  /\ \A n \in 1 .. P.uid - 1 : \E w \in Places(F, P) : Number(F, P, w) = n
OneSlot(P) == \A a, b \in P.slot : a = b

\* What the calls of a process do to its frames, whatever the consumer has.
KeepsFrames(P, Q) == \A F : Once(F, P) /\ OneSlot(P) => Once(F, Q) /\ OneSlot(Q)

(* Frames that only change places. *)
LEMMA Moves ==
  ASSUME NEW F, NEW P, Once(F, P), NEW G, NEW Q, G \in Seq(Range(G)), Q.uid = P.uid,
         NEW m,
         \A w \in Places(F, P) :
            m[w] \in Places(G, Q) /\ Number(G, Q, m[w]) = Number(F, P, w),
         \A v \in Places(G, Q) : \E w \in Places(F, P) : m[w] = v
  PROVE  Once(G, Q)
<1>1. \A v \in Places(G, Q) : \E w \in Places(F, P) :
         m[w] = v /\ Number(G, Q, v) = Number(F, P, w)
  OBVIOUS
<1>2. \A v \in Places(G, Q) : Number(G, Q, v) \in 1 .. Q.uid - 1
  BY <1>1 DEF Once
<1>3. \A u, v \in Places(G, Q) : Number(G, Q, u) = Number(G, Q, v) => u = v
  <2> SUFFICES ASSUME NEW u \in Places(G, Q), NEW v \in Places(G, Q),
                      Number(G, Q, u) = Number(G, Q, v)
               PROVE  u = v
    OBVIOUS
  <2>1. PICK x \in Places(F, P) : m[x] = u /\ Number(G, Q, u) = Number(F, P, x)
    BY <1>1
  <2>2. PICK y \in Places(F, P) : m[y] = v /\ Number(G, Q, v) = Number(F, P, y)
    BY <1>1
  <2>3. x = y
    BY <2>1, <2>2 DEF Once
  <2> QED BY <2>1, <2>2, <2>3
<1>4. \A n \in 1 .. Q.uid - 1 : \E v \in Places(G, Q) : Number(G, Q, v) = n
  <2> SUFFICES ASSUME NEW n \in 1 .. Q.uid - 1 PROVE \E v \in Places(G, Q) : Number(G, Q, v) = n
    OBVIOUS
  <2>1. PICK w \in Places(F, P) : Number(F, P, w) = n
    BY DEF Once
  <2> QED BY <2>1
<1> QED BY <1>2, <1>3, <1>4 DEF Once

(* A frame that has just got its number. *)
LEMMA Numbered ==
  ASSUME NEW F, NEW P, Once(F, P), NEW Q, Q.uid = P.uid + 1,
         NEW x, x \notin Places(F, P), Places(F, Q) = Places(F, P) \cup {x},
         \A w \in Places(F, P) : Number(F, Q, w) = Number(F, P, w),
         Number(F, Q, x) = P.uid
  PROVE  Once(F, Q)
<1>1. P.uid \in Nat \ {0} /\ \A w \in Places(F, P) : Number(F, P, w) \in 1 .. P.uid - 1
  BY DEF Once
<1>2. \A w \in Places(F, P) : Number(F, Q, w) # P.uid
  BY <1>1
<1>3. \A v, w \in Places(F, Q) : Number(F, Q, v) = Number(F, Q, w) => v = w
  BY <1>2 DEF Once
<1>4. \A w \in Places(F, Q) : Number(F, Q, w) \in 1 .. Q.uid - 1
  BY <1>1
<1>5. ASSUME NEW n \in 1 .. Q.uid - 1 PROVE \E w \in Places(F, Q) : Number(F, Q, w) = n
  <2>1. n = P.uid \/ n \in 1 .. P.uid - 1
    BY <1>1
  <2>2. CASE n = P.uid
    BY <2>2
  <2>3. CASE n \in 1 .. P.uid - 1
    BY <2>3 DEF Once
  <2> QED BY <2>1, <2>2, <2>3
<1> QED BY <1>1, <1>3, <1>4, <1>5 DEF Once

(* Calls that leave the frames alone. *)
LEMMA OnceSame ==
  ASSUME NEW F, NEW P, Once(F, P), NEW Q, SameFrames(P, Q)
  PROVE  Once(F, Q)
<1>1. Q.slot = P.slot /\ Q.uid = P.uid
  BY DEF SameFrames
<1>2. Waits(Q) = Waits(P)
  BY DEF SameFrames, Waits
<1>3. Places(F, Q) = Places(F, P)
  BY <1>1, <1>2 DEF Places
<1>4. \A i \in Waits(P) : Q.tasks[i] = P.tasks[i]
  BY DEF SameFrames, Waits
<1>5. ASSUME NEW w \in Places(F, P) PROVE Number(F, Q, w) = Number(F, P, w)
  <2>1. w[1] = "waits" => w[2] \in Waits(P)
    BY DEF Places
  <2> QED BY <1>4, <2>1 DEF Number
<1> QED BY <1>1, <1>3, <1>5 DEF Once

(* The head of the queue is a task without a frame. *)
LEMMA OncePop ==
  ASSUME NEW F, NEW P, Once(F, P), DOMAIN P = Fields, P.tasks \in Seq(Range(P.tasks)),
         P.tasks # <<>>, Head(P.tasks).op # "frame"
  PROVE  Once(F, [P EXCEPT !.tasks = Tail(@)])
<1> DEFINE q == P.tasks
           r == Tail(q)
           Q == [P EXCEPT !.tasks = r]
           m == [w \in Places(F, P) |-> IF w[1] = "waits" THEN <<"waits", w[2] - 1>> ELSE w]
<1>1. Q.tasks = r /\ Q.slot = P.slot /\ Q.uid = P.uid
  BY DEF Fields
<1> HIDE DEF Q
<1>2. /\ Head(q) = q[1]
      /\ \A i \in DOMAIN r : i \in Nat /\ i + 1 \in DOMAIN q /\ r[i] = q[i + 1]
  BY TailTask
<1>3. Len(q) \in Nat /\ DOMAIN q = 1 .. Len(q) /\ DOMAIN r = 1 .. Len(q) - 1
  BY HeadTailProperties
<1>4. ASSUME NEW i \in Waits(P) PROVE i - 1 \in Waits(Q) /\ r[i - 1] = q[i]
  <2>1. i \in 1 .. Len(q) /\ i # 1
    BY <1>2, <1>3 DEF Waits
  <2>2. i - 1 \in DOMAIN r /\ (i - 1) + 1 = i
    BY <1>3, <2>1
  <2>3. r[i - 1] = q[i]
    BY <1>2, <2>2
  <2> QED BY <1>1, <2>2, <2>3 DEF Waits
<1>5. ASSUME NEW i \in Waits(Q) PROVE i + 1 \in Waits(P) /\ (i + 1) - 1 = i
  BY <1>1, <1>2 DEF Waits
<1>6. ASSUME NEW w \in Places(F, P)
      PROVE  m[w] \in Places(F, Q) /\ Number(F, Q, m[w]) = Number(F, P, w)
  <2>1. CASE w[1] = "waits"
    <3>1. w[2] \in Waits(P) /\ m[w] = <<"waits", w[2] - 1>>
      BY <2>1 DEF Places
    <3>2. w[2] - 1 \in Waits(Q) /\ r[w[2] - 1] = q[w[2]]
      BY <1>4, <3>1
    <3>3. m[w] \in Places(F, Q)
      BY <3>1, <3>2 DEF Places
    <3> QED BY <1>1, <2>1, <3>1, <3>2, <3>3 DEF Number
  <2>2. CASE w[1] # "waits"
    BY <1>1, <2>2 DEF Places, Number
  <2> QED BY <2>1, <2>2
<1>7. ASSUME NEW v \in Places(F, Q) PROVE \E w \in Places(F, P) : m[w] = v
  <2>1. CASE v[1] = "waits"
    <3> DEFINE w == <<"waits", v[2] + 1>>
    <3>1. v[2] \in Waits(Q) /\ v = <<"waits", v[2]>>
      BY <2>1 DEF Places
    <3>2. w \in Places(F, P)
      BY <1>5, <3>1 DEF Places
    <3>3. m[w] = v
      BY <1>5, <3>1, <3>2
    <3> QED BY <3>2, <3>3
  <2>2. CASE v[1] # "waits"
    <3>1. v \in Places(F, P)
      BY <1>1, <2>2 DEF Places
    <3> QED BY <2>2, <3>1
  <2> QED BY <2>1, <2>2
<1> HIDE DEF m
<1>8. F \in Seq(Range(F))
  BY DEF Once
<1>9. Once(F, Q)
  BY <1>1, <1>6, <1>7, <1>8, Moves
<1> QED BY <1>9 DEF Q

(* The frame at the head of the queue, held aside. *)
LEMMA OnceHeld ==
  ASSUME NEW F, NEW P, Once(F, P), P.tasks \in Seq(Range(P.tasks)),
         P.tasks # <<>>, Head(P.tasks).op = "frame",
         NEW Q, Q.tasks = Tail(P.tasks), Q.slot = P.slot \cup {Head(P.tasks).data}, Q.uid = P.uid
  PROVE  Once(F, Q) /\ Head(P.tasks).data \notin P.slot
<1> DEFINE q == P.tasks
           r == Tail(q)
           x == Head(q).data
           m == [w \in Places(F, P) |->
                   IF w = <<"waits", 1>> THEN <<"held", x>>
                   ELSE IF w[1] = "waits" THEN <<"waits", w[2] - 1>> ELSE w]
<1>2. /\ Head(q) = q[1] /\ 1 \in DOMAIN q
      /\ \A i \in DOMAIN r : i \in Nat /\ i + 1 \in DOMAIN q /\ r[i] = q[i + 1]
  BY TailTask
<1>3. Len(q) \in Nat /\ DOMAIN q = 1 .. Len(q) /\ DOMAIN r = 1 .. Len(q) - 1
  BY HeadTailProperties
<1>4. ASSUME NEW i \in Waits(P), i # 1 PROVE i - 1 \in Waits(Q) /\ r[i - 1] = q[i]
  <2>1. i \in 1 .. Len(q)
    BY <1>3 DEF Waits
  <2>2. i - 1 \in DOMAIN r /\ (i - 1) + 1 = i
    BY <1>3, <1>4, <2>1
  <2>3. r[i - 1] = q[i]
    BY <1>2, <2>2
  <2> QED BY <2>2, <2>3 DEF Waits
<1>5. ASSUME NEW i \in Waits(Q) PROVE i + 1 \in Waits(P) /\ (i + 1) - 1 = i /\ i + 1 # 1
  <2>1. i \in DOMAIN r
    BY DEF Waits
  <2>2. i \in 1 .. Len(q) - 1
    BY <1>3, <2>1
  <2> QED BY <1>2, <2>1, <2>2 DEF Waits
<1>a. <<"held", x>> \in Places(F, Q) /\ <<"waits", 1>> \in Places(F, P)
  BY <1>2 DEF Places, Waits
<1>6. ASSUME NEW w \in Places(F, P)
      PROVE  m[w] \in Places(F, Q) /\ Number(F, Q, m[w]) = Number(F, P, w)
  <2>1. CASE w = <<"waits", 1>>
    BY <1>2, <1>a, <2>1 DEF Number
  <2>2. CASE w # <<"waits", 1>> /\ w[1] = "waits"
    <3>1. w[2] \in Waits(P) /\ w[2] # 1 /\ m[w] = <<"waits", w[2] - 1>>
      BY <2>2 DEF Places
    <3>2. w[2] - 1 \in Waits(Q) /\ r[w[2] - 1] = q[w[2]]
      BY <1>4, <3>1
    <3>3. m[w] \in Places(F, Q)
      BY <3>1, <3>2 DEF Places
    <3> QED BY <2>2, <3>1, <3>2, <3>3 DEF Number
  <2>3. CASE w[1] # "waits"
    <3>1. w # <<"waits", 1>>
      BY <2>3
    <3>2. m[w] = w
      BY <2>3, <3>1
    <3>3. w \in Places(F, Q)
      BY <2>3 DEF Places
    <3>4. Number(F, Q, w) = Number(F, P, w)
      BY <2>3 DEF Number
    <3> QED BY <3>2, <3>3, <3>4
  <2> QED BY <2>1, <2>2, <2>3
<1>7. ASSUME NEW v \in Places(F, Q) PROVE \E w \in Places(F, P) : m[w] = v
  <2>1. CASE v[1] = "waits"
    <3> DEFINE w == <<"waits", v[2] + 1>>
    <3>1. v[2] \in Waits(Q) /\ v = <<"waits", v[2]>>
      BY <2>1 DEF Places
    <3>2. w \in Places(F, P) /\ w # <<"waits", 1>>
      BY <1>5, <3>1 DEF Places
    <3>3. m[w] = v
      BY <1>5, <3>1, <3>2
    <3> QED BY <3>2, <3>3
  <2>2. CASE v = <<"held", x>>
    BY <1>a, <2>2
  <2>3. CASE v[1] # "waits" /\ v # <<"held", x>>
    <3>1. v \in Places(F, P)
      BY <2>3 DEF Places
    <3> QED BY <2>3, <3>1
  <2> QED BY <2>1, <2>2, <2>3
<1> HIDE DEF m
<1>8. F \in Seq(Range(F))
  BY DEF Once
<1>9. x \notin P.slot
  <2> SUFFICES ASSUME x \in P.slot PROVE FALSE
    OBVIOUS
  <2>1. <<"held", x>> \in Places(F, P)
    BY DEF Places
  <2>2. Number(F, P, <<"held", x>>) = Number(F, P, <<"waits", 1>>)
    BY <1>2 DEF Number
  <2> QED BY <1>a, <2>1, <2>2 DEF Once
<1> QED BY <1>6, <1>7, <1>8, <1>9, Moves

(* A frame is queued to be tried again. *)
LEMMA OnceQueued ==
  ASSUME NEW F, NEW P, Once(F, P), P.tasks \in Seq(Range(P.tasks)), NEW x \in P.slot,
         NEW Q, Q.tasks = Append(P.tasks, Task("frame", None, -1, x)), Q.slot = P.slot \ {x},
         Q.uid = P.uid
  PROVE  Once(F, Q)
<1> DEFINE q == P.tasks
           r == Q.tasks
           n == Len(q) + 1
           m == [w \in Places(F, P) |-> IF w = <<"held", x>> THEN <<"waits", n>> ELSE w]
<1>1. /\ DOMAIN r = 1 .. n /\ DOMAIN q = 1 .. Len(q) /\ Len(q) \in Nat
      /\ \A i \in DOMAIN q : r[i] = q[i]
      /\ r[n] = Task("frame", None, -1, x)
  BY AppendTask
<1>2. Waits(Q) = Waits(P) \cup {n} /\ n \notin Waits(P)
  <2>1. n \notin DOMAIN q /\ DOMAIN r = DOMAIN q \cup {n}
    BY <1>1
  <2> QED BY <1>1, <2>1 DEF Waits, Task
<1> HIDE DEF n
<1>3. Places(F, Q) = (Places(F, P) \ {<<"held", x>>}) \cup {<<"waits", n>>}
  BY <1>2 DEF Places
<1>4. <<"held", x>> \in Places(F, P) /\ <<"waits", n>> \notin Places(F, P)
  BY <1>2 DEF Places
<1>5. ASSUME NEW w \in Places(F, P)
      PROVE  m[w] \in Places(F, Q) /\ Number(F, Q, m[w]) = Number(F, P, w)
  <2>1. CASE w = <<"held", x>>
    <3>1. r[n].data = x
      BY <1>1 DEF Task, n
    <3>2. Number(F, Q, <<"waits", n>>) = x.uid /\ Number(F, P, w) = x.uid
      BY <2>1, <3>1 DEF Number
    <3> QED BY <1>3, <2>1, <3>2
  <2>2. CASE w # <<"held", x>>
    <3>1. m[w] = w /\ w \in Places(F, Q)
      BY <1>3, <2>2
    <3>2. w[1] = "waits" => w[2] \in DOMAIN q
      BY DEF Places, Waits
    <3> QED BY <1>1, <3>1, <3>2 DEF Number
  <2> QED BY <2>1, <2>2
<1>6. ASSUME NEW v \in Places(F, Q) PROVE \E w \in Places(F, P) : m[w] = v
  <2>1. CASE v = <<"waits", n>>
    BY <1>4, <2>1
  <2>2. CASE v # <<"waits", n>>
    BY <1>3, <2>2
  <2> QED BY <2>1, <2>2
<1> HIDE DEF m
<1>7. F \in Seq(Range(F))
  BY DEF Once
<1> QED BY <1>5, <1>6, <1>7, Moves

(* The consumer takes a frame. *)
LEMMA OnceTaken ==
  ASSUME NEW F, NEW P, Once(F, P), NEW x \in P.slot,
         NEW Q, Q.tasks = P.tasks, Q.slot = P.slot \ {x}, Q.uid = P.uid
  PROVE  Once(Append(F, x), Q)
<1> DEFINE G == Append(F, x)
           n == Len(F) + 1
           m == [w \in Places(F, P) |-> IF w = <<"held", x>> THEN <<"taken", n>> ELSE w]
<1>0. F \in Seq(Range(F))
  BY DEF Once
<1>1. /\ G \in Seq(Range(G))
      /\ DOMAIN G = 1 .. n /\ DOMAIN F = 1 .. Len(F) /\ Len(F) \in Nat
      /\ \A i \in DOMAIN F : G[i] = F[i]
      /\ G[n] = x
  BY <1>0, AppendTask
<1>2. DOMAIN G = DOMAIN F \cup {n} /\ n \notin DOMAIN F
  BY <1>1
<1>a. Waits(Q) = Waits(P)
  BY DEF Waits
<1> HIDE DEF n, G
<1>3. Places(G, Q) = (Places(F, P) \ {<<"held", x>>}) \cup {<<"taken", n>>}
  BY <1>2, <1>a DEF Places
<1>4. <<"held", x>> \in Places(F, P)
  BY DEF Places
<1>5. ASSUME NEW w \in Places(F, P)
      PROVE  m[w] \in Places(G, Q) /\ Number(G, Q, m[w]) = Number(F, P, w)
  <2>1. CASE w = <<"held", x>>
    BY <1>1, <1>3, <2>1 DEF Number
  <2>2. CASE w # <<"held", x>>
    <3>1. m[w] = w /\ w \in Places(G, Q)
      BY <1>3, <2>2
    <3>2. w[1] = "taken" => w[2] \in DOMAIN F
      BY DEF Places
    <3> QED BY <1>1, <3>1, <3>2 DEF Number
  <2> QED BY <2>1, <2>2
<1>6. ASSUME NEW v \in Places(G, Q) PROVE \E w \in Places(F, P) : m[w] = v
  <2>1. CASE v = <<"taken", n>>
    BY <1>4, <2>1
  <2>2. CASE v # <<"taken", n>>
    BY <1>3, <2>2
  <2> QED BY <2>1, <2>2
<1> HIDE DEF m
<1>7. Once(G, Q)
  BY <1>1, <1>5, <1>6, Moves
<1> QED BY <1>7 DEF G

(* A frame gets the next number. *)
LEMMA OnceNew ==
  ASSUME NEW F, NEW P, Once(F, P), NEW x, x.uid = P.uid,
         NEW Q, Q.tasks = P.tasks, Q.slot = P.slot \cup {x}, Q.uid = P.uid + 1
  PROVE  Once(F, Q) /\ x \notin P.slot
<1> DEFINE w == <<"held", x>>
<1>1. Waits(Q) = Waits(P)
  BY DEF Waits
<1>2. Places(F, Q) = Places(F, P) \cup {w}
  BY <1>1 DEF Places
<1>3. \A v \in Places(F, P) : Number(F, Q, v) = Number(F, P, v)
  BY DEF Number
<1>4. Number(F, Q, w) = P.uid /\ Number(F, P, w) = P.uid
  BY DEF Number
<1>5. P.uid \in Nat \ {0} /\ \A v \in Places(F, P) : Number(F, P, v) \in 1 .. P.uid - 1
  BY DEF Once
<1>6. w \notin Places(F, P)
  BY <1>4, <1>5
<1>7. x \notin P.slot
  BY <1>6 DEF Places
<1> HIDE DEF w
<1> QED BY <1>2, <1>3, <1>4, <1>6, <1>7, Numbered

SameControl(P, Q) ==
  Q.main = P.main /\ Q.promise = P.promise /\ Q.blocked = P.blocked /\ Q.sent = P.sent

\* Calls that open nothing and write nothing but data, to s.
Tells(P, Q, s, data) ==
  /\ KeepsFrames(P, Q) /\ SameControl(P, Q)
  /\ \A f \in Fds : Q.table[f] \in {P.table[f], None}
  /\ Carries(P) => Carries(Q)
  /\ Carries(P) => \A r \in Socks :
        Pending(Q, r) = IF r = s THEN Pending(P, r) \o data ELSE Pending(P, r)

\* Calls that write nothing.
Quiet(P, Q) ==
  /\ KeepsFrames(P, Q) /\ SameControl(P, Q)
  /\ \A f \in Fds : Q.table[f] \in {P.table[f], None}
  /\ Carries(P) => Carries(Q)
  /\ Carries(P) => \A r \in Socks : Pending(Q, r) = Pending(P, r)

(* What one call does after another. *)
LEMMA QuietOn == ASSUME NEW P, NEW Q, NEW R, Quiet(P, Q), Quiet(Q, R) PROVE Quiet(P, R)
<1>1. KeepsFrames(P, R)
  BY DEF Quiet, KeepsFrames
<1>2. SameControl(P, R)
  BY DEF Quiet, SameControl
<1> QED BY <1>1, <1>2 DEF Quiet

(* A call after one that writes. *)
LEMMA TellsOn ==
  ASSUME NEW P, NEW Q, NEW R, NEW s, NEW data, Tells(P, Q, s, data), Quiet(Q, R)
  PROVE  Tells(P, R, s, data)
<1>1. KeepsFrames(P, R)
  BY DEF Quiet, Tells, KeepsFrames
<1>2. SameControl(P, R)
  BY DEF Quiet, Tells, SameControl
<1> QED BY <1>1, <1>2 DEF Quiet, Tells

(* Nothing may be called. *)
LEMMA QuietSame == ASSUME NEW P, Typed(P) PROVE Quiet(P, P)
BY DEF Quiet, KeepsFrames, SameControl

(* Members that no task reads may change. *)
LEMMA QuietAside ==
  ASSUME NEW P, NEW Q, Q.tasks = P.tasks, Q.slot = P.slot, Q.uid = P.uid, SameControl(P, Q),
         \A f \in Fds : Q.table[f] \in {P.table[f], None}
  PROVE  Quiet(P, Q)
<1>1. KeepsFrames(P, Q)
  BY OnceSame DEF SameFrames, KeepsFrames, OneSlot
<1>2. (Carries(P) => Carries(Q)) /\ \A r \in Socks : Pending(Q, r) = Pending(P, r)
  BY DEF Carries, Pending
<1> QED BY <1>1, <1>2 DEF Quiet

(* A task that writes is added. *)
LEMMA TellsAdd ==
  ASSUME NEW P, Sane(P), NEW t, CarriesTask(t), t.op # "frame"
  PROVE  Tells(P, AddTask(P, t), t.who, Writes(t, t.who))
<1> DEFINE Q == AddTask(P, t)
<1>1. DOMAIN P = Fields /\ P.tasks \in Seq(Range(P.tasks))
  BY DEF Sane, Typed
<1>2. /\ Q.tasks = Append(P.tasks, t) /\ Q.table = P.table /\ Q.slot = P.slot /\ Q.uid = P.uid
      /\ SameControl(P, Q)
  BY <1>1 DEF AddTask, Fields, SameControl
<1>3. /\ Range(Q.tasks) = Range(P.tasks) \cup {t}
      /\ DOMAIN Q.tasks = 1 .. Len(P.tasks) + 1 /\ DOMAIN P.tasks = 1 .. Len(P.tasks)
      /\ Len(P.tasks) \in Nat
      /\ \A i \in DOMAIN P.tasks : Q.tasks[i] = P.tasks[i]
      /\ Q.tasks[Len(P.tasks) + 1] = t
  BY <1>1, <1>2, AppendTask
<1>4. ASSUME Carries(P)
      PROVE  /\ Carries(Q)
             /\ \A r \in Socks : Pending(Q, r) = Pending(P, r) \o Writes(t, r) /\ IsSeq(Pending(P, r))
  <2>1. Carries(Q)
    BY <1>3, <1>4 DEF Carries, CarriesTask
  <2> QED BY <1>4, <2>1, PendingAdd
<1> HIDE DEF Q
<1>5. KeepsFrames(P, Q)
  <2>1. SameFrames(P, Q)
    BY <1>2, <1>3 DEF SameFrames
  <2> QED BY <1>2, <2>1, OnceSame DEF KeepsFrames, OneSlot
<1>6. ASSUME Carries(P), NEW r \in Socks
      PROVE  Pending(Q, r) = IF r = t.who THEN Pending(P, r) \o Writes(t, t.who) ELSE Pending(P, r)
  <2>1. r # t.who => Writes(t, r) = <<>>
    BY DEF Writes
  <2> QED BY <1>4, <1>6, <2>1, Concats
<1> QED BY <1>2, <1>4, <1>5, <1>6 DEF Tells, Q

(* A task that writes nothing is added. *)
LEMMA QuietAdd ==
  ASSUME NEW P, Sane(P), NEW op, op \notin Writers \cup {"sendto", "frame"}, NEW who, NEW fd, NEW data
  PROVE  Quiet(P, AddTask(P, Task(op, who, fd, data)))
<1> DEFINE t == Task(op, who, fd, data)
           Q == AddTask(P, t)
<1>1. t.op = op /\ t.who = who
  BY DEF Task
<1>2. CarriesTask(t) /\ Writes(t, t.who) = <<>> /\ t.op # "frame"
  BY <1>1 DEF CarriesTask, Writes, Writers
<1> HIDE DEF t
<1>3. Tells(P, Q, t.who, <<>>)
  BY <1>2, TellsAdd
<1>4. Carries(P) => \A r \in Socks : IsSeq(Pending(P, r))
  BY <1>2, PendingAdd
<1>5. Carries(P) => \A r \in Socks : Pending(Q, r) = Pending(P, r)
  BY <1>3, <1>4, Concats DEF Tells
<1> QED BY <1>3, <1>5 DEF Tells, Quiet, t

(* The calls on the poller and on the object map. *)
LEMMA QuietCalls ==
  ASSUME NEW P, Sane(P), NEW f
  PROVE  /\ \A s : Quiet(P, Register(P, f, s))
         /\ Quiet(P, cancle(P, f)) /\ Quiet(P, notifyEvents(P, f))
         /\ \A s : Quiet(P, closeAndNoClear(P, s))
         /\ \A s : Quiet(P, saveObject(P, f, s))
         /\ Quiet(P, findObject(P, f))
         /\ \A map : Quiet(P, [P EXCEPT !.objects = map])
         /\ \A b, c : Quiet(P, [P EXCEPT !.batch = b, !.custom = c])
         /\ Quiet(P, SetExit(P))
<1>0. DOMAIN P = Fields
  BY DEF Sane, Typed
<1>1. ASSUME NEW s PROVE Quiet(P, Register(P, f, s))
  <2> DEFINE Q == Register(P, f, s)
  <2>1. /\ Q.tasks = P.tasks /\ Q.slot = P.slot /\ Q.uid = P.uid /\ Q.table = P.table
        /\ SameControl(P, Q)
    BY <1>0 DEF Register, Fields, SameControl
  <2> HIDE DEF Q
  <2> QED BY <2>1, QuietAside DEF Q
<1>2. Quiet(P, cancle(P, f)) /\ Quiet(P, notifyEvents(P, f))
  <2> DEFINE Q == cancle(P, f)
             R == notifyEvents(P, f)
  <2>1. /\ Q.tasks = P.tasks /\ Q.slot = P.slot /\ Q.uid = P.uid /\ Q.table = P.table
        /\ SameControl(P, Q)
    BY <1>0 DEF cancle, Fields, SameControl
  <2>2. /\ R.tasks = P.tasks /\ R.slot = P.slot /\ R.uid = P.uid /\ R.table = P.table
        /\ SameControl(P, R)
    BY <1>0 DEF notifyEvents, Fields, SameControl
  <2> HIDE DEF Q, R
  <2>3. Quiet(P, Q) /\ Quiet(P, R)
    BY <2>1, <2>2, QuietAside
  <2> QED BY <2>3 DEF Q, R
<1>3. ASSUME NEW s PROVE Quiet(P, closeAndNoClear(P, s))
  <2> DEFINE Q == closeAndNoClear(P, s)
  <2>1. /\ Q.tasks = P.tasks /\ Q.slot = P.slot /\ Q.uid = P.uid
        /\ Q.table = [g \in Fds |-> IF g \in {P.fd[s]} THEN None ELSE P.table[g]]
        /\ SameControl(P, Q)
    BY <1>0 DEF closeAndNoClear, CloseFds, Fields, SameControl
  <2> HIDE DEF Q
  <2> QED BY <2>1, QuietAside DEF Q
<1>4. ASSUME NEW s PROVE Quiet(P, saveObject(P, f, s))
  BY QuietAdd DEF saveObject, Writers
<1>5. Quiet(P, findObject(P, f))
  BY QuietAdd DEF findObject, Writers
<1>6. ASSUME NEW map PROVE Quiet(P, [P EXCEPT !.objects = map])
  BY <1>0, QuietAside DEF Fields, SameControl
<1>7. ASSUME NEW b, NEW c PROVE Quiet(P, [P EXCEPT !.batch = b, !.custom = c])
  <2> DEFINE Q == [P EXCEPT !.batch = b, !.custom = c]
  <2>1. /\ Q.tasks = P.tasks /\ Q.slot = P.slot /\ Q.uid = P.uid /\ Q.table = P.table
        /\ SameControl(P, Q)
    BY <1>0 DEF Fields, SameControl
  <2> HIDE DEF Q
  <2> QED BY <2>1, QuietAside DEF Q
<1>8. Quiet(P, SetExit(P))
  BY <1>0, QuietAside DEF SetExit, Fields, SameControl
<1> QED BY Zenon, <1>1, <1>2, <1>3, <1>4, <1>5, <1>6, <1>7, <1>8

(* The loop of the poller goes on. *)
LEMMA QuietEnd == ASSUME NEW P, Sane(P), NEW f PROVE Quiet(P, EndCallback(P, f))
<1> DEFINE Q == [P EXCEPT !.batch = @ \ {f}]
           R == AddTask(Q, Work)
<1>0. DOMAIN P = Fields /\ Typed(P)
  BY DEF Sane, Typed
<1>1. Quiet(P, Q)
  <2>1. /\ Q.tasks = P.tasks /\ Q.slot = P.slot /\ Q.uid = P.uid /\ Q.table = P.table
        /\ SameControl(P, Q)
    BY <1>0 DEF Fields, SameControl
  <2> HIDE DEF Q
  <2> QED BY <2>1, QuietAside
<1>2. EndCallback(P, f) = IF P.batch = {f} THEN R ELSE Q
  BY <1>0 DEF EndCallback, AddTask, Fields
<1>3. Sane(Q)
  BY <1>0 DEF Sane, Typed, Owns, SoundTask, Fields
<1>4. Quiet(Q, R)
  BY <1>3, QuietAdd DEF Work, Writers
<1> QED BY <1>1, <1>2, <1>4, QuietOn

(* ~Socket at the end of a step. *)
LEMMA QuietDestroy == ASSUME NEW P, Sane(P), NEW dead PROVE Quiet(P, Destroy(P, dead))
<1> DEFINE F == {P.fd[s] : s \in dead}
           Q == Destroy(P, dead)
<1>0. DOMAIN P = Fields
  BY DEF Sane, Typed
<1> HIDE DEF F
<1>1. /\ Q.tasks = P.tasks /\ Q.slot = P.slot /\ Q.uid = P.uid
      /\ Q.table = [g \in Fds |-> IF g \in F THEN None ELSE P.table[g]]
      /\ SameControl(P, Q)
  BY <1>0 DEF Destroy, CloseFds, Fields, SameControl, F
<1> HIDE DEF Q
<1> QED BY <1>1, QuietAside DEF Q

(* asend of the streams and of the datagram sockets. *)
LEMMA TellsSend ==
  ASSUME NEW P, Sane(P), NEW s \in Socks, P.fd[s] \in Fds
  PROVE  /\ \A data \in Seq(Token) : /\ Tells(P, Sock!asend(P, s, data), s, data)
                                     /\ Tells(P, SSL!asend(P, s, data), s, data)
         /\ \A to, data : Tells(P, DG!asend(P, s, to, data), s, <<[to |-> to, data |-> data]>>)
<1>0. valid(P, s)
  BY AtFd
<1>1. ASSUME NEW data \in Seq(Token), NEW op \in Writers
      PROVE  Tells(P, AddTask(P, Task(op, s, -1, data)), s, data)
  <2> DEFINE t == Task(op, s, -1, data)
  <2>1. t.op = op /\ t.who = s /\ t.data = data
    BY DEF Task
  <2>2. CarriesTask(t) /\ Writes(t, t.who) = data /\ t.op # "frame"
    BY <2>1 DEF CarriesTask, Writes, Writers
  <2> HIDE DEF t
  <2> QED BY <2>1, <2>2, TellsAdd DEF t
<1>2. ASSUME NEW to, NEW data
      PROVE  LET d == [to |-> to, data |-> data] IN Tells(P, AddTask(P, Task("sendto", s, -1, d)), s, <<d>>)
  <2> DEFINE d == [to |-> to, data |-> data]
             t == Task("sendto", s, -1, d)
  <2> HIDE DEF d
  <2>1. t.op = "sendto" /\ t.who = s /\ t.data = d
    BY DEF Task
  <2>2. CarriesTask(t) /\ Writes(t, t.who) = <<d>> /\ t.op # "frame"
    BY <2>1 DEF CarriesTask, Writes, Writers
  <2> HIDE DEF t
  <2>3. Tells(P, AddTask(P, t), s, <<d>>)
    BY <2>1, <2>2, TellsAdd
  <2> QED BY <2>3 DEF t, d
<1>3. "send" \in Writers /\ "ssl_send" \in Writers
  BY DEF Writers
<1>4. /\ \A data : Sock!asend(P, s, data) = AddTask(P, Task("send", s, -1, data))
      /\ \A data : SSL!asend(P, s, data) = AddTask(P, Task("ssl_send", s, -1, data))
  BY <1>0, SockNet, SSLNet DEF Sock!asend, SSL!asend
<1>5. \A to, data : DG!asend(P, s, to, data) =
                       AddTask(P, Task("sendto", s, -1, [to |-> to, data |-> data]))
  BY <1>0, DGNet DEF DG!asend
<1> QED BY <1>1, <1>2, <1>3, <1>4, <1>5

(* Nothing is put before or after. *)
LEMMA ConcatNil == \A a : IsSeq(a) => a \o <<>> = a /\ <<>> \o a = a
BY Concats

(* A task that writes nothing leaves the queue. *)
LEMMA QuietPop ==
  ASSUME NEW P, Sane(P), P.tasks # <<>>, Head(P.tasks).op \notin {"sendto", "frame"} \cup Writers
  PROVE  Quiet(P, [P EXCEPT !.tasks = Tail(@)])
<1> DEFINE Q == [P EXCEPT !.tasks = Tail(@)]
           t == Head(P.tasks)
<1>1. DOMAIN P = Fields /\ P.tasks \in Seq(Range(P.tasks)) /\ Typed(P)
  BY DEF Sane, Typed
<1>2. Q.slot = P.slot /\ Q.table = P.table /\ SameControl(P, Q)
  BY <1>1 DEF Fields, SameControl
<1>3. KeepsFrames(P, Q)
  <2>1. \A F : Once(F, P) => Once(F, Q)
    BY <1>1, OncePop
  <2> QED BY <1>2, <2>1 DEF KeepsFrames, OneSlot
<1>4. \A s : Writes(t, s) = <<>>
  BY DEF Writes, Writers
<1>5. ASSUME Carries(P) PROVE Carries(Q) /\ \A r \in Socks : Pending(Q, r) = Pending(P, r)
  <2>1. Carries(Q)
    BY <1>5, PendingTail
  <2>2. ASSUME NEW r PROVE Pending(P, r) = Writes(t, r) \o Pending(Q, r)
    BY <1>5, PendingTail
  <2>3. ASSUME NEW r PROVE IsSeq(Pending(Q, r))
    <3>1. Sane(Q)
      BY PopGoes DEF Goes
    <3>2. CarriesTask(t)
      BY <1>5, PendingTail
    <3> QED BY <2>1, <3>1, <3>2, PendingAdd
  <2>4. ASSUME NEW r PROVE Pending(Q, r) = Pending(P, r)
    <3>1. Pending(P, r) = <<>> \o Pending(Q, r)
      BY <1>4, <2>2
    <3> QED BY <2>3, <3>1, ConcatNil
  <2> QED BY <2>1, <2>4
<1> QED BY <1>2, <1>3, <1>5 DEF Quiet

(* A frame leaves the queue, for the shared memory or to be tried again. *)
LEMMA QuietRetry ==
  ASSUME NEW P, Sane(P), P.tasks # <<>>, Head(P.tasks).op = "frame"
  PROVE  Quiet(P, sendToSharedMemory([P EXCEPT !.tasks = Tail(@)], Head(P.tasks).data))
<1> DEFINE Q == [P EXCEPT !.tasks = Tail(@)]
           t == Head(P.tasks)
           x == t.data
           u == Task("frame", None, -1, x)
           R == IF P.slot = {} THEN [Q EXCEPT !.slot = {x}] ELSE AddTask(Q, u)
           V == [P EXCEPT !.tasks = Tail(@), !.slot = @ \cup {x}]
<1>1. DOMAIN P = Fields /\ P.tasks \in Seq(Range(P.tasks)) /\ Typed(P)
  BY DEF Sane, Typed
<1>2. /\ Q.slot = P.slot /\ Q.table = P.table /\ Q.uid = P.uid /\ Q.tasks = Tail(P.tasks)
      /\ SameControl(P, Q) /\ DOMAIN Q = Fields
  BY <1>1 DEF Fields, SameControl
<1>3. V.tasks = Tail(P.tasks) /\ V.slot = P.slot \cup {x} /\ V.uid = P.uid
  BY <1>1 DEF Fields
<1>4. sendToSharedMemory(Q, x) = R
  BY <1>2 DEF sendToSharedMemory
<1>5. Sane(Q)
  BY PopGoes DEF Goes
<1> HIDE DEF Q, V, u
<1>a. R.uid = Q.uid /\ R.table = Q.table /\ SameControl(Q, R)
  BY <1>2 DEF AddTask, Fields, SameControl
<1>b. P.slot = {} => R.tasks = Q.tasks /\ R.slot = {x}
  BY <1>2 DEF Fields
<1>c. P.slot # {} => R.tasks = Append(Q.tasks, u) /\ R.slot = P.slot
  BY <1>2 DEF AddTask, Fields
<1>6. KeepsFrames(P, R)
  <2> SUFFICES ASSUME NEW F, Once(F, P), OneSlot(P) PROVE Once(F, R) /\ OneSlot(R)
    BY DEF KeepsFrames
  <2>1. Once(F, V) /\ x \notin P.slot
    BY <1>1, <1>3, OnceHeld
  <2>2. CASE P.slot = {}
    <3>1. SameFrames(V, R)
      BY <1>2, <1>3, <1>a, <1>b, <2>2 DEF SameFrames
    <3> QED BY <1>b, <2>1, <2>2, <3>1, OnceSame DEF OneSlot
  <2>3. CASE P.slot # {}
    <3>1. V.tasks \in Seq(Range(V.tasks))
      BY <1>2, <1>3, <1>5 DEF Sane, Typed
    <3>2. x \in V.slot /\ R.slot = V.slot \ {x}
      BY <1>3, <1>c, <2>1, <2>3
    <3>3. R.tasks = Append(V.tasks, Task("frame", None, -1, x)) /\ R.uid = V.uid
      BY <1>2, <1>3, <1>a, <1>c, <2>3 DEF u
    <3> HIDE DEF R
    <3>4. Once(F, R)
      BY <2>1, <3>1, <3>2, <3>3, OnceQueued
    <3> QED BY <1>c, <2>3, <3>4 DEF OneSlot, R
  <2> QED BY <2>2, <2>3
<1>7. ASSUME Carries(P) PROVE Carries(R) /\ \A r \in Socks : Pending(R, r) = Pending(P, r)
  <2>1. Carries(Q) /\ CarriesTask(t) /\ \A r : Pending(P, r) = Writes(t, r) \o Pending(Q, r)
    BY <1>7, PendingTail DEF Q
  <2>2. /\ CarriesTask(u) /\ \A r : Writes(u, r) = <<>>
        /\ \A r : Writes(t, r) = <<>>
    BY DEF CarriesTask, Writes, Writers, u, Task
  <2>3. \A r : /\ IsSeq(Pending(Q, r)) /\ Pending(AddTask(Q, u), r) = Pending(Q, r) \o Writes(u, r)
    BY <1>5, <2>1, <2>2, PendingAdd
  <2>4. ASSUME NEW r
        PROVE  Pending(P, r) = Pending(Q, r) /\ Pending(AddTask(Q, u), r) = Pending(Q, r)
    <3>1. Pending(P, r) = <<>> \o Pending(Q, r)
      BY <2>1, <2>2
    <3>2. Pending(AddTask(Q, u), r) = Pending(Q, r) \o <<>>
      BY <2>2, <2>3
    <3> QED BY <2>3, <3>1, <3>2, ConcatNil
  <2>5. CASE P.slot = {}
    <3>1. R.tasks = Q.tasks
      BY <1>b, <2>5
    <3>2. Carries(R) /\ \A r : Pending(R, r) = Pending(Q, r)
      BY <2>1, <3>1 DEF Carries, Pending
    <3> QED BY <2>4, <3>2
  <2>6. CASE P.slot # {}
    <3>0. Q.tasks \in Seq(Range(Q.tasks)) /\ R.tasks = Append(Q.tasks, u)
      BY <1>5, <1>c, <2>6 DEF Sane, Typed
    <3>1. Range(R.tasks) = Range(Q.tasks) \cup {u}
      <4> DEFINE q == Q.tasks
      <4>1. q \in Seq(Range(q)) => Range(Append(q, u)) = Range(q) \cup {u}
        <5> HIDE DEF q
        <5> QED BY AppendTask
      <4> HIDE DEF R
      <4> QED BY <3>0, <4>1
    <3>2. Carries(R)
      BY <2>1, <2>2, <3>1 DEF Carries, CarriesTask
    <3> QED BY <2>4, <2>6, <3>2
  <2> QED BY <2>5, <2>6
<1>8. SameControl(P, R) /\ R.table = P.table
  BY <1>2, <1>a DEF SameControl
<1> HIDE DEF R
<1>9. Quiet(P, R)
  BY <1>1, <1>6, <1>7, <1>8 DEF Quiet
<1> QED BY <1>4, <1>9 DEF Q

(* A frame is numbered and sent, or queued. *)
LEMMA QuietFrame ==
  ASSUME NEW P, Sane(P), NEW x, x.uid = P.uid
  PROVE  /\ Quiet(P, sendToSharedMemory(NextUid(P), x))
         /\ Quiet(P, AddTask(NextUid(P), Task("frame", None, -1, x)))
<1> DEFINE Q == NextUid(P)
           u == Task("frame", None, -1, x)
           R == [Q EXCEPT !.slot = {x}]
           W == AddTask(Q, u)
           V == [Q EXCEPT !.slot = @ \cup {x}]
<1>1. DOMAIN P = Fields /\ P.tasks \in Seq(Range(P.tasks)) /\ Typed(P)
  BY DEF Sane, Typed
<1>2. /\ Q.slot = P.slot /\ Q.table = P.table /\ Q.uid = P.uid + 1 /\ Q.tasks = P.tasks
      /\ SameControl(P, Q) /\ DOMAIN Q = Fields
  BY <1>1 DEF Fields, SameControl, NextUid
<1>3. Sane(Q)
  BY SetGoes DEF Goes
<1>4. sendToSharedMemory(Q, x) = IF P.slot = {} THEN R ELSE W
  BY <1>2 DEF sendToSharedMemory
<1> HIDE DEF Q, u
<1>a. /\ V.tasks = P.tasks /\ V.slot = P.slot \cup {x} /\ V.uid = P.uid + 1
      /\ R.tasks = P.tasks /\ R.slot = {x} /\ R.uid = P.uid + 1 /\ R.table = P.table
      /\ W.tasks = Append(P.tasks, u) /\ W.slot = P.slot /\ W.uid = P.uid + 1 /\ W.table = P.table
  BY <1>2 DEF Fields, AddTask
<1>b. SameControl(P, R) /\ SameControl(P, W)
  BY <1>2 DEF Fields, AddTask, SameControl
<1> HIDE DEF V, R, W
<1>5. P.slot = {} => Quiet(P, R)
  <2>1. (Carries(P) => Carries(R)) /\ \A r : Pending(R, r) = Pending(P, r)
    BY <1>a DEF Carries, Pending
  <2>2. ASSUME NEW F, Once(F, P), P.slot = {} PROVE Once(F, R) /\ OneSlot(R)
    <3>1. Once(F, V)
      BY <1>a, <2>2, OnceNew
    <3>2. SameFrames(V, R)
      BY <1>a, <2>2 DEF SameFrames
    <3> QED BY <1>a, <3>1, <3>2, OnceSame DEF OneSlot
  <2> QED BY <1>1, <1>a, <1>b, <2>1, <2>2 DEF Quiet, KeepsFrames
<1>6. Quiet(P, W)
  <2>1. ASSUME NEW F, Once(F, P), OneSlot(P) PROVE Once(F, W) /\ OneSlot(W)
    <3>1. Once(F, V) /\ x \notin P.slot
      BY <1>a, <2>1, OnceNew
    <3>2. x \in V.slot /\ W.slot = V.slot \ {x} /\ V.tasks \in Seq(Range(V.tasks))
      BY <1>1, <1>a, <3>1
    <3>3. W.tasks = Append(V.tasks, Task("frame", None, -1, x)) /\ W.uid = V.uid
      BY <1>a DEF u
    <3>4. Once(F, W)
      BY <3>1, <3>2, <3>3, OnceQueued
    <3> QED BY <1>a, <2>1, <3>4 DEF OneSlot
  <2>2. ASSUME Carries(P) PROVE Carries(W) /\ \A r : Pending(W, r) = Pending(P, r)
    <3>1. CarriesTask(u) /\ \A r : Writes(u, r) = <<>>
      BY DEF CarriesTask, Writes, Writers, u, Task
    <3>2. Range(W.tasks) = Range(P.tasks) \cup {u}
      BY <1>1, <1>a, AppendTask
    <3>3. Carries(W)
      BY <2>2, <3>1, <3>2 DEF Carries, CarriesTask
    <3>4. \A r : IsSeq(Pending(P, r)) /\ Pending(AddTask(P, u), r) = Pending(P, r) \o Writes(u, r)
      BY <2>2, <3>1, PendingAdd
    <3>5. AddTask(P, u).tasks = W.tasks
      BY <1>1, <1>a DEF AddTask, Fields
    <3>6. \A r : Pending(W, r) = Pending(AddTask(P, u), r)
      BY <3>5 DEF Pending
    <3>7. ASSUME NEW r PROVE Pending(W, r) = Pending(P, r)
      <4>1. Pending(AddTask(P, u), r) = Pending(P, r) \o <<>> /\ IsSeq(Pending(P, r))
        <5>1. Writes(u, r) = <<>>
          BY <3>1
        <5>2. IsSeq(Pending(P, r)) /\ Pending(AddTask(P, u), r) = Pending(P, r) \o Writes(u, r)
          BY <3>4
        <5> QED BY <5>1, <5>2
      <4> QED BY <3>6, <4>1, ConcatNil
    <3> QED BY <3>3, <3>7
  <2> QED BY <1>1, <1>a, <1>b, <2>1, <2>2 DEF Quiet, KeepsFrames
<1> QED BY <1>4, <1>5, <1>6 DEF Q, W, u

(* Calls that write nothing, seen as calls that write nothing to s. *)
LEMMA QuietTells ==
  ASSUME NEW P, Sane(P), NEW Q, Quiet(P, Q), NEW s
  PROVE  Tells(P, Q, s, <<>>)
<1>1. ASSUME Carries(P), NEW r PROVE Pending(P, r) \o <<>> = Pending(P, r)
  <2>1. CarriesTask(Work)
    BY DEF CarriesTask, Work, Task, Writers
  <2>2. IsSeq(Pending(P, r))
    BY <1>1, <2>1, PendingAdd
  <2> QED BY <2>2, ConcatNil
<1> QED BY <1>1 DEF Quiet, Tells

(* The calls that add a task, as the callbacks make them. *)
LEMMA QuietTasks ==
  ASSUME NEW P, Sane(P), NEW s
  PROVE  /\ Quiet(P, Sock!startListenReadEvent(P, s)) /\ Quiet(P, SSL!startListenReadEvent(P, s))
         /\ Quiet(P, DG!startListenReadEvent(P, s)) /\ Quiet(P, Acc!start(P))
         /\ Quiet(P, Sock!aclose(P, s)) /\ Quiet(P, SSL!aclose(P, s)) /\ Quiet(P, DG!aclose(P, s))
         /\ Quiet(P, Sock!asyncConnect(P, s)) /\ Quiet(P, SSL!asyncConnect(P, s))
         /\ Quiet(P, Acc!asyncStop(P)) /\ Quiet(P, Keep(P, s))
         /\ Quiet(P, AddTask(P, Work)) /\ Quiet(P, readFromSharedMemory(P))
<1>1. \A op, who, fd, data : op \notin Writers \cup {"sendto", "frame"} =>
                               Quiet(P, AddTask(P, Task(op, who, fd, data)))
  BY QuietAdd
<1>2. /\ "listen" \notin Writers \cup {"sendto", "frame"}
      /\ "ssl_listen" \notin Writers \cup {"sendto", "frame"}
      /\ "dg_listen" \notin Writers \cup {"sendto", "frame"}
      /\ "start" \notin Writers \cup {"sendto", "frame"}
      /\ "stop" \notin Writers \cup {"sendto", "frame"}
      /\ "close" \notin Writers \cup {"sendto", "frame"}
      /\ "ssl_close" \notin Writers \cup {"sendto", "frame"}
      /\ "dg_close" \notin Writers \cup {"sendto", "frame"}
      /\ "connect" \notin Writers \cup {"sendto", "frame"}
      /\ "ssl_connect" \notin Writers \cup {"sendto", "frame"}
      /\ "save" \notin Writers \cup {"sendto", "frame"}
      /\ "work" \notin Writers \cup {"sendto", "frame"}
      /\ "shmread" \notin Writers \cup {"sendto", "frame"}
  BY DEF Writers
<1>3. Quiet(P, P)
  BY QuietSame DEF Sane
<1>4. /\ Quiet(P, Sock!startListenReadEvent(P, s)) /\ Quiet(P, Sock!aclose(P, s))
      /\ Quiet(P, Sock!asyncConnect(P, s))
  BY <1>1, <1>2, <1>3, SockNet DEF Sock!startListenReadEvent, Sock!aclose, Sock!asyncConnect
<1>5. /\ Quiet(P, SSL!startListenReadEvent(P, s)) /\ Quiet(P, SSL!aclose(P, s))
      /\ Quiet(P, SSL!asyncConnect(P, s))
  BY <1>1, <1>2, <1>3, SSLNet DEF SSL!startListenReadEvent, SSL!aclose, SSL!asyncConnect
<1>6. Quiet(P, DG!startListenReadEvent(P, s)) /\ Quiet(P, DG!aclose(P, s))
  BY <1>1, <1>2, DGNet DEF DG!startListenReadEvent, DG!aclose
<1>7. Quiet(P, Acc!asyncStop(P)) /\ Quiet(P, Acc!start(P))
  BY <1>1, <1>2, AccNet DEF Acc!asyncStop, Acc!start
<1>8. Quiet(P, Keep(P, s)) /\ Quiet(P, AddTask(P, Work)) /\ Quiet(P, readFromSharedMemory(P))
  BY <1>1, <1>2 DEF Keep, saveObject, Work, readFromSharedMemory
<1> QED BY <1>4, <1>5, <1>6, <1>7, <1>8

(* Sane states, where one call follows another. *)
LEMMA SaneTasks ==
  ASSUME NEW P, Sane(P), NEW s \in Socks, P.fd[s] \in Fds
  PROVE  /\ Sane(Sock!startListenReadEvent(P, s)) /\ Sane(SSL!startListenReadEvent(P, s))
         /\ Sane(Keep(Sock!startListenReadEvent(P, s), s))
         /\ \A data : Sane(Sock!asend(P, s, data)) /\ \A to : Sane(DG!asend(P, s, to, data))
         /\ \A f : Sane(findObject(P, f))
<1>1. /\ Goes(P, Sock!startListenReadEvent(P, s), {}) /\ Goes(P, SSL!startListenReadEvent(P, s), {})
  BY ListenGoes
<1>2. Goes(P, Keep(Sock!startListenReadEvent(P, s), s), {})
  BY KeepGoes
<1>3. \A data : Goes(P, Sock!asend(P, s, data), {}) /\ \A to : Goes(P, DG!asend(P, s, to, data), {})
  BY SendGoes
<1>4. \A f : Goes(P, findObject(P, f), {})
  BY QueueGoes
<1> QED BY <1>1, <1>2, <1>3, <1>4 DEF Goes

(* onClose writes nothing. *)
LEMMA QuietOnClose ==
  ASSUME NetIInv, ~Pooled, NEW P, Sane(P), NEW s \in Socks, P.fd[s] \in Fds
  PROVE  Quiet(P, OnClose(P, s))
<1>1. app \in Polled
  BY Examples
<1>2. Quiet(P, SetExit(P)) /\ \A f : Quiet(P, findObject(P, f))
  BY Zenon, QuietCalls
<1>3. Quiet(P, detach_onClose(P, s))
  <2> DEFINE Q == findObject(P, P.fd[s])
             x == Frame(P, "closed", s, <<>>)
  <2>1. Sane(Q)
    BY SaneTasks
  <2>2. Q.uid = P.uid
    BY DEF findObject, AddTask, Sane, Typed, Fields
  <2>3. x.uid = Q.uid
    BY <2>2 DEF Frame
  <2> HIDE DEF Q, x
  <2>4. Quiet(Q, sendToSharedMemory(NextUid(Q), x))
    BY <2>1, <2>3, QuietFrame
  <2>5. Quiet(P, Q)
    BY <1>2 DEF Q
  <2>6. Quiet(P, sendToSharedMemory(NextUid(Q), x))
    BY <2>4, <2>5, QuietOn
  <2> QED BY <2>6 DEF detach_onClose, Q, x
<1>4. OnClose(P, s) \in {SetExit(P), findObject(P, P.fd[s]), detach_onClose(P, s)}
  BY <1>1 DEF Polled, OnClose, Client_onClose, tcp_onClose, unix_onClose, ssl_onClose, udp_onClose,
             dg_onClose
<1> HIDE DEF OnClose
<1> QED BY <1>2, <1>3, <1>4

(* onWrite writes nothing. *)
LEMMA QuietOnWrite ==
  ASSUME NEW P, Sane(P), NEW s, NEW ret, NEW data
  PROVE  Quiet(P, OnWrite(P, s, ret, data))
<1>1. Quiet(P, P)
  BY QuietSame DEF Sane
<1>2. Quiet(P, detach_onWrite(P, s, ret, data))
  <2>1. Frame(P, "write", s, ret).uid = P.uid
    BY DEF Frame
  <2>2. Quiet(P, sendToSharedMemory(NextUid(P), Frame(P, "write", s, ret)))
    BY <2>1, QuietFrame
  <2> QED BY <1>1, <2>2 DEF detach_onWrite
<1>3. Quiet(P, ssl_client_onWrite(P, s, ret, data))
  BY <1>1, QuietTasks DEF ssl_client_onWrite
<1> QED BY <1>1, <1>2, <1>3 DEF OnWrite, Server_onWrite

(* onAccept writes nothing. *)
LEMMA QuietOnAccept ==
  ASSUME NetIInv, ~Datagrams, app \notin {"ssl", "ssl_socket"},
         NEW P, Sane(P), NEW s \in Socks, P.fd[s] \in Fds
  PROVE  Quiet(P, ServerOnAccept(P, s))
<1>1. app \in {"tcp", "unix", "detach", "close", "socket"}
  BY Examples DEF Datagrams, Polled
<1> DEFINE R == Sock!startListenReadEvent(P, s)
           Q == Keep(R, s)
<1>2. Sane(R) /\ Sane(Q)
  BY SaneTasks
<1>3. Quiet(P, Q)
  <2>1. Quiet(P, R) /\ Quiet(R, Q)
    BY <1>2, QuietTasks
  <2> HIDE DEF Q, R
  <2> QED BY <2>1, QuietOn
<1>4. Quiet(P, detach_onAccept(P, s))
  <2> DEFINE x == Frame(P, "new", s, <<>>)
  <2>1. DOMAIN P = Fields /\ DOMAIN R = Fields
    BY <1>2 DEF Sane, Typed
  <2>2. R.uid = P.uid
    BY <2>1, SockNet DEF Sock!startListenReadEvent, AddTask, Fields
  <2>3. x.uid = Q.uid
    BY <2>1, <2>2 DEF Frame, Keep, saveObject, AddTask, Fields
  <2> HIDE DEF Q, x
  <2>4. Quiet(Q, sendToSharedMemory(NextUid(Q), x))
    BY <1>2, <2>3, QuietFrame
  <2>5. Quiet(P, sendToSharedMemory(NextUid(Q), x))
    BY <1>3, <2>4, QuietOn
  <2> QED BY <2>5 DEF detach_onAccept, Q, x
<1>5. Quiet(P, Acc!asyncStop(Q))
  <2>1. Quiet(Q, Acc!asyncStop(Q))
    BY <1>2, QuietTasks
  <2> HIDE DEF Q
  <2> QED BY <1>3, <2>1, QuietOn
<1>6. Quiet(P, Pool!AddClient(P, s))
  <2> DEFINE V == Register(P, P.fd[s], s)
             W == [V EXCEPT !.objects = Put(@, s, s)]
  <2>1. Quiet(P, V)
    BY Zenon, QuietCalls
  <2>2. Sane(V)
    BY RegisterGoes DEF Goes
  <2>3. \A map : Quiet(V, [V EXCEPT !.objects = map])
    BY Zenon, <2>2, QuietCalls
  <2>4. W = [V EXCEPT !.objects = Put(V.objects, s, s)]
    OBVIOUS
  <2>5. Pool!AddClient(P, s) = W
    BY PoolNet DEF Pool!AddClient
  <2> HIDE DEF V
  <2>6. Quiet(V, W)
    BY <2>3, <2>4
  <2> HIDE DEF W
  <2> QED BY <2>1, <2>5, <2>6, QuietOn
<1> QED BY <1>1, <1>3, <1>4, <1>5, <1>6 DEF ServerOnAccept, tcp_onAccept, unix_onAccept,
           close_onAccept, socket_onAccept

(* onRead writes at most to the stream that was read, the echo servers what was read. *)
LEMMA TellsOnRead ==
  ASSUME NetIInv, ~Pooled, ~Datagrams, NEW P, Sane(P), NEW s \in Socks, P.fd[s] \in Fds,
         s # Own, NEW data \in Seq(Token)
  PROVE  \E w \in Seq(Token) :
            /\ Tells(P, OnRead(P, s, data), s, w)
            /\ Echoes /\ s[1] # "cli" => w = data
<1>1. app \in {"tcp", "unix", "ssl", "detach", "close"}
  BY Examples DEF Datagrams, Polled
<1>2. Tells(P, P, s, <<>>)
  BY QuietSame, QuietTells DEF Sane
<1>3. Tells(P, Sock!asend(P, s, data), s, data) /\ Tells(P, SSL!asend(P, s, data), s, data)
  BY TellsSend
<1>4. Tells(P, detach_onRead(P, s, data), s, <<>>)
  <2>1. Frame(P, "read", s, data).uid = P.uid
    BY DEF Frame
  <2>2. Quiet(P, detach_onRead(P, s, data))
    BY <2>1, QuietFrame DEF detach_onRead
  <2> QED BY <2>2, QuietTells
<1>5. Tells(P, close_onRead(P, s, data), s, data)
  <2> DEFINE Q == Sock!asend(P, s, data)
  <2>1. Sane(Q)
    BY SaneTasks
  <2>2. Quiet(Q, Sock!aclose(Q, s))
    BY <2>1, QuietTasks
  <2> HIDE DEF Q
  <2>3. Tells(P, Sock!aclose(Q, s), s, data)
    BY <1>3, <2>2, TellsOn DEF Q
  <2> QED BY <2>3 DEF close_onRead, Q
<1>6. <<>> \in Seq(Token)
  OBVIOUS
<1>7. CASE s[1] = "cli"
  <2>1. OnRead(P, s, data) \in {P, Sock!asend(P, s, data)}
    BY <1>1, <1>7 DEF OnRead, tcp_client_onRead, ssl_client_onRead
  <2> QED BY <1>2, <1>3, <1>6, <1>7, <2>1
<1>8. CASE s[1] # "cli" /\ app \in {"tcp", "ssl"}
  BY <1>3, <1>8 DEF OnRead, tcp_onRead, ssl_onRead
<1>9. CASE s[1] # "cli" /\ app \in {"unix", "detach", "close"}
  BY <1>2, <1>4, <1>5, <1>6, <1>9 DEF OnRead, unix_onRead, Echoes
<1> QED BY <1>1, <1>7, <1>8, <1>9

Crypted == app \in {"ssl", "ssl_socket"}

\* The data in a receive buffer, which OpenSSL's own records may precede.
Told(box) == IF box # <<>> /\ box[1] = Ticket THEN Tail(box) ELSE box

\* What is on the way to s may be lost.
Lost(s) == Hup(Peer(s)) \/ Hup(s) \/ proc[Proc(s)].main = "end"

\* What was written to s's peer was read, is in the receive buffer, or was lost,
\* and after what was lost nothing comes.
Flows(s) ==
  \E u \in Seq(Token) :
     /\ out[Peer(s)] = (got[s] \o Told(inbox[s])) \o u
     /\ u # <<>> => Lost(s)

\* Bytes are bytes: no record of OpenSSL's is read as data.
Bytes(s) ==
  /\ got[s] \in Seq(Token) /\ out[s] \in Seq(Token)
  /\ inbox[s] \in Seq(Nat) /\ Told(inbox[s]) \in Seq(Token)
  /\ s[1] = "srv" \/ ~Crypted => inbox[s] \in Seq(Token)

\* Before a connection is accepted, and through its handshake, nothing is
\* written; a client writes when it is connected.
Settled(c) ==
  LET P == proc[c]
      s == <<"srv", c>>
      k == <<"cli", c>>
  IN /\ P.promise = "true" => c \in connected
     /\ P.main = "send" => P.promise = "true"
     /\ Pooled /\ P.main \in {"wait", "loop"} => c \in connected
     /\ Pending(P, k) # <<>> => c \in connected
     /\ c \notin connected \/ c \in Range(backlog) => out[s] = <<>> /\ inbox[k] = <<>>
     /\ proc[Server].blocked = s => out[s] = <<>> /\ inbox[k] = <<>>
     /\ app = "ssl" => ssl[s] = "open"

\* A process that has ended has nothing open, and no connection waits for it.
Ended ==
  /\ \A p \in Procs : proc[p].main = "end" => \A f \in Fds : proc[p].table[f] = None
  /\ proc[Server].main = "end" => backlog = <<>>

\* An echo server has written, or will, what it read.
EchoKept(c) ==
  LET s == <<"srv", c>>
  IN  Echoes /\ proc[Server].main # "end" =>
        /\ ~Hup(s) => got[s] = out[s] \o Pending(proc[Server], s)
        /\ Pooled => Pending(proc[Server], s) = <<>>

\* The events that a pool server has yet to handle are of descriptors it listens
\* to, and these are its listener's and its streams'; its tasks are its polls.
Polling(P) == \A t \in Range(P.tasks) : t.op \in {"first", "work"}
PoolKept ==
  LET P == proc[Server]
  IN  Pooled =>
        /\ Polling(P)
        /\ P.custom = {} /\ P.batch \subseteq P.interest
        /\ \A f \in P.interest :
              \/ P.table[f] = Own
              \/ P.table[f] \in DOMAIN P.objects /\ P.objects[P.table[f]] = P.table[f]

\* The functions of the sockets.
Shaped ==
  /\ inbox = [s \in Socks |-> inbox[s]] /\ out = [s \in Socks |-> out[s]]
  /\ got = [s \in Socks |-> got[s]] /\ ssl = [s \in Socks |-> ssl[s]]

FramesKept ==
  app = "detach" /\ proc[Server].main # "end" =>
     Once(forwarded, proc[Server]) /\ OneSlot(proc[Server])

FlowIInv ==
  ~Datagrams =>
     /\ Shaped
     /\ \A p \in Procs : Carries(proc[p]) /\ proc[p].sent \in Nat
     /\ \A s \in Streams : Bytes(s) /\ Flows(s)
     /\ \A c \in Clients : Settled(c) /\ EchoKept(c)
     /\ Ended /\ PoolKept /\ FramesKept

-----------------------------------------------------------------------------

\* What a step may open, connect and queue, and that an end is final.
Onward ==
  /\ app' = app
  /\ \A p \in Procs : proc[p].main = "end" => proc'[p].main = "end"
  /\ \A p \in Procs : \A f \in Fds :
        \/ proc'[p].table[f] \in {proc[p].table[f], None, Own}
        \/ \E c \in Clients : proc'[p].table[f] = <<"cli", c>> /\ proc[c].main = "off"
        \/ \E c \in Range(backlog) : proc'[p].table[f] = <<"srv", c>>
  /\ connected \subseteq connected'
  /\ Range(backlog') \subseteq Range(backlog) \cup (connected' \ connected)

(* Streams and their ends. *)
LEMMA TwoEnds ==
  ASSUME NEW s \in Streams
  PROVE  /\ s[2] \in Clients /\ s[1] \in {"srv", "cli"} /\ s = <<s[1], s[2]>>
         /\ Peer(s) \in Streams /\ Peer(Peer(s)) = s /\ Peer(s)[2] = s[2] /\ Peer(s) # s
         /\ Peer(s)[1] = "srv" <=> s[1] = "cli"
         /\ Peer(s)[1] = "cli" <=> s[1] = "srv"
         /\ s[1] = "srv" => Proc(s) = Server /\ Proc(Peer(s)) = s[2]
         /\ s[1] = "cli" => Proc(s) = s[2] /\ Proc(Peer(s)) = Server
         /\ Proc(s) \in Procs /\ Proc(Peer(s)) \in Procs
         /\ s # Own /\ Proc(s) # Proc(Peer(s))
BY NamesAssumption DEF Streams, Peer, Proc, Own, Procs

(* A closed end stays closed. *)
LEMMA HupStays ==
  ASSUME NetIInv, Onward, NEW s \in Streams, Hup(s)
  PROVE  Hup(s)'
<1> DEFINE p == Proc(Peer(s))
<1>1. s[2] \in connected /\ s[2] \in connected'
  BY DEF Hup, Onward
<1>2. s[1] = "srv" \/ s[2] \notin Range(backlog')
  BY <1>1 DEF Hup, Onward
<1>3. ASSUME NEW f \in Fds PROVE proc'[p].table[f] # Peer(s)
  <2>1. proc[p].table[f] # Peer(s) /\ p \in Procs /\ Peer(s) # Own /\ Peer(s) \in Socks
    BY TwoEnds, Names DEF Hup
  <2>2. CASE proc'[p].table[f] \in {proc[p].table[f], None, Own}
    BY <2>1, <2>2, Names
  <2>3. ASSUME NEW c \in Clients, proc'[p].table[f] = <<"cli", c>>, proc[c].main = "off"
        PROVE  proc'[p].table[f] # Peer(s)
    <3>1. c \in Procs /\ c \notin connected
      BY <2>3, Names DEF NetIInv, Joining
    <3>2. Peer(s) = <<"cli", c>> => s[2] = c
      BY DEF Peer
    <3> QED BY <1>1, <2>3, <3>1, <3>2
  <2>4. ASSUME NEW c \in Range(backlog), proc'[p].table[f] = <<"srv", c>>
        PROVE  proc'[p].table[f] # Peer(s)
    <3>1. Peer(s) = <<"srv", c>> => s[2] = c /\ s[1] = "cli"
      BY TwoEnds DEF Peer
    <3> QED BY <2>4, <3>1 DEF Hup
  <2> QED BY <2>1, <2>2, <2>3, <2>4 DEF Onward
<1> QED BY <1>1, <1>2, <1>3 DEF Hup

(* What may have been lost stays so. *)
LEMMA LostStays ==
  ASSUME NetIInv, Onward, NEW s \in Streams, Lost(s)
  PROVE  Lost(s)'
<1>1. Peer(s) \in Streams /\ Proc(s) \in Procs
  BY TwoEnds
<1>2. (Hup(s) => Hup(s)') /\ (Hup(Peer(s)) => Hup(Peer(s))')
  BY <1>1, HupStays
<1> QED BY <1>1, <1>2 DEF Lost, Onward, Peer, Proc

\* What a step does on the way to s: r is read and w is written behind it.
FlowStep(s) ==
  \E r, w, left \in Seq(Token) :
     /\ got'[s] = got[s] \o r /\ out'[Peer(s)] = out[Peer(s)] \o w
     /\ Told(inbox[s]) = r \o left
     /\ \/ Told(inbox'[s]) = left \o w /\ (w # <<>> => ~Lost(s))
        \/ Told(inbox'[s]) = left /\ (w # <<>> => Lost(s))
        \/ Told(inbox'[s]) = <<>> /\ w = <<>> /\ (left # <<>> => Lost(s)')

(* Joined in any order. *)
LEMMA Assoc == ASSUME NEW S PROVE \A a, b, c \in Seq(S) : (a \o b) \o c = a \o (b \o c)
BY ConcatAssociative

(* ... and with one token in the middle. *)
LEMMA AssocToken == \A a, b, c \in Seq(Token) : (a \o b) \o c = a \o (b \o c)
BY Assoc

Joinings(g, r, left, u, w) ==
  /\ g \o r \in Seq(Token) /\ left \o w \in Seq(Token)
  /\ u \o w \in Seq(Token) /\ left \o u \in Seq(Token)
  /\ u = <<>> => ((g \o (r \o left)) \o u) \o w = ((g \o r) \o (left \o w)) \o <<>>
  /\ w = <<>> => ((g \o (r \o left)) \o u) \o w = ((g \o r) \o (left \o w)) \o u
  /\ ((g \o (r \o left)) \o u) \o w = ((g \o r) \o left) \o (u \o w)
  /\ w = <<>> => ((g \o (r \o left)) \o u) \o w = ((g \o r) \o <<>>) \o (left \o u)

(* What is appended and taken, put together. *)
LEMMA FlowJoined ==
  \A g, r, left, u, w \in Seq(Token) : Joinings(g, r, left, u, w)
<1> TAKE g, r, left, u, w \in Seq(Token)
<1> DEFINE S == Seq(Token)
           h == g \o r
           o == ((g \o (r \o left)) \o u) \o w
           x == h \o left
<1>0. \A a, b \in S : a \o b \in S
  BY ConcatProperties
<1>a. \A a, b, c \in S : (a \o b) \o c = a \o (b \o c)
  BY AssocToken
<1>b. \A a \in S : a \o <<>> = a /\ <<>> \o a = a
  BY ConcatEmptySeq
<1>c. g \in S /\ r \in S /\ left \in S /\ u \in S /\ w \in S
  OBVIOUS
<1> HIDE DEF S
<1>1. h \in S /\ left \o w \in S /\ u \o w \in S /\ left \o u \in S
  BY <1>0, <1>c
<1>2. x = g \o (r \o left)
  BY <1>a, <1>c
<1>3. o = (x \o u) \o w
  BY <1>2
<1> HIDE DEF h, o
<1>d. x \in S
  BY <1>0, <1>1, <1>c
<1>5. h \o (left \o w) = x \o w /\ h \o (left \o u) = x \o u
  <2>1. h \in S /\ left \in S /\ w \in S /\ u \in S
    BY <1>1, <1>c
  <2>2. (h \o left) \o w = h \o (left \o w)
    BY <2>1, <1>a
  <2>3. (h \o left) \o u = h \o (left \o u)
    BY <2>1, <1>a
  <2> QED BY <2>2, <2>3
<1> HIDE DEF x
<1>4. o = x \o (u \o w)
  BY <1>3, <1>a, <1>c, <1>d
<1>6. x \o w \in S /\ x \o u \in S
  BY <1>0, <1>c, <1>d
<1>7. u = <<>> => o = (x \o w) \o <<>>
  BY <1>3, <1>6, <1>b, <1>d
<1>8. w = <<>> => o = x \o u /\ x \o w = x
  BY <1>3, <1>6, <1>b, <1>d
<1>9. h \o <<>> = h
  BY <1>1, <1>b
<1>10. w = <<>> => o = (h \o (left \o w)) \o u /\ o = (h \o <<>>) \o (left \o u)
  BY <1>5, <1>8, <1>9
<1> QED BY <1>1, <1>4, <1>5, <1>7, <1>10 DEF S, h, o, x, Joinings

(* What is on the way to s stays in order. *)
LEMMA FlowsOn ==
  ASSUME NetIInv, Onward, NEW s \in Streams, Bytes(s), Flows(s), FlowStep(s)
  PROVE  /\ Flows(s)' /\ got'[s] \in Seq(Token) /\ Told(inbox'[s]) \in Seq(Token)
<1> DEFINE S == Seq(Token)
<1>1. PICK u \in S : out[Peer(s)] = (got[s] \o Told(inbox[s])) \o u /\ (u # <<>> => Lost(s))
  BY DEF Flows
<1>2. PICK r \in S, w \in S, left \in S :
        /\ got'[s] = got[s] \o r /\ out'[Peer(s)] = out[Peer(s)] \o w
        /\ Told(inbox[s]) = r \o left
        /\ \/ Told(inbox'[s]) = left \o w /\ (w # <<>> => ~Lost(s))
           \/ Told(inbox'[s]) = left /\ (w # <<>> => Lost(s))
           \/ Told(inbox'[s]) = <<>> /\ w = <<>> /\ (left # <<>> => Lost(s)')
  BY DEF FlowStep
<1>3. Lost(s) => Lost(s)'
  BY LostStays
<1> DEFINE g == got[s]
           h == g \o r
           n == Told(inbox'[s])
           o == ((g \o (r \o left)) \o u) \o w
<1>4. /\ h \in S /\ left \o w \in S
      /\ u = <<>> => o = (h \o (left \o w)) \o <<>>
      /\ w = <<>> => o = (h \o (left \o w)) \o u
      /\ u \o w \in S /\ o = (h \o left) \o (u \o w)
      /\ left \o u \in S /\ (w = <<>> => o = (h \o <<>>) \o (left \o u))
  <2>1. g \in Seq(Token)
    BY DEF Bytes
  <2>2. r \in Seq(Token) /\ left \in Seq(Token) /\ u \in Seq(Token) /\ w \in Seq(Token)
    OBVIOUS
  <2> HIDE DEF g, S
  <2>3. Joinings(g, r, left, u, w)
    BY <2>1, <2>2, FlowJoined
  <2> QED BY <2>3 DEF S, Joinings
<1>5. out'[Peer(s)] = o /\ got'[s] = h /\ <<>> \in S /\ left \in S
  BY <1>1, <1>2
<1>0. u = <<>> /\ w = <<>> => u \o w = <<>>
  OBVIOUS
<1>a. u = <<>> /\ left = <<>> => left \o u = <<>>
  OBVIOUS
<1> HIDE DEF S, g, h, o
<1> SUFFICES /\ n \in S
             /\ \E v \in S : o = (h \o n) \o v /\ (v # <<>> => Lost(s)')
  <2>1. got'[s] \in S /\ n = Told(inbox'[s])
    BY <1>4, <1>5
  <2> QED BY <1>5, <2>1 DEF Flows, Peer, S
<1>6. CASE n = left \o w /\ (w # <<>> => ~Lost(s))
  <2>1. CASE w = <<>>
    BY <1>1, <1>3, <1>4, <1>6, <2>1
  <2>2. CASE w # <<>>
    BY <1>1, <1>4, <1>5, <1>6, <2>2
  <2> QED BY <2>1, <2>2
<1>7. CASE n = left /\ (w # <<>> => Lost(s))
  BY <1>0, <1>1, <1>3, <1>4, <1>5, <1>7
<1>8. CASE n = <<>> /\ w = <<>> /\ (left # <<>> => Lost(s)')
  BY <1>1, <1>3, <1>4, <1>5, <1>8, <1>a
<1> QED BY <1>2, <1>6, <1>7, <1>8

\* What a client may do is due to its connection.
Behaves(c) ==
  LET P == proc[c]
  IN  /\ P.promise = "true" => c \in connected
      /\ P.main = "send" => P.promise = "true"
      /\ Pooled /\ P.main \in {"wait", "loop"} => c \in connected
      /\ Pending(P, <<"cli", c>>) # <<>> => c \in connected

\* Nothing is written to the client of an unaccepted connection.
Unwritten(c) ==
  c \notin connected \/ c \in Range(backlog) \/ proc[Server].blocked = <<"srv", c>> =>
     out[<<"srv", c>>] = <<>> /\ inbox[<<"cli", c>>] = <<>>

Open1(c) == app = "ssl" => ssl[<<"srv", c>>] = "open"

Plain(s) ==
  /\ inbox[s] \in Seq(Nat)
  /\ s[1] = "srv" \/ ~Crypted => inbox[s] \in Seq(Token)

(* The parts of Settled. *)
LEMMA SettledParts == ASSUME NEW c PROVE Settled(c) <=> Behaves(c) /\ Unwritten(c) /\ Open1(c)
BY DEF Settled, Behaves, Unwritten, Open1

(* The parts of Settled, after a step. *)
LEMMA SettledPartsNext ==
  ASSUME NEW c PROVE Settled(c)' <=> Behaves(c)' /\ Unwritten(c)' /\ Open1(c)'
BY DEF Settled, Behaves, Unwritten, Open1

(* The apps after a step. *)
LEMMA AppsSame ==
  ASSUME app' = app
  PROVE  /\ Datagrams' = Datagrams /\ Pooled' = Pooled /\ Echoes' = Echoes /\ Crypted' = Crypted
         /\ Active' = Active /\ Sends' = Sends
BY DEF Datagrams, Pooled, Echoes, Crypted, Active, Sends

(* What there is to show of a step of one process. *)
LEMMA Gather ==
  ASSUME NetIInv, FlowIInv, ~Datagrams, Onward, Shaped',
         NEW p \in Procs, NEW Q, proc' = [proc EXCEPT ![p] = Q],
         Carries(Q), Q.sent \in Nat,
         p \in Clients => Behaves(p)',
         Q.main = "end" => \A f \in Fds : Q.table[f] = None,
         proc'[Server].main = "end" => backlog' = <<>>,
         \A s \in Streams : FlowStep(s) /\ Plain(s)',
         \A c \in Clients : Unwritten(c)' /\ Open1(c)' /\ EchoKept(c)',
         PoolKept', FramesKept'
  PROVE  FlowIInv'
<1>1. proc'[p] = Q /\ \A q \in Procs : q # p => proc'[q] = proc[q]
  BY DEF NetIInv
<1>2. app' = app
  BY DEF Onward
<1>3. \A q \in Procs : Carries(proc'[q]) /\ proc'[q].sent \in Nat
  BY <1>1 DEF FlowIInv
<1>4. ASSUME NEW s \in Streams PROVE (Bytes(s) /\ Flows(s))'
  <2>1. Bytes(s) /\ Flows(s) /\ FlowStep(s) /\ Bytes(Peer(s))
    BY TwoEnds DEF FlowIInv
  <2>2. Flows(s)' /\ got'[s] \in Seq(Token) /\ Told(inbox'[s]) \in Seq(Token)
    BY <2>1, FlowsOn
  <2>3. out'[s] \in Seq(Token)
    <3>1. Peer(s) \in Streams /\ Peer(Peer(s)) = s
      BY TwoEnds
    <3>2. PICK w \in Seq(Token) : out'[Peer(Peer(s))] = out[Peer(Peer(s))] \o w
      BY <3>1 DEF FlowStep
    <3> QED BY <2>1, <3>1, <3>2, ConcatProperties DEF Bytes
  <2>4. Plain(s)'
    OBVIOUS
  <2>5. Bytes(s)'
    BY <2>2, <2>3, <2>4 DEF Bytes, Plain
  <2> QED BY <2>2, <2>5
<1>5. ASSUME NEW c \in Clients PROVE Behaves(c)'
  <2>1. CASE c = p
    BY <2>1
  <2>2. CASE c # p
    <3>1. proc'[c] = proc[c] /\ Settled(c)
      BY <1>1, <2>2, Names DEF FlowIInv
    <3>2. Behaves(c)
      BY <3>1, SettledParts
    <3> QED BY <1>2, <3>1, <3>2, AppsSame DEF Behaves, Onward, Pending
  <2> QED BY <2>1, <2>2
<1>6. \A c \in Clients : Settled(c)'
  BY <1>5, SettledPartsNext
<1>7. Ended'
  <2>1. ASSUME NEW q \in Procs, proc'[q].main = "end" PROVE \A f \in Fds : proc'[q].table[f] = None
    BY <1>1, <2>1 DEF FlowIInv, Ended
  <2> QED BY <2>1 DEF Ended
<1> QED BY <1>3, <1>4, <1>6, <1>7 DEF FlowIInv

(* Calls open nothing. *)
LEMMA OnwardCalls ==
  ASSUME NetIInv, NEW p \in Procs, NEW Q, proc' = [proc EXCEPT ![p] = Q],
         UNCHANGED <<app, backlog, connected>>,
         \A f \in Fds : Q.table[f] \in {proc[p].table[f], None},
         proc[p].main = "end" => Q.main = "end"
  PROVE  Onward
<1>1. proc'[p] = Q /\ \A q \in Procs : q # p => proc'[q] = proc[q]
  BY DEF NetIInv
<1> QED BY <1>1 DEF Onward

(* A stream on whose way nothing happens. *)
LEMMA FlowStill ==
  ASSUME NEW s \in Streams, Bytes(s), Bytes(Peer(s)),
         inbox'[s] = inbox[s], got'[s] = got[s], out'[Peer(s)] = out[Peer(s)]
  PROVE  FlowStep(s)
<1> DEFINE r == <<>>
           w == <<>>
           left == Told(inbox[s])
           n == Told(inbox'[s])
<1>1. r \in Seq(Token) /\ w \in Seq(Token) /\ left \in Seq(Token) /\ n = left
  BY DEF Bytes
<1>2. got[s] \o r = got[s] /\ out[Peer(s)] \o w = out[Peer(s)]
  BY ConcatEmptySeq DEF Bytes
<1>3. r \o left = left /\ left \o w = left
  BY <1>1, ConcatEmptySeq
<1> HIDE DEF r, left, n
<1>4. n = left \o w /\ (w # <<>> => ~Lost(s))
  BY <1>1, <1>3
<1> QED BY <1>1, <1>2, <1>3, <1>4 DEF FlowStep, left, n

(* What a server has written stays due. *)
LEMMA EchoSame ==
  ASSUME NetIInv, Onward, NEW c \in Clients, EchoKept(c),
         LET s == <<"srv", c>>
         IN  /\ out'[s] = out[s] /\ got'[s] = got[s]
             /\ Pending(proc'[Server], s) = Pending(proc[Server], s)
  PROVE  EchoKept(c)'
<1> DEFINE s == <<"srv", c>>
<1>1. Hup(s) => Hup(s)'
  BY HupStays DEF Streams
<1>2. proc'[Server].main # "end" => proc[Server].main # "end"
  BY Names DEF Onward
<1>3. app' = app
  BY DEF Onward
<1>4. Pending(proc[Server], s)' = Pending(proc[Server], s)
  BY DEF Pending, Writes
<1> QED BY <1>1, <1>2, <1>3, <1>4, AppsSame DEF EchoKept

(* The frames stay each in one place. *)
LEMMA FramesSame ==
  ASSUME FramesKept, app' = app, forwarded' = forwarded,
         KeepsFrames(proc[Server], proc'[Server]),
         proc[Server].main = "end" => proc'[Server].main = "end"
  PROVE  FramesKept'
BY DEF FramesKept, KeepsFrames

(* A step that moves no data. *)
LEMMA StillFlow ==
  ASSUME NetIInv, FlowIInv, ~Datagrams, Onward, Shaped',
         NEW p \in Procs, NEW Q, proc' = [proc EXCEPT ![p] = Q],
         KeepsFrames(proc[p], Q), Carries(Q),
         \A r \in Socks : Pending(Q, r) = Pending(proc[p], r),
         Q.sent \in Nat, p \in Clients => Behaves(p)',
         Q.main = "end" => \A f \in Fds : Q.table[f] = None,
         proc'[Server].main = "end" => backlog' = <<>>,
         UNCHANGED <<inbox, out, got, forwarded>>,
         \A c \in Clients : Unwritten(c)' /\ Open1(c)',
         PoolKept'
  PROVE  FlowIInv'
<1>0. proc'[p] = Q /\ \A q \in Procs : q # p => proc'[q] = proc[q]
  BY DEF NetIInv
<1>1. app' = app /\ FramesKept /\ Server \in Procs
  BY Names DEF Onward, FlowIInv
<1>2. ASSUME NEW s \in Streams PROVE FlowStep(s) /\ Plain(s)'
  <2>1. Bytes(s) /\ Bytes(Peer(s))
    BY TwoEnds DEF FlowIInv
  <2>2. Plain(s)'
    BY <1>1, <2>1, AppsSame DEF Plain, Bytes
  <2> QED BY <2>1, <2>2, FlowStill
<1>3. ASSUME NEW c \in Clients PROVE EchoKept(c)'
  <2>1. EchoKept(c) /\ <<"srv", c>> \in Socks
    BY DEF FlowIInv, Socks, Streams
  <2>2. Pending(proc'[Server], <<"srv", c>>) = Pending(proc[Server], <<"srv", c>>)
    BY <1>0, <1>1, <2>1
  <2> QED BY <2>1, <2>2, EchoSame
<1>4. FramesKept'
  <2>1. KeepsFrames(proc[Server], proc'[Server])
    BY <1>0, <1>1 DEF KeepsFrames
  <2> QED BY <1>1, <2>1, FramesSame DEF Onward
<1> QED BY <1>2, <1>3, <1>4, Gather

(* The pool server is elsewhere. *)
LEMMA PoolOther ==
  ASSUME NetIInv, PoolKept, app' = app, NEW p \in Procs, NEW Q, proc' = [proc EXCEPT ![p] = Q],
         ~Pooled \/ p # Server
  PROVE  PoolKept'
<1>1. CASE ~Pooled
  BY <1>1, AppsSame DEF PoolKept, Polling
<1>2. CASE p # Server
  <2>1. proc'[Server] = proc[Server]
    BY <1>2, Names DEF NetIInv
  <2> QED BY <2>1, AppsSame DEF PoolKept, Polling
<1> QED BY <1>1, <1>2

(* A step that is nothing but calls that write nothing. *)
LEMMA QuietFlow ==
  ASSUME NetIInv, FlowIInv, ~Datagrams,
         NEW p \in Procs, NEW Q, proc' = [proc EXCEPT ![p] = Q], Quiet(proc[p], Q),
         UNCHANGED <<inbox, backlog, connected, out, got, app, ssl, forwarded>>,
         ~Pooled \/ p # Server \/ PoolKept'
  PROVE  FlowIInv'
<1>0. proc'[p] = Q /\ \A q \in Procs : q # p => proc'[q] = proc[q]
  BY DEF NetIInv
<1>1. Carries(proc[p]) /\ proc[p].sent \in Nat /\ Shaped /\ Ended /\ PoolKept
  BY DEF FlowIInv
<1>2. /\ KeepsFrames(proc[p], Q) /\ SameControl(proc[p], Q) /\ Carries(Q)
      /\ \A f \in Fds : Q.table[f] \in {proc[p].table[f], None}
      /\ \A r \in Socks : Pending(Q, r) = Pending(proc[p], r)
  BY <1>1 DEF Quiet
<1>a. /\ UNCHANGED <<app, backlog, connected>> /\ UNCHANGED <<inbox, out, got, forwarded>>
      /\ Q.main = proc[p].main /\ Q.sent \in Nat
  BY <1>1, <1>2 DEF SameControl
<1>3. Onward
  BY <1>2, <1>a, OnwardCalls
<1>4. Shaped'
  BY <1>1 DEF Shaped
<1>5. ASSUME p \in Clients PROVE Behaves(p)'
  <2>1. Settled(p) /\ <<"cli", p>> \in Socks
    BY <1>5 DEF FlowIInv, Socks, Streams
  <2>2. Behaves(p) /\ Pending(Q, <<"cli", p>>) = Pending(proc[p], <<"cli", p>>)
    BY <1>2, <2>1, SettledParts
  <2>3. Pending(proc[p], <<"cli", p>>)' = Pending(Q, <<"cli", p>>)
    BY <1>0 DEF Pending, Writes
  <2> QED BY <1>0, <1>2, <2>2, <2>3, AppsSame DEF Behaves, SameControl
<1>6. Q.main = "end" => \A f \in Fds : Q.table[f] = None
  BY <1>1, <1>2 DEF SameControl, Ended
<1>7. proc'[Server].main = "end" => backlog' = <<>>
  BY <1>0, <1>1, <1>2, Names DEF SameControl, Ended
<1>8. ASSUME NEW c \in Clients PROVE Unwritten(c)' /\ Open1(c)'
  <2>1. Unwritten(c) /\ Open1(c)
    BY SettledParts DEF FlowIInv
  <2>2. proc'[Server].blocked = proc[Server].blocked
    BY <1>0, <1>2, Names DEF SameControl
  <2> QED BY <2>1, <2>2 DEF Unwritten, Open1
<1>9. PoolKept'
  BY <1>1, PoolOther
<1> QED BY <1>1, <1>2, <1>3, <1>4, <1>5, <1>6, <1>7, <1>8, <1>9, <1>a, StillFlow

(* What a step makes of its calls. *)
LEMMA BecomesQuiet ==
  ASSUME NEW p, NEW P, Sane(P), Becomes(p, P)
  PROVE  \E Q : Quiet(P, Q) /\ proc' = [proc EXCEPT ![p] = Q]
<1>1. Quiet(P, Destroy(P, Unreferenced(P)))
  BY QuietDestroy
<1> QED BY <1>1 DEF Becomes

(* A step that is calls that write nothing, up to its end. *)
LEMMA BecomesFlow ==
  ASSUME NetIInv, FlowIInv, ~Datagrams,
         NEW p \in Procs, NEW P, Sane(P), Quiet(proc[p], P), Becomes(p, P),
         UNCHANGED <<inbox, backlog, connected, out, got, app, ssl, forwarded>>,
         ~Pooled \/ p # Server \/ PoolKept'
  PROVE  FlowIInv'
<1>1. PICK Q : Quiet(P, Q) /\ proc' = [proc EXCEPT ![p] = Q]
  BY BecomesQuiet
<1>2. Quiet(proc[p], Q)
  BY <1>1, QuietOn
<1> QED BY <1>1, <1>2, QuietFlow

(* A task that writes nothing. *)
LEMMA TaskFlow ==
  ASSUME NetIInv, FlowIInv, ~Datagrams, NEW p \in Procs, NEW op, IsNext(p, op),
         op \notin {"sendto", "frame"} \cup Writers,
         NEW R, Sane(R), Quiet(Pop(p), R), Becomes(p, R),
         UNCHANGED <<inbox, backlog, connected, out, got, app, ssl, forwarded>>,
         ~Pooled \/ p # Server \/ PoolKept'
  PROVE  FlowIInv'
<1>1. Sane(proc[p]) /\ proc[p].tasks # <<>> /\ Head(proc[p].tasks).op = op
  BY Takes DEF IsNext
<1>2. Quiet(proc[p], Pop(p))
  BY <1>1, QuietPop DEF Pop
<1>3. Quiet(proc[p], R)
  BY <1>2, QuietOn
<1> QED BY <1>3, BecomesFlow

(* SockStream's tasks that only listen or close. *)
LEMMA SockQuiet ==
  ASSUME NetIInv, FlowIInv, ~Datagrams, ~Pooled, NEW p \in Procs,
         Sock!ListenTask(p) \/ Sock!CloseTask(p), UNCHANGED rest
  PROVE  FlowIInv'
<1> DEFINE Q == Pop(p)
           t == Head(proc[p].tasks)
<1>0. UNCHANGED <<inbox, backlog, connected, out, got, app, ssl, forwarded>>
  BY DEF Sock!ListenTask, Sock!CloseTask, Sock!kernel, rest
<1>1. CASE Sock!ListenTask(p)
  <2>1. IsNext(p, "listen") /\ Sock!Becomes(p, Register(Q, t.fd, t.who))
    BY <1>1, SockNet DEF Sock!ListenTask, Sock!listenReadEvent
  <2>2. Sane(Q) /\ SoundTask(Q, t) /\ t.op \in Registers
    BY <2>1, Takes DEF Registers
  <2>3. Goes(Q, Register(Q, t.fd, t.who), MayClose(p))
    BY <2>2, RegisterTask
  <2>4. Sane(Register(Q, t.fd, t.who))
    BY <2>3 DEF Goes
  <2>5. Quiet(Q, Register(Q, t.fd, t.who))
    BY Zenon, <2>2, QuietCalls
  <2>6. "listen" \notin {"sendto", "frame"} \cup Writers
    BY DEF Writers
  <2> QED BY <1>0, <2>1, <2>4, <2>5, <2>6, SockBecomes, TaskFlow
<1>2. CASE Sock!CloseTask(p)
  <2>1. IsNext(p, "close") /\ Sock!Becomes(p, closeAndNoClear(Q, t.who))
    BY <1>2, SockNet DEF Sock!CloseTask
  <2>2. Sane(Q) /\ SoundTask(Q, t) /\ t.op \in Holds /\ t.who \in MayClose(p)
    BY <2>1, Takes DEF Holds, Closes
  <2>3. t.who \in Socks
    BY <2>2, Held
  <2>4. Goes(Q, closeAndNoClear(Q, t.who), MayClose(p))
    BY <2>2, <2>3, CloseGoes
  <2>5. Sane(closeAndNoClear(Q, t.who))
    BY <2>4 DEF Goes
  <2>6. Quiet(Q, closeAndNoClear(Q, t.who))
    BY Zenon, <2>2, QuietCalls
  <2>7. "close" \notin {"sendto", "frame"} \cup Writers
    BY DEF Writers
  <2> QED BY <1>0, <2>1, <2>5, <2>6, <2>7, SockBecomes, TaskFlow
<1> QED BY <1>1, <1>2

(* SSLStream's task that only listens. *)
LEMMA SSLQuiet ==
  ASSUME NetIInv, FlowIInv, ~Datagrams, ~Pooled, NEW p \in Procs,
         SSL!ListenTask(p), UNCHANGED <<app, forwarded>>
  PROVE  FlowIInv'
<1> DEFINE Q == Pop(p)
           t == Head(proc[p].tasks)
<1>0. UNCHANGED <<inbox, backlog, connected, out, got, app, ssl, forwarded>>
  BY DEF SSL!ListenTask, SSL!kernel
<1>1. IsNext(p, "ssl_listen") /\ SSL!Becomes(p, Register(Q, t.fd, t.who))
  BY SSLNet DEF SSL!ListenTask, SSL!listenReadEvent
<1>2. Sane(Q) /\ SoundTask(Q, t) /\ t.op \in Registers
  BY <1>1, Takes DEF Registers
<1>3. Goes(Q, Register(Q, t.fd, t.who), MayClose(p))
  BY <1>2, RegisterTask
<1>4. Sane(Register(Q, t.fd, t.who))
  BY <1>3 DEF Goes
<1>5. Quiet(Q, Register(Q, t.fd, t.who))
  BY Zenon, <1>2, QuietCalls
<1>6. "ssl_listen" \notin {"sendto", "frame"} \cup Writers
  BY DEF Writers
<1> QED BY <1>0, <1>1, <1>4, <1>5, <1>6, SSLBecomes, TaskFlow

(* The tasks of the Acceptor and of the object map. *)
LEMMA ServerFlow ==
  ASSUME NetIInv, FlowIInv, ~Datagrams, NEW p \in Procs, ServerTask(p),
         ~Pooled \/ PoolKept'
  PROVE  FlowIInv'
<1> DEFINE P == proc[p]
           Q == Pop(p)
           t == Head(P.tasks)
           D == MayClose(p)
<1>0. UNCHANGED <<inbox, backlog, connected, out, got, app, ssl, forwarded>>
  BY DEF ServerTask, Acc!StartTask, Acc!StopTask, SaveTask, FindTask, kernel, Acc!kernel, rest
<1>1. CASE Acc!StartTask(p)
  <2>1. IsNext(p, "start") /\ Acc!Becomes(p, Register(Q, t.fd, Own))
    BY <1>1, AccNet DEF Acc!StartTask
  <2>2. Sane(Q) /\ SoundTask(Q, t) /\ t.op \in Registers /\ t.who = Own
    BY <2>1, Takes DEF Registers, SoundTask
  <2>3. Goes(Q, Register(Q, t.fd, Own), D)
    BY <2>2, RegisterTask
  <2>4. Sane(Register(Q, t.fd, Own))
    BY <2>3 DEF Goes
  <2>5. Quiet(Q, Register(Q, t.fd, Own))
    BY Zenon, <2>2, QuietCalls
  <2>6. "start" \notin {"sendto", "frame"} \cup Writers
    BY DEF Writers
  <2> QED BY <1>0, <2>1, <2>4, <2>5, <2>6, AccBecomes, TaskFlow
<1>2. CASE Acc!StopTask(p)
  <2>1. IsNext(p, "stop") /\ Acc!Becomes(p, cancle(Q, P.fd[Own]))
    BY <1>2, AccNet DEF Acc!StopTask
  <2>2. Sane(Q)
    BY <2>1, Takes
  <2>3. Goes(Q, cancle(Q, P.fd[Own]), D)
    BY <2>2, CancleGoes
  <2>4. Sane(cancle(Q, P.fd[Own])) /\ Quiet(Q, cancle(Q, P.fd[Own]))
    BY Zenon, <2>2, <2>3, QuietCalls DEF Goes
  <2>5. "stop" \notin {"sendto", "frame"} \cup Writers
    BY DEF Writers
  <2> QED BY <1>0, <2>1, <2>4, <2>5, AccBecomes, TaskFlow
<1>3. CASE SaveTask(p)
  <2> DEFINE map == Put(Q.objects, t.fd, t.who)
  <2>1. IsNext(p, "save") /\ Becomes(p, [Q EXCEPT !.objects = map])
    BY <1>3 DEF SaveTask
  <2>2. Sane(Q) /\ SoundTask(Q, t) /\ t.op \in Holds
    BY <2>1, Takes DEF Holds
  <2>3. t.who \in Socks /\ Range(Q.objects) \subseteq Socks
    BY <2>2, Held DEF Sane, Typed
  <2>4. Range(map) \subseteq Socks
    BY <2>3, MapRange
  <2>5. Goes(Q, [Q EXCEPT !.objects = map], D)
    BY <2>2, <2>4, ObjectsGoes
  <2>6. Sane([Q EXCEPT !.objects = map]) /\ Quiet(Q, [Q EXCEPT !.objects = map])
    BY Zenon, <2>2, <2>5, QuietCalls DEF Goes
  <2>7. "save" \notin {"sendto", "frame"} \cup Writers
    BY DEF Writers
  <2> QED BY <1>0, <2>1, <2>6, <2>7, TaskFlow
<1>4. CASE FindTask(p)
  <2> DEFINE map == Restrict(Q.objects, DOMAIN Q.objects \ {t.fd})
  <2>1. IsNext(p, "find") /\ Becomes(p, [Q EXCEPT !.objects = map])
    BY <1>4 DEF FindTask
  <2>2. Sane(Q) /\ Range(Q.objects) \subseteq Socks
    BY <2>1, Takes DEF Sane, Typed
  <2>3. Range(map) \subseteq Socks
    BY <2>2, MapRange
  <2>4. Goes(Q, [Q EXCEPT !.objects = map], D)
    BY <2>2, <2>3, ObjectsGoes
  <2>5. Sane([Q EXCEPT !.objects = map]) /\ Quiet(Q, [Q EXCEPT !.objects = map])
    BY Zenon, <2>2, <2>4, QuietCalls DEF Goes
  <2>6. "find" \notin {"sendto", "frame"} \cup Writers
    BY DEF Writers
  <2> QED BY <1>0, <2>1, <2>5, <2>6, TaskFlow
<1> QED BY <1>1, <1>2, <1>3, <1>4 DEF ServerTask

(* The tasks of the detached server. *)
LEMMA FrameFlow ==
  ASSUME NetIInv, FlowIInv, ~Datagrams, NEW p \in Procs, FrameTask(p) \/ ReadShmTask(p)
  PROVE  FlowIInv'
<1> DEFINE P == proc[p]
           Q == Pop(p)
<1>0. UNCHANGED <<inbox, backlog, connected, out, got, app, ssl, forwarded>> /\ ~Pooled
  BY DEF FrameTask, ReadShmTask, kernel, rest, Pooled
<1>1. CASE FrameTask(p)
  <2> DEFINE R == sendToSharedMemory(Q, Head(P.tasks).data)
  <2>1. IsNext(p, "frame") /\ Becomes(p, R)
    BY <1>1 DEF FrameTask
  <2>2. Sane(P) /\ Sane(Q) /\ P.tasks # <<>> /\ Head(P.tasks).op = "frame"
    BY <2>1, Takes DEF IsNext
  <2>3. Goes(Q, R, {})
    BY <2>2, QueueGoes
  <2>4. Sane(R)
    BY <2>3 DEF Goes
  <2>5. Quiet(P, R)
    BY <2>2, QuietRetry DEF Pop
  <2> QED BY <1>0, <2>1, <2>4, <2>5, BecomesFlow
<1>2. CASE ReadShmTask(p)
  <2>1. IsNext(p, "shmread") /\ Becomes(p, readFromSharedMemory(Q))
    BY <1>2 DEF ReadShmTask
  <2>2. Sane(Q) /\ Own \in Socks
    BY <2>1, Takes, Names
  <2>3. Goes(Q, readFromSharedMemory(Q), {})
    BY <2>2, QueueGoes
  <2>4. Sane(readFromSharedMemory(Q)) /\ Quiet(Q, readFromSharedMemory(Q))
    BY <2>2, <2>3, QuietTasks DEF Goes
  <2>5. "shmread" \notin {"sendto", "frame"} \cup Writers
    BY DEF Writers
  <2> QED BY <1>0, <2>1, <2>4, <2>5, TaskFlow
<1> QED BY <1>1, <1>2

\* Calls that write nothing, but may wait for a handshake.
Calm(P, Q) ==
  /\ KeepsFrames(P, Q) /\ Q.main = P.main /\ Q.promise = P.promise /\ Q.sent = P.sent
  /\ \A f \in Fds : Q.table[f] \in {P.table[f], None}
  /\ Carries(P) => Carries(Q)
  /\ Carries(P) => \A r \in Socks : Pending(Q, r) = Pending(P, r)

(* A client's calls, and what happens to its end of an SSL connection. *)
LEMMA CalmFlow ==
  ASSUME NetIInv, FlowIInv, ~Datagrams,
         NEW p \in Clients, NEW Q, proc' = [proc EXCEPT ![p] = Q], Calm(proc[p], Q),
         UNCHANGED <<inbox, backlog, connected, out, got, app, forwarded>>,
         \A c \in Clients : ssl'[<<"srv", c>>] = ssl[<<"srv", c>>],
         ssl' = [s \in Socks |-> ssl'[s]]
  PROVE  FlowIInv'
<1>0. /\ proc'[p] = Q /\ p \in Procs /\ p # Server
      /\ \A q \in Procs : q # p => proc'[q] = proc[q]
  BY Names, NamesAssumption DEF NetIInv
<1>1. Carries(proc[p]) /\ proc[p].sent \in Nat /\ Shaped /\ Ended /\ PoolKept
  BY <1>0 DEF FlowIInv
<1>2. /\ KeepsFrames(proc[p], Q) /\ Carries(Q) /\ Q.main = proc[p].main /\ Q.sent \in Nat
      /\ \A f \in Fds : Q.table[f] \in {proc[p].table[f], None}
      /\ \A r \in Socks : Pending(Q, r) = Pending(proc[p], r)
      /\ Q.promise = proc[p].promise
  BY <1>1 DEF Calm
<1>a. UNCHANGED <<app, backlog, connected>> /\ UNCHANGED <<inbox, out, got, forwarded>>
  OBVIOUS
<1>3. Onward
  BY <1>0, <1>2, <1>a, OnwardCalls
<1>4. Shaped'
  BY <1>1 DEF Shaped
<1>5. Behaves(p)'
  <2>1. Settled(p) /\ <<"cli", p>> \in Socks
    BY DEF FlowIInv, Socks, Streams
  <2>2. Behaves(p) /\ Pending(Q, <<"cli", p>>) = Pending(proc[p], <<"cli", p>>)
    BY <1>2, <2>1, SettledParts
  <2>3. Pending(proc[p], <<"cli", p>>)' = Pending(Q, <<"cli", p>>)
    BY <1>0 DEF Pending, Writes
  <2> QED BY <1>0, <1>2, <2>2, <2>3, AppsSame DEF Behaves
<1>6. Q.main = "end" => \A f \in Fds : Q.table[f] = None
  BY <1>0, <1>1, <1>2 DEF Ended
<1>7. proc'[Server].main = "end" => backlog' = <<>>
  BY <1>0, <1>1, Names DEF Ended
<1>8. ASSUME NEW c \in Clients PROVE Unwritten(c)' /\ Open1(c)'
  <2>1. Unwritten(c) /\ Open1(c)
    BY SettledParts DEF FlowIInv
  <2>2. proc'[Server].blocked = proc[Server].blocked
    BY <1>0, Names
  <2> QED BY <2>1, <2>2 DEF Unwritten, Open1
<1>9. PoolKept'
  BY <1>0, <1>1, PoolOther
<1> QED BY <1>0, <1>2, <1>3, <1>4, <1>5, <1>6, <1>7, <1>8, <1>9, <1>a, StillFlow

(* SSLStream's close, which only clients call. *)
LEMMA SSLCloses ==
  ASSUME NetIInv, FlowIInv, NEW p \in Procs, app = "ssl",
         SSL!CloseTask(p), UNCHANGED <<app, forwarded>>
  PROVE  FlowIInv'
<1> DEFINE P == proc[p]
           Q == Pop(p)
           t == Head(P.tasks)
           B == [P EXCEPT !.blocked = t.who]
           C == closeAndNoClear(Q, t.who)
<1>0. UNCHANGED <<inbox, backlog, connected, out, got, app, forwarded>> /\ ~Datagrams
  BY DEF SSL!CloseTask, SSL!kernel, Datagrams
<1>1. /\ IsNext(p, "ssl_close")
      /\ SSL!Becomes(p, C) \/ SSL!Becomes(p, B)
      /\ \E v : ssl' = [ssl EXCEPT ![t.who] = v]
  BY SSLNet DEF SSL!CloseTask
<1>2. /\ Sane(P) /\ Q.fd = P.fd /\ Sane(Q) /\ SoundTask(Q, t) /\ t.op \in Holds
      /\ t.who \in MayClose(p) /\ P.tasks # <<>> /\ t.op = "ssl_close"
  <2>1. Sane(P) /\ Q.fd = P.fd /\ Sane(Q) /\ SoundTask(Q, t) /\ t.op \in Holds /\ t.who \in MayClose(p)
    BY <1>1, Takes DEF Holds, Closes
  <2> QED BY <1>1, <2>1 DEF IsNext
<1>3. t.who \in Socks /\ P.fd[t.who] \in Fds /\ Proper(p, P)
  BY <1>2, Held DEF NetIInv
<1>4. p \in Clients /\ t.who[1] = "cli"
  <2>1. p # Server
    BY <1>2, <1>0 DEF MayClose
  <2>2. Proc(t.who) = p
    BY <1>3 DEF Proper
  <2> QED BY <1>3, <2>1, <2>2, TwoEnds DEF Procs, Socks, Own, Proc, Streams
<1>5. Sane(C) /\ Quiet(Q, C) /\ Quiet(P, Q)
  <2>1. Goes(Q, C, MayClose(p))
    BY <1>2, <1>3, CloseGoes
  <2>2. Head(P.tasks).op \notin {"sendto", "frame"} \cup Writers
    BY <1>2 DEF Writers
  <2>3. Quiet(P, Q)
    BY <1>2, <2>2, QuietPop DEF Pop
  <2> QED BY Zenon, <1>2, <2>1, <2>3, QuietCalls DEF Goes
<1>6. Sane(B) /\ Calm(P, B)
  <2>1. Goes(P, B, {})
    BY <1>2, <1>3, SetGoes
  <2>2. /\ B.tasks = P.tasks /\ B.slot = P.slot /\ B.uid = P.uid /\ B.table = P.table
        /\ B.main = P.main /\ B.promise = P.promise /\ B.sent = P.sent
    BY <1>2 DEF Sane, Typed, Fields
  <2> DEFINE A == [B EXCEPT !.blocked = P.blocked]
  <2>3. /\ A.tasks = B.tasks /\ A.slot = B.slot /\ A.uid = B.uid /\ A.table = P.table
        /\ A.main = P.main /\ A.promise = P.promise /\ A.sent = P.sent /\ A.blocked = P.blocked
    BY <1>2, <2>2 DEF Sane, Typed, Fields
  <2> HIDE DEF A, B
  <2>4. Quiet(P, A)
    BY <2>2, <2>3, QuietAside DEF SameControl
  <2>5. KeepsFrames(P, B)
    <3>1. SameFrames(P, B)
      BY <2>2 DEF SameFrames
    <3> QED BY <2>2, <3>1, OnceSame DEF KeepsFrames, OneSlot
  <2>6. Calm(P, B)
    BY <2>2, <2>5 DEF Calm, Carries, Pending
  <2> QED BY <2>1, <2>6 DEF Goes
<1>7. PICK R : Sane(R) /\ Calm(P, R) /\ Becomes(p, R)
  <2>1. Quiet(P, C)
    BY <1>5, QuietOn
  <2>2. Calm(P, C)
    BY <2>1 DEF Quiet, Calm, SameControl
  <2> HIDE DEF B, C
  <2> QED BY <1>1, <1>5, <1>6, <2>2, SSLBecomes
<1>8. PICK S : Quiet(R, S) /\ proc' = [proc EXCEPT ![p] = S]
  BY <1>7, BecomesQuiet
<1>9. Calm(P, S)
  BY <1>7, <1>8 DEF Calm, Quiet, SameControl, KeepsFrames
<1>10. /\ ssl' = [s \in Socks |-> ssl'[s]]
       /\ \A c \in Clients : ssl'[<<"srv", c>>] = ssl[<<"srv", c>>]
  <2>1. ssl = [s \in Socks |-> ssl[s]]
    BY <1>0 DEF FlowIInv, Shaped
  <2>2. \A c \in Clients : <<"srv", c>> \in Socks /\ <<"srv", c>> # t.who
    BY <1>4 DEF Socks, Streams
  <2>3. PICK v : ssl' = [ssl EXCEPT ![t.who] = v]
    BY <1>1
  <2> QED BY <1>3, <2>1, <2>2, <2>3
<1> QED BY <1>0, <1>4, <1>8, <1>9, <1>10, CalmFlow

(* RePoller::work, where the IO thread polls. *)
LEMMA WorkFlow ==
  ASSUME NetIInv, FlowIInv, ~Datagrams, NEW p \in Procs, work(p), UNCHANGED rest,
         ~Pooled \/ p # Server \/ PoolKept'
  PROVE  FlowIInv'
<1> DEFINE P == proc[p]
           Q == Pop(p)
           ready == P.custom \cup {f \in P.interest : Readable(P.table[f])}
           A == [Q EXCEPT !.batch = ready, !.custom = {}]
<1>0. UNCHANGED <<inbox, backlog, connected, out, got, app, ssl, forwarded>>
  BY DEF work, kernel, rest
<1>1. IsNext(p, "work") /\ Becomes(p, IF ready = {} THEN AddTask(Q, Work) ELSE A)
  BY DEF work
<1>2. Sane(P) /\ Sane(Q)
  BY <1>1, Takes
<1>3. ready \subseteq Fds
  BY <1>2 DEF Sane, Typed
<1>4. Sane(AddTask(Q, Work)) /\ Quiet(Q, AddTask(Q, Work))
  <2>1. Goes(Q, AddTask(Q, Work), {})
    BY <1>2, QueueGoes
  <2> QED BY <1>2, <2>1, QuietTasks, Names DEF Goes
<1> HIDE DEF Q, ready
<1>5. Sane(A) /\ Quiet(Q, A)
  <2>1. /\ DOMAIN A = Fields
        /\ A.main = Q.main /\ A.promise = Q.promise /\ A.tasks = Q.tasks /\ A.blocked = Q.blocked
        /\ A.fd = Q.fd /\ A.table = Q.table /\ A.batch = ready /\ A.custom = {}
        /\ A.interest = Q.interest /\ A.callbacks = Q.callbacks /\ A.objects = Q.objects
    BY <1>2 DEF Sane, Typed, Fields
  <2>2. Quiet(Q, A)
    BY Zenon, <1>2, QuietCalls
  <2> HIDE DEF A
  <2>3. Polls(Q, A)
    BY <1>2, <1>3, <2>1 DEF Polls, Sane, Typed
  <2>4. Goes(Q, A, {})
    BY <1>2, <2>3, PollsGoes
  <2> QED BY <2>2, <2>4 DEF Goes
<1>6. PICK R : R = IF ready = {} THEN AddTask(Q, Work) ELSE A
  OBVIOUS
<1>7. Sane(R) /\ Quiet(Q, R) /\ Becomes(p, R)
  BY <1>1, <1>4, <1>5, <1>6
<1>8. "work" \notin {"sendto", "frame"} \cup Writers
  BY DEF Writers
<1> QED BY <1>0, <1>1, <1>7, <1>8, TaskFlow DEF Q

(* A callback that does nothing. *)
LEMMA IdleFlow ==
  ASSUME NetIInv, FlowIInv, ~Datagrams, NEW p \in Procs, NEW f,
         Becomes(p, EndCallback(proc[p], f)),
         UNCHANGED <<inbox, backlog, connected, out, got, app, ssl, forwarded>>,
         ~Pooled \/ p # Server \/ PoolKept'
  PROVE  FlowIInv'
<1>1. Sane(proc[p])
  BY SaneProc
<1>2. Goes(proc[p], EndCallback(proc[p], f), {})
  BY <1>1, EndCallbackGoes
<1>3. Sane(EndCallback(proc[p], f)) /\ Quiet(proc[p], EndCallback(proc[p], f))
  BY <1>1, <1>2, QuietEnd DEF Goes
<1> QED BY <1>3, BecomesFlow

(* SIGINT. *)
LEMMA InterruptFlow ==
  ASSUME NetIInv, FlowIInv, ~Datagrams, NEW p \in Procs, Interrupt(p)
  PROVE  FlowIInv'
<1> DEFINE Q == SetExit(proc[p])
<1>0. UNCHANGED <<inbox, backlog, connected, out, got, app, ssl, forwarded>>
      /\ proc' = [proc EXCEPT ![p] = Q]
  BY DEF Interrupt, kernel, rest
<1>1. Sane(proc[p]) /\ Quiet(proc[p], Q)
  BY Zenon, SaneProc, QuietCalls
<1>2. CASE ~Pooled \/ p # Server
  BY <1>0, <1>1, <1>2, QuietFlow
<1>3. CASE Pooled /\ p = Server
  <2>1. /\ Q.custom = proc[p].custom /\ Q.batch = proc[p].batch /\ Q.interest = proc[p].interest
        /\ Q.table = proc[p].table /\ Q.objects = proc[p].objects /\ Q.tasks = proc[p].tasks
    BY <1>1 DEF SetExit, Sane, Typed, Fields
  <2>2. proc'[Server] = Q
    BY <1>0, <1>3 DEF NetIInv
  <2>3. PoolKept'
    BY <1>0, <1>3, <2>1, <2>2, AppsSame DEF PoolKept, Polling, FlowIInv
  <2> QED BY <1>0, <1>1, <2>3, QuietFlow
<1> QED BY <1>2, <1>3

(* A queue without tasks. *)
LEMMA NoPending ==
  ASSUME NEW P, P.tasks = <<>>
  PROVE  Carries(P) /\ \A s : Pending(P, s) = <<>>
<1>1. ASSUME NEW s PROVE Pending(P, s) = <<>>
  <2> DEFINE w == [i \in DOMAIN P.tasks |-> Writes(P.tasks[i], s)]
  <2>1. w = <<>>
    OBVIOUS
  <2>2. Len(<<>>) = 0
    OBVIOUS
  <2>3. FlattenSeq(w) = <<>>
    BY <2>1, <2>2 DEF FlattenSeq
  <2> QED BY <2>3 DEF Pending
<1>2. Range(P.tasks) = {}
  BY DEF Range
<1> QED BY <1>1, <1>2 DEF Carries

(* Nothing is on the way to a process that has ended. *)
LEMMA FlowGone ==
  ASSUME NEW s \in Streams, Bytes(s), Bytes(Peer(s)), Lost(s)',
         inbox'[s] = <<>>, got'[s] = got[s], out'[Peer(s)] = out[Peer(s)]
  PROVE  FlowStep(s)
<1> DEFINE r == <<>>
           w == <<>>
           left == Told(inbox[s])
<1>1. r \in Seq(Token) /\ w \in Seq(Token) /\ left \in Seq(Token)
  BY DEF Bytes
<1>2. got[s] \o r = got[s] /\ out[Peer(s)] \o w = out[Peer(s)]
  BY ConcatEmptySeq DEF Bytes
<1>3. r \o left = left /\ Told(inbox'[s]) = <<>> /\ w = <<>>
  BY <1>1, ConcatEmptySeq DEF Told
<1> HIDE DEF left, r
<1> QED BY <1>1, <1>2, <1>3 DEF FlowStep, left

(* A process ends. *)
LEMMA EndFlow ==
  ASSUME NetIInv, FlowIInv, ~Datagrams, NEW p \in Procs, End(p),
         UNCHANGED <<connected, out, got, app, ssl, forwarded>>
  PROVE  FlowIInv'
<1> DEFINE Q == [NewProcess EXCEPT !.main = "end"]
<1>1. /\ Q.main = "end" /\ Q.promise = "none" /\ Q.tasks = <<>> /\ Q.sent = 0
      /\ Q.batch = {} /\ Q.blocked = None /\ Q.table = [f \in Fds |-> None]
      /\ Q.interest = {} /\ Q.custom = {}
  BY DEF NewProcess
<1>2. /\ proc' = [proc EXCEPT ![p] = Q]
      /\ backlog' = IF p = Server THEN <<>> ELSE backlog
      /\ inbox' = [s \in Socks |-> IF Proc(s) = p THEN <<>> ELSE inbox[s]]
  BY DEF End
<1> HIDE DEF Q
<1>3. proc'[p] = Q /\ \A q \in Procs : q # p => proc'[q] = proc[q]
  BY <1>2 DEF NetIInv
<1>4. Carries(Q) /\ \A s : Pending(Q, s) = <<>>
  BY <1>1, NoPending
<1>5. Range(<<>>) = {} /\ Range(backlog') \subseteq Range(backlog)
  BY <1>2 DEF Range
<1>6. Onward
  BY <1>1, <1>3, <1>5 DEF Onward
<1>7. Shaped'
  BY <1>2 DEF FlowIInv, Shaped
<1>8. p \in Clients => Behaves(p)'
  <2>1. Pending(proc[p], <<"cli", p>>)' = Pending(Q, <<"cli", p>>)
    BY <1>3 DEF Pending, Writes
  <2> QED BY <1>1, <1>3, <1>4, <2>1 DEF Behaves
<1>9. proc'[Server].main = "end" => backlog' = <<>>
  BY <1>2, <1>3, Names DEF FlowIInv, Ended
<1>10. ASSUME NEW s \in Streams PROVE FlowStep(s) /\ Plain(s)'
  <2>1. Bytes(s) /\ Bytes(Peer(s)) /\ s \in Socks /\ Shaped
    BY TwoEnds, Names DEF FlowIInv
  <2>2. CASE Proc(s) = p
    <3>1. inbox'[s] = <<>>
      BY <1>2, <2>1, <2>2
    <3>2. Lost(s)'
      BY <1>1, <1>3, <2>2 DEF Lost, Proc
    <3>3. Plain(s)'
      BY <3>1 DEF Plain
    <3> QED BY <2>1, <3>1, <3>2, <3>3, FlowGone
  <2>3. CASE Proc(s) # p
    <3>1. inbox'[s] = inbox[s]
      BY <1>2, <2>1, <2>3
    <3>2. Plain(s)'
      BY <2>1, <3>1, AppsSame DEF Plain, Bytes
    <3> QED BY <2>1, <3>1, <3>2, FlowStill
  <2> QED BY <2>2, <2>3
<1>11. ASSUME NEW c \in Clients PROVE Unwritten(c)' /\ Open1(c)' /\ EchoKept(c)'
  <2>1. Unwritten(c) /\ Open1(c) /\ EchoKept(c)
    BY SettledParts DEF FlowIInv
  <2>2. proc'[Server].blocked \in {proc[Server].blocked, None}
    BY <1>1, <1>3, Names
  <2>3. <<"cli", c>> \in Socks /\ <<"srv", c>> # None
    BY Names DEF Socks, Streams
  <2>4. Unwritten(c)'
    BY <1>2, <1>5, <2>1, <2>2, <2>3 DEF Unwritten
  <2>5. EchoKept(c)'
    <3>1. CASE p = Server
      BY <1>1, <1>3, <3>1 DEF EchoKept
    <3>2. CASE p # Server
      <4>1. proc'[Server] = proc[Server]
        BY <1>3, <3>2, Names
      <4> QED BY <1>6, <2>1, <4>1, EchoSame
    <3> QED BY <3>1, <3>2
  <2> QED BY <2>1, <2>4, <2>5 DEF Open1
<1>12. PoolKept'
  <2>1. CASE p = Server
    <3>1. Range(<<>>) = {}
      BY DEF Range
    <3> QED BY <1>1, <1>3, <2>1, <3>1 DEF PoolKept, Polling
  <2>2. CASE p # Server
    BY <1>2, <2>2, PoolOther DEF FlowIInv
  <2> QED BY <2>1, <2>2
<1>13. FramesKept'
  <2>1. CASE p = Server
    BY <1>1, <1>3, <2>1 DEF FramesKept
  <2>2. CASE p # Server
    <3>1. proc'[Server] = proc[Server]
      BY <1>3, <2>2, Names
    <3>2. KeepsFrames(proc[Server], proc'[Server])
      BY <3>1 DEF KeepsFrames
    <3> QED BY <3>1, <3>2, FramesSame DEF FlowIInv
  <2> QED BY <2>1, <2>2
<1>14. Q.sent \in Nat /\ (Q.main = "end" => \A f \in Fds : Q.table[f] = None)
  BY <1>1
<1> QED BY <1>2, <1>4, <1>6, <1>7, <1>8, <1>9, <1>10, <1>11, <1>12, <1>13, <1>14, Gather

(* What comes behind a ticket, or behind data. *)
LEMMA ToldMore ==
  ASSUME NEW box \in Seq(Nat), Told(box) \in Seq(Token), NEW w \in Seq(Token)
  PROVE  /\ Told(box \o w) = Told(box) \o w /\ box \o w \in Seq(Nat)
         /\ box \in Seq(Token) => box \o w \in Seq(Token)
<1>0. w \in Seq(Nat)
  BY DEF Token
<1>1. box \o w \in Seq(Nat) /\ (box \in Seq(Token) => box \o w \in Seq(Token))
  BY <1>0, ConcatProperties
<1>2. CASE box = <<>>
  <2>1. box \o w = w /\ Told(box) = <<>> /\ <<>> \o w = w
    BY <1>2, ConcatEmptySeq DEF Told
  <2>2. w # <<>> => w[1] \in Token
    BY EmptySeq
  <2>3. Told(w) = w
    BY <2>2 DEF Told, Token, Ticket
  <2> QED BY <1>1, <2>1, <2>3
<1>3. CASE box # <<>>
  <2>1. /\ box \o w # <<>> /\ (box \o w)[1] = box[1] /\ Tail(box \o w) = Tail(box) \o w
    <3>1. Len(box) \in Nat /\ Len(box) # 0 /\ Len(w) \in Nat /\ Len(box \o w) = Len(box) + Len(w)
          /\ \A i \in 1 .. Len(box) + Len(w) :
                (box \o w)[i] = IF i <= Len(box) THEN box[i] ELSE w[i - Len(box)]
      BY <1>0, <1>3, EmptySeq, ConcatProperties
    <3>2. box \o w # <<>> /\ (box \o w)[1] = box[1]
      BY <3>1
    <3>3. /\ Tail(box \o w) \in Seq(Nat) /\ Len(Tail(box \o w)) = Len(box) + Len(w) - 1
          /\ \A i \in 1 .. Len(box) + Len(w) - 1 : Tail(box \o w)[i] = (box \o w)[i + 1]
      BY <1>1, <3>1, <3>2, HeadTailProperties
    <3>4. /\ Tail(box) \in Seq(Nat) /\ Len(Tail(box)) = Len(box) - 1
          /\ \A i \in 1 .. Len(box) - 1 : Tail(box)[i] = box[i + 1]
      BY <1>3, <3>1, HeadTailProperties
    <3>5. /\ Tail(box) \o w \in Seq(Nat) /\ Len(Tail(box) \o w) = Len(box) - 1 + Len(w)
          /\ \A i \in 1 .. Len(box) - 1 + Len(w) :
                (Tail(box) \o w)[i] = IF i <= Len(box) - 1 THEN Tail(box)[i] ELSE w[i - (Len(box) - 1)]
      BY <1>0, <3>4, ConcatProperties
    <3>6. ASSUME NEW i \in 1 .. Len(box) + Len(w) - 1 PROVE Tail(box \o w)[i] = (Tail(box) \o w)[i]
      <4>1. i \in 1 .. Len(box) - 1 + Len(w) /\ i + 1 \in 1 .. Len(box) + Len(w)
            /\ i + 1 - Len(box) = i - (Len(box) - 1)
        BY <3>1
      <4>2. CASE i <= Len(box) - 1
        <5>1. i \in 1 .. Len(box) - 1 /\ i + 1 <= Len(box)
          BY <3>1, <4>2
        <5> QED BY <3>1, <3>3, <3>4, <3>5, <4>1, <4>2, <5>1
      <4>3. CASE ~(i <= Len(box) - 1)
        <5>1. ~(i + 1 <= Len(box))
          BY <3>1, <4>3
        <5> QED BY <3>1, <3>3, <3>5, <4>1, <4>3, <5>1
      <4> QED BY <4>2, <4>3
    <3>7. Len(Tail(box \o w)) = Len(Tail(box) \o w)
      BY <3>1, <3>3, <3>5
    <3>8. Tail(box \o w) = Tail(box) \o w
      BY <3>3, <3>5, <3>6, <3>7, SeqEqual
    <3> QED BY <3>2, <3>8
  <2> QED BY <1>1, <1>3, <2>1 DEF Told
<1> QED BY <1>2, <1>3

(* Data that is written to a stream. *)
LEMMA FlowWritten ==
  ASSUME NEW k \in Streams, Bytes(k), Bytes(Peer(k)), NEW w \in Seq(Token),
         got'[Peer(k)] = got[Peer(k)], out'[k] = out[k] \o w,
         \/ inbox'[Peer(k)] = inbox[Peer(k)] /\ Hup(k)
         \/ inbox'[Peer(k)] = inbox[Peer(k)] \o w /\ (w # <<>> => ~Lost(Peer(k)))
  PROVE  /\ FlowStep(Peer(k)) /\ inbox'[Peer(k)] \in Seq(Nat)
         /\ inbox[Peer(k)] \in Seq(Token) => inbox'[Peer(k)] \in Seq(Token)
<1> DEFINE s == Peer(k)
           r == <<>>
           left == Told(inbox[s])
<1>0. s \in Streams /\ Peer(s) = k
  BY TwoEnds
<1>1. r \in Seq(Token) /\ left \in Seq(Token) /\ inbox[s] \in Seq(Nat)
  BY DEF Bytes
<1>2. got[s] \o r = got[s] /\ r \o left = left
  BY <1>1, ConcatEmptySeq DEF Bytes
<1>3. Hup(k) => Lost(s)
  BY <1>0 DEF Lost
<1>4. Told(inbox[s] \o w) = left \o w /\ inbox[s] \o w \in Seq(Nat)
      /\ (inbox[s] \in Seq(Token) => inbox[s] \o w \in Seq(Token))
  BY <1>1, ToldMore
<1> HIDE DEF left, r, s
<1>5. \/ Told(inbox'[s]) = left \o w /\ (w # <<>> => ~Lost(s))
      \/ Told(inbox'[s]) = left /\ (w # <<>> => Lost(s))
  BY <1>3, <1>4 DEF left, s
<1>6. FlowStep(s)
  BY <1>0, <1>1, <1>2, <1>5 DEF FlowStep, left, s
<1> QED BY <1>1, <1>4, <1>6 DEF s

(* Who can be written to is there. *)
LEMMA WriterAlive ==
  ASSUME NetIInv, FlowIInv, ~Datagrams, NEW p \in Procs, NEW k \in Streams,
         proc[p].fd[k] \in Fds, Named(proc[p], k) = k, ~Hup(k),
         k[1] = "cli" => k[2] \in connected
  PROVE  ~Lost(Peer(k)) /\ p = Proc(k) /\ k[2] \in connected
<1>1. /\ k \in Socks /\ Peer(k) \in Streams /\ Peer(Peer(k)) = k /\ k[2] \in Clients
      /\ k[1] \in {"srv", "cli"} /\ k = <<k[1], k[2]>>
      /\ k[1] = "srv" => Proc(k) = Server /\ Proc(Peer(k)) = k[2]
      /\ k[1] = "cli" => Proc(k) = k[2] /\ Proc(Peer(k)) = Server
      /\ Proc(Peer(k)) \in Procs
  BY TwoEnds, Names
<1>2. Proc(k) = p
  BY <1>1 DEF NetIInv, Proper
<1>3. \E f \in Fds : proc[p].table[f] = k
  BY DEF Named
<1>4. ~Hup(Peer(k))
  BY <1>1, <1>2, <1>3 DEF Hup
<1>5. k[2] \in connected
  BY <1>1, <1>2, Names DEF NetIInv, Queued
<1>6. proc[Proc(Peer(k))].main # "end"
  <2>1. SUFFICES ASSUME proc[Proc(Peer(k))].main = "end" PROVE FALSE
    OBVIOUS
  <2>2. /\ \A f \in Fds : proc[Proc(Peer(k))].table[f] = None
        /\ proc[Server].main = "end" => backlog = <<>>
    BY <1>1, <2>1 DEF FlowIInv, Ended
  <2>3. Peer(k) # None /\ Range(<<>>) = {}
    BY <1>1, Names DEF Range
  <2> QED BY <1>1, <1>5, <2>1, <2>2, <2>3 DEF Hup
<1> QED BY <1>1, <1>2, <1>4, <1>5, <1>6 DEF Lost

(* Sequences joined in any order. *)
LEMMA AssocSeq ==
  ASSUME NEW a, NEW b, NEW c, IsSeq(a), IsSeq(b), IsSeq(c)
  PROVE  (a \o b) \o c = a \o (b \o c)
BY Concats

(* What adds nothing is nothing. *)
LEMMA JoinSelf ==
  ASSUME NEW a \in Seq(Token), NEW b \in Seq(Token), a = a \o b
  PROVE  b = <<>>
<1>1. Len(a) \in Nat /\ Len(b) \in Nat /\ Len(a \o b) = Len(a) + Len(b)
  OBVIOUS
<1>2. Len(a \o b) = Len(a)
  OBVIOUS
<1> HIDE DEF Token
<1>3. Len(b) = 0
  BY <1>1, <1>2
<1> QED BY <1>3, EmptySeq

(* Nothing joined is nothing. *)
LEMMA JoinEmpty ==
  ASSUME NEW a, NEW b, IsSeq(a), IsSeq(b), a \o b = <<>>
  PROVE  a = <<>> /\ b = <<>>
<1>1. a \in Seq(Range(a)) /\ b \in Seq(Range(b)) /\ Len(a) \in Nat /\ Len(b) \in Nat
  BY DEF IsSeq
<1>2. Len(a \o b) = Len(a) + Len(b) /\ Len(<<>>) = 0
  BY <1>1
<1>3. Len(a) = 0 /\ Len(b) = 0
  BY <1>1, <1>2
<1> QED BY <1>1, <1>3, EmptySeq

\* A task of stream who wrote data to what its number names.
Wrote(p, who, data) ==
  LET k == Named(proc[p], who)
  IN  \/ /\ UNCHANGED <<inbox, out>>
         /\ p = Server /\ Echoes /\ who # Own => k # None /\ Hup(k)
      \/ /\ k # None /\ Hup(k) /\ UNCHANGED inbox
         /\ out' = [out EXCEPT ![k] = @ \o data]
      \/ /\ k # None /\ ~Hup(k)
         /\ out' = [out EXCEPT ![k] = @ \o data]
         /\ inbox' = [inbox EXCEPT ![Peer(k)] = @ \o data]

(* What a task writes is no longer queued. *)
LEMMA PendingPop ==
  ASSUME NetIInv, NEW p \in Procs, NEW op, IsNext(p, op), op \in Writers, Carries(proc[p])
  PROVE  LET t == Head(proc[p].tasks)
         IN  /\ t.data \in Seq(Token) /\ Carries(Pop(p)) /\ IsSeq(Pending(Pop(p), t.who))
             /\ Pending(proc[p], t.who) = t.data \o Pending(Pop(p), t.who)
             /\ \A s \in Socks \ {t.who} : Pending(proc[p], s) = Pending(Pop(p), s)
             /\ \A s : Pending(Pop(p), s) # <<>> => Pending(proc[p], s) # <<>>
             /\ KeepsFrames(proc[p], Pop(p))
<1> DEFINE t == Head(proc[p].tasks)
<1>1. /\ Sane(proc[p]) /\ Sane(Pop(p)) /\ proc[p].tasks # <<>> /\ t.op \in Writers
  BY Takes DEF IsNext
<1>2. Pop(p) = [proc[p] EXCEPT !.tasks = Tail(@)]
  BY DEF Pop
<1>3. /\ Carries(Pop(p)) /\ CarriesTask(t)
      /\ \A s : Pending(proc[p], s) = Writes(t, s) \o Pending(Pop(p), s)
  BY <1>1, <1>2, PendingTail
<1>4. \A s : IsSeq(Pending(Pop(p), s))
  BY <1>1, <1>3, PendingAdd
<1>5. Writes(t, t.who) = t.data /\ \A s : s # t.who => Writes(t, s) = <<>>
  BY <1>1 DEF Writes, Writers
<1>6. \A s : <<>> \o Pending(Pop(p), s) = Pending(Pop(p), s)
  BY <1>4, ConcatNil
<1>7. \A s : s # t.who => Pending(proc[p], s) = Pending(Pop(p), s)
  BY <1>3, <1>5, <1>6
<1>8. ASSUME NEW s, Pending(Pop(p), s) # <<>> PROVE Pending(proc[p], s) # <<>>
  <2>1. IsSeq(Writes(t, s))
    BY <1>3, WritesSeq, Concats
  <2> QED BY <1>3, <1>4, <1>8, <2>1, JoinEmpty
<1>9. KeepsFrames(proc[p], Pop(p))
  <2>1. /\ DOMAIN proc[p] = Fields /\ proc[p].tasks \in Seq(Range(proc[p].tasks))
        /\ Head(proc[p].tasks).op # "frame"
    BY <1>1 DEF Sane, Typed, Writers
  <2>2. Pop(p).slot = proc[p].slot
    BY <1>2, <2>1 DEF Fields
  <2> QED BY <1>1, <1>2, <2>1, <2>2, OncePop DEF KeepsFrames, OneSlot
<1>10. t.data \in Seq(Token)
  BY <1>1, <1>3 DEF CarriesTask
<1> HIDE DEF t
<1> QED BY <1>3, <1>4, <1>5, <1>7, <1>8, <1>9, <1>10 DEF t

(* A task that writes. *)
LEMMA WriteFlow ==
  ASSUME NetIInv, FlowIInv, ~Datagrams, ~Pooled, NEW p \in Procs, NEW op, op \in Writers, IsNext(p, op),
         NEW R, Sane(R), Quiet(Pop(p), R), Becomes(p, R),
         Wrote(p, Head(proc[p].tasks).who, Head(proc[p].tasks).data),
         UNCHANGED <<backlog, connected, got, app, ssl, forwarded>>
  PROVE  FlowIInv'
<1> DEFINE P == proc[p]
           t == Head(P.tasks)
           k == Named(P, t.who)
<1>1. /\ Sane(P) /\ Sane(Pop(p)) /\ t.op = op /\ SoundTask(Pop(p), t) /\ Pop(p).fd = P.fd
      /\ P.blocked = None
  <2>1. P.blocked = None
    BY DEF IsNext, Idle
  <2>2. Sane(P) /\ Sane(Pop(p)) /\ t.op = op /\ SoundTask(Pop(p), t) /\ Pop(p).fd = P.fd
    BY Takes
  <2> QED BY <2>1, <2>2
<1>2. t.who \in Socks /\ P.fd[t.who] \in Fds
  BY <1>1, Held DEF Holds, Writers
<1>3. k \in {t.who, None} /\ (k # None => Named(P, k) = k)
  BY Zenon, <1>1, <1>2 DEF Sane, Owns, Named
<1>4. Carries(P) /\ P.sent \in Nat /\ Shaped /\ Ended /\ PoolKept /\ FramesKept
  BY DEF FlowIInv
<1>5. /\ t.data \in Seq(Token) /\ Carries(Pop(p)) /\ IsSeq(Pending(Pop(p), t.who))
      /\ Pending(P, t.who) = t.data \o Pending(Pop(p), t.who)
      /\ \A s \in Socks \ {t.who} : Pending(P, s) = Pending(Pop(p), s)
      /\ \A s : Pending(Pop(p), s) # <<>> => Pending(P, s) # <<>>
      /\ KeepsFrames(P, Pop(p))
  BY <1>4, PendingPop
<1>6. PICK Q : Quiet(R, Q) /\ proc' = [proc EXCEPT ![p] = Q]
  BY BecomesQuiet
<1>7. Quiet(Pop(p), Q)
  BY <1>6, QuietOn
<1>8. /\ KeepsFrames(Pop(p), Q) /\ SameControl(Pop(p), Q) /\ Carries(Q)
      /\ \A f \in Fds : Q.table[f] \in {P.table[f], None}
      /\ \A r \in Socks : Pending(Q, r) = Pending(Pop(p), r)
  <2>1. Pop(p).table = P.table
    BY <1>1 DEF Pop, Sane, Typed, Fields
  <2> QED BY <1>5, <1>7, <2>1 DEF Quiet
<1>9. /\ Q.main = P.main /\ Q.promise = P.promise /\ Q.blocked = None /\ Q.sent = P.sent
  <2>1. /\ Pop(p).main = P.main /\ Pop(p).promise = P.promise /\ Pop(p).blocked = P.blocked
        /\ Pop(p).sent = P.sent
    BY <1>1 DEF Pop, Sane, Typed, Fields
  <2> QED BY <1>1, <1>8, <2>1 DEF SameControl
<1>10. proc'[p] = Q /\ \A q \in Procs : q # p => proc'[q] = proc[q]
  BY <1>6 DEF NetIInv
<1>a. UNCHANGED <<app, backlog, connected>> /\ (P.main = "end" => Q.main = "end")
  BY <1>9
<1>11. Onward
  BY <1>6, <1>8, <1>a, OnwardCalls
<1>12. Shaped'
  BY ZenonT(40), <1>4 DEF Wrote, Shaped
<1>13. k[1] = "cli" /\ k \in Streams /\ t.data # <<>> => k[2] \in connected
  <2>1. SUFFICES ASSUME k[1] = "cli", k \in Streams, t.data # <<>> PROVE k[2] \in connected
    OBVIOUS
  <2>2. k[2] \in Clients /\ k = <<"cli", k[2]>> /\ Proc(k) = k[2] /\ k # None /\ Proc(k) = p
    <3>1. k[2] \in Clients /\ k = <<"cli", k[2]>> /\ Proc(k) = k[2] /\ k # None
      BY <2>1, TwoEnds, Names
    <3>2. Proc(k) = p
      BY <1>2, <1>3, <3>1 DEF NetIInv, Proper
    <3> QED BY <3>1, <3>2
  <2>3. Pending(P, t.who) # <<>>
    <3>1. IsSeq(t.data)
      BY <1>5, Concats
    <3> QED BY <1>5, <2>1, <3>1, JoinEmpty
  <2>4. Behaves(k[2])
    BY <2>2, SettledParts DEF FlowIInv
  <2> QED BY <1>3, <2>2, <2>3, <2>4 DEF Behaves
<1>14. k \in Streams /\ ~Hup(k) /\ t.data # <<>> => ~Lost(Peer(k))
  BY <1>2, <1>3, <1>13, Names, WriterAlive
<1>15. ASSUME NEW s \in Streams PROVE FlowStep(s) /\ Plain(s)'
  <2>1. Bytes(s) /\ Bytes(Peer(s)) /\ s \in Socks /\ Peer(s) \in Socks /\ Peer(s) \in Streams
        /\ Peer(Peer(s)) = s
    BY TwoEnds, Names DEF FlowIInv
  <2>2. CASE Peer(s) = k /\ out' = [out EXCEPT ![k] = @ \o t.data]
    <3>1. k \in Streams /\ s = Peer(k) /\ out'[k] = out[k] \o t.data /\ got'[s] = got[s]
      BY ZenonT(40), <1>4, <2>1, <2>2 DEF Shaped
    <3>2. \/ inbox'[s] = inbox[s] /\ Hup(k)
          \/ inbox'[s] = inbox[s] \o t.data /\ ~Hup(k)
      <4>1. k # None
        BY Zenon, <3>1, Names
      <4>2. k # None /\ Hup(k) /\ UNCHANGED inbox => inbox'[s] = inbox[s] /\ Hup(k)
        OBVIOUS
      <4>3. inbox' = [inbox EXCEPT ![Peer(k)] = @ \o t.data] => inbox'[s] = inbox[s] \o t.data
        BY Zenon, <1>4, <2>1, <3>1 DEF Shaped
      <4>4. CASE UNCHANGED <<inbox, out>> /\ ~Hup(k)
        <5>1. out[k] \in Seq(Token)
          BY ZenonT(40), <2>1, <2>2 DEF Bytes
        <5>2. out[k] = out[k] \o t.data
          BY ZenonT(40), <3>1, <4>4
        <5>3. t.data = <<>>
          BY ZenonT(40), <1>5, <5>1, <5>2, JoinSelf
        <5>4. inbox[s] \o t.data = inbox[s]
          BY ZenonT(40), <2>1, <5>3, ConcatEmptySeq DEF Bytes
        <5> QED BY ZenonT(40), <4>4, <5>4
      <4> QED BY ZenonT(40), <4>1, <4>2, <4>3, <4>4 DEF Wrote
    <3>3. /\ FlowStep(s) /\ inbox'[s] \in Seq(Nat)
          /\ inbox[s] \in Seq(Token) => inbox'[s] \in Seq(Token)
      <4>1. /\ Bytes(k) /\ Bytes(Peer(k)) /\ got'[Peer(k)] = got[Peer(k)]
            /\ \/ inbox'[Peer(k)] = inbox[Peer(k)] /\ Hup(k)
               \/ inbox'[Peer(k)] = inbox[Peer(k)] \o t.data /\ (t.data # <<>> => ~Lost(Peer(k)))
        BY ZenonT(40), <1>14, <2>1, <2>2, <3>1, <3>2
      <4>2. /\ FlowStep(Peer(k)) /\ inbox'[Peer(k)] \in Seq(Nat)
            /\ inbox[Peer(k)] \in Seq(Token) => inbox'[Peer(k)] \in Seq(Token)
        BY ZenonT(40), <1>5, <3>1, <4>1, FlowWritten
      <4> QED BY Zenon, <3>1, <4>2
    <3>4. Plain(s)'
      BY <2>1, <3>3, AppsSame DEF Plain, Bytes
    <3> QED BY <3>3, <3>4
  <2>3. CASE ~(Peer(s) = k /\ out' = [out EXCEPT ![k] = @ \o t.data])
    <3>0. k # None /\ Peer(k) = s => Peer(s) = k
      <4>1. CASE k \in Streams
        BY <4>1, TwoEnds
      <4>2. CASE k = Own
        <5>1. Peer(k)[2] = Server /\ s[2] \in Clients
          <6>1. s[2] \in Clients
            BY TwoEnds
          <6>2. k[2] = Server
            BY <4>2 DEF Own
          <6> QED BY <6>1, <6>2 DEF Peer
        <5> QED BY <5>1, NamesAssumption
      <4> QED BY <1>2, <1>3, <4>1, <4>2 DEF Socks
    <3>1. inbox'[s] = inbox[s] /\ out'[Peer(s)] = out[Peer(s)]
      BY Zenon, <1>4, <2>1, <2>3, <3>0 DEF Wrote, Shaped
    <3>2. Plain(s)'
      BY <2>1, <3>1, AppsSame DEF Plain, Bytes
    <3> QED BY <2>1, <3>1, <3>2, FlowStill
  <2> QED BY <2>2, <2>3
<1>16. p \in Clients => Behaves(p)'
  <2>1. SUFFICES ASSUME p \in Clients PROVE Behaves(p)'
    OBVIOUS
  <2>2. Behaves(p) /\ <<"cli", p>> \in Socks
    BY <2>1, SettledParts DEF FlowIInv, Socks, Streams
  <2>3. Pending(proc[p], <<"cli", p>>)' = Pending(Q, <<"cli", p>>)
    BY <1>10 DEF Pending, Writes
  <2>4. Pending(Q, <<"cli", p>>) # <<>> => Pending(P, <<"cli", p>>) # <<>>
    BY <1>5, <1>8, <2>2
  <2> QED BY <1>9, <1>10, <2>2, <2>3, <2>4, AppsSame DEF Behaves
<1>17. ASSUME NEW c \in Clients PROVE Unwritten(c)' /\ Open1(c)'
  <2> DEFINE s == <<"srv", c>>
             l == <<"cli", c>>
  <2>1. /\ Unwritten(c) /\ Open1(c) /\ s \in Socks /\ l \in Socks /\ s \in Streams
        /\ Proc(s) = Server /\ Peer(s) = l /\ s # None
    BY SettledParts, Names DEF FlowIInv, Socks, Streams, Proc, Peer
  <2>2. proc'[Server].blocked = proc[Server].blocked
    BY <1>1, <1>9, <1>10, Names
  <2>3. CASE k = s
    <3>1. p = Server
      BY <1>2, <1>3, <2>1, <2>3 DEF NetIInv, Proper
    <3>2. c \in connected /\ c \notin Range(backlog)
      BY <1>2, <1>3, <2>1, <2>3, <3>1, Names DEF NetIInv, Queued
    <3> QED BY <1>1, <2>1, <2>2, <3>1, <3>2 DEF Unwritten, Open1
  <2>4. CASE k # s
    <3>1. k # None => Peer(k) # l
      <4>1. k # None => k \in Socks
        BY <1>2, <1>3
      <4>2. CASE k \in Streams
        BY <2>1, <2>4, <4>2, TwoEnds
      <4>3. CASE k = Own
        <5>1. Peer(k)[2] = Server
          BY <4>3 DEF Peer, Own
        <5> QED BY <5>1, NamesAssumption
      <4> QED BY <4>1, <4>2, <4>3 DEF Socks
    <3>2. inbox'[l] = inbox[l] /\ out'[s] = out[s]
      BY Zenon, <1>4, <2>1, <2>4, <3>1 DEF Wrote, Shaped
    <3> QED BY <2>1, <2>2, <3>2 DEF Unwritten, Open1
  <2> QED BY <2>3, <2>4
<1>18. ASSUME NEW c \in Clients PROVE EchoKept(c)'
  <2> DEFINE s == <<"srv", c>>
  <2>1. EchoKept(c) /\ s \in Socks /\ s \in Streams /\ Proc(s) = Server /\ Bytes(s) /\ s # Own
    BY Names DEF FlowIInv, Socks, Streams, Proc
  <2>2. CASE p = Server /\ t.who = s
    <3>1. SUFFICES ASSUME Echoes, proc[Server].main # "end", ~Hup(s)
                   PROVE  got'[s] = out'[s] \o Pending(proc'[Server], s)
      <4>1. Hup(s) => Hup(s)'
        BY <1>11, <2>1, HupStays
      <4>2. Pending(proc[Server], s)' = Pending(proc'[Server], s)
        BY DEF Pending, Writes
      <4> QED BY <1>9, <1>10, <2>2, <3>1, <4>1, <4>2, AppsSame DEF EchoKept
    <3>2. got[s] = out[s] \o (t.data \o Pending(Pop(p), s))
      BY ZenonT(40), <1>5, <2>1, <2>2, <3>1 DEF EchoKept
    <3>3. k = s /\ out'[s] = out[s] \o t.data
      BY ZenonT(40), <1>3, <1>4, <2>1, <2>2, <3>1 DEF Wrote, Shaped
    <3>4. IsSeq(out[s]) /\ IsSeq(t.data) /\ IsSeq(Pending(Pop(p), s))
      BY <1>5, <2>1, <2>2, Concats DEF Bytes
    <3>5. (out[s] \o t.data) \o Pending(Pop(p), s) = out[s] \o (t.data \o Pending(Pop(p), s))
      <4>1. PICK a, b, d : a = out[s] /\ b = t.data /\ d = Pending(Pop(p), s)
        OBVIOUS
      <4>2. IsSeq(a) /\ IsSeq(b) /\ IsSeq(d)
        BY <3>4, <4>1
      <4>3. (a \o b) \o d = a \o (b \o d)
        BY <4>2, AssocSeq
      <4> QED BY Zenon, <4>1, <4>3
    <3> QED BY Zenon, <1>8, <1>10, <2>1, <2>2, <3>2, <3>3, <3>5
  <2>3. CASE ~(p = Server /\ t.who = s)
    <3>1. k # s
      BY <1>2, <1>3, <2>1, <2>3, Names DEF NetIInv, Proper
    <3>2. out'[s] = out[s] /\ got'[s] = got[s]
      BY ZenonT(40), <1>4, <2>1, <3>1 DEF Wrote, Shaped
    <3>3. Pending(proc'[Server], s) = Pending(proc[Server], s)
      BY ZenonT(40), <1>5, <1>8, <1>10, <2>1, <2>3, Names
    <3> QED BY <1>11, <2>1, <3>2, <3>3, EchoSame
  <2> QED BY <2>2, <2>3
<1>19. FramesKept'
  <2>1. KeepsFrames(proc[Server], proc'[Server])
    BY <1>5, <1>8, <1>10, Names DEF KeepsFrames
  <2>2. proc[Server].main = "end" => proc'[Server].main = "end"
    BY <1>9, <1>10, Names
  <2> QED BY <1>4, <2>1, <2>2, FramesSame
<1>20. PoolKept'
  BY <1>4, <1>6, PoolOther
<1>21. /\ Carries(Q) /\ Q.sent \in Nat
       /\ Q.main = "end" => \A f \in Fds : Q.table[f] = None
       /\ proc'[Server].main = "end" => backlog' = <<>>
  BY <1>4, <1>8, <1>9, <1>10, Names DEF Ended
<1> QED BY <1>6, <1>11, <1>12, <1>15, <1>16, <1>17, <1>18, <1>19, <1>20, <1>21, Gather
=============================================================================
