---------------------------- MODULE NetFlowProofs ----------------------------
(***************************************************************************)
(* Proofs that what the streams do (writing, reading, connecting, accepting *)
(* and closing) keeps the data in order.                                    *)
(***************************************************************************)
EXTENDS NetDataProofs

(* The modules send to the same sockets. *)
LEMMA SendNet ==
  /\ \A P, s : Sock!Named(P, s) = Named(P, s) /\ SSL!Named(P, s) = Named(P, s)
  /\ \A s : (Sock!Hup(s) <=> Hup(s)) /\ (SSL!Hup(s) <=> Hup(s)) /\ (Pool!Hup(s) <=> Hup(s))
  /\ \A s : Sock!Peer(s) = Peer(s) /\ SSL!Peer(s) = Peer(s) /\ Pool!Peer(s) = Peer(s)
  /\ Sock!Streams = Streams
<1>1. \A P, s : Sock!Named(P, s) = Named(P, s) /\ SSL!Named(P, s) = Named(P, s)
  BY DEF Sock!Named, SSL!Named, Named
<1>2. \A s : Sock!Peer(s) = Peer(s) /\ SSL!Peer(s) = Peer(s) /\ Pool!Peer(s) = Peer(s)
  BY DEF Sock!Peer, SSL!Peer, Pool!Peer, Peer
<1>3. ASSUME NEW s PROVE Sock!Hup(s) <=> Hup(s)
  BY DEF Sock!Hup, Hup, Sock!Range, Range, Sock!Peer, Peer, Sock!Proc, Proc, Sock!Server, Server
<1>4. ASSUME NEW s PROVE SSL!Hup(s) <=> Hup(s)
  BY DEF SSL!Hup, Hup, SSL!Range, Range, SSL!Peer, Peer, SSL!Proc, Proc, SSL!Server, Server
<1>5. ASSUME NEW s PROVE Pool!Hup(s) <=> Hup(s)
  BY DEF Pool!Hup, Hup, Pool!Range, Range, Pool!Peer, Peer, Pool!Proc, Proc, Pool!Server, Server
<1>6. Sock!Streams = Streams
  BY DEF Sock!Streams, Streams
<1> QED BY <1>1, <1>2, <1>3, <1>4, <1>5, <1>6

(* The modules' send. *)
LEMMA SockSend == ASSUME NEW k, NEW data, NEW ret, Sock!send(k, data, ret) PROVE send(k, data, ret)
BY SendNet DEF Sock!send, send

(* The modules' send. *)
LEMMA SSLSend == ASSUME NEW k, NEW data, NEW ret, SSL!send(k, data, ret) PROVE send(k, data, ret)
BY SendNet DEF SSL!send, send

(* What ::send did. *)
LEMMA SendWrote ==
  ASSUME NetIInv, FlowIInv, ~Datagrams, ~Pooled, NEW p \in Procs, NEW who \in Socks,
         proc[p].fd[who] \in Fds, NEW data, NEW ret, send(Named(proc[p], who), data, ret)
  PROVE  Wrote(p, who, data)
<1> DEFINE k == Named(proc[p], who)
<1>1. out = [s \in Socks |-> out[s]] /\ inbox = [s \in Socks |-> inbox[s]]
  BY DEF FlowIInv, Shaped
<1>2. CASE k = None
  <2>1. UNCHANGED <<inbox, out>>
    BY <1>2 DEF send
  <2>2. SUFFICES ASSUME p = Server, Echoes PROVE FALSE
    BY <2>1 DEF Wrote
  <2>3. who \notin MayClose(p)
    BY <2>2 DEF MayClose, Echoes, Pooled
  <2>4. Keeps(proc[p], who)
    BY <2>3 DEF NetIInv, Proper
  <2> QED BY <1>2, <2>4, Names DEF Keeps, Named
<1>3. CASE k # None /\ Hup(k)
  <2>1. out' = [out EXCEPT ![k] = IF ret = -1 THEN @ ELSE @ \o data] /\ UNCHANGED inbox
    BY <1>3 DEF send
  <2>2. CASE ret = -1
    <3>1. out' = out
      BY <1>1, <2>1, <2>2
    <3> QED BY <1>3, <2>1, <3>1 DEF Wrote
  <2>3. CASE ret # -1
    <3>1. out' = [out EXCEPT ![k] = @ \o data]
      BY <2>1, <2>3
    <3> QED BY <1>3, <2>1, <3>1 DEF Wrote
  <2> QED BY <2>2, <2>3
<1>4. CASE k # None /\ ~Hup(k)
  BY <1>4 DEF send, Wrote
<1> QED BY <1>2, <1>3, <1>4

(* A write reports back. *)
LEMMA AfterWriteSane ==
  ASSUME NetIInv, NEW p \in Procs, NEW op \in Writers, IsNext(p, op), NEW ok
  PROVE  Sane(AfterWrite(p, ok)) /\ Quiet(Pop(p), AfterWrite(p, ok))
<1> DEFINE t == Head(proc[p].tasks)
<1>1. Sane(Pop(p)) /\ SoundTask(Pop(p), t) /\ t.op \in Holds /\ Pop(p).fd = proc[p].fd
  <2>1. op \in Holds
    BY DEF Writers, Holds
  <2> QED BY <2>1, Takes
<1>2. t.who \in Socks /\ Pop(p).fd[t.who] \in Fds
  BY <1>1, Held
<1>3. t.who[1] = "cli" => t.who \in MayClose(p)
  BY <1>1, <1>2, HomeClose
<1>4. PICK ret : AfterWrite(p, ok) = OnWrite(Pop(p), t.who, ret, t.data)
  BY DEF AfterWrite
<1>5. Goes(Pop(p), OnWrite(Pop(p), t.who, ret, t.data), MayClose(p))
  BY <1>1, <1>2, <1>3, OnWriteGoes
<1> QED BY <1>1, <1>4, <1>5, QuietOnWrite DEF Goes

(* SockStream's send. *)
LEMMA SockSends ==
  ASSUME NetIInv, FlowIInv, ~Datagrams, ~Pooled, NEW p \in Procs,
         Sock!SendTask(p, AfterWrite(p, TRUE), AfterWrite(p, FALSE)), UNCHANGED rest
  PROVE  FlowIInv'
<1> DEFINE t == Head(proc[p].tasks)
<1>0. UNCHANGED <<backlog, connected, got, app, ssl, forwarded>>
  BY DEF Sock!SendTask, rest
<1>1. IsNext(p, "send") /\ "send" \in Writers
  BY SockNet DEF Sock!SendTask, Writers
<1>2. Sane(proc[p]) /\ t.who \in Socks /\ proc[p].fd[t.who] \in Fds
  <2>1. Sane(proc[p]) /\ SoundTask(Pop(p), t) /\ t.op \in Holds /\ Pop(p).fd = proc[p].fd
    BY <1>1, Takes DEF Holds
  <2> QED BY <2>1, Held
<1>3. valid(proc[p], t.who)
  BY <1>2, AtFd
<1>4. PICK ret : /\ Sock!send(Named(proc[p], t.who), t.data, ret)
                 /\ \E ok \in BOOLEAN : Sock!Becomes(p, AfterWrite(p, ok))
  BY <1>3, SockNet, SendNet DEF Sock!SendTask
<1>5. Wrote(p, t.who, t.data)
  BY <1>2, <1>4, SockSend, SendWrote
<1>6. PICK ok \in BOOLEAN : Becomes(p, AfterWrite(p, ok))
  BY <1>4, SockBecomes
<1>7. Sane(AfterWrite(p, ok)) /\ Quiet(Pop(p), AfterWrite(p, ok))
  BY <1>1, AfterWriteSane
<1> QED BY <1>0, <1>1, <1>5, <1>6, <1>7, WriteFlow

(* SSLStream's send. *)
LEMMA SSLSends ==
  ASSUME NetIInv, FlowIInv, app = "ssl", NEW p \in Procs,
         SSL!SendTask(p, AfterWrite(p, TRUE), AfterWrite(p, FALSE)), UNCHANGED <<app, forwarded>>
  PROVE  FlowIInv'
<1> DEFINE t == Head(proc[p].tasks)
<1>0. UNCHANGED <<backlog, connected, got, app, ssl, forwarded>> /\ ~Datagrams /\ ~Pooled
  BY DEF SSL!SendTask, Datagrams, Pooled
<1>1. IsNext(p, "ssl_send") /\ "ssl_send" \in Writers
  BY SSLNet DEF SSL!SendTask, Writers
<1>2. Sane(proc[p]) /\ t.who \in Socks /\ proc[p].fd[t.who] \in Fds
  <2>1. Sane(proc[p]) /\ SoundTask(Pop(p), t) /\ t.op \in Holds /\ Pop(p).fd = proc[p].fd
    BY <1>1, Takes DEF Holds
  <2> QED BY <2>1, Held
<1>3. PICK ret : /\ SSL!real_write(Named(proc[p], t.who), t.who, t.data, ret)
                 /\ \E ok \in BOOLEAN : SSL!Becomes(p, AfterWrite(p, ok))
  BY SSLNet, SendNet DEF SSL!SendTask
<1>4. Wrote(p, t.who, t.data)
  <2>1. CASE ssl[t.who] = "shut"
    <3>1. UNCHANGED <<inbox, out>>
      BY <1>3, <2>1 DEF SSL!real_write
    <3>2. ASSUME p = Server, t.who # Own PROVE FALSE
      <4>1. t.who \in Streams /\ Proc(t.who) = Server
        BY <1>2, <3>2 DEF NetIInv, Proper, Socks
      <4>2. t.who = <<"srv", t.who[2]>> /\ t.who[2] \in Clients
        BY <4>1, TwoEnds, NamesAssumption DEF Proc
      <4> QED BY <1>0, <2>1, <4>2, SettledParts DEF FlowIInv, Open1
    <3> QED BY <3>1, <3>2 DEF Wrote
  <2>2. CASE ssl[t.who] # "shut"
    <3>1. SSL!send(Named(proc[p], t.who), t.data, ret)
      BY <1>3, <2>2 DEF SSL!real_write
    <3> QED BY <1>0, <1>2, <3>1, SSLSend, SendWrote
  <2> QED BY <2>1, <2>2
<1>5. PICK ok \in BOOLEAN : Becomes(p, AfterWrite(p, ok))
  BY <1>3, SSLBecomes
<1>6. Sane(AfterWrite(p, ok)) /\ Quiet(Pop(p), AfterWrite(p, ok))
  BY <1>1, AfterWriteSane
<1> QED BY <1>0, <1>1, <1>4, <1>5, <1>6, WriteFlow

\* data is read from s, or lost with the connection, and box is left.
Took(s, data, box) ==
  /\ box \in Seq(Nat) /\ Told(box) \in Seq(Token)
  /\ inbox[s] \in Seq(Token) => box \in Seq(Token)
  /\ inbox[s] = <<>> => box = <<>> /\ data = <<>>
  /\ \/ Told(inbox[s]) = data \o Told(box)
     \/ Told(box) = <<>> /\ data = <<>> /\ Hup(s)
  /\ inbox' = [inbox EXCEPT ![s] = box]
  /\ got' = [got EXCEPT ![s] = @ \o data]

(* What is taken is what came first. *)
LEMMA FlowTaken ==
  ASSUME NetIInv, FlowIInv, ~Datagrams, Onward, NEW s \in Streams, NEW data \in Seq(Token), NEW box,
         Took(s, data, box), out' = out
  PROVE  FlowStep(s) /\ Plain(s)'
<1> DEFINE w == <<>>
           a == Told(inbox[s])
           n == Told(box)
<1>1. Bytes(s) /\ Bytes(Peer(s)) /\ s \in Socks /\ Shaped
  BY TwoEnds, Names DEF FlowIInv
<1>2. inbox'[s] = box /\ got'[s] = got[s] \o data /\ app' = app
  BY <1>1 DEF Took, Shaped, Onward
<1>3. w \in Seq(Token) /\ a \in Seq(Token) /\ n \in Seq(Token) /\ <<>> \in Seq(Token)
  BY <1>1 DEF Bytes, Took
<1>4. out[Peer(s)] \o w = out[Peer(s)]
  BY <1>1, ConcatEmptySeq DEF Bytes
<1>5. Plain(s)'
  BY <1>1, <1>2, AppsSame DEF Plain, Bytes, Took
<1>6. CASE a = data \o n
  <2>1. n \o w = n /\ w = <<>>
    BY <1>3, ConcatEmptySeq
  <2> HIDE DEF w
  <2> QED BY <1>2, <1>3, <1>4, <1>5, <1>6, <2>1 DEF FlowStep
<1>7. CASE n = <<>> /\ data = <<>> /\ Hup(s)
  <2>1. Lost(s)'
    BY <1>7, LostStays DEF Lost
  <2>2. a = data \o a /\ w = <<>>
    BY <1>3, <1>7, ConcatEmptySeq
  <2> HIDE DEF a, w
  <2>3. a = Told(inbox[s])
    BY DEF a
  <2> QED BY <1>2, <1>3, <1>4, <1>5, <1>7, <2>1, <2>2, <2>3 DEF FlowStep
<1> QED BY <1>6, <1>7 DEF Took

(* A stream is read, and what is queued for it then is w. *)
LEMMA ReadFlow ==
  ASSUME NetIInv, FlowIInv, ~Datagrams, ~Pooled, NEW p \in Procs, NEW s \in Streams, Proc(s) = p,
         NEW Q, proc' = [proc EXCEPT ![p] = Q], NEW w \in Seq(Token), Tells(proc[p], Q, s, w),
         NEW data \in Seq(Token), NEW box, Took(s, data, box),
         Echoes /\ s[1] # "cli" => w = data, data = <<>> => w = <<>>,
         UNCHANGED <<backlog, connected, out, app, ssl, forwarded>>
  PROVE  FlowIInv'
<1> DEFINE P == proc[p]
<1>0. proc'[p] = Q /\ \A q \in Procs : q # p => proc'[q] = proc[q]
  BY DEF NetIInv
<1>1. Carries(P) /\ P.sent \in Nat /\ Shaped /\ Ended /\ PoolKept /\ FramesKept
  BY DEF FlowIInv
<1>2. /\ KeepsFrames(P, Q) /\ SameControl(P, Q) /\ Carries(Q)
      /\ \A f \in Fds : Q.table[f] \in {P.table[f], None}
      /\ \A r \in Socks : Pending(Q, r) = IF r = s THEN Pending(P, r) \o w ELSE Pending(P, r)
  BY <1>1 DEF Tells
<1>3. /\ Q.main = P.main /\ Q.promise = P.promise /\ Q.sent = P.sent /\ Q.blocked = P.blocked
      /\ UNCHANGED <<app, backlog, connected>>
  BY <1>2 DEF SameControl
<1>4. Onward
  BY ZenonT(40), <1>2, <1>3, OnwardCalls
<1>5. Shaped'
  BY <1>1 DEF Took, Shaped
<1>6. \A r \in Socks \ {s} : inbox'[r] = inbox[r] /\ got'[r] = got[r]
  BY <1>1 DEF Took, Shaped
<1>7. s \in Socks /\ (s[1] = "cli" => s = <<"cli", s[2]>>) /\ inbox'[s] = box /\ got'[s] = got[s] \o data
  BY <1>1, TwoEnds, Names DEF Took, Shaped
<1>8. p \in Clients => Behaves(p)'
  <2>1. SUFFICES ASSUME p \in Clients PROVE Behaves(p)'
    OBVIOUS
  <2> DEFINE l == <<"cli", p>>
  <2>2. Behaves(p) /\ l \in Socks /\ Unwritten(p)
    BY <2>1, SettledParts DEF FlowIInv, Socks, Streams
  <2>3. Pending(proc[p], l)' = Pending(Q, l)
    BY <1>0 DEF Pending, Writes
  <2>4. s = l
    BY <2>1, NamesAssumption, TwoEnds DEF Proc
  <2>5. p \notin connected => Pending(Q, l) = <<>>
    <3>1. SUFFICES ASSUME p \notin connected PROVE Pending(Q, l) = <<>>
      OBVIOUS
    <3>2. w = <<>> /\ Pending(P, l) = <<>>
      BY <2>2, <2>4, <3>1 DEF Unwritten, Took, Behaves
    <3>3. Pending(Q, l) = Pending(P, l) \o w
      BY <1>2, <2>2, <2>4
    <3>4. <<>> \o <<>> = <<>>
      BY ConcatEmptySeq
    <3> QED BY <3>2, <3>3, <3>4
  <2> QED BY <1>0, <1>3, <2>2, <2>3, <2>5, AppsSame DEF Behaves
<1>9. ASSUME NEW r \in Streams PROVE FlowStep(r) /\ Plain(r)'
  <2>1. CASE r = s
    BY <1>4, <2>1, FlowTaken
  <2>2. CASE r # s
    <3>1. Bytes(r) /\ Bytes(Peer(r)) /\ r \in Socks
      BY TwoEnds, Names DEF FlowIInv
    <3>2. inbox'[r] = inbox[r] /\ got'[r] = got[r] /\ out'[Peer(r)] = out[Peer(r)]
      BY <1>6, <2>2, <3>1
    <3>3. Plain(r)'
      BY <1>3, <3>1, <3>2, AppsSame DEF Plain, Bytes
    <3> QED BY <3>1, <3>2, <3>3, FlowStill
  <2> QED BY <2>1, <2>2
<1>10. ASSUME NEW c \in Clients PROVE Unwritten(c)' /\ Open1(c)'
  <2>1. Unwritten(c) /\ Open1(c) /\ <<"cli", c>> \in Socks
    BY SettledParts DEF FlowIInv, Socks, Streams
  <2>2. proc'[Server].blocked = proc[Server].blocked
    BY <1>0, <1>3, Names
  <2>3. inbox[<<"cli", c>>] = <<>> => inbox'[<<"cli", c>>] = <<>>
    BY <1>6, <1>7, <2>1 DEF Took
  <2> QED BY <2>1, <2>2, <2>3 DEF Unwritten, Open1
<1>11. ASSUME NEW c \in Clients PROVE EchoKept(c)'
  <2> DEFINE l == <<"srv", c>>
  <2>1. EchoKept(c) /\ l \in Socks /\ l \in Streams /\ Proc(l) = Server /\ Bytes(l)
    BY Names DEF FlowIInv, Socks, Streams, Proc
  <2>2. CASE s = l
    <3>1. SUFFICES ASSUME Echoes, proc[Server].main # "end", ~Hup(l)
                   PROVE  got'[l] = out'[l] \o Pending(proc'[Server], l)
      <4>1. Hup(l) => Hup(l)'
        BY <1>4, <2>1, HupStays
      <4>2. Pending(proc[Server], l)' = Pending(proc'[Server], l)
        BY Zenon DEF Pending, Writes
      <4> QED BY <1>0, <1>3, <2>1, <2>2, <3>1, <4>1, <4>2, AppsSame DEF EchoKept
    <3>2. p = Server /\ got[l] = out[l] \o Pending(P, l) /\ w = data
      BY <2>1, <2>2, <3>1 DEF EchoKept
    <3>3. Pending(proc'[Server], l) = Pending(P, l) \o data /\ got'[l] = got[l] \o data
      BY <1>0, <1>2, <1>7, <2>1, <2>2, <3>2
    <3>4. PICK a, b : a = out[l] /\ b = Pending(P, l)
      OBVIOUS
    <3>5. IsSeq(a) /\ IsSeq(b) /\ IsSeq(data)
      <4>1. IsSeq(out[l]) /\ IsSeq(data)
        BY <2>1, Concats DEF Bytes
      <4>2. Sane(P) /\ CarriesTask(Work)
        BY SaneProc DEF CarriesTask, Work, Task, Writers
      <4>3. IsSeq(Pending(P, l))
        BY <1>1, <4>2, PendingAdd
      <4> QED BY <3>4, <4>1, <4>3
    <3>6. (a \o b) \o data = a \o (b \o data)
      BY <3>5, AssocSeq
    <3> QED BY <3>2, <3>3, <3>4, <3>6
  <2>3. CASE s # l
    <3>1. Pending(proc'[Server], l) = Pending(proc[Server], l)
      BY <1>0, <1>2, <2>1, <2>3, Names
    <3> QED BY <1>4, <1>6, <2>1, <2>3, <3>1, EchoSame
  <2> QED BY <2>2, <2>3
<1>12. FramesKept'
  <2>1. KeepsFrames(proc[Server], proc'[Server])
    BY <1>0, <1>2, Names DEF KeepsFrames
  <2> QED BY <1>0, <1>1, <1>3, <2>1, Names, FramesSame
<1>13. PoolKept'
  BY <1>1, PoolOther
<1>14. /\ Q.sent \in Nat
       /\ Q.main = "end" => \A f \in Fds : Q.table[f] = None
       /\ proc'[Server].main = "end" => backlog' = <<>>
  BY <1>0, <1>1, <1>2, <1>3, Names DEF Ended
<1> QED BY <1>2, <1>4, <1>5, <1>8, <1>9, <1>10, <1>11, <1>12, <1>13, <1>14, Gather

(* The ends of a sequence, as parts of it. *)
LEMMA HeadTailParts ==
  ASSUME NEW S, NEW q \in Seq(S), q # <<>>
  PROVE  /\ Head(q) = q[1] /\ Tail(q) = SubSeq(q, 2, Len(q))
         /\ Len(q) > 1 => Head(Tail(q)) = q[2] /\ Tail(Tail(q)) = SubSeq(q, 3, Len(q))
<1>1. Head(q) = q[1] /\ Tail(q) = SubSeq(q, 2, Len(q)) /\ Len(q) \in Nat
  BY TailIsSubSeq
<1>2. ASSUME Len(q) > 1
      PROVE  Head(SubSeq(q, 2, Len(q))) = q[2] /\ Tail(SubSeq(q, 2, Len(q))) = SubSeq(q, 2 + 1, Len(q))
  BY <1>1, <1>2, HeadTailOfSubSeq
<1> QED BY <1>1, <1>2

(* The least of a set. *)
LEMMA LeastIs ==
  ASSUME NEW S, NEW a \in S, a \in Nat, \A i \in S : i \in Nat /\ a =< i
  PROVE  Min(S) = a /\ S # {}
<1>1. \A m \in S : (\A i \in S : m =< i) => m = a
  <2>1. SUFFICES ASSUME NEW m \in S, \A i \in S : m =< i PROVE m = a
    OBVIOUS
  <2>2. m =< a /\ a =< m /\ m \in Nat
    BY <2>1
  <2> QED BY <2>2
<1> QED BY <1>1 DEF Min

(* A record is the first of what a receive buffer tells. *)
LEMMA RecordTold ==
  ASSUME NEW box \in Seq(Nat), Told(box) \in Seq(Token), Told(box) # <<>>
  PROVE  Record(box) = <<Head(Told(box))>> /\ Rest(box) = Tail(Told(box))
<1> DEFINE n == Len(box)
<1>1. CASE box[1] # Ticket
  <2>1. Told(box) = box /\ n \in Nat /\ n > 0
    BY <1>1 DEF Told
  <2>2. DataIn(box) = 1 .. n
    BY <2>1 DEF DataIn, Token, Ticket
  <2>3. Min(DataIn(box)) = 1 /\ DataIn(box) # {}
    <3>1. 1 \in DataIn(box) /\ \A i \in DataIn(box) : i \in Nat /\ 1 =< i
      BY <2>1, <2>2
    <3> QED BY <3>1, LeastIs
  <2>4. Record(box) = <<box[1]>> /\ Rest(box) = SubSeq(box, 2, n)
    BY <2>3 DEF Record, Rest
  <2>5. Head(box) = box[1] /\ Tail(box) = SubSeq(box, 2, n)
    BY <2>1, HeadTailParts
  <2> QED BY <2>1, <2>4, <2>5
<1>2. CASE box[1] = Ticket
  <2>1. box # <<>> /\ Told(box) = Tail(box) /\ n \in Nat /\ n > 1
    BY <1>2 DEF Told
  <2>2. DataIn(box) = 2 .. n
    <3>1. \A i \in 2 .. n : box[i] = Tail(box)[i - 1] /\ box[i] \in Token
      BY <2>1
    <3> QED BY <1>2, <2>1, <3>1 DEF DataIn, Token, Ticket
  <2>3. Min(DataIn(box)) = 2 /\ DataIn(box) # {}
    <3>1. 2 \in DataIn(box) /\ \A i \in DataIn(box) : i \in Nat /\ 2 =< i
      BY <2>1, <2>2
    <3> QED BY <3>1, LeastIs
  <2>4. Record(box) = <<box[2]>> /\ Rest(box) = SubSeq(box, 3, n)
    BY <2>3 DEF Record, Rest
  <2>5. Head(Tail(box)) = box[2] /\ Tail(Tail(box)) = SubSeq(box, 3, n)
    BY <2>1, HeadTailParts
  <2> QED BY <2>1, <2>4, <2>5
<1> QED BY <1>1, <1>2

(* A sequence is its first and the rest. *)
LEMMA HeadTail ==
  ASSUME NEW S, NEW q \in Seq(S), q # <<>>
  PROVE  <<Head(q)>> \in Seq(S) /\ Tail(q) \in Seq(S) /\ q = <<Head(q)>> \o Tail(q)
OBVIOUS

(* A record is read. *)
LEMMA RecordRest ==
  ASSUME NEW box \in Seq(Nat), Told(box) \in Seq(Token)
  PROVE  /\ Told(box) = Record(box) \o Told(Rest(box)) /\ Record(box) \in Seq(Token)
         /\ Rest(box) \in Seq(Token) /\ Told(Rest(box)) \in Seq(Token)
         /\ box = <<>> => Record(box) = <<>> /\ Rest(box) = <<>>
<1>1. CASE Told(box) = <<>>
  <2>1. box = <<>> \/ (box # <<>> /\ box[1] = Ticket /\ Tail(box) = <<>>)
    BY <1>1 DEF Told
  <2>2. box = <<>> \/ (Len(box) = 1 /\ box[1] = Ticket)
    <3>1. box # <<>> /\ Tail(box) = <<>> => Len(box) = 1
      <4>1. ASSUME box # <<>>, Tail(box) = <<>> PROVE Len(box) = 1
        <5>1. (box # <<>> => Len(Tail(box)) = Len(box) - 1) /\ Len(box) \in Nat
          OBVIOUS
        <5>2. Len(Tail(box)) = 0
          <6>1. Len(<<>>) = 0
            OBVIOUS
          <6> QED BY <4>1, <6>1
        <5>3. box # <<>>
          BY <4>1
        <5> QED BY <5>1, <5>2, <5>3
      <4> QED BY <4>1
    <3> QED BY <2>1, <3>1
  <2>3. DataIn(box) = {}
    BY <2>2 DEF DataIn
  <2>4. Record(box) = <<>> /\ Rest(box) = <<>> /\ Told(Rest(box)) = <<>>
    BY <2>3 DEF Record, Rest, Told
  <2>5. <<>> \o <<>> = <<>>
    BY ConcatEmptySeq
  <2> QED BY <1>1, <2>4, <2>5
<1>2. CASE Told(box) # <<>>
  <2>1. Record(box) = <<Head(Told(box))>> /\ Rest(box) = Tail(Told(box))
    BY <1>2, RecordTold
  <2>2. Record(box) \in Seq(Token) /\ Rest(box) \in Seq(Token) /\ Told(box) = Record(box) \o Rest(box)
    BY <1>2, <2>1, HeadTail
  <2>3. Rest(box) # <<>> => Rest(box)[1] # Ticket
    BY <2>2 DEF Token, Ticket
  <2>4. Told(Rest(box)) = Rest(box)
    BY <2>3 DEF Told
  <2>5. box # <<>>
    BY <1>2 DEF Told
  <2> QED BY <2>2, <2>4, <2>5
<1> QED BY <1>1, <1>2

(* The stream modules' records. *)
LEMMA SSLRecord ==
  \A box : SSL!Record(box) = Record(box) /\ SSL!Rest(box) = Rest(box)
           /\ Pool!Record(box) = Record(box) /\ Pool!Rest(box) = Rest(box)
BY DEF SSL!Record, Record, SSL!Rest, Rest, SSL!DataIn, DataIn, SSL!Ticket, Ticket, SSL!Min, Min,
       Pool!Record, Pool!Rest, Pool!DataIn, Pool!Ticket, Pool!Min

(* A stream's callback with what was read for it. *)
LEMMA ReadWith ==
  ASSUME NetIInv, FlowIInv, ~Datagrams, ~Pooled, NEW p \in Procs, NEW s \in Streams, Proc(s) = p,
         proc[p].fd[s] \in Fds, NEW f, NEW data \in Seq(Token), NEW box, Took(s, data, box),
         NEW R, Becomes(p, EndCallback(R, f)),
         IF data # <<>> THEN R = AfterRead(p, s, data)
         ELSE R \in {cancle(AfterClose(p, s), f), proc[p]},
         UNCHANGED <<backlog, connected, out, app, ssl, forwarded>>
  PROVE  FlowIInv'
<1> DEFINE P == proc[p]
           D == MayClose(p)
           E == EndCallback(R, f)
<1>0. Sane(P) /\ s \in Socks /\ s # Own
  BY SaneProc, TwoEnds, Names
<1>1. PICK w \in Seq(Token) :
        /\ Tells(P, R, s, w) /\ Sane(R)
        /\ Echoes /\ s[1] # "cli" => w = data
        /\ data = <<>> => w = <<>>
  <2>1. CASE data # <<>>
    <3>1. R = OnRead(P, s, data)
      BY <2>1 DEF AfterRead
    <3>2. Goes(P, R, D)
      BY <1>0, <3>1, OnReadGoes
    <3> QED BY <1>0, <2>1, <3>1, <3>2, TellsOnRead DEF Goes
  <2>2. CASE data = <<>>
    <3> DEFINE b == AfterClose(p, s)
    <3>1. Goes(P, b, D)
      BY <1>0, OnCloseGoes DEF AfterClose
    <3>2. Sane(b) /\ Quiet(P, b)
      BY <1>0, <3>1, QuietOnClose DEF AfterClose, Goes
    <3> HIDE DEF b
    <3>3. Goes(b, cancle(b, f), D)
      BY <3>2, CancleGoes
    <3>4. Sane(cancle(b, f)) /\ Quiet(b, cancle(b, f))
      BY Zenon, <3>2, <3>3, QuietCalls DEF Goes
    <3>5. Quiet(P, cancle(b, f)) /\ Quiet(P, P)
      BY <1>0, <3>2, <3>4, QuietOn, QuietSame DEF Sane
    <3>6. Sane(R) /\ Quiet(P, R)
      BY <1>0, <2>2, <3>4, <3>5 DEF b
    <3>7. Tells(P, R, s, <<>>) /\ <<>> \in Seq(Token)
      BY <1>0, <3>6, QuietTells
    <3> QED BY <2>2, <3>6, <3>7
  <2> QED BY <2>1, <2>2
<1>2. Goes(R, E, D)
  BY <1>1, EndCallbackGoes
<1>3. Sane(E) /\ Quiet(R, E)
  BY <1>1, <1>2, QuietEnd DEF Goes
<1> HIDE DEF E
<1>4. Becomes(p, E)
  BY DEF E
<1>5. PICK Q : Quiet(E, Q) /\ proc' = [proc EXCEPT ![p] = Q]
  BY <1>3, <1>4, BecomesQuiet
<1>6. Tells(P, E, s, w)
  BY <1>1, <1>3, TellsOn
<1>7. Tells(P, Q, s, w)
  BY <1>5, <1>6, TellsOn
<1> QED BY <1>1, <1>5, <1>7, ReadFlow

(* The stream modules' reads see the same sockets. *)
LEMMA ReadNet ==
  /\ \A p, s : Sock!tryRead(p, s) =
        LET k == Named(proc[p], s) IN IF k = None \/ Hup(k) THEN <<>> ELSE inbox[k]
  /\ \A p, s : SSL!read(p, s) =
        LET k == Named(proc[p], s) IN IF ssl[s] = "shut" \/ k = None THEN <<>> ELSE Record(inbox[k])
BY SendNet, SSLRecord DEF Sock!tryRead, SSL!read

(* The number of a stream names it, or nothing. *)
LEMMA NamedSelf ==
  ASSUME NetIInv, NEW p \in Procs, NEW s \in Socks, proc[p].fd[s] \in Fds
  PROVE  Named(proc[p], s) \in {s, None} /\ Proc(s) = p
<1>1. Proper(p, proc[p])
  BY DEF NetIInv
<1> QED BY <1>1, SaneProc DEF Proper, Sane, Owns, Named

(* SockStream's callback. *)
LEMMA SockReads ==
  ASSUME NetIInv, FlowIInv, ~Datagrams, ~Pooled, NEW p \in Procs, NEW s \in Streams,
         app # "ssl", proc[p].fd[s] \in Fds, NEW f,
         Sock!ReadReady(p, f, s, AfterRead(p, s, Sock!tryRead(p, s)), AfterClose(p, s)),
         UNCHANGED <<app, ssl, forwarded>>
  PROVE  FlowIInv'
<1> DEFINE k == Named(proc[p], s)
<1>0. k \in {s, None} /\ Proc(s) = p /\ Bytes(s) /\ Shaped /\ ~Crypted /\ s \in Socks /\ s # None
  <2>1. s \in Socks /\ s # None
    BY Names DEF Socks
  <2>2. ~Crypted
    BY DEF Crypted, Pooled
  <2> QED BY <2>1, <2>2, NamedSelf DEF FlowIInv
<1>1. PICK data, a, b : data = Sock!tryRead(p, s) /\ a = AfterRead(p, s, data) /\ b = AfterClose(p, s)
  OBVIOUS
<1>2. /\ Sock!Becomes(p, EndCallback(IF data = <<>> THEN cancle(b, f) ELSE a, f))
      /\ inbox' = IF k = None THEN inbox ELSE [inbox EXCEPT ![k] = <<>>]
      /\ got' = IF k = None THEN got ELSE [got EXCEPT ![k] = @ \o data]
      /\ UNCHANGED <<backlog, connected, out>>
  BY <1>1, SockNet, SendNet DEF Sock!ReadReady, Sock!Consume
<1>3. Becomes(p, EndCallback(IF data = <<>> THEN cancle(b, f) ELSE a, f))
  BY <1>2, SockBecomes
<1>a. UNCHANGED <<backlog, connected, out, app, ssl, forwarded>>
  BY <1>2
<1>4. data = IF k = None \/ Hup(k) THEN <<>> ELSE inbox[k]
  BY <1>1, ReadNet
<1> DEFINE R == IF data = <<>> THEN cancle(b, f) ELSE a
<1>5. CASE k = s
  <2>1. Took(s, data, <<>>) /\ data \in Seq(Token)
    <3>1. inbox[s] \in Seq(Token) /\ Told(<<>>) = <<>>
      BY <1>0 DEF Bytes, Told
    <3>2. Told(inbox[s]) = inbox[s]
      <4>1. inbox[s] # <<>> => inbox[s][1] # Ticket
        BY <3>1 DEF Token, Ticket
      <4> QED BY <4>1 DEF Told
    <3>3. inbox[s] \o <<>> = inbox[s]
      BY <3>1, ConcatEmptySeq
    <3>4. data \in {<<>>, inbox[s]} /\ (~Hup(s) => data = inbox[s]) /\ (Hup(s) => data = <<>>)
      BY <1>0, <1>4, <1>5
    <3>5. inbox' = [inbox EXCEPT ![s] = <<>>] /\ got' = [got EXCEPT ![s] = @ \o data]
      BY <1>0, <1>2, <1>5
    <3>6. <<>> \in Seq(Nat) /\ <<>> \in Seq(Token)
      OBVIOUS
    <3>7. Told(inbox[s]) = data \o Told(<<>>) \/ (Told(<<>>) = <<>> /\ data = <<>> /\ Hup(s))
      BY <3>1, <3>2, <3>3, <3>4
    <3>8. data \in Seq(Token) /\ (inbox[s] = <<>> => data = <<>>)
      BY <3>1, <3>4, <3>6
    <3> QED BY <3>1, <3>5, <3>6, <3>7, <3>8 DEF Took
  <2>2. IF data # <<>> THEN R = AfterRead(p, s, data) ELSE R \in {cancle(AfterClose(p, s), f), proc[p]}
    BY <1>1
  <2> QED BY <1>0, <1>3, <1>a, <2>1, <2>2, ReadWith
<1>6. CASE k = None
  <2>1. data = <<>>
    BY <1>4, <1>6
  <2>2. UNCHANGED <<inbox, backlog, connected, out, got, app, ssl, forwarded>>
    BY <1>2, <1>6
  <2>3. Becomes(p, EndCallback(cancle(b, f), f))
    BY <1>3, <2>1
  <2>4. Goes(proc[p], b, MayClose(p)) /\ Sane(proc[p])
    BY <1>0, <1>1, SaneProc, OnCloseGoes DEF AfterClose
  <2>5. Sane(b) /\ Quiet(proc[p], b)
    BY <1>0, <1>1, <2>4, QuietOnClose DEF AfterClose, Goes
  <2> DEFINE c == cancle(b, f)
             E == EndCallback(c, f)
  <2>6. Goes(b, c, {}) /\ Quiet(b, c)
    BY Zenon, <2>5, CancleGoes, QuietCalls
  <2>7. Sane(c) /\ Quiet(proc[p], c)
    BY <2>5, <2>6, QuietOn DEF Goes
  <2> HIDE DEF c
  <2>8. Goes(c, E, {}) /\ Quiet(c, E)
    BY <2>7, EndCallbackGoes, QuietEnd
  <2>9. Sane(E) /\ Quiet(proc[p], E)
    BY <2>7, <2>8, QuietOn DEF Goes
  <2>10. Becomes(p, E)
    BY <2>3 DEF c
  <2> QED BY <2>2, <2>9, <2>10, BecomesFlow
<1> QED BY <1>0, <1>5, <1>6

(* A stream that cannot be read any more is closed. *)
LEMMA DeadRead ==
  ASSUME NetIInv, FlowIInv, ~Datagrams, ~Pooled, NEW p \in Procs, NEW s \in Socks,
         proc[p].fd[s] \in Fds, NEW f,
         Becomes(p, EndCallback(cancle(AfterClose(p, s), f), f)),
         UNCHANGED <<inbox, backlog, connected, out, got, app, ssl, forwarded>>
  PROVE  FlowIInv'
<1> DEFINE b == AfterClose(p, s)
           c == cancle(b, f)
           E == EndCallback(c, f)
<1>1. Sane(proc[p])
  BY SaneProc
<1>2. Goes(proc[p], b, MayClose(p))
  BY <1>1, OnCloseGoes DEF AfterClose
<1>3. Sane(b) /\ Quiet(proc[p], b)
  BY <1>1, <1>2, QuietOnClose DEF AfterClose, Goes
<1>a. Becomes(p, E)
  OBVIOUS
<1> HIDE DEF b
<1>4. Goes(b, c, {}) /\ Quiet(b, c)
  BY Zenon, <1>3, CancleGoes, QuietCalls
<1>5. Sane(c) /\ Quiet(proc[p], c)
  BY <1>3, <1>4, QuietOn DEF Goes
<1> HIDE DEF c
<1>6. Goes(c, E, {}) /\ Quiet(c, E)
  BY <1>5, EndCallbackGoes, QuietEnd
<1>7. Sane(E) /\ Quiet(proc[p], E)
  BY <1>5, <1>6, QuietOn DEF Goes
<1> QED BY <1>7, <1>a, BecomesFlow

(* Tokens are numbers. *)
LEMMA TokenNat == \A q \in Seq(Token) : q \in Seq(Nat)
<1> SUFFICES ASSUME NEW q \in Seq(Token) PROVE q \in Seq(Nat)
  OBVIOUS
<1>1. Len(q) \in Nat /\ q \in [1 .. Len(q) -> Token]
  OBVIOUS
<1>2. q \in [1 .. Len(q) -> Nat]
  BY <1>1 DEF Token
<1> QED BY <1>1, <1>2, SeqDef

(* SSLStream's callback. *)
LEMMA SSLReads ==
  ASSUME NetIInv, FlowIInv, app = "ssl", NEW p \in Procs, NEW s \in Streams,
         proc[p].fd[s] \in Fds, NEW f,
         SSL!ReadReady(p, f, s, AfterRead(p, s, SSL!read(p, s)), AfterClose(p, s)),
         UNCHANGED <<app, forwarded>>
  PROVE  FlowIInv'
<1> DEFINE k == Named(proc[p], s)
           dead == ssl[s] = "shut" \/ k = None
<1>0. k \in {s, None} /\ Proc(s) = p /\ Bytes(s) /\ Shaped /\ s \in Socks /\ s # None /\ ~Datagrams /\ ~Pooled
  <2>1. s \in Socks /\ s # None /\ ~Datagrams /\ ~Pooled
    BY Names DEF Socks, Datagrams, Pooled
  <2> QED BY <2>1, NamedSelf DEF FlowIInv
<1>1. PICK data, a, b : data = SSL!read(p, s) /\ a = AfterRead(p, s, data) /\ b = AfterClose(p, s)
  OBVIOUS
<1>2. /\ SSL!Becomes(p, EndCallback(
            CASE data # <<>> -> a
              [] data = <<>> /\ (dead \/ Hup(k)) -> cancle(b, f)
              [] OTHER -> proc[p], f))
      /\ inbox' = IF dead THEN inbox ELSE [inbox EXCEPT ![k] = Rest(@)]
      /\ got' = IF data = <<>> THEN got ELSE [got EXCEPT ![k] = @ \o data]
      /\ UNCHANGED <<backlog, connected, out, ssl>>
  BY <1>1, SSLNet, SendNet, SSLRecord DEF SSL!ReadReady
<1>3. data = IF dead THEN <<>> ELSE Record(inbox[k])
  BY <1>1, ReadNet
<1>4. PICK R : /\ Becomes(p, EndCallback(R, f))
               /\ IF data # <<>> THEN R = a ELSE R \in {cancle(b, f), proc[p]}
               /\ dead => R = cancle(b, f)
  BY <1>2, <1>3, SSLBecomes
<1>a. UNCHANGED <<backlog, connected, out, app, ssl, forwarded>>
  BY <1>2
<1>5. CASE dead
  <2>1. UNCHANGED <<inbox, backlog, connected, out, got, app, ssl, forwarded>>
    BY <1>2, <1>3, <1>5
  <2>2. Becomes(p, EndCallback(cancle(AfterClose(p, s), f), f))
    BY <1>1, <1>4, <1>5
  <2> QED BY <1>0, <2>1, <2>2, DeadRead
<1>6. CASE ~dead
  <2> DEFINE box == Rest(inbox[s])
  <2>1. k = s /\ data = Record(inbox[s])
    BY <1>0, <1>3, <1>6
  <2>2. inbox' = [inbox EXCEPT ![s] = box]
    BY <1>2, <1>6, <2>1
  <2>3. inbox[s] \in Seq(Nat) /\ Told(inbox[s]) \in Seq(Token) /\ got[s] \in Seq(Token)
    BY <1>0 DEF Bytes
  <2>4. /\ Told(inbox[s]) = data \o Told(box) /\ data \in Seq(Token)
        /\ box \in Seq(Token) /\ Told(box) \in Seq(Token)
        /\ inbox[s] = <<>> => box = <<>> /\ data = <<>>
    BY <2>1, <2>3, RecordRest
  <2>5. got' = [got EXCEPT ![s] = @ \o data]
    <3>1. CASE data = <<>>
      <4>1. got[s] \o <<>> = got[s]
        BY <2>3, ConcatEmptySeq
      <4>2. got' = got /\ got = [r \in Socks |-> got[r]]
        BY <1>0, <1>2, <3>1 DEF Shaped
      <4>3. got[s] \o data = got[s]
        BY <3>1, <4>1
      <4> QED BY <4>2, <4>3
    <3>2. CASE data # <<>>
      BY <1>2, <2>1, <3>2
    <3> QED BY <3>1, <3>2
  <2>6. box \in Seq(Nat)
    BY <2>4, TokenNat
  <2> HIDE DEF box
  <2>7. Took(s, data, box)
    BY <2>2, <2>4, <2>5, <2>6 DEF Took
  <2>8. IF data # <<>> THEN R = AfterRead(p, s, data) ELSE R \in {cancle(AfterClose(p, s), f), proc[p]}
    BY <1>1, <1>4
  <2> QED BY <1>0, <1>4, <1>a, <2>4, <2>7, <2>8, ReadWith
<1> QED BY <1>5, <1>6

\* What neither writes nor loses a frame.
Silent(P, Q) ==
  /\ KeepsFrames(P, Q)
  /\ Carries(P) => Carries(Q)
  /\ Carries(P) => \A r \in Socks : Pending(Q, r) = Pending(P, r)

(* Silence, one step after another. *)
LEMMA SilentOn == ASSUME NEW P, NEW Q, NEW R, Silent(P, Q), Silent(Q, R) PROVE Silent(P, R)
BY DEF Silent, KeepsFrames

(* Calls that write nothing are silent. *)
LEMMA QuietSilent ==
  ASSUME NEW P, NEW Q, Quiet(P, Q)
  PROVE  Silent(P, Q) /\ SameControl(P, Q) /\ \A f \in Fds : Q.table[f] \in {P.table[f], None}
BY DEF Silent, Quiet

(* Members that no task reads may change. *)
LEMMA SilentAside ==
  ASSUME NEW P, NEW Q, Q.tasks = P.tasks, Q.slot = P.slot, Q.uid = P.uid
  PROVE  Silent(P, Q)
<1>1. KeepsFrames(P, Q)
  BY OnceSame DEF SameFrames, KeepsFrames, OneSlot
<1> QED BY <1>1 DEF Silent, Carries, Pending

(* onAccept writes nothing; the SSL servers wait for the handshake in it. *)
LEMMA AcceptSilent ==
  ASSUME NetIInv, ~Datagrams, NEW R, Sane(R), NEW s \in Socks, R.fd[s] \in Fds
  PROVE  LET A == ServerOnAccept(R, s)
         IN  /\ Silent(R, A) /\ A.main = R.main /\ A.promise = R.promise /\ A.sent = R.sent
             /\ A.blocked \in {R.blocked, s}
             /\ \A g \in Fds : A.table[g] \in {R.table[g], None}
<1> DEFINE A == ServerOnAccept(R, s)
<1>1. CASE app \notin {"ssl", "ssl_socket"}
  <2>1. Quiet(R, A)
    BY <1>1, QuietOnAccept
  <2> HIDE DEF A
  <2>2. Silent(R, A) /\ SameControl(R, A) /\ \A g \in Fds : A.table[g] \in {R.table[g], None}
    BY <2>1, QuietSilent
  <2> QED BY <2>2 DEF SameControl, A
<1>2. CASE app \in {"ssl", "ssl_socket"}
  <2>1. A = [R EXCEPT !.blocked = s]
    BY <1>2 DEF ServerOnAccept, ssl_onAccept
  <2>2. DOMAIN R = Fields
    BY DEF Sane, Typed
  <2>3. /\ A.tasks = R.tasks /\ A.slot = R.slot /\ A.uid = R.uid /\ A.table = R.table
        /\ A.main = R.main /\ A.promise = R.promise /\ A.sent = R.sent /\ A.blocked = s
    BY <2>1, <2>2 DEF Fields
  <2> HIDE DEF A
  <2>4. Silent(R, A)
    BY <2>3, SilentAside
  <2> QED BY <2>3, <2>4 DEF A
<1> QED BY <1>1, <1>2

(* A descriptor is opened. *)
LEMMA OpenSilent ==
  ASSUME NEW P, Sane(P), NEW s \in Socks
  PROVE  LET Q == Open(P, s)
         IN  /\ Silent(P, Q) /\ Q.sent = P.sent /\ Q.main = P.main /\ Q.promise = P.promise
             /\ Q.blocked = P.blocked /\ Q.tasks = P.tasks
             /\ \A f \in Fds : Q.table[f] \in {P.table[f], s}
<1> DEFINE Q == Open(P, s)
<1>1. DOMAIN P = Fields /\ P.table \in [Fds -> Socks \cup {None}]
  BY DEF Sane, Typed
<1>2. /\ Q.tasks = P.tasks /\ Q.slot = P.slot /\ Q.uid = P.uid /\ Q.sent = P.sent
      /\ Q.main = P.main /\ Q.promise = P.promise /\ Q.blocked = P.blocked
      /\ Q.table = [P.table EXCEPT ![Min(FreeFds(P))] = s]
  BY <1>1 DEF Open, Fields
<1> HIDE DEF Q
<1>3. \A f \in Fds : Q.table[f] \in {P.table[f], s}
  BY <1>1, <1>2
<1>4. Silent(P, Q)
  BY <1>2, SilentAside
<1> QED BY <1>2, <1>3, <1>4 DEF Q

(* The listener's callback. *)
LEMMA AcceptFlow ==
  ASSUME NetIInv, FlowIInv, ~Datagrams, Up(Server), proc[Server].blocked = None,
         app = "close" => proc[Server].fd[Own] \in Fds,
         NEW f, Acc!AcceptReady(Server, f, AfterAccept(Server)), UNCHANGED <<app, ssl, forwarded>>,
         ~Pooled \/ PoolKept'
  PROVE  FlowIInv'
<1> DEFINE P == proc[Server]
           s == <<"srv", Head(backlog)>>
           R == Open(P, s)
           A == ServerOnAccept(R, s)
           E == EndCallback(A, f)
<1>1. /\ UNCHANGED <<inbox, connected, out, got>>
      /\ \/ Acc!Becomes(Server, EndCallback(P, f)) /\ backlog' = backlog
         \/ /\ backlog # <<>> /\ FreeFds(P) # {} /\ backlog' = Tail(backlog)
            /\ Acc!Becomes(Server, E)
  BY AccNet DEF Acc!AcceptReady, AfterAccept, Acc!Accepted
<1>2. CASE Acc!Becomes(Server, EndCallback(P, f)) /\ backlog' = backlog
  <2>1. UNCHANGED <<inbox, backlog, connected, out, got, app, ssl, forwarded>>
    BY <1>1, <1>2
  <2>2. Becomes(Server, EndCallback(P, f))
    BY <1>2, AccBecomes
  <2> QED BY <2>1, <2>2, Names, IdleFlow
<1>3. CASE backlog # <<>> /\ FreeFds(P) # {} /\ backlog' = Tail(backlog) /\ Acc!Becomes(Server, E)
  <2>1. /\ s \in Socks /\ Proc(s) = Server /\ Head(backlog) \in Clients
        /\ P.fd[s] = -1 /\ \A t \in Socks : Keeps(P, t)
    BY <1>3, CanAccept
  <2>2. Sane(P)
    BY SaneProc, Names
  <2>3. Sane(R) /\ R.fd[s] \in Fds /\ \A t \in Socks \ {s} : R.fd[t] = P.fd[t]
    BY <1>3, <2>1, <2>2, OpenSane
  <2>4. /\ Silent(P, R) /\ R.sent = P.sent /\ R.main = P.main /\ R.promise = P.promise
        /\ R.blocked = P.blocked /\ \A g \in Fds : R.table[g] \in {P.table[g], s}
    BY <2>1, <2>2, OpenSilent
  <2>5. app = "close" => R.fd[Own] \in Fds
    <3>1. s # Own
      BY <2>1, NamesAssumption DEF Own
    <3> QED BY <2>3, <3>1, Names
  <2> HIDE DEF R
  <2>6. Goes(R, A, {})
    BY <2>1, <2>3, <2>5, OnAcceptGoes
  <2>7. /\ Silent(R, A) /\ A.main = R.main /\ A.promise = R.promise /\ A.sent = R.sent
        /\ A.blocked \in {R.blocked, s}
        /\ \A g \in Fds : A.table[g] \in {R.table[g], None}
    BY <2>1, <2>3, AcceptSilent
  <2> HIDE DEF A
  <2>8. Sane(A)
    BY <2>6 DEF Goes
  <2>9. Goes(A, E, {}) /\ Quiet(A, E)
    BY <2>8, EndCallbackGoes, QuietEnd
  <2>10. Becomes(Server, E) /\ Sane(E)
    BY <1>3, <2>9, AccBecomes DEF Goes
  <2> HIDE DEF E
  <2>11. PICK Q : Quiet(E, Q) /\ proc' = [proc EXCEPT ![Server] = Q]
    BY <2>10, BecomesQuiet
  <2>12. Quiet(A, Q)
    BY <2>9, <2>11, QuietOn
  <2>13. Silent(A, Q) /\ SameControl(A, Q) /\ \A g \in Fds : Q.table[g] \in {A.table[g], None}
    BY <2>12, QuietSilent
  <2>14. Silent(P, Q)
    BY <2>4, <2>7, <2>13, SilentOn
  <2>15. /\ Q.main = P.main /\ Q.sent = P.sent /\ Q.blocked \in {None, s}
         /\ \A g \in Fds : Q.table[g] \in {P.table[g], None, s}
    BY <2>4, <2>7, <2>13 DEF SameControl
  <2>16. proc'[Server] = Q /\ \A q \in Procs : q # Server => proc'[q] = proc[q]
    BY <2>11, Names DEF NetIInv
  <2>17. Head(backlog) \in Range(backlog) /\ Range(backlog') \subseteq Range(backlog)
    <3>1. backlog \in Seq(connected)
      BY DEF NetIInv, Queued
    <3>2. \A i \in DOMAIN Tail(backlog) : i + 1 \in DOMAIN backlog /\ Tail(backlog)[i] = backlog[i + 1]
      BY <1>3, <3>1
    <3>3. 1 \in DOMAIN backlog /\ Head(backlog) = backlog[1]
      BY <1>3, <3>1
    <3> QED BY <1>3, <3>2, <3>3 DEF Range
  <2>18. Onward
    <3>1. ASSUME NEW q \in Procs, proc[q].main = "end" PROVE proc'[q].main = "end"
      BY <2>15, <2>16, <3>1
    <3>2. ASSUME NEW q \in Procs, NEW g \in Fds
          PROVE  \/ proc'[q].table[g] \in {proc[q].table[g], None, Own}
                 \/ \E c \in Range(backlog) : proc'[q].table[g] = <<"srv", c>>
      BY <2>15, <2>16, <2>17
    <3> QED BY <1>1, <2>17, <3>1, <3>2 DEF Onward
  <2>19. Shaped /\ Carries(P) /\ P.sent \in Nat /\ Server \in Procs /\ Server \notin Clients
    BY Names, NamesAssumption DEF FlowIInv
  <2>20. Shaped'
    BY <1>1, <2>19 DEF Shaped
  <2>21. ASSUME NEW c \in Clients PROVE Unwritten(c)' /\ Open1(c)'
    <3>1. Unwritten(c) /\ Open1(c)
      BY SettledParts DEF FlowIInv
    <3>2. proc'[Server].blocked = <<"srv", c>> => c \in Range(backlog)
      <4>1. <<"srv", c>> # None
        BY Names DEF Socks, Streams
      <4> QED BY <2>15, <2>16, <2>17, <4>1
    <3>3. c \in Range(backlog') => c \in Range(backlog)
      BY <2>17
    <3>4. UNCHANGED <<inbox, connected, out, ssl, app>>
      BY <1>1
    <3> QED BY <3>1, <3>2, <3>3, <3>4 DEF Unwritten, Open1
  <2>22. Q.main # "end" /\ Q.sent \in Nat
    BY <2>15, <2>19 DEF Up
  <2>23. PoolKept'
    <3>1. UNCHANGED app /\ PoolKept
      BY DEF FlowIInv
    <3> QED BY <2>11, <2>19, <3>1, PoolOther
  <2>24. /\ KeepsFrames(P, Q) /\ Carries(Q)
         /\ \A r \in Socks : Pending(Q, r) = Pending(P, r)
    BY <2>14, <2>19 DEF Silent
  <2>25. UNCHANGED <<inbox, out, got, forwarded>>
    BY <1>1
  <2>26. proc'[Server].main # "end"
    BY <2>16, <2>22
  <2> QED BY <2>11, <2>18, <2>19, <2>20, <2>21, <2>22, <2>23, <2>24, <2>25, <2>26, StillFlow
<1> QED BY <1>1, <1>2, <1>3

(* Any callback of the poller. *)
LEMMA CallbackFlow ==
  ASSUME NetIInv, FlowIInv, ~Datagrams, NEW p \in Procs, Up(p), Callback(p)
  PROVE  FlowIInv'
<1>0. ~Pooled /\ UNCHANGED <<app, forwarded>>
  BY DEF Callback
<1>1. PICK f \in proc[p].batch : \E s \in {CalledFor(p, f)} :
          /\ Reached(p, f)
          /\ CASE s = None -> Becomes(p, EndCallback(proc[p], f))
                                 /\ UNCHANGED <<kernel, out, got, ssl>>
               [] s # None /\ Datagrams ->
                        DG!ReadReady(p, f, s, AfterRead(p, s, Head(inbox[Named(proc[p], s)])), AfterClose(p, s))
                            /\ UNCHANGED ssl
               [] s = Own /\ ~Datagrams -> Acc!AcceptReady(p, f, AfterAccept(p)) /\ UNCHANGED ssl
               [] s \in Streams /\ app = "ssl" ->
                        SSL!ReadReady(p, f, s, AfterRead(p, s, SSL!read(p, s)), AfterClose(p, s))
               [] OTHER ->
                        Sock!ReadReady(p, f, s, AfterRead(p, s, Sock!tryRead(p, s)), AfterClose(p, s))
                            /\ UNCHANGED ssl
  BY DEF Callback
<1> DEFINE s == CalledFor(p, f)
<1>2. s # None => s \in Socks /\ proc[p].fd[s] \in Fds
  BY Called
<1>3. /\ Reached(p, f)
      /\ \/ s = None /\ Becomes(p, EndCallback(proc[p], f)) /\ UNCHANGED <<kernel, out, got, ssl>>
         \/ s = Own /\ s # None /\ Acc!AcceptReady(p, f, AfterAccept(p)) /\ UNCHANGED ssl
         \/ /\ s \in Streams /\ s # None /\ app = "ssl"
            /\ SSL!ReadReady(p, f, s, AfterRead(p, s, SSL!read(p, s)), AfterClose(p, s))
         \/ /\ s \in Streams /\ s # None /\ app # "ssl" /\ UNCHANGED ssl
            /\ Sock!ReadReady(p, f, s, AfterRead(p, s, Sock!tryRead(p, s)), AfterClose(p, s))
  BY <1>1, <1>2, Names DEF Socks
<1> HIDE DEF s
<1>4. CASE s = None /\ Becomes(p, EndCallback(proc[p], f)) /\ UNCHANGED <<kernel, out, got, ssl>>
  <2>1. UNCHANGED <<inbox, backlog, connected, out, got, app, ssl, forwarded>>
    BY <1>0, <1>4 DEF kernel
  <2> QED BY <1>0, <1>4, <2>1, IdleFlow
<1>5. CASE s = Own /\ s # None /\ Acc!AcceptReady(p, f, AfterAccept(p)) /\ UNCHANGED ssl
  <2>1. proc[p].fd[Own] \in Fds
    BY <1>2, <1>5
  <2>2. p = Server
    BY <2>1, Names DEF NetIInv, Proper, Proc, Own
  <2>3. proc[Server].blocked = None
    BY <1>3, <2>2 DEF Reached
  <2> QED BY <1>0, <1>5, <2>1, <2>2, <2>3, AcceptFlow
<1>6. CASE /\ s \in Streams /\ s # None /\ app = "ssl"
           /\ SSL!ReadReady(p, f, s, AfterRead(p, s, SSL!read(p, s)), AfterClose(p, s))
  BY <1>0, <1>2, <1>6, SSLReads
<1>7. CASE /\ s \in Streams /\ s # None /\ app # "ssl" /\ UNCHANGED ssl
           /\ Sock!ReadReady(p, f, s, AfterRead(p, s, Sock!tryRead(p, s)), AfterClose(p, s))
  <2>1. UNCHANGED <<app, ssl, forwarded>>
    BY <1>0, <1>7
  <2> QED BY <1>0, <1>2, <1>7, <2>1, SockReads
<1> QED BY <1>3, <1>4, <1>5, <1>6, <1>7

(* The pool server accepts. *)
LEMMA PoolAcceptFlow ==
  ASSUME NetIInv, FlowIInv, Pooled, Up(Server), proc[Server].blocked = None,
         NEW f, Acc!AcceptReady(Server, f, AfterAccept(Server)), UNCHANGED rest, PoolKept'
  PROVE  FlowIInv'
<1>1. ~Datagrams /\ app # "close" /\ UNCHANGED <<app, ssl, forwarded>>
  BY DEF Pooled, Datagrams, rest
<1> QED BY <1>1, AcceptFlow

\* A client opens its socket, or connects it, or neither.
Opens(p, Q) ==
  \A f \in Fds :
     \/ Q.table[f] \in {proc[p].table[f], None}
     \/ Q.table[f] = <<"cli", p>> /\ proc[p].main = "off"
Joins1(p) ==
  \/ UNCHANGED <<connected, backlog>>
  \/ /\ p \notin connected /\ proc[Server].main # "end"
     /\ connected' = connected \cup {p} /\ backlog' = Append(backlog, p)

(* A client's step that moves no data. *)
LEMMA ClientStill ==
  ASSUME NetIInv, FlowIInv, ~Datagrams, NEW p \in Clients, NEW Q, proc' = [proc EXCEPT ![p] = Q],
         Carries(Q), Q.sent \in Nat, Behaves(p)', Opens(p, Q), Joins1(p),
         proc[p].main = "end" => Q.main = "end",
         Q.main = "end" => \A f \in Fds : Q.table[f] = None,
         UNCHANGED <<inbox, out, got, app, ssl, forwarded>>
  PROVE  FlowIInv'
<1>0. /\ proc'[p] = Q /\ p \in Procs /\ p # Server /\ Server \in Procs
      /\ \A q \in Procs : q # p => proc'[q] = proc[q]
  BY Names, NamesAssumption DEF NetIInv
<1>1. Shaped /\ Ended /\ PoolKept /\ FramesKept
  BY DEF FlowIInv
<1>2. /\ connected \subseteq connected' /\ connected' \subseteq connected \cup {p}
      /\ Range(backlog') \subseteq Range(backlog) \cup (connected' \ connected)
      /\ proc[Server].main = "end" => backlog' = backlog
  <2>1. backlog \in Seq(connected)
    BY DEF NetIInv, Queued
  <2>2. Range(Append(backlog, p)) \subseteq Range(backlog) \cup {p}
    <3>1. \A i \in DOMAIN Append(backlog, p) :
             Append(backlog, p)[i] = p \/ (i \in DOMAIN backlog /\ Append(backlog, p)[i] = backlog[i])
      BY <2>1
    <3> QED BY <3>1 DEF Range
  <2> QED BY <2>2 DEF Joins1
<1>3. Onward
  <2>1. ASSUME NEW q \in Procs, proc[q].main = "end" PROVE proc'[q].main = "end"
    BY <1>0, <2>1
  <2>2. ASSUME NEW q \in Procs, NEW f \in Fds
        PROVE  \/ proc'[q].table[f] \in {proc[q].table[f], None, Own}
               \/ \E c \in Clients : proc'[q].table[f] = <<"cli", c>> /\ proc[c].main = "off"
    BY <1>0 DEF Opens
  <2> QED BY <1>2, <2>1, <2>2 DEF Onward
<1>4. Shaped'
  BY <1>1 DEF Shaped
<1>5. proc'[Server].main = "end" => backlog' = <<>>
  BY <1>0, <1>1, <1>2 DEF Ended
<1>6. ASSUME NEW s \in Streams PROVE FlowStep(s) /\ Plain(s)'
  <2>1. Bytes(s) /\ Bytes(Peer(s))
    BY TwoEnds DEF FlowIInv
  <2>2. Plain(s)'
    BY <2>1, AppsSame DEF Plain, Bytes
  <2> QED BY <2>1, <2>2, FlowStill
<1>7. ASSUME NEW c \in Clients PROVE Unwritten(c)' /\ Open1(c)' /\ EchoKept(c)'
  <2>1. Unwritten(c) /\ Open1(c) /\ EchoKept(c)
    BY SettledParts DEF FlowIInv
  <2>2. proc'[Server] = proc[Server]
    BY <1>0
  <2>3. EchoKept(c)'
    BY <1>3, <2>1, <2>2, EchoSame
  <2>4. c \notin connected' \/ c \in Range(backlog') => c \notin connected \/ c \in Range(backlog)
    BY <1>2
  <2> QED BY <2>1, <2>2, <2>3, <2>4 DEF Unwritten, Open1
<1>8. FramesKept'
  BY <1>0, <1>1 DEF FramesKept
<1>9. PoolKept'
  BY <1>0, <1>1, PoolOther
<1> QED BY <1>0, <1>3, <1>4, <1>5, <1>6, <1>7, <1>8, <1>9, Gather

(* A client that keeps to its queue. *)
LEMMA BehavesStill ==
  ASSUME FlowIInv, ~Datagrams, NEW p \in Clients, NEW Q, proc'[p] = Q, UNCHANGED app,
         Carries(proc[p]), Silent(proc[p], Q), connected \subseteq connected',
         Q.promise = "true" => p \in connected',
         Q.main = "send" => Q.promise = "true",
         Pooled /\ Q.main \in {"wait", "loop"} => p \in connected'
  PROVE  Behaves(p)'
<1>1. Behaves(p) /\ <<"cli", p>> \in Socks
  BY SettledParts DEF FlowIInv, Socks, Streams
<1>2. Pending(proc[p], <<"cli", p>>)' = Pending(proc[p], <<"cli", p>>)
  <2>1. Pending(proc[p], <<"cli", p>>)' = Pending(Q, <<"cli", p>>)
    BY DEF Pending, Writes
  <2> QED BY <1>1, <2>1 DEF Silent
<1> QED BY <1>1, <1>2, AppsSame DEF Behaves

(* A listener is not of a process that has ended. *)
LEMMA ListenerUp == ASSUME FlowIInv, ~Datagrams, Listening, NetIInv PROVE proc[Server].main # "end"
<1>1. PICK f \in Fds : proc[Server].table[f] = Own
  BY Zenon, Names, SaneProc DEF Listening, Range, Sane, Typed, NetIInv, Proper
<1> QED BY <1>1, Names DEF FlowIInv, Ended

(* A client's task that connects, up to what its callback does. *)
LEMMA ConnectFlow ==
  ASSUME NetIInv, FlowIInv, ~Datagrams, NEW p \in Procs, NEW op, IsNext(p, op), op \in Connects,
         NEW A, Sane(A), Silent(Pop(p), A), A.main = proc[p].main, A.sent = proc[p].sent,
         \A f \in Fds : A.table[f] \in {Pop(p).table[f], None},
         NEW R, Becomes(p, R), Sane(R), Quiet(A, R),
         \/ Listening /\ connected' = connected \cup {p} /\ backlog' = Append(backlog, p)
         \/ A.promise # "true" /\ UNCHANGED <<connected, backlog>>,
         A.promise \in {proc[p].promise, "true", "false"},
         UNCHANGED <<inbox, out, got, app, ssl, forwarded>>
  PROVE  FlowIInv'
<1> DEFINE P == proc[p]
<1>1. /\ p \in Clients /\ p \notin connected /\ Sane(P)
      /\ P.tasks # <<>> /\ Head(P.tasks).op = op
  BY Takes DEF IsNext
<1>2. Quiet(P, Pop(p))
  <2>1. Head(P.tasks).op \notin {"sendto", "frame"} \cup Writers
    BY <1>1 DEF Writers, Connects
  <2> QED BY <1>1, <2>1, QuietPop DEF Pop
<1>3. PICK Q : Quiet(R, Q) /\ proc' = [proc EXCEPT ![p] = Q]
  BY BecomesQuiet
<1>4. Quiet(A, Q)
  BY <1>3, QuietOn
<1>5. /\ Silent(A, Q) /\ SameControl(A, Q) /\ \A f \in Fds : Q.table[f] \in {A.table[f], None}
      /\ Silent(P, Pop(p)) /\ \A f \in Fds : Pop(p).table[f] \in {P.table[f], None}
  BY <1>2, <1>4, QuietSilent
<1>6. Silent(P, Q)
  BY <1>5, SilentOn
<1>7. /\ Q.main = P.main /\ Q.sent = P.sent /\ Q.promise = A.promise
      /\ \A f \in Fds : Q.table[f] \in {P.table[f], None}
  BY <1>5 DEF SameControl
<1>8. Carries(P) /\ P.sent \in Nat /\ Ended /\ Behaves(p) /\ p \in Procs
  BY <1>1, SettledParts DEF FlowIInv
<1>9. Carries(Q)
  BY <1>6, <1>8 DEF Silent
<1>10. proc'[p] = Q
  BY <1>3 DEF NetIInv
<1>11. P.promise # "true" /\ P.main # "send" /\ (Pooled => P.main \notin {"wait", "loop"})
  BY <1>1, <1>8 DEF Behaves
<1>12. connected \subseteq connected' /\ (Q.promise = "true" => p \in connected')
  BY <1>7, <1>11
<1>13. Behaves(p)'
  BY <1>1, <1>6, <1>7, <1>8, <1>10, <1>11, <1>12, BehavesStill
<1>14. Opens(p, Q)
  BY <1>7 DEF Opens
<1>15. Joins1(p)
  BY <1>1, ListenerUp DEF Joins1
<1>16. /\ P.main = "end" => Q.main = "end"
       /\ Q.main = "end" => \A f \in Fds : Q.table[f] = None
       /\ Q.sent \in Nat
  BY <1>7, <1>8 DEF Ended
<1> QED BY <1>1, <1>3, <1>9, <1>13, <1>14, <1>15, <1>16, ClientStill

(* SockStream's connect. *)
LEMMA SockConnects ==
  ASSUME NetIInv, FlowIInv, ~Datagrams, NEW p \in Procs,
         Sock!ConnectTask(p, Listening, AfterConnect(p)), UNCHANGED rest
  PROVE  FlowIInv'
<1> DEFINE P == proc[p]
           Q == Pop(p)
           t == Head(P.tasks)
           A == AfterConnect(p)
           R == Register(A, P.fd[t.who], t.who)
<1>0. UNCHANGED <<inbox, out, got, app, ssl, forwarded>>
  BY DEF Sock!ConnectTask, rest
<1>1. /\ IsNext(p, "connect")
      /\ \/ /\ Listening /\ Sock!Becomes(p, R)
            /\ connected' = connected \cup {p} /\ backlog' = Append(backlog, p)
         \/ ~Listening /\ Sock!Becomes(p, A) /\ UNCHANGED <<connected, backlog>>
  BY SockNet DEF Sock!ConnectTask, Sock!listenReadEvent
<1>2. /\ Sane(Q) /\ SoundTask(Q, t) /\ t.op = "connect" /\ Q.fd = P.fd
      /\ Q.main = P.main /\ Q.promise = P.promise /\ Q.sent = P.sent
  <2>1. Sane(P) /\ Sane(Q) /\ SoundTask(Q, t) /\ t.op = "connect" /\ Q.fd = P.fd
    BY <1>1, Takes
  <2> QED BY <2>1 DEF Pop, Sane, Typed, Fields
<1>3. "connect" \in Connects /\ "connect" \in Holds
  BY DEF Connects, Holds
<1>4. t.who \in Socks /\ Q.fd[t.who] \in Fds
  BY <1>2, <1>3, Held
<1>5. A = [Q EXCEPT !.promise = IF Listening THEN "true" ELSE "false"]
  BY DEF AfterConnect, onConnect
<1>6. /\ Aside(Q, A) /\ A.main = Q.main /\ A.promise = (IF Listening THEN "true" ELSE "false")
      /\ A.blocked = Q.blocked /\ A.sent = Q.sent
      /\ A.tasks = Q.tasks /\ A.slot = Q.slot /\ A.uid = Q.uid /\ A.table = Q.table
  <2>1. DOMAIN Q = Fields
    BY <1>2 DEF Sane, Typed
  <2> HIDE DEF Q
  <2> QED BY <1>5, <2>1 DEF Aside, Fields
<1> HIDE DEF A
<1>7. Sane(A) /\ A.fd = Q.fd
  <2>1. /\ Q.main \in {"off", "wait", "send", "loop", "end"}
        /\ Q.blocked # None => Q.blocked \in Socks /\ Q.fd[Q.blocked] \in Fds
    BY <1>2 DEF Sane, Typed, Owns
  <2>2. A.promise \in {"none", "true", "false"}
    BY <1>6
  <2>3. Goes(Q, A, {})
    BY <1>2, <1>6, <2>1, <2>2, AsideGoes
  <2> QED BY <1>6, <2>3 DEF Goes, Aside
<1>8. Silent(Q, A)
  BY <1>6, SilentAside
<1>9. Goes(A, R, {}) /\ Quiet(A, R) /\ Quiet(A, A)
  <2>1. Goes(A, R, {})
    BY <1>2, <1>4, <1>7, RegisterGoes
  <2>2. Quiet(A, R) /\ Quiet(A, A)
    BY ZenonT(40), <1>7, QuietCalls, QuietSame DEF Sane
  <2> QED BY <2>1, <2>2
<1>10. Sane(R)
  BY Zenon, <1>9 DEF Goes
<1>11. \A f \in Fds : A.table[f] \in {Q.table[f], None}
  BY <1>6
<1> HIDE DEF R
<1>12. CASE ~Listening /\ Sock!Becomes(p, A) /\ UNCHANGED <<connected, backlog>>
  <2>1. Becomes(p, A) /\ A.promise = "false" /\ UNCHANGED <<connected, backlog>>
    BY <1>6, <1>12, SockBecomes
  <2>2. A.promise # "true" /\ A.promise \in {P.promise, "true", "false"}
    BY <2>1
  <2> QED BY <1>0, <1>1, <1>2, <1>3, <1>6, <1>7, <1>8, <1>9, <1>11, <2>1, <2>2, ConnectFlow
<1>13. CASE /\ Listening /\ Sock!Becomes(p, R)
            /\ connected' = connected \cup {p} /\ backlog' = Append(backlog, p)
  <2>1. Becomes(p, R) /\ A.promise = "true"
    BY <1>6, <1>13, SockBecomes
  <2>2. A.promise \in {P.promise, "true", "false"}
    BY <2>1
  <2> QED BY <1>0, <1>1, <1>2, <1>3, <1>6, <1>7, <1>8, <1>9, <1>10, <1>11, <1>13, <2>1, <2>2, ConnectFlow
<1> QED BY <1>1, <1>12, <1>13

(* SSLStream's connect. *)
LEMMA SSLConnects ==
  ASSUME NetIInv, FlowIInv, ~Datagrams, NEW p \in Procs, Listening,
         SSL!ConnectTask(p, TRUE, AfterSSLConnect(p)), UNCHANGED <<app, forwarded>>
  PROVE  FlowIInv'
<1> DEFINE P == proc[p]
           Q == Pop(p)
           t == Head(P.tasks)
           A == AfterSSLConnect(p)
           R == Register(A, P.fd[t.who], t.who)
<1>0. UNCHANGED <<inbox, out, got, app, ssl, forwarded>>
  BY DEF SSL!ConnectTask
<1>1. /\ IsNext(p, "ssl_connect") /\ SSL!Becomes(p, R)
      /\ connected' = connected \cup {p} /\ backlog' = Append(backlog, p)
  BY SSLNet DEF SSL!ConnectTask, SSL!listenReadEvent
<1>2. /\ Sane(Q) /\ SoundTask(Q, t) /\ t.op = "ssl_connect" /\ Q.fd = P.fd
      /\ Q.main = P.main /\ Q.promise = P.promise /\ Q.sent = P.sent
  <2>1. Sane(P) /\ Sane(Q) /\ SoundTask(Q, t) /\ t.op = "ssl_connect" /\ Q.fd = P.fd
    BY <1>1, Takes
  <2> QED BY <2>1 DEF Pop, Sane, Typed, Fields
<1>3. "ssl_connect" \in Connects /\ "ssl_connect" \in Holds
  BY DEF Connects, Holds
<1>4. t.who \in Socks /\ Q.fd[t.who] \in Fds
  BY <1>2, <1>3, Held
<1>5. A = [Q EXCEPT !.blocked = t.who]
  BY DEF AfterSSLConnect, ssl_onConnect
<1>6. Goes(Q, A, {})
  <2> HIDE DEF Q, A
  <2>1. Goes(Q, [Q EXCEPT !.blocked = t.who], {})
    BY <1>2, <1>4, SetGoes
  <2> QED BY <1>5, <2>1
<1>7. /\ A.main = Q.main /\ A.promise = Q.promise /\ A.sent = Q.sent /\ A.fd = Q.fd
      /\ A.tasks = Q.tasks /\ A.slot = Q.slot /\ A.uid = Q.uid /\ A.table = Q.table
  <2>1. DOMAIN Q = Fields
    BY <1>2 DEF Sane, Typed
  <2> HIDE DEF Q
  <2> QED BY <1>5, <2>1 DEF Fields
<1> HIDE DEF A
<1>8. Sane(A) /\ Silent(Q, A)
  BY <1>6, <1>7, SilentAside DEF Goes
<1>9. Goes(A, R, {})
  BY <1>2, <1>4, <1>7, <1>8, RegisterGoes
<1>10. Sane(R) /\ Quiet(A, R)
  BY Zenon, <1>8, <1>9, QuietCalls DEF Goes
<1> HIDE DEF R
<1>11. /\ \A f \in Fds : A.table[f] \in {Q.table[f], None}
       /\ A.promise \in {P.promise, "true", "false"}
       /\ A.main = P.main /\ A.sent = P.sent
  BY <1>2, <1>7
<1>12. Becomes(p, R)
  BY <1>1, SSLBecomes
<1> QED BY <1>0, <1>1, <1>3, <1>8, <1>10, <1>11, <1>12, ConnectFlow

(* A client's step that leaves its queue, its descriptors and the others alone. *)
LEMMA AsideFlow ==
  ASSUME NetIInv, FlowIInv, ~Datagrams, NEW c \in Clients, NEW Q, proc' = [proc EXCEPT ![c] = Q],
         Q.tasks = proc[c].tasks, Q.slot = proc[c].slot, Q.uid = proc[c].uid,
         Q.table = proc[c].table, Q.sent \in Nat, proc[c].main # "end", Q.main # "end",
         Q.promise = "true" => c \in connected,
         Q.main = "send" => Q.promise = "true",
         Pooled /\ Q.main \in {"wait", "loop"} => c \in connected,
         UNCHANGED <<inbox, backlog, connected, out, got, app, ssl, forwarded>>
  PROVE  FlowIInv'
<1>1. c \in Procs /\ proc'[c] = Q /\ UNCHANGED <<app, connected, backlog>>
  BY Names DEF NetIInv
<1>2. Silent(proc[c], Q)
  BY SilentAside
<1>3. Carries(proc[c]) /\ Carries(Q)
  BY <1>1, <1>2 DEF FlowIInv, Silent
<1>4. Behaves(c)'
  BY <1>1, <1>2, <1>3, BehavesStill
<1>5. Opens(c, Q) /\ Joins1(c)
  BY <1>1 DEF Opens, Joins1
<1>6. UNCHANGED <<inbox, out, got, app, ssl, forwarded>>
  OBVIOUS
<1> QED BY <1>3, <1>4, <1>5, <1>6, ClientStill

(* future.get() returns. *)
LEMMA ConnectedFlow ==
  ASSUME NetIInv, FlowIInv, ~Datagrams, NEW c \in Clients, Connected(c)
  PROVE  FlowIInv'
<1> DEFINE P == proc[c]
           Q == IF P.promise = "true" THEN [P EXCEPT !.main = "send"]
                ELSE [SetExit(P) EXCEPT !.main = "loop"]
<1>1. /\ P.main = "wait" /\ proc' = [proc EXCEPT ![c] = Q]
      /\ UNCHANGED <<inbox, backlog, connected, out, got, app, ssl, forwarded>>
  BY DEF Connected, rest, kernel
<1>2. c \in Procs /\ DOMAIN P = Fields /\ P.sent \in Nat /\ Behaves(c)
  BY Names, SaneProc, SettledParts DEF Sane, Typed, FlowIInv
<1>3. /\ Q.tasks = P.tasks /\ Q.slot = P.slot /\ Q.uid = P.uid /\ Q.table = P.table /\ Q.sent = P.sent
      /\ Q.promise = P.promise /\ Q.main = IF P.promise = "true" THEN "send" ELSE "loop"
  BY <1>2 DEF Fields, SetExit
<1> HIDE DEF Q
<1>4. /\ Q.promise = "true" => c \in connected
      /\ Q.main = "send" => Q.promise = "true"
      /\ Pooled /\ Q.main \in {"wait", "loop"} => c \in connected
      /\ P.main # "end" /\ Q.main # "end" /\ Q.sent \in Nat
  BY <1>1, <1>2, <1>3 DEF Behaves
<1> QED BY <1>1, <1>3, <1>4, AsideFlow

(* The client's handshake ends. *)
LEMMA ClientHandshakeFlow ==
  ASSUME NetIInv, FlowIInv, ~Datagrams, NEW c \in Procs, ClientHandshake(c)
  PROVE  FlowIInv'
<1> DEFINE P == proc[c]
           Q == [P EXCEPT !.blocked = None, !.promise = "true",
                          !.main = IF Pooled THEN "loop" ELSE @]
<1>1. /\ c \in Clients /\ P.main # "end" /\ proc[Server].blocked = <<"srv", c>>
      /\ proc' = [proc EXCEPT ![c] = Q]
      /\ UNCHANGED <<inbox, backlog, connected, out, got, app, ssl, forwarded>>
  BY DEF ClientHandshake, rest, kernel, Up, Link, Peer
<1>2. DOMAIN P = Fields /\ P.sent \in Nat
  BY SaneProc DEF Sane, Typed, FlowIInv
<1>3. /\ Q.tasks = P.tasks /\ Q.slot = P.slot /\ Q.uid = P.uid /\ Q.table = P.table /\ Q.sent = P.sent
      /\ Q.promise = "true" /\ Q.main \in {P.main, "loop"}
  BY <1>2 DEF Fields
<1> HIDE DEF Q
<1>4. c \in connected
  <2>1. <<"srv", c>> # None /\ <<"srv", c>> \in Socks
    BY <1>1, Names DEF Socks, Streams
  <2>2. proc[Server].fd[<<"srv", c>>] \in Fds
    BY <1>1, <2>1, SaneProc, Names DEF Sane, Owns
  <2> QED BY <1>1, <2>2, Names DEF NetIInv, Queued
<1>5. P.main # "end" /\ Q.main # "end" /\ Q.sent \in Nat
  BY <1>1, <1>2, <1>3
<1> QED BY <1>1, <1>3, <1>4, <1>5, AsideFlow

(* The next message is sent. *)
LEMMA SendFlow ==
  ASSUME NetIInv, FlowIInv, ~Datagrams, NEW c \in Clients, SendNext(c)
  PROVE  FlowIInv'
<1> DEFINE P == proc[c]
           n == P.sent + 1
           A == [P EXCEPT !.sent = n, !.main = IF n < Sends THEN @ ELSE "loop"]
           B == [P EXCEPT !.main = "loop"]
           s == Link(c)
<1>1. /\ P.main = "send" /\ UNCHANGED <<inbox, backlog, connected, out, got, app, ssl, forwarded>>
      /\ \E Q \in {B, SSL!asend(A, s, <<n>>), Sock!asend(A, s, <<n>>)} : proc' = [proc EXCEPT ![c] = Q]
  BY DEF SendNext, rest, kernel, Datagrams
<1>2. c \in Procs /\ Sane(P) /\ DOMAIN P = Fields /\ P.sent \in Nat /\ Behaves(c) /\ Carries(P)
  BY Names, SaneProc, SettledParts DEF Sane, Typed, FlowIInv
<1>3. c \in connected /\ P.promise = "true"
  BY <1>1, <1>2 DEF Behaves
<1>4. s \in Socks /\ s = <<"cli", c>>
  BY DEF Link, Socks, Streams
<1>5. /\ A.tasks = P.tasks /\ A.slot = P.slot /\ A.uid = P.uid /\ A.table = P.table /\ A.sent = n
      /\ A.promise = P.promise /\ A.blocked = P.blocked /\ A.main \in {"send", "loop"} /\ Aside(P, A)
      /\ B.tasks = P.tasks /\ B.slot = P.slot /\ B.uid = P.uid /\ B.table = P.table /\ B.sent = P.sent
      /\ B.promise = P.promise /\ B.main = "loop"
  BY <1>1, <1>2 DEF Aside, Fields
<1> HIDE DEF A, B
<1>6. Sane(A) /\ Carries(A)
  <2>1. /\ P.promise \in {"none", "true", "false"}
        /\ P.blocked # None => P.blocked \in Socks /\ P.fd[P.blocked] \in Fds
    BY <1>2 DEF Sane, Typed, Owns
  <2>2. A.main \in {"off", "wait", "send", "loop", "end"} /\ A.promise \in {"none", "true", "false"}
    BY <1>5, <2>1
  <2>3. Goes(P, A, {})
    BY <1>1, <1>2, <1>5, <2>1, <2>2, AsideGoes
  <2> QED BY <1>2, <1>5, <2>3 DEF Goes, Carries
<1>7. <<n>> \in Seq(Token) /\ n \in Nat
  BY <1>2 DEF Token
<1>8. CASE proc' = [proc EXCEPT ![c] = B]
  <2>1. B.main # "end" /\ B.sent \in Nat /\ B.main # "send"
    BY <1>2, <1>5
  <2> QED BY <1>1, <1>3, <1>5, <1>8, <2>1, AsideFlow
<1>9. CASE \E Q \in {SSL!asend(A, s, <<n>>), Sock!asend(A, s, <<n>>)} : proc' = [proc EXCEPT ![c] = Q]
  <2>1. PICK Q \in {SSL!asend(A, s, <<n>>), Sock!asend(A, s, <<n>>)} : proc' = [proc EXCEPT ![c] = Q]
    BY <1>9
  <2>2. Carries(Q) /\ SameControl(A, Q) /\ \A f \in Fds : Q.table[f] \in {A.table[f], None}
    <3>1. CASE A.fd[s] \in Fds
      <4>1. Tells(A, SSL!asend(A, s, <<n>>), s, <<n>>) /\ Tells(A, Sock!asend(A, s, <<n>>), s, <<n>>)
        BY <1>4, <1>6, <1>7, <3>1, TellsSend
      <4> QED BY <1>6, <2>1, <4>1 DEF Tells
    <3>2. CASE A.fd[s] \notin Fds
      <4>1. A.fd[s] = -1
        BY <1>4, <1>6, <3>2 DEF Sane, Typed
      <4>2. ~valid(A, s)
        BY <4>1 DEF valid
      <4>3. Sock!asend(A, s, <<n>>) = A /\ SSL!asend(A, s, <<n>>) = A
        BY <4>2, SockNet, SSLNet DEF Sock!asend, SSL!asend
      <4>4. Q = A
        BY <2>1, <4>3
      <4> QED BY <1>6, <4>4 DEF SameControl
    <3> QED BY <3>1, <3>2
  <2>3. /\ proc'[c] = Q /\ Q.main \in {"send", "loop"} /\ Q.sent \in Nat /\ Q.promise = "true"
        /\ \A f \in Fds : Q.table[f] \in {P.table[f], None}
    BY <1>2, <1>3, <1>5, <1>7, <2>1, <2>2 DEF NetIInv, SameControl
  <2>4. Behaves(c)'
    BY <1>1, <1>3, <2>3, AppsSame DEF Behaves
  <2>5. Opens(c, Q) /\ Joins1(c) /\ Q.main # "end" /\ P.main # "end"
    BY <1>1, <2>3 DEF Opens, Joins1
  <2>6. UNCHANGED <<inbox, out, got, app, ssl, forwarded>>
    BY <1>1
  <2> QED BY <2>1, <2>2, <2>3, <2>4, <2>5, <2>6, ClientStill
<1> QED BY <1>1, <1>8, <1>9

\* P opened s and queued tasks that write nothing.
Begins(P, Q, s) ==
  /\ Silent(P, Q) /\ Q.promise = P.promise /\ Q.sent = P.sent
  /\ \A f \in Fds : Q.table[f] \in {P.table[f], None, s}
  /\ Q.batch = P.batch /\ Q.interest = P.interest /\ Q.custom = P.custom

(* A task is added. *)
LEMMA BeginsAdd ==
  ASSUME NEW P, NEW R, Sane(R), NEW s, Begins(P, R, s),
         NEW op, op \notin Writers \cup {"sendto", "frame"}, NEW who, NEW fd, NEW data,
         NEW Q, Q = AddTask(R, Task(op, who, fd, data))
  PROVE  Begins(P, Q, s) /\ Q.main = R.main /\ Q.blocked = R.blocked /\ DOMAIN Q = Fields
<1>1. DOMAIN R = Fields
  BY DEF Sane, Typed
<1>2. /\ Q.main = R.main /\ Q.blocked = R.blocked /\ Q.promise = R.promise /\ Q.sent = R.sent
      /\ Q.table = R.table /\ Q.batch = R.batch /\ Q.interest = R.interest /\ Q.custom = R.custom
      /\ DOMAIN Q = Fields
  BY <1>1 DEF AddTask, Fields
<1>3. Silent(R, Q)
  <2>1. Quiet(R, Q)
    BY QuietAdd
  <2> QED BY <2>1, QuietSilent
<1>4. Silent(P, Q)
  BY <1>3, SilentOn DEF Begins
<1> QED BY <1>2, <1>4 DEF Begins

\* All but where main() is.
SameButMain(Q, M, m) ==
  /\ M.tasks = Q.tasks /\ M.slot = Q.slot /\ M.uid = Q.uid /\ M.promise = Q.promise
  /\ M.sent = Q.sent /\ M.table = Q.table /\ M.batch = Q.batch /\ M.interest = Q.interest
  /\ M.custom = Q.custom /\ M.main = m /\ M.blocked = Q.blocked

(* main() goes on. *)
LEMMA BeginsMain ==
  ASSUME NEW P, NEW Q, NEW s, Begins(P, Q, s), NEW m, NEW M, SameButMain(Q, M, m)
  PROVE  Begins(P, M, s)
<1>1. Silent(Q, M)
  BY SilentAside DEF SameButMain
<1>2. Silent(P, M)
  BY <1>1, SilentOn DEF Begins
<1> QED BY <1>2 DEF Begins, SameButMain

(* A process opens its first socket. *)
LEMMA BeginsOpen ==
  ASSUME NetIInv, NEW p \in Procs, proc[p].main = "off", NEW s \in Socks, Proc(s) = p
  PROVE  LET R == Open(proc[p], s)
         IN  /\ Begins(proc[p], R, s) /\ Sane(R) /\ R.fd[s] \in Fds
             /\ R.main = "off" /\ R.blocked = proc[p].blocked
<1> DEFINE P == proc[p]
           R == Open(P, s)
<1>1. Sane(R) /\ R.fd[s] \in Fds /\ Sane(P)
  BY Opened, SaneProc
<1>2. /\ Silent(P, R) /\ R.sent = P.sent /\ R.main = P.main /\ R.promise = P.promise
      /\ R.blocked = P.blocked /\ \A f \in Fds : R.table[f] \in {P.table[f], s}
  BY <1>1, OpenSilent
<1>3. R.batch = P.batch /\ R.interest = P.interest /\ R.custom = P.custom
  BY <1>1 DEF Open, Sane, Typed, Fields
<1> QED BY <1>1, <1>2, <1>3 DEF Begins

(* The tasks of a start write nothing. *)
LEMMA StartOps ==
  \A op \in {"work", "first", "start", "shmread", "connect", "ssl_connect"} :
     op \notin Writers \cup {"sendto", "frame"}
BY DEF Writers

(* The first poll is queued. *)
LEMMA BeginsPrepare ==
  ASSUME NetIInv, NEW p \in Procs, proc[p].main = "off", NEW s \in Socks, Proc(s) = p,
         NEW m \in {"wait", "send", "loop"}
  PROVE  LET Q == Prepare(proc[p], s, m)
         IN  /\ Begins(proc[p], Q, s) /\ Q.main = m /\ Q.blocked = proc[p].blocked /\ Sane(Q)
             /\ Q.fd[s] \in Fds
<1> DEFINE P == proc[p]
           R == Open(P, s)
           Q == Prepare(P, s, m)
<1>1. Begins(P, R, s) /\ Sane(R) /\ R.blocked = P.blocked
  BY BeginsOpen
<1> DEFINE W == AddTask(R, Task("work", None, -1, <<>>))
<1>2. Q = [W EXCEPT !.main = m]
  BY DEF Prepare, Work
<1>3. Sane(Q) /\ Q.fd[s] \in Fds
  BY PrepareGoes
<1>5. "work" \notin Writers \cup {"sendto", "frame"}
  BY StartOps
<1>6. W = AddTask(R, Task("work", None, -1, <<>>))
  OBVIOUS
<1> HIDE DEF R, Q, W
<1>7. Begins(P, W, s) /\ W.main = R.main /\ W.blocked = R.blocked /\ DOMAIN W = Fields
  BY <1>1, <1>5, <1>6, BeginsAdd
<1>4. Begins(P, Q, s) /\ Q.main = m /\ Q.blocked = R.blocked
  <2>1. SameButMain(W, Q, m)
    BY <1>2, <1>7 DEF Fields, SameButMain
  <2> QED BY <2>1, <1>7, BeginsMain DEF SameButMain
<1> QED BY <1>1, <1>3, <1>4 DEF Q

(* The servers start. *)
LEMMA ServerBegins ==
  ASSUME NetIInv, proc[Server].main = "off"
  PROVE  LET P == proc[Server]
             L == Listen(P)
             D == AddTask(L, Task("shmread", None, -1, <<>>))
             F == FirstPoll(P)
         IN  \A Q \in {L, D, F} : Begins(P, Q, Own) /\ Q.main = "loop" /\ Q.blocked = P.blocked
<1> DEFINE P == proc[Server]
           L == Listen(P)
           D == AddTask(L, Task("shmread", None, -1, <<>>))
           F == FirstPoll(P)
           R == Open(P, Own)
           A == Prepare(P, Own, "loop")
<1>0. Own \in Socks /\ Proc(Own) = Server /\ Server \in Procs
  BY Names DEF Proc, Own
<1>1. Begins(P, R, Own) /\ Sane(R) /\ R.blocked = P.blocked
  BY <1>0, BeginsOpen
<1> DEFINE G == AddTask(R, Task("first", None, -1, <<>>))
<1>2. F = [G EXCEPT !.main = "loop"] /\ G = AddTask(R, Task("first", None, -1, <<>>))
  BY DEF FirstPoll
<1>9. D = AddTask(L, Task("shmread", None, -1, <<>>))
  OBVIOUS
<1>3. Begins(P, A, Own) /\ A.main = "loop" /\ A.blocked = P.blocked /\ Sane(A)
  BY <1>0, BeginsPrepare
<1>4. L = AddTask(A, Task("start", Own, A.fd[Own], <<>>))
  BY AccNet DEF Listen, Prepare, Acc!start
<1>5. Sane(L)
  BY ListenStarts DEF Goes
<1>10. /\ "first" \notin Writers \cup {"sendto", "frame"}
       /\ "start" \notin Writers \cup {"sendto", "frame"}
       /\ "shmread" \notin Writers \cup {"sendto", "frame"}
  BY StartOps
<1> HIDE DEF R, F, G, A, L, D
<1>11. Begins(P, G, Own) /\ G.blocked = P.blocked /\ DOMAIN G = Fields
  BY <1>1, <1>2, <1>10, BeginsAdd
<1>6. Begins(P, F, Own) /\ F.main = "loop" /\ F.blocked = P.blocked
  <2>1. SameButMain(G, F, "loop")
    BY <1>2, <1>11 DEF Fields, SameButMain
  <2> QED BY <2>1, <1>11, BeginsMain DEF SameButMain
<1>7. Begins(P, L, Own) /\ L.main = "loop" /\ L.blocked = P.blocked
  BY <1>3, <1>4, <1>10, BeginsAdd
<1>8. Begins(P, D, Own) /\ D.main = "loop" /\ D.blocked = P.blocked
  BY <1>5, <1>7, <1>9, <1>10, BeginsAdd
<1> QED BY <1>6, <1>7, <1>8 DEF L, F, D

(* The server starts. *)
LEMMA StartServerFlow ==
  ASSUME NetIInv, FlowIInv, ~Datagrams, StartServer
  PROVE  FlowIInv'
<1> DEFINE P == proc[Server]
           L == Listen(P)
           D == AddTask(L, Task("shmread", None, -1, <<>>))
           F == FirstPoll(P)
<1>0. /\ Server \in Procs /\ Server \notin Clients /\ P.main = "off"
      /\ UNCHANGED <<inbox, backlog, connected, out, got, app, ssl, forwarded>>
  BY Names, NamesAssumption DEF StartServer, rest, kernel
<1>1. \E Q \in {L, D, F} : proc' = [proc EXCEPT ![Server] = Q]
  BY Examples DEF StartServer, Polled, tcp_testTcpServer, Datagrams,
     unix_testUnixDomainStreamServer, ssl_testTcpServer, detach_tcpServer, socket_test_server,
     ssl_test_server
<1>2. PICK Q : /\ Begins(P, Q, Own) /\ Q.main = "loop" /\ Q.blocked = P.blocked
               /\ proc' = [proc EXCEPT ![Server] = Q]
  BY <1>0, <1>1, ServerBegins
<1>3. proc'[Server] = Q /\ \A q \in Procs : q # Server => proc'[q] = proc[q]
  BY <1>0, <1>2 DEF NetIInv
<1>4. Shaped /\ Carries(P) /\ P.sent \in Nat /\ PoolKept
  BY <1>0 DEF FlowIInv
<1>5. Onward
  <2>1. ASSUME NEW q \in Procs, proc[q].main = "end" PROVE proc'[q].main = "end"
    BY <1>0, <1>3, <2>1
  <2>2. ASSUME NEW q \in Procs, NEW f \in Fds PROVE proc'[q].table[f] \in {proc[q].table[f], None, Own}
    BY <1>2, <1>3 DEF Begins
  <2> QED BY <1>0, <2>1, <2>2 DEF Onward
<1>6. Shaped'
  BY <1>0, <1>4 DEF Shaped
<1>7. ASSUME NEW c \in Clients PROVE Unwritten(c)' /\ Open1(c)'
  <2>1. Unwritten(c) /\ Open1(c)
    BY SettledParts DEF FlowIInv
  <2> QED BY <1>0, <1>2, <1>3, <2>1 DEF Unwritten, Open1
<1>8. PoolKept'
  <2>1. SUFFICES ASSUME Pooled
                 PROVE  /\ Q.custom = {} /\ Q.batch \subseteq Q.interest /\ Q.interest = {}
                        /\ Polling(Q)
    BY <1>0, <1>3, AppsSame DEF PoolKept, Polling
  <2>2. Sane(P) /\ Fresh(P)
    BY <1>0 DEF NetIInv, Proper
  <2>4. Polling(Q)
    <3>1. proc' = [proc EXCEPT ![Server] = F]
      BY <2>1 DEF StartServer, Pooled, socket_test_server, ssl_test_server
    <3>2. F = Q
      BY <1>0, <1>3, <3>1 DEF NetIInv
    <3>3. DOMAIN Open(P, Own) = Fields /\ Open(P, Own).tasks = <<>>
      BY <2>2 DEF Open, Sane, Typed, Fresh, Fields
    <3>4. F.tasks = Append(<<>>, Task("first", None, -1, <<>>))
      BY <3>3 DEF FirstPoll, AddTask, Fields
    <3>5. <<>> \in Seq(Range(<<>>)) /\ Range(<<>>) = {}
      BY DEF Range
    <3> HIDE DEF F
    <3>6. Range(F.tasks) = {Task("first", None, -1, <<>>)}
      <4>1. \A t : Range(Append(<<>>, t)) = Range(<<>>) \cup {t}
        BY <3>5, AppendTask
      <4> QED BY <3>4, <3>5, <4>1
    <3>7. Task("first", None, -1, <<>>).op = "first"
      BY DEF Task
    <3> QED BY <3>2, <3>6, <3>7 DEF Polling
  <2>3. P.interest = {}
    BY <2>2 DEF Sane, Typed, Owns, Fresh
  <2> QED BY <1>2, <1>4, <2>1, <2>3, <2>4 DEF PoolKept, Begins
<1>9. /\ KeepsFrames(P, Q) /\ Carries(Q) /\ \A r \in Socks : Pending(Q, r) = Pending(P, r)
      /\ Q.sent \in Nat
  BY <1>2, <1>4 DEF Begins, Silent
<1>10. proc'[Server].main # "end" /\ Q.main # "end"
  BY <1>2, <1>3
<1>11. UNCHANGED <<inbox, out, got, forwarded>>
  BY <1>0
<1> QED BY <1>0, <1>2, <1>5, <1>6, <1>7, <1>8, <1>9, <1>10, <1>11, StillFlow

(* A client starts. *)
LEMMA BeginsFlow ==
  ASSUME NetIInv, FlowIInv, ~Datagrams, NEW c \in Clients, proc[c].main = "off",
         NEW Q, proc' = [proc EXCEPT ![c] = Q], Begins(proc[c], Q, <<"cli", c>>),
         Q.main \in {"wait", "loop"}, Joins1(c), Pooled => connected' = connected \cup {c},
         UNCHANGED <<inbox, out, got, app, ssl, forwarded>>
  PROVE  FlowIInv'
<1> DEFINE P == proc[c]
<1>1. c \in Procs /\ proc'[c] = Q /\ c \notin connected /\ Carries(P) /\ P.sent \in Nat /\ Behaves(c)
  BY Names, SettledParts DEF NetIInv, Joining, FlowIInv
<1>2. Carries(Q) /\ Silent(P, Q) /\ Q.promise = P.promise /\ Q.sent \in Nat
  BY <1>1 DEF Begins, Silent
<1>3. Q.promise # "true"
  BY <1>1, <1>2 DEF Behaves
<1>4. connected \subseteq connected'
  BY DEF Joins1
<1>5. Behaves(c)'
  BY <1>1, <1>2, <1>3, <1>4, BehavesStill
<1>6. Opens(c, Q)
  BY DEF Begins, Opens
<1> QED BY <1>1, <1>2, <1>5, <1>6, ClientStill

(* A client with a poller starts. *)
LEMMA StartClientFlow ==
  ASSUME NetIInv, FlowIInv, ~Datagrams, NEW c \in Clients, StartClient(c)
  PROVE  FlowIInv'
<1> DEFINE P == proc[c]
           s == Link(c)
           A == Prepare(P, s, "wait")
           C1 == Sock!asyncConnect(A, s)
           C2 == SSL!asyncConnect(A, s)
<1>0. c \in Procs /\ s \in Socks /\ Proc(s) = c /\ s = <<"cli", c>>
  BY Names, NamesAssumption DEF Link, Socks, Streams, Proc
<1>1. /\ P.main = "off" /\ ~Pooled /\ UNCHANGED <<inbox, out, got, app, ssl, forwarded>> /\ Joins1(c)
      /\ \E Q \in {C1, C2} : proc' = [proc EXCEPT ![c] = Q]
  BY Examples DEF StartClient, rest, kernel, Polled, tcp_testTcpClient, Datagrams, Joins1,
     unix_testUnixDomainStreamClient, ssl_testTcpClient
<1>2. Begins(P, A, s) /\ A.main = "wait" /\ Sane(A)
  BY <1>0, <1>1, BeginsPrepare
<1> HIDE DEF A
<1>3. /\ C1 \in {A, AddTask(A, Task("connect", s, -1, <<>>))}
      /\ C2 \in {A, AddTask(A, Task("ssl_connect", s, -1, <<>>))}
  BY SockNet, SSLNet DEF Sock!asyncConnect, SSL!asyncConnect
<1> HIDE DEF C1, C2
<1>6. /\ "connect" \notin Writers \cup {"sendto", "frame"}
      /\ "ssl_connect" \notin Writers \cup {"sendto", "frame"}
  BY StartOps
<1>7. ASSUME C1 # A PROVE Begins(P, C1, s) /\ C1.main = "wait"
  <2>1. C1 = AddTask(A, Task("connect", s, -1, <<>>))
    BY <1>3, <1>7
  <2>2. Begins(P, C1, s) /\ C1.main = A.main
    BY <1>2, <1>6, <2>1, BeginsAdd
  <2> QED BY <1>2, <2>2
<1>8. ASSUME C2 # A PROVE Begins(P, C2, s) /\ C2.main = "wait"
  <2>1. C2 = AddTask(A, Task("ssl_connect", s, -1, <<>>))
    BY <1>3, <1>8
  <2>2. Begins(P, C2, s) /\ C2.main = A.main
    BY <1>2, <1>6, <2>1, BeginsAdd
  <2> QED BY <1>2, <2>2
<1>4. /\ Begins(P, C1, s) /\ C1.main = "wait"
      /\ Begins(P, C2, s) /\ C2.main = "wait"
  BY <1>2, <1>7, <1>8
<1>5. PICK Q : Begins(P, Q, s) /\ Q.main = "wait" /\ proc' = [proc EXCEPT ![c] = Q]
  BY <1>1, <1>4
<1> QED BY <1>0, <1>1, <1>5, BeginsFlow

(* main() goes on, after its socket was opened. *)
LEMMA BeginsAside ==
  ASSUME NEW P, NEW Q, NEW s, Begins(P, Q, s), NEW M,
         M.tasks = Q.tasks, M.slot = Q.slot, M.uid = Q.uid, M.promise = Q.promise,
         M.sent = Q.sent, M.table = Q.table, M.batch = Q.batch, M.interest = Q.interest,
         M.custom = Q.custom
  PROVE  Begins(P, M, s)
<1>1. Silent(Q, M)
  BY SilentAside
<1>2. Silent(P, M)
  BY <1>1, SilentOn DEF Begins
<1> QED BY <1>2 DEF Begins

(* A pool client starts with its connect, or ends at once. *)
LEMMA ConnectClientFlow ==
  ASSUME NetIInv, FlowIInv, ~Datagrams, NEW c \in Clients, ConnectClient(c)
  PROVE  FlowIInv'
<1> DEFINE P == proc[c]
           s == Link(c)
           R == Open(P, s)
           A == [R EXCEPT !.main = "loop"]
           B == [R EXCEPT !.main = "wait", !.blocked = s]
           E == [P EXCEPT !.main = "end"]
<1>0. /\ c \in Procs /\ s \in Socks /\ Proc(s) = c /\ s = <<"cli", c>>
      /\ P.main = "off" /\ Pooled /\ UNCHANGED <<inbox, out, got, app, ssl, forwarded>>
  BY Names, NamesAssumption DEF Link, Socks, Streams, Proc, ConnectClient, rest
<1>1. \/ /\ proc' = [proc EXCEPT ![c] = A] \/ proc' = [proc EXCEPT ![c] = B]
         /\ Listening /\ connected' = connected \cup {c} /\ backlog' = Append(backlog, c)
      \/ proc' = [proc EXCEPT ![c] = E] /\ UNCHANGED <<connected, backlog>>
  BY DEF ConnectClient, socket_test_client, ssl_test_client
<1>2. CASE /\ proc' = [proc EXCEPT ![c] = A] \/ proc' = [proc EXCEPT ![c] = B]
           /\ Listening /\ connected' = connected \cup {c} /\ backlog' = Append(backlog, c)
  <2>1. Begins(P, R, s) /\ Sane(R)
    BY <1>0, BeginsOpen
  <2>2. DOMAIN R = Fields
    BY <2>1 DEF Sane, Typed
  <2> HIDE DEF R
  <2>3. /\ A.tasks = R.tasks /\ A.slot = R.slot /\ A.uid = R.uid /\ A.promise = R.promise
        /\ A.sent = R.sent /\ A.table = R.table /\ A.batch = R.batch /\ A.interest = R.interest
        /\ A.custom = R.custom /\ A.main = "loop"
    BY <2>2 DEF Fields
  <2>4. /\ B.tasks = R.tasks /\ B.slot = R.slot /\ B.uid = R.uid /\ B.promise = R.promise
        /\ B.sent = R.sent /\ B.table = R.table /\ B.batch = R.batch /\ B.interest = R.interest
        /\ B.custom = R.custom /\ B.main = "wait"
    BY <2>2 DEF Fields
  <2> HIDE DEF A, B
  <2>5. Begins(P, A, s) /\ Begins(P, B, s)
    BY <2>1, <2>3, <2>4, BeginsAside
  <2>6. PICK Q : Begins(P, Q, s) /\ Q.main \in {"wait", "loop"} /\ proc' = [proc EXCEPT ![c] = Q]
    BY <1>2, <2>3, <2>4, <2>5
  <2>7. c \notin connected
    BY <1>0 DEF NetIInv, Joining
  <2>8. proc[Server].main # "end"
    BY <1>2, ListenerUp
  <2>9. Joins1(c)
    BY <1>2, <2>7, <2>8 DEF Joins1
  <2> QED BY <1>0, <1>2, <2>6, <2>9, BeginsFlow
<1>3. CASE proc' = [proc EXCEPT ![c] = E] /\ UNCHANGED <<connected, backlog>>
  <2>1. Sane(P) /\ Fresh(P) /\ DOMAIN P = Fields
    BY <1>0 DEF NetIInv, Proper, Sane, Typed
  <2>2. /\ E.main = "end" /\ E.tasks = P.tasks /\ E.slot = P.slot /\ E.uid = P.uid
        /\ E.promise = P.promise /\ E.sent = P.sent /\ E.table = P.table
    BY <2>1 DEF Fields
  <2> HIDE DEF E
  <2>3. proc'[c] = E
    BY <1>0, <1>3 DEF NetIInv
  <2>4. Carries(P) /\ P.sent \in Nat /\ Behaves(c)
    BY <1>0, SettledParts DEF FlowIInv
  <2>5. Silent(P, E)
    BY <2>2, SilentAside
  <2>6. Carries(E)
    BY <2>4, <2>5 DEF Silent
  <2>7. E.promise = "true" => c \in connected'
    BY <1>3, <2>2, <2>4 DEF Behaves
  <2>8. connected \subseteq connected' /\ UNCHANGED app
    BY <1>0, <1>3
  <2>9. Behaves(c)'
    BY <2>2, <2>3, <2>4, <2>5, <2>7, <2>8, BehavesStill
  <2>10. \A f \in Fds : E.table[f] = None
    BY <2>1, <2>2 DEF Fresh
  <2>11. Opens(c, E)
    BY <2>10 DEF Opens
  <2>12. Joins1(c)
    BY <1>3 DEF Joins1
  <2> QED BY <1>0, <1>3, <2>2, <2>4, <2>6, <2>9, <2>10, <2>11, <2>12, ClientStill
<1> QED BY <1>1, <1>2, <1>3

(* A process that leaves, or that a signal ends. *)
LEMMA LeaveFlow ==
  ASSUME NetIInv, FlowIInv, ~Datagrams, NEW p \in Procs, Leave(p) \/ Sigpipe(p) \/ ConnectAborts(p)
  PROVE  FlowIInv'
<1>1. End(p) /\ UNCHANGED <<connected, out, got, app, ssl, forwarded>>
  <2>1. CASE Leave(p) \/ ConnectAborts(p)
    BY <2>1 DEF Leave, ConnectAborts, rest
  <2>2. CASE Sigpipe(p)
    <3>1. \/ Sock!End(p) /\ UNCHANGED <<connected, out, got, app, ssl, forwarded>>
          \/ Pool!End(p) /\ UNCHANGED <<connected, out, got, app, ssl, forwarded>>
      BY <2>2 DEF Sigpipe, Sock!Killed, Pool!Killed, rest
    <3> QED BY <3>1, SockEnd, PoolEnd
  <2> QED BY <2>1, <2>2
<1> QED BY <1>1, EndFlow

\* A pool server listens to its listener and to the streams of its map.
Listens(P) ==
  \A f \in P.interest :
     \/ P.table[f] = Own
     \/ P.table[f] \in DOMAIN P.objects /\ P.objects[P.table[f]] = P.table[f]
PoolSane(P) == P.custom = {} /\ P.batch \subseteq P.interest /\ Listens(P) /\ Polling(P)

(* What there is to keep of a pool server. *)
LEMMA PoolKeptIs ==
  /\ PoolKept => (Pooled => PoolSane(proc[Server]))
  /\ app' = app => ((Pooled => PoolSane(proc'[Server])) => PoolKept')
<1>1. PoolKept => (Pooled => PoolSane(proc[Server]))
  BY DEF PoolKept, PoolSane, Listens, Polling
<1>2. ASSUME app' = app, Pooled => PoolSane(proc'[Server]) PROVE PoolKept'
  <2>1. Pooled' = Pooled
    BY <1>2, AppsSame
  <2> QED BY <1>2, <2>1 DEF PoolKept, PoolSane, Listens, Polling
<1> QED BY <1>1, <1>2

(* What a pool server listens to is referenced. *)
LEMMA ListensKept ==
  ASSUME NEW P, Sane(P), Listens(P), NEW f \in P.interest
  PROVE  /\ f \in Fds /\ P.table[f] \in Socks /\ P.fd[P.table[f]] = f
         /\ \A s \in Unreferenced(P) : P.fd[s] # f
<1>1. f \in Fds /\ P.table[f] \in Socks /\ P.fd[P.table[f]] = f
  BY DEF Sane, Typed, Owns
<1>2. ASSUME NEW s \in Unreferenced(P), P.fd[s] = f PROVE FALSE
  <2>1. s \in Socks /\ ~Referenced(P, s)
    BY DEF Unreferenced
  <2>2. P.table[f] = s
    <3>1. P.table[f] \in {s, None}
      BY <1>1, <1>2, <2>1 DEF Sane, Owns
    <3> QED BY <1>1, <3>1, Names
  <2>3. Own \notin {"srv"} \X Clients
    BY NamesAssumption DEF Own
  <2>4. P.table[f] # Own
    BY <2>1, <2>2, <2>3 DEF Referenced
  <2>5. s \in Range(P.objects)
    BY <2>2, <2>4 DEF Listens, Range
  <2> QED BY <2>1, <2>5 DEF Referenced
<1> QED BY <1>1, <1>2

(* ~Socket leaves alone what a pool server listens to. *)
LEMMA PoolDestroy ==
  ASSUME NEW P, Sane(P), PoolSane(P)
  PROVE  PoolSane(Destroy(P, Unreferenced(P)))
<1> DEFINE dead == Unreferenced(P)
           F == {P.fd[s] : s \in dead}
           R == CloseFds(P, F)
           Q == Destroy(P, dead)
<1>1. DOMAIN P = Fields
  BY DEF Sane, Typed
<1>2. /\ DOMAIN R = Fields /\ R.table = [f \in Fds |-> IF f \in F THEN None ELSE P.table[f]]
      /\ R.interest = P.interest \ F
      /\ R.custom = P.custom /\ R.batch = P.batch /\ R.objects = P.objects /\ R.tasks = P.tasks
  BY <1>1 DEF CloseFds, Fields
<1>3. Q = [R EXCEPT !.fd = [s \in Socks |-> IF s \in dead THEN -1 ELSE R.fd[s]]]
  BY DEF Destroy
<1> HIDE DEF R, Q, dead
<1>4. /\ Q.table = R.table /\ Q.interest = R.interest /\ Q.custom = R.custom
      /\ Q.batch = R.batch /\ Q.objects = R.objects /\ Q.tasks = R.tasks
  BY <1>2, <1>3 DEF Fields
<1>5. \A f \in P.interest : f \in Fds /\ f \notin F
  BY ListensKept DEF dead, PoolSane
<1> HIDE DEF F
<1>6. Q.interest = P.interest /\ \A f \in P.interest : Q.table[f] = P.table[f]
  BY <1>2, <1>4, <1>5
<1>7. PoolSane(Q)
  BY <1>2, <1>4, <1>6 DEF PoolSane, Listens, Polling
<1> QED BY <1>7 DEF Q, dead

(* Members that a poll does not read may change. *)
LEMMA PoolAside ==
  ASSUME NEW P, PoolSane(P), NEW Q, Q.custom = P.custom, Q.batch \subseteq P.batch,
         Q.interest = P.interest, Q.table = P.table, Q.objects = P.objects,
         \A t \in Range(Q.tasks) : t \in Range(P.tasks) \/ t.op \in {"first", "work"}
  PROVE  PoolSane(Q)
BY DEF PoolSane, Listens, Polling

(* The tasks and the end of a callback. *)
LEMMA PoolCalls ==
  ASSUME NEW P, Sane(P), PoolSane(P)
  PROVE  /\ \A t : t.op \in {"first", "work"} => PoolSane(AddTask(P, t))
         /\ P.tasks # <<>> => PoolSane([P EXCEPT !.tasks = Tail(@)])
         /\ \A f : PoolSane(EndCallback(P, f))
         /\ \A s : PoolSane([P EXCEPT !.blocked = s])
<1>1. DOMAIN P = Fields /\ P.tasks \in Seq(Range(P.tasks))
  BY DEF Sane, Typed
<1>6. \A t : Range(Append(P.tasks, t)) = Range(P.tasks) \cup {t}
  BY <1>1, AppendTask
<1>2. ASSUME NEW t, t.op \in {"first", "work"} PROVE PoolSane(AddTask(P, t))
  <2> DEFINE Q == AddTask(P, t)
  <2>1. /\ Q.custom = P.custom /\ Q.batch = P.batch /\ Q.interest = P.interest
        /\ Q.table = P.table /\ Q.objects = P.objects /\ Q.tasks = Append(P.tasks, t)
    BY <1>1 DEF AddTask, Fields
  <2> HIDE DEF Q
  <2>2. PoolSane(Q)
    <3>1. Q.batch \subseteq P.batch
      BY <2>1
    <3>2. \A u \in Range(Q.tasks) : u \in Range(P.tasks) \/ u.op \in {"first", "work"}
      BY <1>2, <1>6, <2>1
    <3> QED BY <2>1, <3>1, <3>2, PoolAside
  <2> QED BY <2>2 DEF Q
<1>3. ASSUME P.tasks # <<>> PROVE PoolSane([P EXCEPT !.tasks = Tail(@)])
  <2> DEFINE Q == [P EXCEPT !.tasks = Tail(@)]
  <2>1. /\ Q.custom = P.custom /\ Q.batch = P.batch /\ Q.interest = P.interest
        /\ Q.table = P.table /\ Q.objects = P.objects /\ Q.tasks = Tail(P.tasks)
    BY <1>1 DEF Fields
  <2> HIDE DEF Q
  <2>3. Range(Tail(P.tasks)) \subseteq Range(P.tasks)
    BY <1>1, <1>3, TailTask
  <2>2. PoolSane(Q)
    BY <2>1, <2>3, PoolAside
  <2> QED BY <2>2 DEF Q
<1>4. ASSUME NEW f PROVE PoolSane(EndCallback(P, f))
  <2> DEFINE Q == EndCallback(P, f)
  <2>1. /\ Q.custom = P.custom /\ Q.batch = P.batch \ {f} /\ Q.interest = P.interest
        /\ Q.table = P.table /\ Q.objects = P.objects
        /\ Q.tasks \in {P.tasks, Append(P.tasks, Work)}
    BY <1>1 DEF EndCallback, Fields
  <2> HIDE DEF Q
  <2>2. Q.batch \subseteq P.batch /\ Work.op = "work"
    BY <2>1 DEF Work, Task
  <2>4. \A t \in Range(Q.tasks) : t \in Range(P.tasks) \/ t.op \in {"first", "work"}
    <3>1. CASE Q.tasks = P.tasks
      BY <3>1
    <3>2. CASE Q.tasks = Append(P.tasks, Work)
      <4>1. Range(Append(P.tasks, Work)) = Range(P.tasks) \cup {Work}
        BY <1>6
      <4>2. Range(Q.tasks) = Range(P.tasks) \cup {Work}
        BY <3>2, <4>1
      <4> QED BY <2>2, <4>2
    <3> QED BY <2>1, <3>1, <3>2
  <2>3. PoolSane(Q)
    BY <2>1, <2>2, <2>4, PoolAside
  <2> QED BY <2>3 DEF Q
<1>5. ASSUME NEW s PROVE PoolSane([P EXCEPT !.blocked = s])
  <2> DEFINE Q == [P EXCEPT !.blocked = s]
  <2>1. /\ Q.custom = P.custom /\ Q.batch = P.batch /\ Q.interest = P.interest
        /\ Q.table = P.table /\ Q.objects = P.objects /\ Q.tasks = P.tasks
    BY <1>1 DEF Fields
  <2> HIDE DEF Q
  <2>2. PoolSane(Q)
    BY <2>1, PoolAside
  <2> QED BY <2>2 DEF Q
<1> QED BY <1>2, <1>3, <1>4, <1>5

(* The listener is given to epoll. *)
LEMMA PoolListens ==
  ASSUME NEW P, Sane(P), PoolSane(P), P.fd[Own] \in Fds
  PROVE  PoolSane(Register(P, P.fd[Own], Own))
<1> DEFINE f == P.fd[Own]
           Q == Register(P, f, Own)
<1>1. DOMAIN P = Fields
  BY DEF Sane, Typed
<1>2. /\ Q.custom = P.custom /\ Q.batch = P.batch /\ Q.table = P.table /\ Q.objects = P.objects
      /\ Q.tasks = P.tasks
      /\ Q.interest = IF f \in Fds /\ P.table[f] # None THEN P.interest \cup {f} ELSE P.interest
  BY <1>1 DEF Register, Fields
<1> HIDE DEF Q
<1>3. P.table[f] \in {Own, None}
  BY Names DEF Sane, Owns
<1>4. \A g \in Q.interest : g \in P.interest \/ Q.table[g] = Own
  BY <1>2, <1>3
<1>5. P.interest \subseteq Q.interest
  BY <1>2
<1>6. PoolSane(Q)
  BY <1>2, <1>4, <1>5 DEF PoolSane, Listens, Polling
<1> QED BY <1>6 DEF Q

(* A client is added. *)
LEMMA PoolAdds ==
  ASSUME NEW P, Sane(P), PoolSane(P), NEW s \in Socks, P.fd[s] \in Fds
  PROVE  PoolSane(Pool!AddClient(P, s))
<1> DEFINE f == P.fd[s]
           R == Register(P, f, s)
           Q == Pool!AddClient(P, s)
<1>1. DOMAIN P = Fields
  BY DEF Sane, Typed
<1>2. /\ DOMAIN R = Fields
      /\ R.custom = P.custom /\ R.batch = P.batch /\ R.table = P.table /\ R.objects = P.objects
      /\ R.tasks = P.tasks
      /\ R.interest = IF f \in Fds /\ P.table[f] # None THEN P.interest \cup {f} ELSE P.interest
  BY <1>1 DEF Register, Fields
<1>3. Q = [R EXCEPT !.objects = Put(@, s, s)]
  BY PoolNet DEF Pool!AddClient
<1> HIDE DEF Q, R
<1>4. /\ Q.custom = P.custom /\ Q.batch = P.batch /\ Q.table = P.table
      /\ Q.objects = Put(P.objects, s, s) /\ Q.interest = R.interest /\ Q.tasks = P.tasks
  BY <1>2, <1>3 DEF Fields
<1>5. P.table[f] \in {s, None}
  BY DEF Sane, Owns
<1>6. /\ s \in DOMAIN Q.objects /\ Q.objects[s] = s
      /\ \A k \in DOMAIN P.objects \ {s} : k \in DOMAIN Q.objects /\ Q.objects[k] = P.objects[k]
  BY <1>4 DEF Put
<1>7. \A g \in Q.interest : g \in P.interest \/ Q.table[g] = s
  BY <1>2, <1>4, <1>5
<1>8. P.interest \subseteq Q.interest
  BY <1>2, <1>4
<1>9. Listens(Q)
  <2> SUFFICES ASSUME NEW g \in Q.interest, Q.table[g] # Own, Q.table[g] # s
               PROVE  Q.table[g] \in DOMAIN Q.objects /\ Q.objects[Q.table[g]] = Q.table[g]
    BY <1>6 DEF Listens
  <2>1. g \in P.interest /\ P.table[g] = Q.table[g]
    BY <1>4, <1>7
  <2>2. P.table[g] \in DOMAIN P.objects /\ P.objects[P.table[g]] = P.table[g]
    BY <2>1 DEF PoolSane, Listens
  <2> QED BY <1>6, <2>1, <2>2
<1>10. PoolSane(Q)
  BY <1>4, <1>8, <1>9 DEF PoolSane, Polling
<1> QED BY <1>10 DEF Q

(* A client is dropped, and the loop goes on. *)
LEMMA PoolDrops ==
  ASSUME NEW P, Sane(P), PoolSane(P), NEW f \in P.batch
  PROVE  PoolSane(EndCallback(Pool!Disconnect(P, f, P.callbacks[f]), f))
<1> DEFINE s == P.callbacks[f]
           R == cancle(P, f)
           D == Pool!Disconnect(P, f, s)
           Q == EndCallback(D, f)
<1>1. DOMAIN P = Fields
  BY DEF Sane, Typed
<1>2. /\ DOMAIN R = Fields
      /\ R.custom = P.custom /\ R.batch = P.batch /\ R.table = P.table /\ R.objects = P.objects
      /\ R.tasks = P.tasks
      /\ R.interest = P.interest \ {f}
  BY <1>1 DEF cancle, Fields
<1>3. D = [R EXCEPT !.objects = Restrict(@, DOMAIN @ \ {s})]
  BY PoolNet DEF Pool!Disconnect
<1> HIDE DEF D, R
<1>4. /\ DOMAIN D = Fields
      /\ D.custom = P.custom /\ D.batch = P.batch /\ D.table = P.table /\ D.tasks = P.tasks
      /\ D.objects = Restrict(P.objects, DOMAIN P.objects \ {s})
      /\ D.interest = P.interest \ {f}
  BY <1>2, <1>3 DEF Fields
<1>5. /\ Q.custom = D.custom /\ Q.batch = D.batch \ {f} /\ Q.table = D.table
      /\ Q.objects = D.objects /\ Q.interest = D.interest
      /\ Q.tasks \in {P.tasks, Append(P.tasks, Work)}
  BY <1>4 DEF EndCallback, Fields
<1> HIDE DEF Q
<1>6. f \in P.interest /\ s = P.table[f]
  BY DEF PoolSane, Sane, Owns
<1>7. P.fd[s] = f
  BY <1>6, ListensKept DEF PoolSane
<1>8. ASSUME NEW g \in Q.interest
      PROVE  \/ Q.table[g] = Own
             \/ Q.table[g] \in DOMAIN Q.objects /\ Q.objects[Q.table[g]] = Q.table[g]
  <2>1. g \in P.interest /\ g # f /\ Q.table[g] = P.table[g]
    BY <1>4, <1>5, <1>8
  <2>2. P.table[g] # s
    BY <1>7, <2>1, ListensKept DEF PoolSane
  <2>3. CASE P.table[g] = Own
    BY <2>1, <2>3
  <2>4. CASE P.table[g] \in DOMAIN P.objects /\ P.objects[P.table[g]] = P.table[g]
    <3>1. P.table[g] \in DOMAIN P.objects \ {s}
      BY <2>2, <2>4
    <3>2. \A k \in DOMAIN P.objects \ {s} : k \in DOMAIN D.objects /\ D.objects[k] = P.objects[k]
      BY <1>4 DEF Restrict
    <3> QED BY <1>5, <2>1, <2>4, <3>1, <3>2
  <2> QED BY <2>1, <2>3, <2>4 DEF PoolSane, Listens
<1>9. Q.custom = {} /\ Q.batch \subseteq Q.interest
  BY <1>4, <1>5 DEF PoolSane
<1>11. Polling(Q)
  <2>1. Range(Append(P.tasks, Work)) = Range(P.tasks) \cup {Work} /\ Work.op = "work"
    BY AppendTask DEF Sane, Typed, Work, Task
  <2> QED BY <1>5, <2>1 DEF PoolSane, Polling
<1>10. PoolSane(Q)
  BY <1>8, <1>9, <1>11 DEF PoolSane, Listens
<1> QED BY <1>10 DEF Q, D, R

(* A descriptor is opened. *)
LEMMA PoolOpens ==
  ASSUME NEW P, Sane(P), PoolSane(P), NEW s \in Socks, FreeFds(P) # {}
  PROVE  PoolSane(Open(P, s))
<1> DEFINE f == Min(FreeFds(P))
           Q == Open(P, s)
<1>1. DOMAIN P = Fields /\ P.table \in [Fds -> Socks \cup {None}]
  BY DEF Sane, Typed
<1>2. f \in Fds /\ P.table[f] = None
  BY FreeFd DEF FreeFds
<1>3. /\ Q.custom = P.custom /\ Q.batch = P.batch /\ Q.interest = P.interest
      /\ Q.objects = P.objects /\ Q.table = [P.table EXCEPT ![f] = s] /\ Q.tasks = P.tasks
  BY <1>1 DEF Open, Fields
<1> HIDE DEF Q, f
<1>4. ASSUME NEW g \in P.interest PROVE Q.table[g] = P.table[g]
  <2>1. g \in Fds /\ P.table[g] # None
    BY <1>4 DEF Sane, Typed, Owns
  <2> QED BY <1>1, <1>2, <1>3, <2>1
<1>5. PoolSane(Q)
  BY <1>3, <1>4 DEF PoolSane, Listens, Polling
<1> QED BY <1>5 DEF Q

\* data is read from s, or lost with the connection, box is left, and message is
\* written to s.
Swaps(s, box, data, message) ==
  /\ inbox' = [inbox EXCEPT ![s] = box, ![Peer(s)] = @ \o message]
  /\ got' = [got EXCEPT ![s] = @ \o data]
  /\ out' = [out EXCEPT ![s] = @ \o message]

\* What is read of s, and what is left.
Reading(s, data, box) ==
  /\ box \in Seq(Nat) /\ Told(box) \in Seq(Token)
  /\ inbox[s] \in Seq(Token) => box \in Seq(Token)
  /\ inbox[s] = <<>> => box = <<>> /\ data = <<>>
  /\ \/ Told(inbox[s]) = data \o Told(box)
     \/ Told(box) = <<>> /\ data = <<>> /\ Hup(s)

(* What is taken is what came first. *)
LEMMA FlowTook ==
  ASSUME NetIInv, FlowIInv, ~Datagrams, Onward, NEW s \in Streams, NEW data \in Seq(Token), NEW box,
         Reading(s, data, box), inbox'[s] = box, got'[s] = got[s] \o data,
         out'[Peer(s)] = out[Peer(s)]
  PROVE  FlowStep(s) /\ Plain(s)'
<1> DEFINE w == <<>>
           a == Told(inbox[s])
           n == Told(box)
<1>1. Bytes(s) /\ Bytes(Peer(s))
  BY TwoEnds DEF FlowIInv
<1>2. app' = app
  BY DEF Onward
<1>3. w \in Seq(Token) /\ a \in Seq(Token) /\ n \in Seq(Token) /\ <<>> \in Seq(Token)
  BY <1>1 DEF Bytes, Reading
<1>4. out[Peer(s)] \o w = out[Peer(s)]
  BY <1>1, ConcatEmptySeq DEF Bytes
<1>5. Plain(s)'
  BY <1>1, <1>2, AppsSame DEF Plain, Bytes, Reading
<1>6. CASE a = data \o n
  <2>1. n \o w = n /\ w = <<>>
    BY <1>3, ConcatEmptySeq
  <2> HIDE DEF w
  <2> QED BY <1>2, <1>3, <1>4, <1>5, <1>6, <2>1 DEF FlowStep
<1>7. CASE n = <<>> /\ data = <<>> /\ Hup(s)
  <2>1. Lost(s)'
    BY <1>7, LostStays DEF Lost
  <2>2. a = data \o a /\ w = <<>>
    BY <1>3, <1>7, ConcatEmptySeq
  <2> HIDE DEF a, w
  <2>3. a = Told(inbox[s])
    BY DEF a
  <2> QED BY <1>2, <1>3, <1>4, <1>5, <1>7, <2>1, <2>2, <2>3 DEF FlowStep
<1> QED BY <1>6, <1>7 DEF Reading

(* A process of the pool examples reads and writes in one step. *)
LEMMA SwapFlow ==
  ASSUME NetIInv, FlowIInv, ~Datagrams, Pooled, NEW p \in Procs, NEW s \in Streams, Proc(s) = p,
         NEW Q, proc' = [proc EXCEPT ![p] = Q], Silent(proc[p], Q),
         Q.main = proc[p].main, Q.promise = proc[p].promise, Q.blocked = proc[p].blocked,
         Q.sent \in Nat, \A f \in Fds : Q.table[f] \in {proc[p].table[f], None},
         NEW data \in Seq(Token), NEW message \in Seq(Token), NEW box, Reading(s, data, box),
         message # <<>> => ~Lost(Peer(s)),
         s[1] = "srv" /\ ~Hup(s) => message = data,
         s[1] = "srv" /\ message # <<>> =>
            s[2] \in connected /\ s[2] \notin Range(backlog) /\ proc[p].blocked # s,
         Swaps(s, box, data, message),
         UNCHANGED <<backlog, connected, app, ssl, forwarded>>, PoolKept'
  PROVE  FlowIInv'
<1> DEFINE P == proc[p]
           k == Peer(s)
<1>0. proc'[p] = Q /\ \A q \in Procs : q # p => proc'[q] = proc[q]
  BY DEF NetIInv
<1>1. Carries(P) /\ P.sent \in Nat /\ Shaped /\ Ended /\ FramesKept
  BY DEF FlowIInv
<1>2. /\ KeepsFrames(P, Q) /\ Carries(Q)
      /\ \A r \in Socks : Pending(Q, r) = Pending(P, r)
  BY <1>1 DEF Silent
<1>3. UNCHANGED <<app, backlog, connected>>
  OBVIOUS
<1>4. Onward
  BY ZenonT(40), <1>3, OnwardCalls
<1>5. Shaped'
  BY <1>1 DEF Swaps, Shaped
<1>6. /\ s \in Socks /\ k \in Socks /\ k \in Streams /\ k # s /\ Peer(k) = s
      /\ s[2] \in Clients /\ s = <<s[1], s[2]>> /\ k[2] = s[2] /\ k = <<k[1], k[2]>>
      /\ s[1] \in {"srv", "cli"} /\ (k[1] = "srv" <=> s[1] = "cli") /\ (k[1] = "cli" <=> s[1] = "srv")
  BY TwoEnds, Names
<1>7. /\ inbox'[s] = box /\ got'[s] = got[s] \o data /\ out'[s] = out[s] \o message
      /\ inbox'[k] = inbox[k] \o message
      /\ \A r \in Socks \ {s} : got'[r] = got[r] /\ out'[r] = out[r]
      /\ \A r \in Socks \ {s, k} : inbox'[r] = inbox[r]
  BY <1>1, <1>6 DEF Swaps, Shaped
<1>8. p \in Clients => Behaves(p)'
  <2>1. SUFFICES ASSUME p \in Clients PROVE Behaves(p)'
    OBVIOUS
  <2>2. Behaves(p) /\ <<"cli", p>> \in Socks
    BY <2>1, SettledParts DEF FlowIInv, Socks, Streams
  <2>3. connected \subseteq connected' /\ UNCHANGED app
    OBVIOUS
  <2>4. /\ Q.promise = "true" => p \in connected'
        /\ Q.main = "send" => Q.promise = "true"
        /\ Pooled /\ Q.main \in {"wait", "loop"} => p \in connected'
    BY <2>2 DEF Behaves
  <2> QED BY <1>0, <1>1, <2>1, <2>3, <2>4, BehavesStill
<1>9. ASSUME NEW r \in Streams PROVE FlowStep(r) /\ Plain(r)'
  <2>0. Bytes(r) /\ Bytes(Peer(r)) /\ r \in Socks /\ Peer(r) \in Socks /\ Peer(Peer(r)) = r
    BY TwoEnds, Names DEF FlowIInv
  <2>1. CASE r = s
    <3>1. out'[k] = out[k]
      BY <1>6, <1>7
    <3> QED BY <1>4, <1>7, <2>1, <3>1, FlowTook
  <2>2. CASE r = k
    <3>1. Bytes(s) /\ Bytes(k) /\ got'[k] = got[k]
      BY <1>6, <1>7, <2>0, <2>2
    <3>2. FlowStep(k) /\ inbox'[k] \in Seq(Nat) /\ (inbox[k] \in Seq(Token) => inbox'[k] \in Seq(Token))
      BY <1>7, <3>1, FlowWritten
    <3>3. Plain(k)'
      BY <1>3, <3>1, <3>2, AppsSame DEF Plain, Bytes
    <3> QED BY <2>2, <3>2, <3>3
  <2>3. CASE r # s /\ r # k
    <3>1. Peer(r) # s
      BY <1>6, <2>0, <2>3
    <3>2. inbox'[r] = inbox[r] /\ got'[r] = got[r] /\ out'[Peer(r)] = out[Peer(r)]
      BY <1>7, <2>0, <2>3, <3>1
    <3>3. Plain(r)'
      BY <1>3, <2>0, <3>2, AppsSame DEF Plain, Bytes
    <3> QED BY <2>0, <3>2, <3>3, FlowStill
  <2> QED BY <2>1, <2>2, <2>3
<1>10. ASSUME NEW c \in Clients PROVE Unwritten(c)' /\ Open1(c)'
  <2> DEFINE l == <<"srv", c>>
             o == <<"cli", c>>
  <2>1. Unwritten(c) /\ Open1(c) /\ l \in Socks /\ o \in Socks
    BY SettledParts DEF FlowIInv, Socks, Streams
  <2>2. proc'[Server].blocked = proc[Server].blocked
    BY <1>0, Names
  <2>3. CASE s # l
    <3>1. out'[l] = out[l] /\ k # o
      <4>1. k = o => s = l
        BY <1>6
      <4> QED BY <1>7, <2>1, <2>3, <4>1
    <3>2. inbox[o] = <<>> => inbox'[o] = <<>>
      BY <1>7, <2>1, <3>1 DEF Reading
    <3> QED BY <2>1, <2>2, <3>1, <3>2 DEF Unwritten, Open1
  <2>4. CASE s = l /\ message # <<>>
    <3>1. c \in connected /\ c \notin Range(backlog) /\ proc[Server].blocked # l
      BY <2>4, Names DEF Proc
    <3> QED BY <2>1, <2>2, <3>1 DEF Unwritten, Open1
  <2>5. CASE s = l /\ message = <<>>
    <3>1. Bytes(l) /\ Bytes(o) /\ k = o
      BY <1>6, <2>5 DEF FlowIInv, Peer
    <3>2. out[l] \o <<>> = out[l] /\ inbox[o] \o <<>> = inbox[o]
      BY <3>1, ConcatEmptySeq DEF Bytes
    <3>3. out'[l] = out[l] /\ inbox'[o] = inbox[o]
      BY <1>7, <2>5, <3>1, <3>2
    <3> QED BY <2>1, <2>2, <3>3 DEF Unwritten, Open1
  <2> QED BY <2>3, <2>4, <2>5
<1>11. ASSUME NEW c \in Clients PROVE EchoKept(c)'
  <2> DEFINE l == <<"srv", c>>
  <2>1. EchoKept(c) /\ l \in Socks /\ l \in Streams /\ Proc(l) = Server /\ Bytes(l)
    BY Names DEF FlowIInv, Socks, Streams, Proc
  <2>2. Pending(proc'[Server], l) = Pending(proc[Server], l)
    BY <1>0, <1>2, <2>1, Names
  <2>3. CASE s # l
    <3>1. out'[l] = out[l] /\ got'[l] = got[l]
      BY <1>7, <2>1, <2>3
    <3> QED BY <1>4, <2>1, <2>2, <3>1, EchoSame
  <2>4. CASE s = l
    <3>1. SUFFICES ASSUME Echoes, proc[Server].main # "end", Pending(proc[Server], l) = <<>>
                   PROVE  ~Hup(l) => got'[l] = out'[l] \o <<>>
      <4>1. Hup(l) => Hup(l)'
        BY <1>4, <2>1, HupStays
      <4>2. Pending(proc[Server], l)' = Pending(proc'[Server], l)
        BY DEF Pending, Writes
      <4>3. proc'[Server].main = proc[Server].main
        BY <1>0, Names
      <4> QED BY <2>1, <2>2, <3>1, <4>1, <4>2, <4>3, AppsSame DEF EchoKept
    <3>2. SUFFICES ASSUME ~Hup(l) PROVE got'[l] = out'[l] \o <<>>
      OBVIOUS
    <3>3. got[l] = out[l] \o <<>> /\ message = data
      BY <2>1, <2>4, <3>1, <3>2 DEF EchoKept
    <3>4. out[l] \in Seq(Token) /\ out[l] \o <<>> = out[l]
      BY <2>1, ConcatEmptySeq DEF Bytes
    <3>5. out[l] \o message \in Seq(Token) /\ (out[l] \o message) \o <<>> = out[l] \o message
      BY <3>4, ConcatEmptySeq
    <3> QED BY <1>7, <2>4, <3>3, <3>4, <3>5
  <2> QED BY <2>3, <2>4
<1>12. FramesKept'
  <2>1. KeepsFrames(proc[Server], proc'[Server])
    BY <1>0, <1>2, Names DEF KeepsFrames
  <2> QED BY <1>0, <1>1, <1>3, <2>1, Names, FramesSame
<1>14. /\ Q.main = "end" => \A f \in Fds : Q.table[f] = None
       /\ proc'[Server].main = "end" => backlog' = <<>>
  BY <1>0, <1>1, Names DEF Ended
<1> QED BY <1>2, <1>4, <1>5, <1>8, <1>9, <1>10, <1>11, <1>12, <1>14, Gather
=============================================================================
