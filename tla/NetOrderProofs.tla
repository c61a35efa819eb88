--------------------------- MODULE NetOrderProofs ----------------------------
(***************************************************************************)
(* Proofs that every step of every program keeps the data in order, for     *)
(* every set of clients, of descriptor numbers and of messages.             *)
(***************************************************************************)
EXTENDS NetFlowProofs

(* The end of a pool server's step. *)
LEMMA PoolEndsStep ==
  ASSUME NetIInv, app' = app, NEW R, Sane(R), PoolSane(R), Becomes(Server, R)
  PROVE  PoolKept'
<1> DEFINE Q == Destroy(R, Unreferenced(R))
<1>1. PoolSane(Q)
  BY PoolDestroy
<1>2. proc' = [proc EXCEPT ![Server] = Q]
  BY DEF Becomes
<1>3. proc'[Server] = Q
  BY <1>2, Names DEF NetIInv
<1> HIDE DEF Q
<1> QED BY <1>1, <1>3, PoolKeptIs

(* The pool servers: the tasks that poll. *)
LEMMA PoolTaskFlow ==
  ASSUME NetIInv, FlowIInv, NEW p \in Procs, PoolTask(p)
  PROVE  FlowIInv'
<1> DEFINE P == proc[p]
           Q == Pop(p)
           t == Head(P.tasks)
           R == Register(Q, P.fd[Own], Own)
           A == AddTask(R, Work)
<1>0. /\ p = Server /\ Pooled /\ ~Datagrams /\ UNCHANGED rest /\ UNCHANGED <<app, ssl, forwarded>>
      /\ UNCHANGED <<inbox, backlog, connected, out, got>>
  BY DEF PoolTask, rest, Pooled, Datagrams, Pool!FirstTick, Pool!Tick, Pool!work, work, Pool!kernel, kernel
<1>1. Sane(P) /\ PoolSane(P)
  BY <1>0, SaneProc, PoolKeptIs DEF FlowIInv
<1>2. Work.op = "work" /\ "work" \notin {"sendto", "frame"} \cup Writers
      /\ "first" \notin {"sendto", "frame"} \cup Writers
  BY DEF Work, Task, Writers
<1>3. ASSUME NEW op \in {"first", "work"}, IsNext(p, op), Becomes(p, Q) PROVE FlowIInv'
  <2>1. Sane(Q) /\ P.tasks # <<>>
    BY <1>3, Takes DEF IsNext
  <2>2. PoolSane(Q)
    BY <1>1, <2>1, PoolCalls DEF Pop
  <2>3. PoolKept'
    BY <1>0, <1>3, <2>1, <2>2, PoolEndsStep
  <2>4. Quiet(Q, Q)
    BY <2>1, QuietSame DEF Sane
  <2> QED BY <1>0, <1>2, <1>3, <2>1, <2>3, <2>4, TaskFlow
<1>4. ASSUME IsNext(p, "first"), Becomes(p, A) PROVE FlowIInv'
  <2>1. Sane(Q) /\ P.tasks # <<>> /\ Q.fd = P.fd /\ SoundTask(Q, t) /\ t.op = "first"
    BY <1>4, Takes DEF IsNext
  <2>2. PoolSane(Q)
    BY <1>1, <2>1, PoolCalls DEF Pop
  <2>3. Own \in Socks /\ Q.fd[Own] \in Fds
    BY <2>1, Names DEF SoundTask
  <2> HIDE DEF Q
  <2>4. Goes(Q, R, {})
    BY <2>1, <2>3, RegisterGoes
  <2>5. Sane(R) /\ Quiet(Q, R)
    BY Zenon, <2>1, <2>4, QuietCalls DEF Goes
  <2>6. PoolSane(R)
    BY <2>1, <2>2, <2>3, PoolListens
  <2> HIDE DEF R
  <2>7. Goes(R, A, {})
    BY <2>5, QueueGoes
  <2>8. Sane(A) /\ Quiet(R, A)
    BY <2>5, <2>7, QuietTasks, Names DEF Goes
  <2>14. \A w : w.op \in {"first", "work"} => PoolSane(AddTask(R, w))
    BY <2>5, <2>6, PoolCalls
  <2>15. PoolSane(AddTask(R, Work))
    BY <1>2, <2>14
  <2>9. PoolSane(A)
    BY <2>15
  <2> HIDE DEF A
  <2>10. PoolKept'
    BY <1>0, <1>4, <2>8, <2>9, PoolEndsStep
  <2>11. Quiet(Q, A)
    BY <2>5, <2>8, QuietOn
  <2> QED BY <1>0, <1>2, <1>4, <2>8, <2>10, <2>11, TaskFlow DEF Q
<1>5. ASSUME work(p) PROVE FlowIInv'
  <2> DEFINE ready == P.custom \cup {f \in P.interest : Readable(P.table[f])}
             B == [Q EXCEPT !.batch = ready, !.custom = {}]
             W == AddTask(Q, Work)
  <2>1. IsNext(p, "work") /\ Becomes(p, IF ready = {} THEN W ELSE B)
    BY <1>5 DEF work
  <2>2. Sane(Q) /\ P.tasks # <<>>
    BY <2>1, Takes DEF IsNext
  <2>3. PoolSane(Q)
    BY <1>1, <2>2, PoolCalls DEF Pop
  <2>4. Goes(Q, W, {})
    BY <2>2, QueueGoes
  <2>14. \A w : w.op \in {"first", "work"} => PoolSane(AddTask(Q, w))
    BY <2>2, <2>3, PoolCalls
  <2>15. PoolSane(AddTask(Q, Work))
    BY <1>2, <2>14
  <2>5. Sane(W) /\ PoolSane(W)
    BY <2>4, <2>15 DEF Goes
  <2>6. Q.interest = P.interest /\ P.custom = {}
    BY <1>1 DEF Pop, Sane, Typed, Fields, PoolSane
  <2>7. ready \subseteq Q.interest
    BY <2>6
  <2> HIDE DEF Q, ready
  <2>8. /\ DOMAIN B = Fields
        /\ B.main = Q.main /\ B.promise = Q.promise /\ B.tasks = Q.tasks /\ B.blocked = Q.blocked
        /\ B.fd = Q.fd /\ B.table = Q.table /\ B.batch = ready /\ B.custom = {}
        /\ B.interest = Q.interest /\ B.callbacks = Q.callbacks /\ B.objects = Q.objects
    BY <2>2 DEF Sane, Typed, Fields
  <2> HIDE DEF B, W
  <2>9. PoolSane(B)
    BY <2>3, <2>7, <2>8 DEF PoolSane, Listens, Polling
  <2>10. Sane(B)
    <3>1. Polls(Q, B)
      BY <2>2, <2>7, <2>8 DEF Polls, Sane, Typed
    <3>2. Goes(Q, B, {})
      BY <2>2, <3>1, PollsGoes
    <3> QED BY <3>2 DEF Goes
  <2>11. PICK R1 : R1 = IF ready = {} THEN W ELSE B
    OBVIOUS
  <2>12. Sane(R1) /\ PoolSane(R1) /\ Becomes(Server, R1)
    BY <1>0, <2>1, <2>5, <2>9, <2>10, <2>11
  <2>13. PoolKept'
    BY <1>0, <2>12, PoolEndsStep
  <2> QED BY <1>0, <1>5, <2>13, WorkFlow
<1>6. CASE Pool!FirstTick(p)
  <2>1. IsNext(p, "first") /\ (Pool!Becomes(p, Q) \/ Pool!Becomes(p, A))
    BY <1>6, PoolNet DEF Pool!FirstTick
  <2>2. CASE Pool!Becomes(p, Q)
    BY <1>3, <2>1, <2>2, PoolBecomes
  <2>3. CASE Pool!Becomes(p, A)
    BY <1>4, <2>1, <2>3, PoolBecomes
  <2> QED BY <2>1, <2>2, <2>3
<1>7. CASE Pool!Tick(p)
  <2>1. \/ IsNext(p, "work") /\ Pool!Becomes(p, Q)
        \/ work(p)
    BY <1>7, PoolNet, PoolWork DEF Pool!Tick
  <2>2. CASE IsNext(p, "work") /\ Pool!Becomes(p, Q)
    BY <1>3, <2>2, PoolBecomes
  <2> QED BY <1>5, <2>1, <2>2
<1> QED BY <1>6, <1>7 DEF PoolTask

(* No other task is ever queued in a pool server. *)
LEMMA NoServerTask ==
  ASSUME FlowIInv, ~Datagrams, Pooled, NEW p \in Procs, ServerTask(p), NetIInv
  PROVE  FALSE
<1>1. PICK op \in {"start", "stop", "save", "find"} : IsNext(p, op) /\ p = Server
  BY AccNet DEF ServerTask, Acc!StartTask, Acc!StopTask, SaveTask, FindTask
<1>2. Head(proc[p].tasks) \in Range(proc[p].tasks) /\ Head(proc[p].tasks).op = op
  BY <1>1, Takes
<1>3. PoolSane(proc[p])
  BY <1>1, PoolKeptIs DEF FlowIInv
<1> QED BY <1>1, <1>2, <1>3 DEF PoolSane, Polling

(* Handshakes. *)
LEMMA PoolHandshakeKept ==
  ASSUME NetIInv, FlowIInv, Pooled, ~Datagrams, app' = app, NEW s \in Socks,
         proc[Server].fd[s] \in Fds,
         proc' = [proc EXCEPT ![Server] = [Pool!AddClient(proc[Server], s) EXCEPT !.blocked = None]]
  PROVE  PoolKept'
<1> DEFINE A == Pool!AddClient(proc[Server], s)
<1>1. Sane(proc[Server]) /\ PoolSane(proc[Server])
  BY SaneProc, Names, PoolKeptIs DEF FlowIInv
<1>2. Goes(proc[Server], A, {})
  BY <1>1, AddClientGoes
<1>3. Sane(A) /\ PoolSane(A)
  BY <1>1, <1>2, PoolAdds DEF Goes
<1>4. proc'[Server] = [A EXCEPT !.blocked = None]
  BY Names DEF NetIInv
<1> HIDE DEF A
<1>5. PoolSane([A EXCEPT !.blocked = None])
  BY <1>3, PoolCalls
<1> QED BY <1>4, <1>5, PoolKeptIs

(* The pool server accepts. *)
LEMMA PoolAcceptKept ==
  ASSUME NetIInv, FlowIInv, Pooled, ~Datagrams, app' = app, NEW f,
         Acc!AcceptReady(Server, f, AfterAccept(Server))
  PROVE  PoolKept'
<1> DEFINE P == proc[Server]
           s == <<"srv", Head(backlog)>>
           R == Open(P, s)
           A == ServerOnAccept(R, s)
           E == EndCallback(A, f)
<1>0. Sane(P) /\ PoolSane(P)
  BY SaneProc, Names, PoolKeptIs DEF FlowIInv
<1>1. \/ Acc!Becomes(Server, EndCallback(P, f))
      \/ /\ backlog # <<>> /\ FreeFds(P) # {} /\ backlog' = Tail(backlog)
         /\ Acc!Becomes(Server, E)
  BY AccNet DEF Acc!AcceptReady, AfterAccept, Acc!Accepted
<1>2. CASE Acc!Becomes(Server, EndCallback(P, f))
  <2>1. Goes(P, EndCallback(P, f), {})
    BY <1>0, EndCallbackGoes
  <2>2. Sane(EndCallback(P, f)) /\ PoolSane(EndCallback(P, f))
    BY <1>0, <2>1, PoolCalls DEF Goes
  <2>3. Becomes(Server, EndCallback(P, f))
    BY <1>2, AccBecomes
  <2> QED BY <2>2, <2>3, PoolEndsStep
<1>3. CASE backlog # <<>> /\ FreeFds(P) # {} /\ backlog' = Tail(backlog) /\ Acc!Becomes(Server, E)
  <2>1. /\ s \in Socks /\ Proc(s) = Server /\ Head(backlog) \in Clients
        /\ P.fd[s] = -1 /\ \A t \in Socks : Keeps(P, t)
    BY <1>3, CanAccept
  <2>2. Sane(R) /\ R.fd[s] \in Fds
    BY <1>0, <1>3, <2>1, OpenSane
  <2>3. PoolSane(R)
    BY <1>0, <1>3, <2>1, PoolOpens
  <2> HIDE DEF R
  <2>4. A \in {Pool!AddClient(R, s), [R EXCEPT !.blocked = s]}
    BY DEF ServerOnAccept, socket_onAccept, ssl_onAccept, Pooled
  <2>12. PoolSane(Pool!AddClient(R, s))
    BY <2>1, <2>2, <2>3, PoolAdds
  <2>13. \A r : PoolSane([R EXCEPT !.blocked = r])
    BY <2>2, <2>3, PoolCalls
  <2>5. PoolSane(A)
    BY <2>4, <2>12, <2>13
  <2>6. app # "close"
    BY DEF Pooled
  <2>7. Goes(R, A, {})
    BY <2>1, <2>2, <2>6, OnAcceptGoes
  <2> HIDE DEF A
  <2>8. Sane(A)
    BY <2>7 DEF Goes
  <2>9. Goes(A, E, {})
    BY <2>8, EndCallbackGoes
  <2>10. Sane(E) /\ PoolSane(E)
    BY <2>5, <2>8, <2>9, PoolCalls DEF Goes
  <2>11. Becomes(Server, E)
    BY <1>3, AccBecomes
  <2> QED BY <2>10, <2>11, PoolEndsStep
<1> QED BY <1>1, <1>2, <1>3

(* A pool server drops a client: nothing is written. *)
LEMMA QuietDisconnect ==
  ASSUME NEW P, Sane(P), NEW f, NEW s
  PROVE  Sane(Pool!Disconnect(P, f, s)) /\ Quiet(P, Pool!Disconnect(P, f, s))
<1> DEFINE Q == cancle(P, f)
           map == Restrict(Q.objects, DOMAIN Q.objects \ {s})
           D == Pool!Disconnect(P, f, s)
<1>1. Goes(P, D, {})
  BY DisconnectGoes
<1>2. D = [Q EXCEPT !.objects = map]
  BY PoolNet DEF Pool!Disconnect
<1>3. Quiet(P, Q)
  BY Zenon, QuietCalls
<1>4. Goes(P, Q, {})
  BY CancleGoes
<1>5. Sane(Q)
  BY <1>4 DEF Goes
<1> HIDE DEF Q, map, D
<1>6. Quiet(Q, [Q EXCEPT !.objects = map])
  BY Zenon, <1>5, QuietCalls
<1>7. Quiet(P, D)
  BY <1>2, <1>3, <1>6, QuietOn
<1>8. Sane(D)
  BY <1>1 DEF Goes
<1> QED BY <1>7, <1>8 DEF D

(* A pool server echoes what it read from s, or lost. *)
LEMMA PoolServes ==
  ASSUME NetIInv, FlowIInv, ~Datagrams, Pooled, proc[Server].blocked = None,
         NEW f \in proc[Server].batch, NEW s, s = proc[Server].callbacks[f], s # Own,
         NEW R, R \in {proc[Server], Pool!Disconnect(proc[Server], f, s)},
         Becomes(Server, EndCallback(R, f)),
         NEW data \in Seq(Token), NEW box, Reading(s, data, box),
         NEW message \in Seq(Token), message = (IF Hup(s) THEN <<>> ELSE data),
         Swaps(s, box, data, message),
         UNCHANGED <<backlog, connected, app, ssl, forwarded>>
  PROVE  FlowIInv'
<1> DEFINE P == proc[Server]
           E == EndCallback(R, f)
<1>1. Sane(P) /\ PoolSane(P) /\ Server \in Procs
  BY SaneProc, Names, PoolKeptIs DEF FlowIInv
<1>2. f \in P.interest /\ s = P.table[f]
  BY <1>1 DEF PoolSane, Sane, Owns
<1>3. f \in Fds /\ s \in Socks /\ P.fd[s] = f
  BY <1>1, <1>2, ListensKept DEF PoolSane
<1>4. s \in Streams /\ Proc(s) = Server
  BY <1>1, <1>3 DEF Socks, NetIInv, Proper
<1>5. s[1] = "srv" /\ s = <<"srv", s[2]>> /\ s[2] \in Clients
  BY <1>4, TwoEnds, NamesAssumption, Names DEF Proc
<1>6. Sane(R) /\ Quiet(P, R)
  <2>1. Sane(P) /\ Quiet(P, P)
    BY <1>1, QuietSame DEF Sane
  <2>2. Sane(Pool!Disconnect(P, f, s)) /\ Quiet(P, Pool!Disconnect(P, f, s))
    BY <1>1, QuietDisconnect
  <2> QED BY <2>1, <2>2
<1>7. Goes(R, E, {})
  BY <1>6, EndCallbackGoes
<1>8. Sane(E) /\ Quiet(R, E)
  BY <1>6, <1>7, QuietEnd DEF Goes
<1>9. Quiet(P, E)
  BY <1>6, <1>8, QuietOn
<1>10. PoolSane(E)
  <2>1. PoolSane(EndCallback(P, f))
    BY <1>1, PoolCalls
  <2>2. PoolSane(EndCallback(Pool!Disconnect(P, f, P.callbacks[f]), f))
    BY <1>1, PoolDrops
  <2> QED BY <2>1, <2>2
<1> HIDE DEF E
<1>11. Becomes(Server, E)
  BY DEF E
<1>12. PoolKept'
  BY <1>8, <1>10, <1>11, PoolEndsStep
<1>13. PICK Q : Quiet(E, Q) /\ proc' = [proc EXCEPT ![Server] = Q]
  BY <1>8, <1>11, BecomesQuiet
<1>14. Quiet(P, Q)
  BY <1>9, <1>13, QuietOn
<1>15. Silent(P, Q) /\ SameControl(P, Q) /\ \A g \in Fds : Q.table[g] \in {P.table[g], None}
  BY <1>14, QuietSilent
<1>16. Q.sent \in Nat
  BY <1>1, <1>15 DEF SameControl, FlowIInv
<1>17. message # <<>> => ~Lost(Peer(s))
  <2>1. ASSUME ~Hup(s) PROVE ~Lost(Peer(s))
    <3>1. Named(P, s) = s /\ P.fd[s] \in Fds
      BY <1>2, <1>3 DEF Named
    <3>2. s[1] # "cli"
      BY <1>5
    <3> QED BY <1>1, <1>4, <2>1, <3>1, <3>2, WriterAlive
  <2> QED BY <2>1
<1>18. s[2] \in connected /\ s[2] \notin Range(backlog) /\ P.blocked # s
  <2>1. P.fd[<<"srv", s[2]>>] # -1
    BY <1>3, <1>5, Names
  <2>2. s # None
    BY <1>3, Names
  <2> QED BY Zenon, <1>5, <2>1, <2>2 DEF NetIInv, Queued
<1>19. /\ Q.main = P.main /\ Q.promise = P.promise /\ Q.blocked = P.blocked
  BY <1>15 DEF SameControl
<1> QED BY <1>1, <1>4, <1>12, <1>13, <1>15, <1>16, <1>17, <1>18, <1>19, SwapFlow

(* The pool servers: an event of a tick. *)
LEMMA PoolEventFlow ==
  ASSUME NetIInv, FlowIInv, NEW p \in Procs, PoolEvent(p)
  PROVE  FlowIInv'
<1> DEFINE P == proc[Server]
<1>0. /\ p = Server /\ Pooled /\ ~Datagrams /\ Up(Server) /\ P.blocked = None
      /\ UNCHANGED rest /\ UNCHANGED <<app, ssl, forwarded>> /\ Shaped
  BY DEF PoolEvent, rest, Pooled, Datagrams, FlowIInv
<1>1. PICK f \in P.batch : \E s \in {P.callbacks[f]} :
          CASE s = Own -> Acc!AcceptReady(Server, f, AfterAccept(Server))
            [] s # Own /\ app = "socket" -> Pool!ReadEvent(Server, f, s)
            [] s # Own /\ app = "ssl_socket" -> Pool!SSLReadEvent(Server, f, s)
  BY <1>0 DEF PoolEvent
<1>2. app \in {"socket", "ssl_socket"}
  BY <1>0 DEF Pooled
<1>3. PICK s : /\ s = P.callbacks[f]
               /\ \/ s = Own /\ Acc!AcceptReady(Server, f, AfterAccept(Server))
                  \/ s # Own /\ Pool!ReadEvent(Server, f, s)
                  \/ s # Own /\ Pool!SSLReadEvent(Server, f, s)
  BY Zenon, <1>1, <1>2
<1>4. CASE s = Own /\ Acc!AcceptReady(Server, f, AfterAccept(Server))
  <2>1. PoolKept'
    BY <1>0, <1>4, PoolAcceptKept
  <2> QED BY <1>0, <1>4, <2>1, PoolAcceptFlow
<1>5. ASSUME s # Own PROVE s \in Streams /\ s \in Socks /\ Peer(s) \in Socks /\ Peer(s) # s /\ s[1] = "srv"
  <2>1. Sane(P) /\ PoolSane(P) /\ Server \in Procs
    BY <1>0, SaneProc, Names, PoolKeptIs DEF FlowIInv
  <2>2. f \in P.interest /\ s = P.table[f]
    BY <1>3, <2>1 DEF PoolSane, Sane, Owns
  <2>3. s \in Socks /\ P.fd[s] = f /\ f \in Fds
    BY <2>1, <2>2, ListensKept DEF PoolSane
  <2>4. s \in Streams /\ Proc(s) = Server
    BY <1>5, <2>1, <2>3 DEF Socks, NetIInv, Proper
  <2> QED BY <2>3, <2>4, TwoEnds, Names, NamesAssumption DEF Proc
<1>6. \A k \in Streams : inbox[k] \in Seq(Nat) /\ (k[1] = "srv" => inbox[k] \in Seq(Token))
                         /\ got[k] \in Seq(Token) /\ out[k] \in Seq(Token)
  BY <1>0 DEF FlowIInv, Bytes
<1>7. Pool!Peer(s) = Peer(s) /\ (Pool!Hup(s) <=> Hup(s))
  BY DEF Pool!Peer, Peer, Pool!Hup, Hup, Pool!Proc, Proc, Pool!Range, Range, Pool!Server, Server
<1>8. ASSUME s \in Streams PROVE Swaps(s, <<>>, <<>>, <<>>) <=>
                inbox' = [inbox EXCEPT ![s] = <<>>] /\ UNCHANGED <<out, got>>
  <2>1. Peer(s) \in Streams /\ s \in Socks /\ Peer(s) \in Socks /\ Peer(s) # s
    BY <1>8, TwoEnds, Names
  <2>2. inbox[Peer(s)] \o <<>> = inbox[Peer(s)] /\ got[s] \o <<>> = got[s] /\ out[s] \o <<>> = out[s]
    BY <1>6, <1>8, <2>1, ConcatEmptySeq
  <2>3. [inbox EXCEPT ![s] = <<>>, ![Peer(s)] = @ \o <<>>] = [inbox EXCEPT ![s] = <<>>]
    BY <1>0, <2>1, <2>2 DEF Shaped
  <2>4. [got EXCEPT ![s] = @ \o <<>>] = got /\ [out EXCEPT ![s] = @ \o <<>>] = out
    BY <1>0, <2>1, <2>2 DEF Shaped
  <2> QED BY <2>3, <2>4 DEF Swaps
<1>9. Told(<<>>) = <<>> /\ <<>> \in Seq(Nat) /\ <<>> \in Seq(Token)
  BY DEF Told
<1>10. ASSUME s # Own, Hup(s) \/ inbox[s] = <<>>,
              inbox' = [inbox EXCEPT ![s] = <<>>], UNCHANGED <<out, got, backlog, connected>>,
              NEW R, R \in {P, Pool!Disconnect(P, f, s)}, Becomes(Server, EndCallback(R, f))
       PROVE  FlowIInv'
  <2>1. Swaps(s, <<>>, <<>>, <<>>)
    BY <1>5, <1>8, <1>10
  <2>2. Reading(s, <<>>, <<>>)
    <3>1. \/ Told(inbox[s]) = <<>> \o Told(<<>>)
          \/ Told(<<>>) = <<>> /\ Hup(s)
      <4>1. <<>> \o Told(<<>>) = <<>>
        BY <1>9, ConcatEmptySeq
      <4> QED BY <1>9, <1>10, <4>1
    <3> QED BY <1>9, <3>1 DEF Reading
  <2>3. UNCHANGED <<backlog, connected, app, ssl, forwarded>>
    BY <1>0, <1>10
  <2> QED BY <1>0, <1>3, <1>9, <1>10, <2>1, <2>2, <2>3, PoolServes
<1>11. ASSUME s # Own, NEW data \in Seq(Token), NEW box \in Seq(Token), inbox[s] = data \o box,
              inbox[s] \in Seq(Token),
              Pool!Echo(s, box, data), UNCHANGED <<backlog, connected>>,
              Becomes(Server, EndCallback(P, f))
       PROVE  FlowIInv'
  <2> DEFINE message == IF Hup(s) THEN <<>> ELSE data
  <2>1. Swaps(s, box, data, message)
    BY <1>7, <1>11 DEF Pool!Echo, Pool!Arrives, Swaps
  <2>5. message \in Seq(Token)
    BY <1>9, <1>11
  <2>2. Reading(s, data, box)
    <3>1. Told(inbox[s]) = inbox[s] /\ Told(box) = box
      <4>1. \A q \in Seq(Token) : Told(q) = q
        BY DEF Told, Token, Ticket
      <4> QED BY <1>11, <4>1
    <3>2. inbox[s] = <<>> => box = <<>> /\ data = <<>>
      <4>1. Len(inbox[s]) = Len(data) + Len(box) /\ Len(data) \in Nat /\ Len(box) \in Nat
        BY <1>11, ConcatProperties
      <4>2. Len(<<>>) = 0
        OBVIOUS
      <4> QED BY <1>11, <4>1, <4>2, EmptySeq
    <3>3. box \in Seq(Nat)
      BY <1>11 DEF Token
    <3> QED BY <1>11, <3>1, <3>2, <3>3 DEF Reading
  <2>3. UNCHANGED <<backlog, connected, app, ssl, forwarded>>
    BY <1>0, <1>11
  <2>4. P \in {P, Pool!Disconnect(P, f, s)}
    OBVIOUS
  <2> QED BY <1>0, <1>3, <1>11, <2>1, <2>2, <2>3, <2>4, <2>5, PoolServes
<1>12. CASE s # Own /\ Pool!ReadEvent(Server, f, s)
  <2>0. UNCHANGED <<backlog, connected>>
    BY <1>12 DEF Pool!ReadEvent
  <2>1. CASE Hup(s)
    <3>1. /\ Pool!Becomes(Server, Pool!EndCallback(Pool!Disconnect(P, f, s), f))
          /\ inbox' = [inbox EXCEPT ![s] = <<>>] /\ UNCHANGED <<out, got>>
      BY <1>7, <1>12, <2>1 DEF Pool!ReadEvent
    <3>2. Becomes(Server, EndCallback(Pool!Disconnect(P, f, s), f))
      BY <3>1, PoolNet, PoolBecomes
    <3> DEFINE D == Pool!Disconnect(P, f, s)
    <3>3. D \in {P, Pool!Disconnect(P, f, s)}
      OBVIOUS
    <3> HIDE DEF D
    <3>4. Becomes(Server, EndCallback(D, f))
      BY <3>2 DEF D
    <3> QED BY <1>10, <1>12, <2>0, <2>1, <3>1, <3>3, <3>4
  <2>2. CASE ~Hup(s)
    <3>1. Pool!Becomes(Server, Pool!EndCallback(P, f)) /\ Pool!Echo(s, <<>>, inbox[s])
      BY <1>7, <1>12, <2>2 DEF Pool!ReadEvent
    <3>2. Becomes(Server, EndCallback(P, f))
      BY <3>1, PoolNet, PoolBecomes
    <3>3. inbox[s] \in Seq(Token) /\ inbox[s] \o <<>> = inbox[s]
      BY <1>5, <1>6, <1>12, ConcatEmptySeq
    <3> QED BY <1>9, <1>11, <1>12, <2>0, <3>1, <3>2, <3>3
  <2> QED BY <2>1, <2>2
<1>13. CASE s # Own /\ Pool!SSLReadEvent(Server, f, s)
  <2>0. UNCHANGED <<backlog, connected>> /\ Pool!Becomes(Server, Pool!EndCallback(P, f))
    BY <1>13 DEF Pool!SSLReadEvent
  <2>1. Becomes(Server, EndCallback(P, f))
    BY <2>0, PoolNet, PoolBecomes
  <2>2. CASE inbox[s] # <<>>
    <3>1. Pool!Echo(s, Tail(inbox[s]), <<Head(inbox[s])>>)
      BY <1>7, <1>13, <2>2 DEF Pool!SSLReadEvent
    <3>2. inbox[s] \in Seq(Token)
      BY <1>5, <1>6, <1>13
    <3>3. PICK q \in Seq(Token) : q = inbox[s]
      BY <3>2
    <3>4. /\ Head(q) \in Token /\ Tail(q) \in Seq(Token) /\ <<Head(q)>> \in Seq(Token)
          /\ q = <<Head(q)>> \o Tail(q)
      BY <2>2, <3>3
    <3> QED BY <1>11, <1>13, <2>0, <2>1, <3>1, <3>2, <3>3, <3>4
  <2>3. CASE inbox[s] = <<>>
    <3>1. UNCHANGED <<inbox, out, got>>
      BY <1>13, <2>3 DEF Pool!SSLReadEvent
    <3>2. inbox' = [inbox EXCEPT ![s] = <<>>]
      BY <1>0, <1>5, <1>13, <2>3, <3>1 DEF Shaped
    <3> QED BY <1>10, <1>13, <2>0, <2>1, <2>3, <3>1, <3>2
  <2> QED BY <2>2, <2>3
<1> QED BY <1>3, <1>4, <1>12, <1>13

(* A client is added, and the SSL server goes on after the handshake. *)
LEMMA QuietHandshake ==
  ASSUME NEW P, Sane(P), NEW s \in Socks, P.fd[s] \in Fds
  PROVE  \A R \in {socket_onAccept(P, s), ssl_onHandShake(P, s)} : Sane(R) /\ Quiet(P, R)
<1>1. Sane(socket_onAccept(P, s)) /\ Quiet(P, socket_onAccept(P, s))
  <2> DEFINE Q == Register(P, P.fd[s], s)
             map == Put(Q.objects, s, s)
             A == Pool!AddClient(P, s)
  <2>1. Goes(P, A, {})
    BY AddClientGoes
  <2>2. A = [Q EXCEPT !.objects = map]
    BY PoolNet DEF Pool!AddClient
  <2>3. Goes(P, Q, {})
    BY RegisterGoes
  <2>4. Sane(Q) /\ Quiet(P, Q)
    BY Zenon, <2>3, QuietCalls DEF Goes
  <2> HIDE DEF Q, map, A
  <2>5. Quiet(Q, [Q EXCEPT !.objects = map])
    BY Zenon, <2>4, QuietCalls
  <2>6. Quiet(P, A)
    BY <2>2, <2>4, <2>5, QuietOn
  <2>7. Sane(A)
    BY <2>1 DEF Goes
  <2> QED BY <2>6, <2>7 DEF A, socket_onAccept
<1>2. Sane(ssl_onHandShake(P, s)) /\ Quiet(P, ssl_onHandShake(P, s))
  <2> DEFINE Q == SSL!startListenReadEvent(P, s)
             A == Keep(Q, s)
  <2>1. Sane(Q) /\ Quiet(P, Q)
    BY SaneTasks, QuietTasks
  <2>2. Goes(P, A, {})
    BY KeepGoes
  <2> HIDE DEF Q
  <2>3. Quiet(Q, A)
    BY <2>1, QuietTasks
  <2>4. Quiet(P, A)
    BY <2>1, <2>3, QuietOn
  <2>5. Sane(A)
    BY <2>2 DEF Goes
  <2> QED BY <2>4, <2>5 DEF ssl_onHandShake, Q
<1> QED BY <1>1, <1>2

(* The server goes on after a handshake, which may have sent a session ticket. *)
LEMMA GoesOnFlow ==
  ASSUME NetIInv, FlowIInv, ~Datagrams, Crypted,
         NEW s \in Streams, proc[Server].blocked = s,
         NEW Q, proc' = [proc EXCEPT ![Server] = Q],
         Silent(proc[Server], Q), Q.main = proc[Server].main, Q.sent = proc[Server].sent,
         Q.blocked = None, \A f \in Fds : Q.table[f] \in {proc[Server].table[f], None},
         \/ inbox' = inbox
         \/ s[2] \in connected /\ inbox' = [inbox EXCEPT ![Peer(s)] = Append(@, Ticket)],
         UNCHANGED <<backlog, connected, out, got, app, ssl, forwarded>>, PoolKept'
  PROVE  FlowIInv'
<1> DEFINE P == proc[Server]
           k == Peer(s)
<1>0. proc'[Server] = Q /\ Server \in Procs /\ \A q \in Procs : q # Server => proc'[q] = proc[q]
  BY Names DEF NetIInv
<1>1. Carries(P) /\ P.sent \in Nat /\ Shaped /\ Ended /\ FramesKept
  BY <1>0 DEF FlowIInv
<1>2. /\ KeepsFrames(P, Q) /\ Carries(Q) /\ Q.sent \in Nat
      /\ \A r \in Socks : Pending(Q, r) = Pending(P, r)
  BY <1>1 DEF Silent
<1>3. UNCHANGED <<app, backlog, connected>>
  OBVIOUS
<1>4. Onward
  <2>1. \A f \in Fds : Q.table[f] \in {proc[Server].table[f], None}
    OBVIOUS
  <2>2. proc' = [proc EXCEPT ![Server] = Q] /\ (P.main = "end" => Q.main = "end")
    OBVIOUS
  <2> QED BY <1>0, <1>3, <2>1, <2>2, OnwardCalls
<1>5. s \in Socks /\ P.fd[s] \in Fds /\ Proc(s) = Server
  BY <1>0, SaneProc, Names DEF Sane, Owns, NetIInv, Proper
<1>6. /\ s = <<"srv", s[2]>> /\ s[2] \in Clients /\ k = <<"cli", s[2]>> /\ k \in Streams /\ k \in Socks
      /\ k[1] = "cli" /\ Peer(k) = s
  BY <1>5, TwoEnds, NamesAssumption, Names DEF Proc, Peer
<1>7. out[s] = <<>> /\ inbox[k] = <<>>
  BY <1>6 DEF FlowIInv, Settled
<1>8. s[2] \notin Range(backlog)
  BY <1>5, <1>6, Names DEF NetIInv, Queued
<1>9. \A r \in Socks \ {k} : inbox'[r] = inbox[r]
  BY <1>1, <1>6 DEF Shaped
<1>10. inbox'[k] \in {inbox[k], <<Ticket>>}
  <2>1. CASE inbox' = [inbox EXCEPT ![k] = Append(@, Ticket)]
    <3>1. inbox'[k] = Append(inbox[k], Ticket)
      BY <1>1, <1>6, <2>1 DEF Shaped
    <3>2. Append(<<>>, Ticket) = <<Ticket>>
      OBVIOUS
    <3> QED BY <1>7, <3>1, <3>2
  <2> QED BY <2>1
<1>11. Shaped'
  BY <1>1 DEF Shaped
<1>12. ASSUME NEW r \in Streams PROVE FlowStep(r) /\ Plain(r)'
  <2>1. Bytes(r) /\ Bytes(Peer(r)) /\ r \in Socks
    BY TwoEnds, Names DEF FlowIInv
  <2>2. CASE inbox'[r] = inbox[r]
    <3>1. Plain(r)'
      BY <1>3, <2>1, <2>2, AppsSame DEF Plain, Bytes
    <3> QED BY <2>1, <2>2, <3>1, FlowStill
  <2>3. CASE inbox'[r] # inbox[r]
    <3>1. r = k /\ inbox'[k] = <<Ticket>>
      BY <1>9, <1>10, <2>1, <2>3
    <3>2. Told(<<Ticket>>) = <<>> /\ Told(<<>>) = <<>> /\ <<Ticket>> \in Seq(Nat)
      BY DEF Told, Ticket
    <3>3. Plain(k)'
      BY <1>3, <1>6, <3>1, <3>2, AppsSame DEF Plain
    <3>4. got[k] \o <<>> = got[k] /\ out[s] \o <<>> = out[s] /\ <<>> \o <<>> = <<>>
          /\ <<>> \in Seq(Token)
      BY <2>1, <1>6, <3>1, ConcatEmptySeq DEF Bytes
    <3>5. FlowStep(k)
      <4>1. /\ got'[k] = got[k] \o <<>> /\ out'[Peer(k)] = out[Peer(k)] \o <<>>
            /\ Told(inbox[k]) = <<>> \o <<>> /\ Told(inbox'[k]) = <<>>
        BY <1>6, <1>7, <3>1, <3>2, <3>4
      <4> QED BY <3>4, <4>1 DEF FlowStep
    <3> QED BY <3>1, <3>3, <3>5
  <2> QED BY <2>2, <2>3
<1>13. ASSUME NEW c \in Clients PROVE Unwritten(c)' /\ Open1(c)' /\ EchoKept(c)'
  <2>1. Unwritten(c) /\ Open1(c) /\ EchoKept(c) /\ <<"srv", c>> \in Socks /\ <<"cli", c>> \in Socks
    BY SettledParts DEF FlowIInv, Socks, Streams
  <2>2. Pending(proc'[Server], <<"srv", c>>) = Pending(proc[Server], <<"srv", c>>)
    BY <1>0, <1>2, <2>1
  <2>3. EchoKept(c)'
    BY <1>4, <2>1, <2>2, EchoSame
  <2>4. Unwritten(c)'
    <3>1. CASE inbox' = inbox
      BY <1>0, <2>1, <3>1, Names DEF Unwritten
    <3>2. CASE s[2] \in connected /\ s[2] # c
      <4>1. <<"cli", c>> # k
        BY <1>6, <3>2
      <4> QED BY <1>0, <1>9, <2>1, <4>1, Names DEF Unwritten
    <3>3. CASE s[2] \in connected /\ s[2] = c
      <4>1. proc'[Server].blocked # <<"srv", c>>
        BY <1>0, <2>1, Names
      <4> QED BY <1>8, <3>3, <4>1 DEF Unwritten
    <3> QED BY <3>1, <3>2, <3>3
  <2> QED BY <2>1, <2>3, <2>4 DEF Open1
<1>14. FramesKept'
  <2>1. KeepsFrames(proc[Server], proc'[Server])
    BY <1>0, <1>2
  <2> QED BY <1>0, <1>1, <1>3, <2>1, FramesSame
<1>15. /\ Q.main = "end" => \A f \in Fds : Q.table[f] = None
       /\ proc'[Server].main = "end" => backlog' = <<>>
  BY <1>0, <1>1, Names DEF Ended
<1>16. Server \notin Clients
  BY NamesAssumption
<1> QED BY <1>0, <1>2, <1>4, <1>11, <1>12, <1>13, <1>14, <1>15, <1>16, Gather

(* The server's handshake ends. *)
LEMMA ServerHandshakeFlow ==
  ASSUME NetIInv, FlowIInv, ~Datagrams, Crypted, NEW p \in Procs, ServerHandshake(p)
  PROVE  FlowIInv'
<1> DEFINE P == proc[Server]
           s == P.blocked
           R == IF Pooled THEN socket_onAccept(P, s) ELSE ssl_onHandShake(P, s)
           Q == [R EXCEPT !.blocked = None]
<1>0. /\ p = Server /\ s \in Streams /\ proc[s[2]].promise = "true"
      /\ proc' = [proc EXCEPT ![Server] = Q]
      /\ inbox' = [inbox EXCEPT ![Peer(s)] = Append(@, Ticket)]
      /\ UNCHANGED <<backlog, connected, out, got, app, ssl, forwarded>>
  BY DEF ServerHandshake, rest
<1>1. Sane(P) /\ s \in Socks /\ P.fd[s] \in Fds
  BY <1>0, SaneProc, Names DEF Sane, Owns
<1>2. s[2] \in connected
  <2>1. s[2] \in Clients
    BY <1>0, TwoEnds
  <2> QED BY <1>0, <2>1 DEF FlowIInv, Settled
<1>3. R \in {socket_onAccept(P, s), ssl_onHandShake(P, s)}
  OBVIOUS
<1>p. PoolKept'
  <2>1. CASE Pooled
    <3>1. R = Pool!AddClient(P, s)
      BY <2>1 DEF socket_onAccept
    <3>2. proc' = [proc EXCEPT ![Server] = [Pool!AddClient(P, s) EXCEPT !.blocked = None]]
      BY <1>0, <3>1
    <3> QED BY <1>0, <1>1, <2>1, <3>2, PoolHandshakeKept
  <2>2. CASE ~Pooled
    BY <1>0, <2>2, AppsSame DEF PoolKept
  <2> QED BY <2>1, <2>2
<1> HIDE DEF R
<1>4. Sane(R) /\ Quiet(P, R)
  BY <1>1, <1>3, QuietHandshake
<1>5. Silent(P, R) /\ SameControl(P, R) /\ \A f \in Fds : R.table[f] \in {P.table[f], None}
  BY <1>4, QuietSilent
<1>6. /\ Q.tasks = R.tasks /\ Q.slot = R.slot /\ Q.uid = R.uid /\ Q.main = R.main
      /\ Q.sent = R.sent /\ Q.table = R.table /\ Q.blocked = None
  BY <1>4 DEF Sane, Typed, Fields
<1>7. proc' = [proc EXCEPT ![Server] = Q]
  BY <1>0
<1> HIDE DEF Q
<1>8. Silent(P, Q)
  BY <1>5, <1>6, SilentAside, SilentOn
<1>9. /\ Q.main = P.main /\ Q.sent = P.sent
      /\ \A f \in Fds : Q.table[f] \in {P.table[f], None}
  BY <1>5, <1>6 DEF SameControl
<1> QED BY <1>0, <1>2, <1>p, <1>6, <1>7, <1>8, <1>9, GoesOnFlow

(* A handshake whose other end is gone. *)
LEMMA HandshakeAbortsFlow ==
  ASSUME NetIInv, FlowIInv, ~Datagrams, Crypted, NEW p \in Procs, HandshakeAborts(p)
  PROVE  FlowIInv'
<1> DEFINE P == proc[Server]
           A == [P EXCEPT !.blocked = None]
<1>0. /\ UNCHANGED <<connected, out, got, app, ssl, forwarded>>
      /\ \/ End(p)
         \/ /\ Pooled /\ p = Server /\ Becomes(Server, A) /\ UNCHANGED <<inbox, backlog>>
            /\ P.blocked \in Streams
  BY DEF HandshakeAborts, rest
<1>1. CASE End(p)
  BY <1>0, <1>1, EndFlow
<1>2. CASE /\ Pooled /\ p = Server /\ Becomes(Server, A) /\ UNCHANGED <<inbox, backlog>>
           /\ P.blocked \in Streams
  <2>1. Sane(P) /\ PoolSane(P) /\ DOMAIN P = Fields
    BY <1>2, SaneProc, Names, PoolKeptIs DEF FlowIInv, Sane, Typed
  <2>2. Goes(P, A, {})
    BY <2>1, SetGoes
  <2>3. Sane(A) /\ PoolSane(A)
    BY <2>1, <2>2, PoolCalls DEF Goes
  <2>4. PoolKept'
    BY <1>0, <1>2, <2>3, PoolEndsStep
  <2>5. /\ A.tasks = P.tasks /\ A.slot = P.slot /\ A.uid = P.uid /\ A.main = P.main
        /\ A.sent = P.sent /\ A.table = P.table /\ A.blocked = None
    BY <2>1 DEF Fields
  <2> HIDE DEF A
  <2>6. Silent(P, A)
    BY <2>5, SilentAside
  <2>7. PICK Q : Quiet(A, Q) /\ proc' = [proc EXCEPT ![Server] = Q]
    BY <1>2, <2>3, BecomesQuiet
  <2>8. Silent(A, Q) /\ SameControl(A, Q) /\ \A f \in Fds : Q.table[f] \in {A.table[f], None}
    BY <2>7, QuietSilent
  <2>9. Silent(P, Q)
    BY <2>6, <2>8, SilentOn
  <2>10. /\ Q.main = P.main /\ Q.sent = P.sent /\ Q.blocked = None
         /\ \A f \in Fds : Q.table[f] \in {P.table[f], None}
    BY <2>5, <2>8 DEF SameControl
  <2>11. PICK s \in Streams : P.blocked = s
    BY <1>2
  <2>12. UNCHANGED <<backlog, connected, out, got, app, ssl, forwarded>> /\ inbox' = inbox
    BY <1>0, <1>2
  <2> QED BY <2>4, <2>7, <2>9, <2>10, <2>11, <2>12, GoesOnFlow
<1> QED BY <1>0, <1>1, <1>2

\* A pool client that runs has its socket open.
Linked(c) == Up(c) => \E f \in Fds : proc[c].table[f] = Link(c)
PoolLinked == Pooled => \A c \in Clients : Linked(c)

\* A step of q leaves the table of c alone, opens its socket, or ends it.
KeepsLink(c) ==
  \/ proc'[c].main \in {proc[c].main, "send", "loop"} /\ Up(c) /\ proc'[c].table = proc[c].table
  \/ proc'[c] = proc[c]
  \/ proc'[c].main \in {"off", "end"}
  \/ \E f \in Fds : proc'[c].table[f] = Link(c)

(* The links stay. *)
LEMMA LinksStay ==
  ASSUME PoolLinked, app' = app, Pooled => \A c \in Clients : KeepsLink(c)
  PROVE  PoolLinked'
<1>1. SUFFICES ASSUME Pooled PROVE \A c \in Clients : Linked(c)'
  BY AppsSame DEF PoolLinked
<1>2. ASSUME NEW c \in Clients PROVE Linked(c)'
  <2>1. Linked(c) /\ KeepsLink(c)
    BY <1>1 DEF PoolLinked
  <2>2. Link(c)' = Link(c)
    BY DEF Link
  <2>3. proc'[c].main \notin {"off", "end"} => \E f \in Fds : proc'[c].table[f] = Link(c)
    BY <2>1 DEF Linked, KeepsLink, Up
  <2> QED BY <2>2, <2>3 DEF Linked, Up
<1> QED BY <1>2

(* A step of another process. *)
LEMMA OtherLinks ==
  ASSUME NetIInv, NEW p \in Procs, NEW Q, proc' = [proc EXCEPT ![p] = Q],
         \/ p = Server
         \/ Q.main \in {"off", "end"}
         \/ Q.main \in {proc[p].main, "send", "loop"} /\ Up(p) /\ Q.table = proc[p].table
         \/ \E f \in Fds : Q.table[f] = Link(p)
  PROVE  \A c \in Clients : KeepsLink(c)
<1>1. proc'[p] = Q /\ \A q \in Procs : q # p => proc'[q] = proc[q]
  BY DEF NetIInv
<1>2. Server \notin Clients /\ Clients \subseteq Procs
  BY Names, NamesAssumption
<1> QED BY <1>1, <1>2 DEF KeepsLink

(* A process ends. *)
LEMMA EndLinks ==
  ASSUME NetIInv, NEW p \in Procs, End(p)
  PROVE  \A c \in Clients : KeepsLink(c)
<1> DEFINE Q == [NewProcess EXCEPT !.main = "end"]
<1>1. proc' = [proc EXCEPT ![p] = Q] /\ Q.main = "end"
  BY DEF End, NewProcess
<1> HIDE DEF Q
<1> QED BY <1>1, OtherLinks

(* The pool clients stay linked, whatever happens. *)
LEMMA LinkStep ==
  ASSUME NetIInv, PoolLinked, [Next]_vars
  PROVE  PoolLinked'
<1>0. app' = app
  BY ZenonT(40) DEF Next, vars, StartServer, StartClient, ConnectClient, Datagram, MainThread, Leave, Connected,
         SendNext, ClientLoop, IOThread, rest, PoolTask, PoolEvent, Callback, SockTask, SSLTask,
         DataGramTask, ServerTask, FrameTask, ReadShmTask, ConnectAborts, HandshakeAborts,
         ClientHandshake, ServerHandshake, Interrupt, Sigpipe, TakeFrame
<1>1. SUFFICES ASSUME Pooled PROVE \A c \in Clients : KeepsLink(c)
  BY <1>0, LinksStay
<1>2. app \in {"socket", "ssl_socket"} /\ ~Datagrams
  BY <1>1 DEF Pooled, Datagrams
<1>3. Server \in Procs /\ Clients \subseteq Procs
  BY Names
<1>4. ASSUME NEW q \in Procs PROVE DOMAIN proc[q] = Fields
  BY <1>4, SaneProc DEF Sane, Typed
<1>5. ASSUME NEW P, Becomes(Server, P) PROVE \A c \in Clients : KeepsLink(c)
  <2>1. PICK Q : proc' = [proc EXCEPT ![Server] = Q]
    BY <1>5 DEF Becomes
  <2> QED BY <1>3, <2>1, OtherLinks
<1>6. CASE StartServer
  <2>1. PICK Q : proc' = [proc EXCEPT ![Server] = Q]
    BY <1>6 DEF StartServer
  <2> QED BY <1>3, <2>1, OtherLinks
<1>7. ASSUME NEW c \in Clients, ConnectClient(c) PROVE \A d \in Clients : KeepsLink(d)
  <2> DEFINE P == proc[c]
             s == Link(c)
             R == Open(P, s)
             A == [R EXCEPT !.main = "loop"]
             B == [R EXCEPT !.main = "wait", !.blocked = s]
             E == [P EXCEPT !.main = "end"]
  <2>0. c \in Procs /\ s \in Socks /\ Proc(s) = c /\ P.main = "off"
    BY <1>3, <1>7, NamesAssumption DEF Link, Socks, Streams, Proc, ConnectClient
  <2>1. \/ proc' = [proc EXCEPT ![c] = A]
        \/ proc' = [proc EXCEPT ![c] = B]
        \/ proc' = [proc EXCEPT ![c] = E]
    BY <1>7 DEF ConnectClient, socket_test_client, ssl_test_client
  <2>2. CASE proc' = [proc EXCEPT ![c] = A] \/ proc' = [proc EXCEPT ![c] = B]
    <3>1. Sane(R) /\ R.fd[s] \in Fds
      BY <2>0, BeginsOpen
    <3>2. Sane(P) /\ FreeFds(P) # {}
      <4>1. Sane(P) /\ Fresh(P)
        BY <2>0 DEF NetIInv, Proper
      <4>2. PICK f : f \in Fds
        BY <3>1
      <4>3. f \in FreeFds(P)
        BY <4>1, <4>2 DEF Fresh, FreeFds
      <4> QED BY <4>1, <4>3
    <3>3. \E f \in Fds : R.table[f] = s
      BY <2>0, <3>2, FreeFd DEF Open, Sane, Typed, Fields, FreeFds
    <3>4. DOMAIN R = Fields
      BY <3>1 DEF Sane, Typed
    <3> HIDE DEF R
    <3>5. A.table = R.table /\ B.table = R.table
      BY <3>4 DEF Fields
    <3> HIDE DEF A, B
    <3>6. PICK Q : proc' = [proc EXCEPT ![c] = Q] /\ Q.table = R.table
      BY <2>2, <3>5
    <3> QED BY <2>0, <3>3, <3>6, OtherLinks
  <2>3. CASE proc' = [proc EXCEPT ![c] = E]
    <3>1. E.main = "end"
      BY <1>4, <2>0 DEF Fields
    <3> HIDE DEF E
    <3> QED BY <2>0, <2>3, <3>1, OtherLinks
  <2> QED BY <2>1, <2>2, <2>3
<1>8. ASSUME NEW p \in Procs, NEW Q, proc' = [proc EXCEPT ![p] = Q], Up(p), Q.table = proc[p].table,
             Q.main \in {proc[p].main, "send", "loop"}
      PROVE  \A c \in Clients : KeepsLink(c)
  BY <1>8, OtherLinks
<1>9. ASSUME NEW p \in Procs, MainThread(p) PROVE \A c \in Clients : KeepsLink(c)
  <2> DEFINE P == proc[p]
             s == Link(p)
  <2>1. CASE Leave(p)
    BY <2>1, EndLinks DEF Leave
  <2>2. CASE p \in Clients /\ Connected(p)
    <3> DEFINE Q == IF P.promise = "true" THEN [P EXCEPT !.main = "send"]
                    ELSE [SetExit(P) EXCEPT !.main = "loop"]
    <3>1. proc' = [proc EXCEPT ![p] = Q] /\ Up(p)
      BY <2>2 DEF Connected, Up
    <3>2. Q.table = P.table /\ Q.main \in {"send", "loop"}
      BY <1>4 DEF SetExit, Fields
    <3> HIDE DEF Q
    <3> QED BY <1>8, <3>1, <3>2
  <2>3. CASE p \in Clients /\ SendNext(p)
    <3> DEFINE n == P.sent + 1
               R == [P EXCEPT !.sent = n, !.main = IF n < Sends THEN @ ELSE "loop"]
               Q == Sock!asend(R, s, <<n>>)
    <3>1. proc' = [proc EXCEPT ![p] = Q] /\ Up(p)
      BY <1>2, <2>3 DEF SendNext, Up
    <3>2. DOMAIN R = Fields /\ R.table = P.table /\ R.main \in {P.main, "loop"}
      BY <1>4 DEF Fields
    <3> HIDE DEF R
    <3>3. Q.table = R.table /\ Q.main = R.main
      BY <3>2 DEF Sock!asend, Sock!AddTask, Fields
    <3> HIDE DEF Q
    <3> QED BY <1>8, <3>1, <3>2, <3>3
  <2>4. CASE p \in Clients /\ ClientLoop(p)
    <3>1. \/ Pool!End(p)
          \/ \E n : proc' = [proc EXCEPT ![p] = [P EXCEPT !.sent = n]] /\ Up(p)
      BY <2>4 DEF ClientLoop, Pool!ClientLoop, Pool!SSLClientLoop, Pool!Exchange, Up
    <3>2. CASE Pool!End(p)
      BY <3>2, PoolEnd, EndLinks
    <3>3. ASSUME NEW n, proc' = [proc EXCEPT ![p] = [P EXCEPT !.sent = n]], Up(p)
          PROVE  \A c \in Clients : KeepsLink(c)
      <4> DEFINE Q == [P EXCEPT !.sent = n]
      <4>1. Q.table = P.table /\ Q.main = P.main
        BY <1>4 DEF Fields
      <4>2. proc' = [proc EXCEPT ![p] = Q]
        BY <3>3
      <4> HIDE DEF Q
      <4> QED BY <1>8, <3>3, <4>1, <4>2
    <3> QED BY <3>1, <3>2, <3>3
  <2> QED BY <1>9, <2>1, <2>2, <2>3, <2>4 DEF MainThread
<1>10. ASSUME NEW p \in Procs, IOThread(p) PROVE \A c \in Clients : KeepsLink(c)
  <2>1. \/ PoolTask(p) \/ PoolEvent(p) \/ ServerTask(p)
        \/ ConnectAborts(p) \/ HandshakeAborts(p) \/ ClientHandshake(p) \/ ServerHandshake(p)
    BY <1>1, <1>2, <1>10 DEF IOThread, Callback, SockTask, SSLTask, DataGramTask, FrameTask, ReadShmTask
  <2>2. CASE PoolTask(p)
    <3>1. p = Server /\ (work(p) \/ \E P : Becomes(p, P))
      BY <2>2, PoolBecomes, PoolWork DEF PoolTask, Pool!FirstTick, Pool!Tick
    <3>2. p = Server /\ \E P : Becomes(p, P)
      BY <3>1 DEF work
    <3> QED BY <1>5, <3>2
  <2>3. CASE PoolEvent(p)
    <3>1. p = Server /\ \E P : Acc!Becomes(p, P) \/ Pool!Becomes(p, P)
      <4>1. PICK f, s : \/ Acc!AcceptReady(p, f, AfterAccept(p))
                        \/ Pool!ReadEvent(p, f, s)
                        \/ Pool!SSLReadEvent(p, f, s)
        <5>1. PICK f \in proc[p].batch : \E s \in {proc[p].callbacks[f]} :
                CASE s = Own -> Acc!AcceptReady(p, f, AfterAccept(p))
                  [] s # Own /\ app = "socket" -> Pool!ReadEvent(p, f, s)
                  [] s # Own /\ app = "ssl_socket" -> Pool!SSLReadEvent(p, f, s)
          BY <2>3 DEF PoolEvent
        <5> QED BY <1>2, <5>1
      <4>2. p = Server
        BY <2>3 DEF PoolEvent
      <4>3. CASE Acc!AcceptReady(p, f, AfterAccept(p))
        BY <4>2, <4>3 DEF Acc!AcceptReady, AfterAccept, Acc!Accepted
      <4>4. CASE Pool!ReadEvent(p, f, s)
        BY <4>2, <4>4 DEF Pool!ReadEvent
      <4>5. CASE Pool!SSLReadEvent(p, f, s)
        BY <4>2, <4>5 DEF Pool!SSLReadEvent
      <4> QED BY <4>1, <4>3, <4>4, <4>5
    <3> QED BY <1>5, <3>1, AccBecomes, PoolBecomes
  <2>4. CASE ServerTask(p)
    <3>1. p = Server /\ \E P : Acc!Becomes(p, P) \/ Becomes(p, P)
      BY <2>4 DEF ServerTask, Acc!StartTask, Acc!StopTask, SaveTask, FindTask
    <3> QED BY <1>5, <3>1, AccBecomes
  <2>5. CASE ConnectAborts(p) \/ HandshakeAborts(p)
    <3>1. End(p) \/ (p = Server /\ \E P : Becomes(p, P))
      BY <2>5 DEF ConnectAborts, HandshakeAborts
    <3> QED BY <1>5, <3>1, EndLinks
  <2>6. CASE ClientHandshake(p)
    <3> DEFINE P == proc[p]
               Q == [P EXCEPT !.blocked = None, !.promise = "true",
                              !.main = IF Pooled THEN "loop" ELSE @]
    <3>1. Up(p) /\ proc' = [proc EXCEPT ![p] = Q]
      BY <2>6 DEF ClientHandshake
    <3>2. Q.table = P.table /\ Q.main = "loop"
      BY <1>1, <1>4 DEF Fields
    <3> HIDE DEF Q
    <3> QED BY <1>8, <3>1, <3>2
  <2>7. CASE ServerHandshake(p)
    <3>1. PICK Q : proc' = [proc EXCEPT ![Server] = Q]
      BY <2>7 DEF ServerHandshake
    <3> QED BY <1>3, <3>1, OtherLinks
  <2> QED BY <2>1, <2>2, <2>3, <2>4, <2>5, <2>6, <2>7
<1>11. ASSUME NEW p \in Procs, Interrupt(p) PROVE \A c \in Clients : KeepsLink(c)
  <2> DEFINE Q == SetExit(proc[p])
  <2>1. Up(p) /\ proc' = [proc EXCEPT ![p] = Q]
    BY <1>11 DEF Interrupt
  <2>2. Q.table = proc[p].table /\ Q.main = proc[p].main
    BY <1>4 DEF SetExit, Fields
  <2> HIDE DEF Q
  <2> QED BY <1>8, <2>1, <2>2
<1>12. ASSUME NEW p \in Procs, Sigpipe(p) PROVE \A c \in Clients : KeepsLink(c)
  <2>1. Sock!End(p) \/ Pool!End(p)
    BY <1>12 DEF Sigpipe, Sock!Killed, Pool!Killed
  <2> QED BY <2>1, SockEnd, PoolEnd, EndLinks
<1>13. CASE UNCHANGED vars
  <2>1. proc' = proc
    BY <1>13 DEF vars, net
  <2> QED BY <2>1 DEF KeepsLink
<1>14. ASSUME NEW c \in Clients PROVE ~StartClient(c) /\ ~Datagram(c)
  BY <1>1, <1>2 DEF StartClient, Datagram
<1>15. ~TakeFrame
  BY <1>2 DEF TakeFrame
<1> QED BY <1>6, <1>7, <1>9, <1>10, <1>11, <1>12, <1>13, <1>14, <1>15 DEF Next

(* At the beginning nothing runs. *)
LEMMA InitLinks == ASSUME Init PROVE PoolLinked
BY DEF Init, NetInit, NewProcess, PoolLinked, Linked, Up, Procs

(* A pool client reads data and writes a message. *)
LEMMA PoolClientSwaps ==
  ASSUME NetIInv, FlowIInv, PoolLinked, ~Datagrams, Pooled, NEW c \in Clients,
         proc[c].main = "loop", NEW n \in Nat, proc' = [proc EXCEPT ![c].sent = @ + n],
         NEW data \in Seq(Token), NEW message \in Seq(Token), NEW box, Reading(Link(c), data, box),
         message # <<>> => ~Hup(Link(c)),
         Swaps(Link(c), box, data, message),
         UNCHANGED <<backlog, connected, app, ssl, forwarded>>
  PROVE  FlowIInv'
<1> DEFINE P == proc[c]
           s == Link(c)
           Q == [P EXCEPT !.sent = @ + n]
<1>0. c \in Procs /\ s \in Streams /\ s \in Socks /\ Proc(s) = c /\ s[1] = "cli" /\ s[2] = c
  BY Names, NamesAssumption DEF Link, Socks, Streams, Proc
<1>1. Sane(P) /\ P.sent \in Nat /\ DOMAIN P = Fields
  BY <1>0, SaneProc DEF Sane, Typed, FlowIInv
<1>2. proc' = [proc EXCEPT ![c] = Q]
  OBVIOUS
<1>3. /\ Q.tasks = P.tasks /\ Q.slot = P.slot /\ Q.uid = P.uid /\ Q.main = P.main /\ Q.table = P.table
      /\ Q.promise = P.promise /\ Q.blocked = P.blocked /\ Q.sent \in Nat
  BY <1>1 DEF Fields
<1> HIDE DEF Q
<1>4. Silent(P, Q)
  BY <1>3, SilentAside
<1>5. message # <<>> => ~Lost(Peer(s))
  <2>1. ASSUME ~Hup(s) PROVE ~Lost(Peer(s))
    <3>1. PICK f \in Fds : P.table[f] = s
      BY DEF PoolLinked, Linked, Up
    <3>2. P.fd[s] = f
      BY <1>0, <1>1, <3>1, Names DEF Sane, Owns
    <3>3. Named(P, s) = s /\ P.fd[s] \in Fds
      BY <3>1, <3>2 DEF Named
    <3>4. c \in connected
      BY DEF FlowIInv, Settled
    <3> QED BY <1>0, <2>1, <3>3, <3>4, WriterAlive
  <2> QED BY <2>1
<1>6. PoolKept'
  <2>1. c # Server /\ PoolKept
    BY NamesAssumption DEF FlowIInv
  <2> QED BY <1>0, <1>2, <2>1, PoolOther
<1>7. s[1] # "srv"
  BY <1>0
<1>8. \A f \in Fds : Q.table[f] \in {P.table[f], None}
  BY <1>3
<1> HIDE DEF s
<1>9. Reading(s, data, box) /\ Swaps(s, box, data, message)
  BY DEF s
<1> QED BY <1>0, <1>2, <1>3, <1>4, <1>5, <1>6, <1>7, <1>8, <1>9, SwapFlow

(* The loop of a pool client. *)
LEMMA ClientLoopFlow ==
  ASSUME NetIInv, FlowIInv, PoolLinked, ~Datagrams, NEW c \in Clients, ClientLoop(c)
  PROVE  FlowIInv'
<1> DEFINE P == proc[c]
           s == Link(c)
           message == Pool!Message(c, Sends)
<1>0. c \in Procs /\ s \in Streams /\ s \in Socks /\ s[1] = "cli"
  BY Names, NamesAssumption DEF Link, Socks, Streams
<1>1. /\ Pooled /\ UNCHANGED <<app, ssl, forwarded>> /\ P.main = "loop" /\ (~Crypted <=> app = "socket")
  BY DEF ClientLoop, Pooled, Crypted, rest, Pool!ClientLoop, Pool!SSLClientLoop
<1>2. P.sent \in Nat /\ Bytes(s)
  BY <1>0 DEF FlowIInv
<1>3. message \in Seq(Token) /\ Len(message) \in Nat /\ Len(<<>>) = 0
  <2>1. message \in {<<>>, <<P.sent + 1>>}
    BY DEF Pool!Message
  <2>2. P.sent + 1 \in Token
    BY <1>2 DEF Token
  <2>3. <<P.sent + 1>> \in Seq(Token) /\ <<>> \in Seq(Token)
    BY <2>2
  <2>4. message \in Seq(Token)
    BY <2>1, <2>3
  <2>5. Len(<<>>) = 0
    OBVIOUS
  <2>6. Len(message) \in Nat
    BY <2>4
  <2> QED BY <2>4, <2>5, <2>6
<1>4. \A k : (Pool!Hup(k) <=> Hup(k)) /\ Pool!Peer(k) = Peer(k)
  BY SendNet
<1>5. <<>> \in Seq(Nat) /\ <<>> \in Seq(Token) /\ Told(<<>>) = <<>>
  BY DEF Told
<1> HIDE DEF message
<1>6. ASSUME NEW data \in Seq(Token), NEW box, Reading(s, data, box),
             Pool!Exchange(c, s, box, data, message)
      PROVE  FlowIInv'
  <2> DEFINE arrives == IF Hup(s) THEN <<>> ELSE message
  <2>1. Swaps(s, box, data, arrives)
    BY <1>4, <1>6 DEF Pool!Exchange, Pool!Arrives, Swaps
  <2>4. arrives \in Seq(Token) /\ (arrives # <<>> => ~Hup(s))
    BY <1>3, <1>5
  <2>2. proc' = [proc EXCEPT ![c].sent = @ + Len(message)] /\ UNCHANGED <<backlog, connected>>
    BY <1>6 DEF Pool!Exchange
  <2>3. UNCHANGED <<backlog, connected, app, ssl, forwarded>>
    BY <1>1, <2>2
  <2> HIDE DEF arrives
  <2> QED BY <1>1, <1>3, <1>6, <2>1, <2>2, <2>3, <2>4, PoolClientSwaps
<1>7. CASE app = "socket"
  <2>1. Pool!ClientLoop(c, s, Sends)
    BY <1>7 DEF ClientLoop
  <2>2. CASE Hup(s)
    <3>1. Pool!End(c) /\ UNCHANGED <<connected, out, got>>
      BY <1>4, <2>1, <2>2 DEF Pool!ClientLoop
    <3>2. End(c)
      BY <3>1, PoolEnd
    <3>3. UNCHANGED <<connected, out, got, app, ssl, forwarded>>
      BY <1>1, <3>1
    <3> QED BY <1>0, <3>2, <3>3, EndFlow
  <2>3. CASE ~Hup(s)
    <3>1. Pool!Exchange(c, s, <<>>, inbox[s], message)
      BY <1>4, <2>1, <2>3 DEF Pool!ClientLoop, message
    <3>2. inbox[s] \in Seq(Token)
      BY <1>1, <1>2, <1>7 DEF Bytes
    <3>3. inbox[s] \o <<>> = inbox[s] /\ Told(inbox[s]) = inbox[s]
      <4>1. \A q \in Seq(Token) : Told(q) = q /\ q \o <<>> = q
        BY ConcatEmptySeq DEF Told, Token, Ticket
      <4> QED BY <3>2, <4>1
    <3>4. Reading(s, inbox[s], <<>>)
      BY <1>5, <3>3 DEF Reading
    <3> QED BY <1>6, <3>1, <3>2, <3>4
  <2> QED BY <2>2, <2>3
<1>8. CASE app = "ssl_socket"
  <2>1. Pool!SSLClientLoop(c, s, Sends)
    BY <1>8 DEF ClientLoop
  <2>2. Pool!Exchange(c, s, Rest(inbox[s]), Record(inbox[s]), message)
    BY <2>1, SSLRecord DEF Pool!SSLClientLoop, message
  <2>3. inbox[s] \in Seq(Nat) /\ Told(inbox[s]) \in Seq(Token)
    BY <1>2 DEF Bytes
  <2>4. /\ Told(inbox[s]) = Record(inbox[s]) \o Told(Rest(inbox[s])) /\ Record(inbox[s]) \in Seq(Token)
        /\ Rest(inbox[s]) \in Seq(Token) /\ Told(Rest(inbox[s])) \in Seq(Token)
        /\ inbox[s] = <<>> => Record(inbox[s]) = <<>> /\ Rest(inbox[s]) = <<>>
    BY <2>3, RecordRest
  <2>5. Reading(s, Record(inbox[s]), Rest(inbox[s]))
    BY <2>4, TokenNat DEF Reading
  <2> QED BY <1>6, <2>2, <2>4, <2>5
<1> QED BY <1>1, <1>7, <1>8 DEF Pooled

(* The program that runs stays. *)
LEMMA AppStays == ASSUME [Next]_vars PROVE app' = app
BY ZenonT(40) DEF Next, vars, StartServer, StartClient, ConnectClient, Datagram, MainThread, Leave, Connected,
       SendNext, ClientLoop, IOThread, rest, PoolTask, PoolEvent, Callback, SockTask, SSLTask,
       DataGramTask, ServerTask, FrameTask, ReadShmTask, ConnectAborts, HandshakeAborts,
       ClientHandshake, ServerHandshake, Interrupt, Sigpipe, TakeFrame

(* The consumer takes a frame. *)
LEMMA TakeFrameFlow ==
  ASSUME NetIInv, FlowIInv, ~Datagrams, TakeFrame
  PROVE  FlowIInv'
<1> DEFINE P == proc[Server]
           Q == [P EXCEPT !.slot = {}]
<1>0. /\ app = "detach" /\ proc' = [proc EXCEPT ![Server] = Q] /\ ~Pooled /\ ~Echoes
      /\ UNCHANGED <<inbox, backlog, connected, out, got, app, ssl>>
  BY DEF TakeFrame, kernel, Pooled, Echoes
<1>1. PICK frame \in P.slot : forwarded' = Append(forwarded, frame)
  BY DEF TakeFrame
<1>2. DOMAIN P = Fields /\ Server \in Procs
  BY Names, SaneProc DEF Sane, Typed
<1>3. /\ Q.tasks = P.tasks /\ Q.slot = {} /\ Q.uid = P.uid /\ Q.main = P.main /\ Q.sent = P.sent
      /\ Q.table = P.table /\ Q.blocked = P.blocked
  BY <1>2 DEF Fields
<1> HIDE DEF Q
<1>4. proc'[Server] = Q
  BY <1>0, <1>2 DEF NetIInv
<1>5. Carries(Q) /\ Q.sent \in Nat
  BY <1>2, <1>3 DEF FlowIInv, Carries
<1>6. Onward
  <2>1. UNCHANGED <<app, backlog, connected>>
    BY <1>0
  <2>2. \A f \in Fds : Q.table[f] \in {P.table[f], None}
    BY <1>3
  <2> QED BY <1>0, <1>2, <1>3, <2>1, <2>2, OnwardCalls
<1>7. Shaped' /\ Ended
  BY <1>0 DEF FlowIInv, Shaped
<1>8. ASSUME NEW s \in Streams PROVE FlowStep(s) /\ Plain(s)'
  <2>1. Bytes(s) /\ Bytes(Peer(s))
    BY TwoEnds DEF FlowIInv
  <2>2. Plain(s)'
    BY <1>0, <2>1, AppsSame DEF Plain, Bytes
  <2>3. inbox'[s] = inbox[s] /\ got'[s] = got[s] /\ out'[Peer(s)] = out[Peer(s)]
    BY <1>0
  <2> QED BY <2>1, <2>2, <2>3, FlowStill
<1>9. ASSUME NEW c \in Clients PROVE Unwritten(c)' /\ Open1(c)' /\ EchoKept(c)'
  <2>1. Unwritten(c) /\ Open1(c)
    BY SettledParts DEF FlowIInv
  <2>2. ~Echoes'
    BY <1>0, AppsSame
  <2> QED BY <1>0, <1>3, <1>4, <2>1, <2>2 DEF Unwritten, Open1, EchoKept
<1>10. PoolKept'
  BY <1>0, AppsSame DEF PoolKept
<1>11. FramesKept'
  <2>1. SUFFICES ASSUME P.main # "end" PROVE Once(forwarded', Q) /\ OneSlot(Q)
    BY <1>3, <1>4 DEF FramesKept
  <2>2. Once(forwarded, P) /\ OneSlot(P)
    BY <1>0, <2>1 DEF FlowIInv, FramesKept
  <2>3. Q.slot = P.slot \ {frame}
    BY <1>3, <2>2 DEF OneSlot
  <2>4. Once(Append(forwarded, frame), Q)
    BY <1>3, <2>2, <2>3, OnceTaken
  <2> QED BY <1>1, <1>3, <2>4 DEF OneSlot
<1>12. /\ Q.main = "end" => \A f \in Fds : Q.table[f] = None
       /\ proc'[Server].main = "end" => backlog' = <<>>
       /\ Server \notin Clients
  BY <1>0, <1>2, <1>3, <1>4, <1>7, NamesAssumption DEF Ended
<1> QED BY <1>0, <1>2, <1>5, <1>6, <1>7, <1>8, <1>9, <1>10, <1>11, <1>12, Gather

(* Nothing happens. *)
LEMMA StutterFlow ==
  ASSUME NetIInv, FlowIInv, ~Datagrams, UNCHANGED vars
  PROVE  FlowIInv'
<1> DEFINE P == proc[Server]
<1>1. UNCHANGED <<inbox, backlog, connected, out, got, app, ssl, forwarded>> /\ proc' = proc
  BY DEF vars, net, kernel
<1>2. Server \in Procs /\ Typed(P)
  BY Names, SaneProc DEF Sane
<1>3. Quiet(P, P)
  BY <1>2, QuietSame
<1>4. proc' = [proc EXCEPT ![Server] = P]
  BY <1>1, <1>2 DEF NetIInv
<1>5. PoolKept'
  BY <1>1, PoolKeptIs DEF FlowIInv
<1> QED BY <1>1, <1>2, <1>3, <1>4, <1>5, QuietFlow

(* A step of a main thread. *)
LEMMA MainThreadFlow ==
  ASSUME NetIInv, FlowIInv, PoolLinked, ~Datagrams, NEW p \in Procs, MainThread(p)
  PROVE  FlowIInv'
BY LeaveFlow, ConnectedFlow, SendFlow, ClientLoopFlow DEF MainThread

(* A task of a stream. *)
LEMMA StreamTaskFlow ==
  ASSUME NetIInv, FlowIInv, ~Datagrams, NEW p \in Procs, SockTask(p) \/ SSLTask(p)
  PROVE  FlowIInv'
<1>1. CASE SockTask(p)
  <2>1. ~Pooled /\ UNCHANGED rest
    BY <1>1 DEF SockTask, Pooled
  <2>2. CASE Sock!ListenTask(p) \/ Sock!CloseTask(p)
    BY <2>1, <2>2, SockQuiet
  <2>3. CASE Sock!SendTask(p, AfterWrite(p, TRUE), AfterWrite(p, FALSE))
    BY <2>1, <2>3, SockSends
  <2>4. CASE Sock!ConnectTask(p, Listening, AfterConnect(p))
    BY <2>1, <2>4, SockConnects
  <2> QED BY <1>1, <2>2, <2>3, <2>4 DEF SockTask
<1>2. CASE SSLTask(p)
  <2>1. ~Pooled /\ UNCHANGED <<app, forwarded>> /\ app = "ssl"
    BY <1>2 DEF SSLTask, Pooled
  <2>2. CASE SSL!ListenTask(p)
    BY <2>1, <2>2, SSLQuiet
  <2>3. CASE SSL!SendTask(p, AfterWrite(p, TRUE), AfterWrite(p, FALSE))
    BY <2>1, <2>3, SSLSends
  <2>4. CASE SSL!CloseTask(p)
    BY <2>1, <2>4, SSLCloses
  <2>5. CASE Listening /\ SSL!ConnectTask(p, TRUE, AfterSSLConnect(p))
    BY <2>1, <2>5, SSLConnects
  <2> QED BY <1>2, <2>2, <2>3, <2>4, <2>5 DEF SSLTask
<1> QED BY <1>1, <1>2

(* A step of an IO thread. *)
LEMMA IOThreadFlow ==
  ASSUME NetIInv, FlowIInv, ~Datagrams, NEW p \in Procs, IOThread(p)
  PROVE  FlowIInv'
<1>0. Up(p)
  BY DEF IOThread
<1>1. CASE ~Pooled /\ work(p) /\ UNCHANGED rest
  BY <1>1, WorkFlow
<1>2. CASE PoolTask(p) \/ PoolEvent(p)
  BY <1>2, PoolTaskFlow, PoolEventFlow
<1>3. CASE Callback(p)
  BY <1>0, <1>3, CallbackFlow
<1>4. CASE SockTask(p) \/ SSLTask(p)
  BY <1>4, StreamTaskFlow
<1>5. CASE ServerTask(p)
  BY <1>5, NoServerTask, ServerFlow
<1>6. CASE FrameTask(p) \/ ReadShmTask(p)
  BY <1>6, FrameFlow
<1>7. CASE app \in {"ssl", "ssl_socket"}
           /\ (ConnectAborts(p) \/ HandshakeAborts(p) \/ ClientHandshake(p) \/ ServerHandshake(p))
  <2>1. Crypted
    BY <1>7 DEF Crypted
  <2> QED BY <1>7, <2>1, LeaveFlow, HandshakeAbortsFlow, ClientHandshakeFlow, ServerHandshakeFlow
<1>8. ~DataGramTask(p)
  BY DEF DataGramTask
<1> QED BY <1>1, <1>2, <1>3, <1>4, <1>5, <1>6, <1>7, <1>8 DEF IOThread

(* Data stays in order in every step. *)
LEMMA FlowNext ==
  ASSUME NetIInv, FlowIInv, PoolLinked, [Next]_vars
  PROVE  FlowIInv'
<1>0. app' = app
  BY AppStays
<1>1. CASE Datagrams
  BY <1>0, <1>1, AppsSame DEF FlowIInv
<1>2. CASE ~Datagrams
  <2>1. ASSUME NEW c \in Clients, StartClient(c) \/ ConnectClient(c) \/ Datagram(c) PROVE FlowIInv'
    <3>1. ~Datagram(c)
      BY <1>2 DEF Datagram, Datagrams
    <3> QED BY <1>2, <2>1, <3>1, StartClientFlow, ConnectClientFlow
  <2>2. ASSUME NEW p \in Procs, MainThread(p) \/ IOThread(p) \/ Interrupt(p) \/ Sigpipe(p)
        PROVE  FlowIInv'
    BY <1>2, <2>2, MainThreadFlow, IOThreadFlow, InterruptFlow, LeaveFlow
  <2>3. CASE StartServer
    BY <1>2, <2>3, StartServerFlow
  <2>4. CASE TakeFrame
    BY <1>2, <2>4, TakeFrameFlow
  <2>5. CASE UNCHANGED vars
    BY <1>2, <2>5, StutterFlow
  <2> QED BY <2>1, <2>2, <2>3, <2>4, <2>5 DEF Next
<1> QED BY <1>1, <1>2

(* At the beginning nothing was written. *)
LEMMA InitFlow == ASSUME Init PROVE FlowIInv
<1>1. /\ proc = [p \in Procs |-> NewProcess]
      /\ inbox = [s \in Socks |-> <<>>] /\ out = [s \in Socks |-> <<>>] /\ got = [s \in Socks |-> <<>>]
      /\ ssl = [s \in Socks |-> "open"] /\ backlog = <<>> /\ connected = {} /\ forwarded = <<>>
  BY DEF Init, NetInit
<1>2. \A p \in Procs : proc[p] = NewProcess
  BY <1>1
<1>3. /\ NewProcess.main = "off" /\ NewProcess.promise = "none" /\ NewProcess.sent = 0
      /\ NewProcess.slot = {} /\ NewProcess.uid = 1 /\ NewProcess.tasks = <<>>
      /\ NewProcess.batch = {} /\ NewProcess.blocked = None /\ NewProcess.interest = {}
      /\ NewProcess.custom = {}
  BY DEF NewProcess
<1>4. PICK P : P = NewProcess
  OBVIOUS
<1>5. Carries(P) /\ \A s : Pending(P, s) = <<>>
  BY <1>3, <1>4, NoPending
<1>6. Range(<<>>) = {} /\ <<>> \in Seq(Token) /\ <<>> \in Seq(Nat) /\ Told(<<>>) = <<>>
      /\ <<>> \o <<>> = <<>>
  BY DEF Range, Told
<1>7. Server \in Procs /\ Clients \subseteq Procs /\ Streams \subseteq Socks
  BY Names
<1>8. Shaped
  BY <1>1 DEF Shaped
<1>9. \A p \in Procs : Carries(proc[p]) /\ proc[p].sent \in Nat
  BY <1>2, <1>3, <1>4, <1>5
<1>10. ASSUME NEW s \in Streams PROVE Bytes(s) /\ Flows(s)
  <2>1. /\ s \in Socks /\ Peer(s) \in Socks
    BY <1>7, TwoEnds
  <2>2. inbox[s] = <<>> /\ got[s] = <<>> /\ out[s] = <<>> /\ out[Peer(s)] = <<>>
    BY <1>1, <2>1
  <2>3. out[Peer(s)] = (got[s] \o Told(inbox[s])) \o <<>>
    BY <1>6, <2>2
  <2> QED BY <1>6, <2>2, <2>3 DEF Bytes, Flows
<1>11. ASSUME NEW c \in Clients PROVE Settled(c) /\ EchoKept(c)
  <2>1. <<"srv", c>> \in Socks /\ <<"cli", c>> \in Socks
    BY DEF Socks, Streams
  <2>2. /\ out[<<"srv", c>>] = <<>> /\ inbox[<<"cli", c>>] = <<>> /\ got[<<"srv", c>>] = <<>>
        /\ ssl[<<"srv", c>>] = "open"
    BY <1>1, <2>1
  <2>3. proc[c] = P /\ proc[Server] = P
    BY <1>2, <1>4, <1>7
  <2> QED BY <1>3, <1>4, <1>5, <1>6, <2>2, <2>3 DEF Settled, EchoKept
<1>12. Ended
  BY <1>1, <1>2, <1>3, <1>7 DEF Ended
<1>13. PoolKept
  <2>1. Polling(P)
    BY <1>3, <1>4, <1>6 DEF Polling
  <2> QED BY <1>2, <1>3, <1>4, <1>7, <2>1 DEF PoolKept
<1>14. FramesKept
  <2>1. Places(<<>>, P) = {}
    BY <1>3, <1>4 DEF Places, Waits
  <2>2. <<>> \in Seq(Range(<<>>))
    OBVIOUS
  <2>3. Once(<<>>, P) /\ OneSlot(P)
    BY <1>3, <1>4, <2>1, <2>2 DEF Once, OneSlot
  <2> QED BY <1>1, <1>2, <1>4, <1>7, <2>3 DEF FramesKept
<1> QED BY <1>8, <1>9, <1>10, <1>11, <1>12, <1>13, <1>14 DEF FlowIInv

(* Data in order, frames in one place and pool clients linked, always. *)
LEMMA FlowAlways == Spec => [](NetIInv /\ FlowIInv)
<1> DEFINE I == NetIInv /\ FlowIInv /\ PoolLinked
<1>1. Init => I
  BY InitInv, InitFlow, InitLinks
<1>2. I /\ [Next]_vars => I'
  BY NetStep, FlowNext, LinkStep
<1> QED BY <1>1, <1>2, PTL DEF Spec

(* What begins a sequence is its prefix. *)
LEMMA PrefixIs ==
  ASSUME NEW S, NEW a \in Seq(S), NEW b \in Seq(S)
  PROVE  IsPrefix(a, a \o b)
<1> DEFINE c == a \o b
<1>1. /\ c \in Seq(S) /\ Len(c) = Len(a) + Len(b)
      /\ \A i \in 1 .. Len(a) : c[i] = a[i]
  BY ConcatProperties
<1>2. Len(a) \in Nat /\ Len(b) \in Nat
  OBVIOUS
<1> HIDE DEF c
<1>3. Len(a) <= Len(c)
  BY <1>1, <1>2
<1>4. SubSeq(a, 1, Len(a)) = SubSeq(c, 1, Len(a))
  <2>1. /\ SubSeq(a, 1, Len(a)) = [i \in 1 .. Len(a) |-> a[i]]
        /\ SubSeq(c, 1, Len(a)) = [i \in 1 .. Len(a) |-> c[i]]
    BY <1>1, <1>2, <1>3
  <2> QED BY <1>1, <2>1
<1>5. IsPrefix(a, c)
  BY <1>3, <1>4 DEF IsPrefix
<1> QED BY <1>5 DEF c

(* What was read is what was written. *)
LEMMA FlowReads == ASSUME FlowIInv PROVE ReadsInOrder
<1> SUFFICES ASSUME ~Datagrams, NEW s \in Streams PROVE IsPrefix(got[s], out[Peer(s)])
  BY DEF ReadsInOrder
<1>1. Bytes(s) /\ Flows(s)
  BY DEF FlowIInv
<1>2. PICK u \in Seq(Token) : out[Peer(s)] = (got[s] \o Told(inbox[s])) \o u
  BY <1>1 DEF Flows
<1>3. PICK g, t : g \in Seq(Token) /\ t \in Seq(Token) /\ g = got[s] /\ t = Told(inbox[s])
  BY <1>1 DEF Bytes
<1>4. (g \o t) \o u = g \o (t \o u)
  BY <1>3, AssocToken
<1>5. t \o u \in Seq(Token)
  BY <1>3, ConcatProperties
<1>6. IsPrefix(g, g \o (t \o u))
  BY <1>3, <1>5, PrefixIs
<1> QED BY <1>2, <1>3, <1>4, <1>6

(* The echo servers' answers. *)
LEMMA FlowEchoes == ASSUME FlowIInv PROVE EchoesInOrder
<1> SUFFICES ASSUME Echoes, NEW c \in Clients, Up(Server), ~Hup(<<"srv", c>>)
             PROVE  got[<<"srv", c>>] = out[<<"srv", c>>] \o Pending(proc[Server], <<"srv", c>>)
  <2>1. \A c \in Clients : Peer(Link(c)) = <<"srv", c>>
    BY DEF Peer, Link
  <2> QED BY <2>1 DEF EchoesInOrder
<1>1. ~Datagrams /\ proc[Server].main # "end"
  BY DEF Echoes, Datagrams, Up
<1> QED BY <1>1 DEF FlowIInv, EchoKept

(* Frames in one place. *)
LEMMA FlowFrames == ASSUME FlowIInv PROVE ForwardedOnce
<1> SUFFICES ASSUME app = "detach", Up(Server) PROVE ForwardedOnce
  BY DEF ForwardedOnce
<1> DEFINE P == proc[Server]
           places == Places(forwarded, P)
           uids == [w \in places |-> Number(forwarded, P, w)]
<1>1. Once(forwarded, P)
  BY DEF FlowIInv, FramesKept, Datagrams, Up
<1>2. IsInjective(uids)
  BY <1>1 DEF Once, IsInjective
<1>3. Range(uids) = 1 .. P.uid - 1
  BY <1>1 DEF Once, Range
<1> HIDE DEF P
<1>4. IsInjective(uids) /\ Range(uids) = 1 .. P.uid - 1
  BY <1>2, <1>3
<1> QED BY <1>4 DEF ForwardedOnce, Places, Waits, Number, P

(* Every frame the detached server numbers is in exactly one place, whatever *)
(* the order of its retries, its reads of the shared memory and the consumer *)
(* (example_tcpser_detach.cpp).                                              *)
THEOREM FramesForwardedOnce == Spec => []ForwardedOnce
<1>1. NetIInv /\ FlowIInv => ForwardedOnce
  BY FlowFrames
<1> QED BY <1>1, FlowAlways, PTL

-----------------------------------------------------------------------------
\* "exit" was sent.
Said(o) == \E i \in DOMAIN o : o[i].data = ExitMessage

\* The datagram socket is closed, its number is kept.
Gone(P) == P.fd[Own] \in Fds /\ P.table[P.fd[Own]] = None

\* The task that sends "exit".
Quits(t) == t.op = "sendto" /\ t.who = Own /\ t.data.data = ExitMessage

\* With o sent and g read, process P has queued the other answers, and a close
\* comes after "exit" was sent.
Replied(P, o, g) ==
  /\ IsSeq(o) /\ IsSeq(g) /\ Carries(P)
  /\ Gone(P) => Said(o) /\ IsPrefix(o, Answers(g))
  /\ ~Gone(P) => Answers(g) = o \o Pending(P, Own)
  /\ \A j \in DOMAIN P.tasks :
        P.tasks[j].op = "dg_close" =>
           Said(o) \/ \E i \in DOMAIN P.tasks : i < j /\ Quits(P.tasks[i])

(* Pending data is the queue's. *)
LEMMA PendingSame ==
  ASSUME NEW P, NEW Q, P.tasks = Q.tasks
  PROVE  /\ \A s : Pending(P, s) = Pending(Q, s)
         /\ Carries(P) <=> Carries(Q)
BY DEF Pending, Carries

(* Nothing of the queue changes. *)
LEMMA ReplySame ==
  ASSUME NEW P, NEW o, NEW g, Replied(P, o, g), NEW Q, Q.tasks = P.tasks, Gone(Q) <=> Gone(P)
  PROVE  Replied(Q, o, g)
BY PendingSame DEF Replied

(* A task is queued that answers nothing. *)
LEMMA ReplyAdd ==
  ASSUME NEW P, NEW o, NEW g, Sane(P), Replied(P, o, g),
         NEW t, t.op \notin {"send", "ssl_send", "sendto"},
         t.op = "dg_close" => Said(o) \/ \E i \in DOMAIN P.tasks : Quits(P.tasks[i]),
         NEW Q, Q.tasks = Append(P.tasks, t), Gone(Q) <=> Gone(P)
  PROVE  Replied(Q, o, g)
<1>1. AddTask(P, t).tasks = Q.tasks
  BY AddFd
<1>2. Carries(P) /\ CarriesTask(t)
  BY DEF Replied, CarriesTask, Writers
<1>3. Writes(t, Own) = <<>>
  BY DEF Writes
<1>4. IsSeq(Pending(P, Own)) /\ Pending(AddTask(P, t), Own) = Pending(P, Own) \o Writes(t, Own)
  BY <1>2, PendingAdd
<1>5. Pending(Q, Own) = Pending(P, Own)
  <2>1. Pending(P, Own) \o <<>> = Pending(P, Own)
    BY <1>4, Concats
  <2>2. Pending(Q, Own) = Pending(AddTask(P, t), Own)
    BY <1>1, PendingSame
  <2> QED BY <1>3, <1>4, <2>1, <2>2
<1>6. /\ Range(Q.tasks) = Range(P.tasks) \cup {t}
      /\ DOMAIN Q.tasks = 1 .. Len(P.tasks) + 1 /\ DOMAIN P.tasks = 1 .. Len(P.tasks)
      /\ Len(P.tasks) \in Nat
      /\ \A i \in DOMAIN P.tasks : Q.tasks[i] = P.tasks[i]
      /\ Q.tasks[Len(P.tasks) + 1] = t
  BY AppendTask DEF Sane, Typed
<1>7. Carries(Q)
  BY <1>2, <1>6 DEF Carries, CarriesTask
<1>8. ASSUME NEW j \in DOMAIN Q.tasks, Q.tasks[j].op = "dg_close"
      PROVE  Said(o) \/ \E i \in DOMAIN Q.tasks : i < j /\ Quits(Q.tasks[i])
  <2>1. CASE j \in DOMAIN P.tasks
    <3>1. Said(o) \/ \E i \in DOMAIN P.tasks : i < j /\ Quits(P.tasks[i])
      BY <1>6, <1>8, <2>1 DEF Replied
    <3> QED BY <1>6, <3>1
  <2>2. CASE j \notin DOMAIN P.tasks
    <3>1. j = Len(P.tasks) + 1
      BY <1>6, <2>2
    <3>2. Said(o) \/ \E i \in DOMAIN P.tasks : Quits(P.tasks[i])
      BY <1>6, <1>8, <3>1
    <3>3. \A i \in DOMAIN P.tasks : i < j /\ i \in DOMAIN Q.tasks
      BY <1>6, <3>1
    <3> QED BY <1>6, <3>2, <3>3
  <2> QED BY <2>1, <2>2
<1> QED BY <1>5, <1>7, <1>8 DEF Replied

(* A close is queued only after "exit" was, when the first task is taken. *)
LEMMA QuitsFirst ==
  ASSUME NEW P, NEW o, NEW g, Sane(P), Replied(P, o, g), P.tasks # <<>>,
         NEW r, Said(o) => Said(r), Quits(Head(P.tasks)) => Said(r),
         NEW j \in DOMAIN Tail(P.tasks), Tail(P.tasks)[j].op = "dg_close"
  PROVE  Said(r) \/ \E i \in DOMAIN Tail(P.tasks) : i < j /\ Quits(Tail(P.tasks)[i])
<1> DEFINE q == P.tasks
           u == Tail(q)
<1>1. q \in Seq(Range(q)) /\ q # <<>>
  BY DEF Sane, Typed
<1>2. /\ Head(q) = q[1] /\ 1 \in DOMAIN q
      /\ \A i \in DOMAIN u : i \in Nat /\ i + 1 \in DOMAIN q /\ u[i] = q[i + 1]
  BY <1>1, TailTask
<1>3. DOMAIN q = 1 .. Len(q) /\ Len(q) \in Nat /\ DOMAIN u = 1 .. Len(q) - 1
  BY <1>1, HeadTailProperties
<1>4. j \in DOMAIN u /\ u[j].op = "dg_close" /\ j \in Nat
  BY <1>2
<1>5. Said(o) \/ \E i \in DOMAIN q : i < j + 1 /\ Quits(q[i])
  BY <1>2, <1>4 DEF Replied
<1> HIDE DEF q, u
<1>6. SUFFICES ASSUME NEW i \in DOMAIN q, i < j + 1, Quits(q[i]), i # 1
               PROVE  \E k \in DOMAIN u : k < j /\ Quits(u[k])
  BY <1>2, <1>5 DEF q, u
<1>7. i - 1 \in DOMAIN u /\ i - 1 < j /\ u[i - 1] = q[i]
  <2>1. i - 1 \in DOMAIN u
    BY <1>3, <1>6
  <2>2. (i - 1) + 1 = i /\ i - 1 < j
    BY <1>3, <1>4, <1>6
  <2>3. u[i - 1] = q[(i - 1) + 1]
    BY <1>2, <2>1
  <2> QED BY <2>1, <2>2, <2>3
<1> QED BY <1>6, <1>7

(* A task is taken that neither sends nor closes. *)
LEMMA ReplyPop ==
  ASSUME NEW P, NEW o, NEW g, Sane(P), Replied(P, o, g), P.tasks # <<>>,
         Head(P.tasks).op \notin {"send", "ssl_send", "sendto", "dg_close"},
         NEW Q, Q.tasks = Tail(P.tasks), Gone(Q) <=> Gone(P)
  PROVE  Replied(Q, o, g)
<1> DEFINE A == [P EXCEPT !.tasks = Tail(@)]
           t == Head(P.tasks)
<1>1. A.tasks = Q.tasks
  BY DEF Sane, Typed, Fields
<1>2. Carries(P)
  BY DEF Replied
<1>3. Carries(A) /\ Pending(P, Own) = Writes(t, Own) \o Pending(A, Own)
  BY <1>2, PendingTail
<1> HIDE DEF A
<1>4. Carries(Q) /\ Pending(Q, Own) = Pending(A, Own)
  BY <1>1, <1>3, PendingSame
<1>5. Sane(A)
  BY PopGoes DEF A, Goes
<1>6. IsSeq(Pending(A, Own))
  <2>1. CarriesTask(Work)
    BY DEF CarriesTask, Work, Task, Writers
  <2> QED BY <1>3, <1>5, <2>1, PendingAdd
<1>7. Writes(t, Own) = <<>>
  BY DEF Writes
<1>8. Pending(Q, Own) = Pending(P, Own)
  BY <1>3, <1>4, <1>6, <1>7, Concats
<1>9. \A j \in DOMAIN Q.tasks : Q.tasks[j].op = "dg_close" =>
         Said(o) \/ \E i \in DOMAIN Q.tasks : i < j /\ Quits(Q.tasks[i])
  <2>1. ~Quits(t)
    BY DEF Quits
  <2> QED BY <2>1, QuitsFirst
<1> QED BY <1>4, <1>8, <1>9 DEF Replied

(* "exit" was sent and remains so. *)
LEMMA SaidMore ==
  ASSUME NEW o, IsSeq(o), NEW x
  PROVE  /\ IsSeq(Append(o, x)) /\ Append(o, x) = o \o <<x>>
         /\ Said(o) => Said(Append(o, x))
         /\ x.data = ExitMessage => Said(Append(o, x))
<1> DEFINE r == Append(o, x)
<1>1. o \in Seq(Range(o))
  BY DEF IsSeq
<1>2. /\ r \in Seq(Range(r)) /\ DOMAIN r = 1 .. Len(o) + 1 /\ DOMAIN o = 1 .. Len(o) /\ Len(o) \in Nat
      /\ \A i \in DOMAIN o : r[i] = o[i]
      /\ r[Len(o) + 1] = x
  BY <1>1, AppendTask
<1>3. r = o \o <<x>>
  <2>1. o \in Seq(Range(o) \cup {x}) /\ x \in Range(o) \cup {x}
    BY <1>1, SeqMonotonic
  <2> QED BY <2>1, AppendIsConcat
<1> HIDE DEF r
<1>4. Said(o) => Said(r)
  BY <1>2 DEF Said
<1>5. x.data = ExitMessage => Said(r)
  <2>1. Len(o) + 1 \in DOMAIN r
    BY <1>2
  <2> QED BY <1>2, <2>1 DEF Said
<1> QED BY <1>2, <1>3, <1>4, <1>5 DEF r, IsSeq

(* A sequence of one. *)
LEMMA OneSeq == \A x : IsSeq(<<x>>)
<1> SUFFICES ASSUME NEW x PROVE IsSeq(<<x>>)
  BY Zenon
<1>1. <<x>> \in Seq({x})
  OBVIOUS
<1> QED BY <1>1, Concats

(* The part that was sent is a prefix of what there is to send. *)
LEMMA PrefixSeq ==
  ASSUME NEW a, NEW b, IsSeq(a), IsSeq(b)
  PROVE  IsPrefix(a, a \o b)
<1>1. a \in Seq(Range(a) \cup Range(b)) /\ b \in Seq(Range(a) \cup Range(b))
  BY SeqMonotonic DEF IsSeq
<1> QED BY <1>1, PrefixIs

(* The answers to one datagram more. *)
LEMMA AnswersAdd ==
  ASSUME NEW g, IsSeq(g), NEW d
  PROVE  /\ IsSeq(Answers(g)) /\ IsSeq(Append(g, d))
         /\ Answers(Append(g, d)) = Answers(g) \o Answer(d)
<1> DEFINE r == Append(g, d)
           Reply(e) == [to |-> e.from, data |-> e.data]
           S == {Reply(e) : e \in Range(g) \cup {d}}
           w == [i \in DOMAIN g |-> Answer(g[i])]
           v == [i \in DOMAIN r |-> Answer(r[i])]
<1>1. g \in Seq(Range(g))
  BY DEF IsSeq
<1>2. /\ r \in Seq(Range(r)) /\ DOMAIN r = 1 .. Len(g) + 1 /\ DOMAIN g = 1 .. Len(g) /\ Len(g) \in Nat
      /\ \A i \in DOMAIN g : r[i] = g[i]
      /\ r[Len(g) + 1] = d
  BY <1>1, AppendTask
<1> HIDE DEF r
<1>3. ASSUME NEW e \in Range(g) \cup {d} PROVE Answer(e) \in Seq(S)
  <2>1. Reply(e) \in S
    OBVIOUS
  <2> HIDE DEF S
  <2> QED BY <2>1 DEF Answer
<1>4. \A i \in DOMAIN g : Answer(g[i]) \in Seq(S)
  BY <1>3 DEF Range
<1>5. Answer(d) \in Seq(S)
  BY <1>3
<1> HIDE DEF S
<1>6. w \in [1 .. Len(g) -> Seq(S)]
  BY <1>2, <1>4
<1>7. w \in Seq(Seq(S)) /\ Len(w) = Len(g)
  BY <1>2, <1>6, SeqDef
<1>8. v = Append(w, Answer(d))
  <2> DEFINE x == Append(w, Answer(d))
  <2>1. /\ x \in Seq(Seq(S)) /\ Len(x) = Len(g) + 1
        /\ \A i \in 1 .. Len(g) : x[i] = w[i]
        /\ x[Len(g) + 1] = Answer(d)
    BY <1>2, <1>5, <1>7, AppendProperties
  <2>2. /\ \A i \in 1 .. Len(g) : w[i] = Answer(g[i]) /\ i \in DOMAIN r /\ v[i] = Answer(r[i])
        /\ v[Len(g) + 1] = Answer(r[Len(g) + 1])
        /\ v = [i \in 1 .. Len(g) + 1 |-> v[i]]
    BY <1>2
  <2> HIDE DEF w, v, x
  <2>3. ASSUME NEW i \in 1 .. Len(g) + 1 PROVE v[i] = x[i]
    <3>1. CASE i = Len(g) + 1
      BY <1>2, <2>1, <2>2, <3>1
    <3>2. CASE i # Len(g) + 1
      <4>1. i \in 1 .. Len(g) /\ i \in DOMAIN g
        BY <1>2, <3>2
      <4> QED BY <1>2, <2>1, <2>2, <4>1
    <3> QED BY <3>1, <3>2
  <2>4. x = [i \in 1 .. Len(g) + 1 |-> x[i]]
    BY <2>1
  <2> QED BY <2>2, <2>3, <2>4 DEF x
<1> HIDE DEF w, v
<1>9. FlattenSeq(w) \in Seq(S) /\ FlattenSeq(v) = FlattenSeq(w) \o Answer(d)
  BY <1>5, <1>7, <1>8, FlatAppend
<1>10. Answers(g) = FlattenSeq(w) /\ Answers(r) = FlattenSeq(v)
  BY DEF Answers, w, v
<1>11. IsSeq(Answers(g))
  BY <1>9, <1>10, Concats
<1> QED BY <1>2, <1>9, <1>10, <1>11 DEF r, IsSeq

\* The answer that onRead queues to datagram d.
AnswerTask(d) == Task("sendto", Own, -1, [to |-> d.from, data |-> d.data])

(* onRead queues the answer. *)
LEMMA ReplyAsk ==
  ASSUME NEW P, NEW o, NEW g, Sane(P), Replied(P, o, g), ~Gone(P), NEW d, d.data # <<>>,
         NEW Q, Q.tasks = Append(P.tasks, AnswerTask(d)), ~Gone(Q)
  PROVE  /\ Replied(Q, o, Append(g, d))
         /\ d.data = ExitMessage => \E i \in DOMAIN Q.tasks : Quits(Q.tasks[i])
<1>1. PICK t : t = AnswerTask(d)
  OBVIOUS
<1>2. t.op = "sendto" /\ t.who = Own /\ t.data = [to |-> d.from, data |-> d.data]
  BY <1>1 DEF AnswerTask, Task
<1>3. Writes(t, Own) = Answer(d)
  BY <1>2 DEF Writes, Answer
<1>4. AddTask(P, t).tasks = Q.tasks
  BY <1>1, AddFd
<1>5. Carries(P) /\ CarriesTask(t)
  BY <1>2 DEF Replied, CarriesTask, Writers
<1>6. IsSeq(Pending(P, Own)) /\ Pending(AddTask(P, t), Own) = Pending(P, Own) \o Writes(t, Own)
  BY <1>5, PendingAdd
<1>7. Pending(Q, Own) = Pending(P, Own) \o Answer(d)
  BY <1>3, <1>4, <1>6, PendingSame
<1>8. /\ Range(Q.tasks) = Range(P.tasks) \cup {t}
      /\ DOMAIN Q.tasks = 1 .. Len(P.tasks) + 1 /\ DOMAIN P.tasks = 1 .. Len(P.tasks)
      /\ Len(P.tasks) \in Nat
      /\ \A i \in DOMAIN P.tasks : Q.tasks[i] = P.tasks[i]
      /\ Q.tasks[Len(P.tasks) + 1] = t
  BY <1>1, AppendTask DEF Sane, Typed
<1>9. Carries(Q)
  BY <1>5, <1>8 DEF Carries, CarriesTask
<1>10. ASSUME NEW j \in DOMAIN Q.tasks, Q.tasks[j].op = "dg_close"
       PROVE  Said(o) \/ \E i \in DOMAIN Q.tasks : i < j /\ Quits(Q.tasks[i])
  <2>1. j \in DOMAIN P.tasks
    BY <1>2, <1>8, <1>10
  <2>2. Said(o) \/ \E i \in DOMAIN P.tasks : i < j /\ Quits(P.tasks[i])
    BY <1>8, <1>10, <2>1 DEF Replied
  <2> QED BY <1>8, <2>2
<1>11. Answers(g) = o \o Pending(P, Own) /\ IsSeq(o) /\ IsSeq(g)
  BY DEF Replied
<1>12. Answers(Append(g, d)) = (o \o Pending(P, Own)) \o Answer(d) /\ IsSeq(Append(g, d))
  BY <1>11, AnswersAdd
<1>13. IsSeq(Answer(d))
  BY OneSeq DEF Answer
<1>14. Answers(Append(g, d)) = o \o Pending(Q, Own)
  BY <1>6, <1>7, <1>11, <1>12, <1>13, AssocSeq
<1>15. d.data = ExitMessage => \E i \in DOMAIN Q.tasks : Quits(Q.tasks[i])
  <2>1. d.data = ExitMessage => Quits(t)
    BY <1>2 DEF Quits
  <2>2. Len(P.tasks) + 1 \in DOMAIN Q.tasks
    BY <1>8
  <2> QED BY <1>8, <2>1, <2>2
<1> QED BY <1>9, <1>10, <1>11, <1>12, <1>14, <1>15 DEF Replied

(* A datagram without content is not answered. *)
LEMMA ReplyNone ==
  ASSUME NEW P, NEW o, NEW g, Replied(P, o, g), ~Gone(P), NEW d, d.data = <<>>
  PROVE  Replied(P, o, Append(g, d))
<1>1. IsSeq(g) /\ Answers(g) = o \o Pending(P, Own)
  BY DEF Replied
<1>2. Answer(d) = <<>>
  BY DEF Answer
<1>3. IsSeq(Append(g, d)) /\ IsSeq(Answers(g)) /\ Answers(Append(g, d)) = Answers(g) \o Answer(d)
  BY <1>1, AnswersAdd
<1>4. Answers(g) \o <<>> = Answers(g)
  BY <1>3, ConcatNil
<1> QED BY <1>1, <1>2, <1>3, <1>4 DEF Replied

(* An answer is sent, or its socket is closed and nothing is. *)
LEMMA ReplySend ==
  ASSUME NEW P, NEW o, NEW g, Sane(P), Replied(P, o, g), P.tasks # <<>>,
         Head(P.tasks).op = "sendto", Head(P.tasks).who = Own,
         NEW Q, Q.tasks = Tail(P.tasks), Gone(Q) <=> Gone(P),
         NEW r, r = IF Gone(P) THEN o ELSE Append(o, Head(P.tasks).data)
  PROVE  Replied(Q, r, g)
<1> DEFINE A == [P EXCEPT !.tasks = Tail(@)]
<1>0. PICK t : t = Head(P.tasks)
  OBVIOUS
<1>1. A.tasks = Q.tasks
  BY DEF Sane, Typed, Fields
<1>2. Carries(P)
  BY DEF Replied
<1>3. Carries(A) /\ Pending(P, Own) = Writes(t, Own) \o Pending(A, Own)
  BY <1>0, <1>2, PendingTail
<1>4. Sane(A)
  BY PopGoes DEF A, Goes
<1> HIDE DEF A
<1>5. Carries(Q) /\ Pending(Q, Own) = Pending(A, Own)
  BY <1>1, <1>3, PendingSame
<1>6. IsSeq(Pending(A, Own))
  <2>1. CarriesTask(Work)
    BY DEF CarriesTask, Work, Task, Writers
  <2> QED BY <1>3, <1>4, <2>1, PendingAdd
<1>7. Writes(t, Own) = <<t.data>>
  BY <1>0 DEF Writes
<1>8. IsSeq(o) /\ IsSeq(g)
  BY DEF Replied
<1>9. /\ IsSeq(Append(o, t.data)) /\ Append(o, t.data) = o \o <<t.data>>
      /\ Said(o) => Said(Append(o, t.data))
      /\ t.data.data = ExitMessage => Said(Append(o, t.data))
  BY <1>8, SaidMore
<1>10. IsSeq(<<t.data>>)
  BY OneSeq
<1>11. /\ IsSeq(r)
       /\ Said(o) => Said(r)
       /\ Quits(t) => Said(r)
  BY <1>0, <1>8, <1>9 DEF Quits, Replied
<1>12. Gone(P) => Said(r) /\ IsPrefix(r, Answers(g))
  BY DEF Replied
<1>13. ~Gone(P) => Answers(g) = r \o Pending(Q, Own)
  <2> SUFFICES ASSUME ~Gone(P) PROVE Answers(g) = r \o Pending(Q, Own)
    OBVIOUS
  <2>1. Answers(g) = o \o (<<t.data>> \o Pending(Q, Own))
    BY <1>3, <1>5, <1>7 DEF Replied
  <2>2. IsSeq(Pending(Q, Own))
    BY <1>5, <1>6
  <2>3. (o \o <<t.data>>) \o Pending(Q, Own) = o \o (<<t.data>> \o Pending(Q, Own))
    BY <1>8, <1>10, <2>2, AssocSeq
  <2> QED BY <1>0, <1>9, <2>1, <2>3
<1>14. \A j \in DOMAIN Q.tasks : Q.tasks[j].op = "dg_close" =>
          Said(r) \/ \E i \in DOMAIN Q.tasks : i < j /\ Quits(Q.tasks[i])
  BY <1>0, <1>11, QuitsFirst
<1> QED BY <1>5, <1>8, <1>11, <1>12, <1>13, <1>14 DEF Replied

(* The socket is closed. *)
LEMMA ReplyClose ==
  ASSUME NEW P, NEW o, NEW g, Sane(P), Replied(P, o, g), P.tasks # <<>>,
         Head(P.tasks).op = "dg_close",
         NEW Q, Q.tasks = Tail(P.tasks), Gone(Q)
  PROVE  Replied(Q, o, g)
<1> DEFINE A == [P EXCEPT !.tasks = Tail(@)]
<1>1. A.tasks = Q.tasks
  BY DEF Sane, Typed, Fields
<1>2. Carries(P) /\ IsSeq(o) /\ IsSeq(g)
  BY DEF Replied
<1>3. Carries(A)
  BY <1>2, PendingTail
<1> HIDE DEF A
<1>4. Carries(Q)
  BY <1>1, <1>3, PendingSame
<1>5. Said(o)
  <2>1. P.tasks \in Seq(Range(P.tasks))
    BY DEF Sane, Typed
  <2>2. Head(P.tasks) = P.tasks[1] /\ 1 \in DOMAIN P.tasks
    BY <2>1, TailTask
  <2>3. ~ \E i \in DOMAIN P.tasks : i < 1
    BY <2>1
  <2> QED BY <2>2, <2>3 DEF Replied
<1>6. IsPrefix(o, Answers(g))
  <2>1. CASE Gone(P)
    BY <2>1 DEF Replied
  <2>2. CASE ~Gone(P)
    <3>1. CarriesTask(Work)
      BY DEF CarriesTask, Work, Task, Writers
    <3>2. IsSeq(Pending(P, Own))
      BY <1>2, <3>1, PendingAdd
    <3>3. Answers(g) = o \o Pending(P, Own)
      BY <2>2 DEF Replied
    <3> QED BY <1>2, <3>2, <3>3, PrefixSeq
  <2> QED BY <2>1, <2>2
<1> QED BY <1>2, <1>4, <1>5, <1>6 DEF Replied

\* The UDP server answers in order; nobody else runs.
UdpIInv ==
  app = "udp" =>
     /\ connected = {} /\ \A c \in Clients : proc[c].main = "off"
     /\ out = [s \in Socks |-> out[s]] /\ got = [s \in Socks |-> got[s]]
     /\ proc[Server].main # "end" => Replied(proc[Server], out[Own], got[Own])

(* The server's socket is the only one. *)
LEMMA OnlyOwn ==
  ASSUME NetIInv, connected = {}, NEW s \in Socks, proc[Server].fd[s] \in Fds
  PROVE  s = Own
<1>1. Proper(Server, proc[Server])
  BY Names DEF NetIInv
<1>2. Proc(s) = Server
  BY <1>1 DEF Proper
<1>3. CASE s \in Streams
  <2>1. PICK c \in Clients : s = <<"srv", c>> \/ s = <<"cli", c>>
    BY <1>3 DEF Streams
  <2>2. s # <<"cli", c>>
    BY <1>2, NamesAssumption DEF Proc
  <2>3. proc[Server].fd[<<"srv", c>>] = -1
    BY DEF NetIInv, Queued
  <2> QED BY <2>1, <2>2, <2>3, Names
<1> QED BY <1>3 DEF Socks

(* The end of a step of the UDP server: ~Socket has nothing to do. *)
LEMMA UdpEnds ==
  ASSUME NEW p, NEW Q, Sane(Q), \A s \in Socks : Q.fd[s] \in Fds => s = Own, Becomes(p, Q)
  PROVE  \E R : /\ proc' = [proc EXCEPT ![p] = R]
                /\ R.tasks = Q.tasks /\ R.main = Q.main /\ (Gone(R) <=> Gone(Q))
<1> DEFINE dead == Unreferenced(Q)
           A == CloseFds(Q, {Q.fd[s] : s \in dead})
           R == Destroy(Q, dead)
<1>1. proc' = [proc EXCEPT ![p] = R]
  BY DEF Becomes
<1>2. dead = {}
  <2>1. ASSUME NEW s \in dead PROVE FALSE
    <3>1. s \in Socks /\ valid(Q, s) /\ ~Referenced(Q, s)
      BY DEF Unreferenced
    <3>2. s = Own
      BY <3>1, AtFd
    <3>3. Own \notin {"srv"} \X Clients
      BY NamesAssumption DEF Own
    <3> QED BY <3>1, <3>2, <3>3 DEF Referenced
  <2> QED BY <2>1
<1>3. DOMAIN Q = Fields /\ Q.table \in [Fds -> Socks \cup {None}] /\ Q.fd \in [Socks -> Fds \cup {-1}]
  BY DEF Sane, Typed
<1> HIDE DEF dead
<1>4. A.table = Q.table /\ A.fd = Q.fd /\ A.tasks = Q.tasks /\ A.main = Q.main /\ DOMAIN A = Fields
  BY <1>2, <1>3 DEF CloseFds, Fields
<1>5. R = [A EXCEPT !.fd = [s \in Socks |-> IF s \in dead THEN -1 ELSE A.fd[s]]]
  BY DEF Destroy
<1> HIDE DEF A, R
<1>6. R.table = A.table /\ R.tasks = A.tasks /\ R.main = A.main
      /\ R.fd = [s \in Socks |-> IF s \in dead THEN -1 ELSE A.fd[s]]
  BY <1>4, <1>5 DEF Fields
<1>7. R.fd = Q.fd
  BY <1>2, <1>3, <1>4, <1>6
<1>8. Gone(R) <=> Gone(Q)
  BY <1>4, <1>6, <1>7 DEF Gone
<1> QED BY <1>1, <1>4, <1>6, <1>8

(* A step of the UDP server. *)
LEMMA UdpStep ==
  ASSUME NetIInv, UdpIInv, app = "udp", UNCHANGED <<app, connected>>,
         NEW R, proc' = [proc EXCEPT ![Server] = R],
         out' = [s \in Socks |-> out'[s]], got' = [s \in Socks |-> got'[s]],
         R.main # "end" => Replied(R, out'[Own], got'[Own])
  PROVE  UdpIInv'
<1>1. proc'[Server] = R /\ \A c \in Clients : proc'[c] = proc[c]
  BY Names, NamesAssumption DEF NetIInv
<1> QED BY <1>1 DEF UdpIInv

(* The calls of the UDP server, up to the end of the step. *)
LEMMA UdpCalls ==
  ASSUME NetIInv, UdpIInv, app = "udp", UNCHANGED <<app, connected>>,
         NEW D, NEW Q, Goes(proc[Server], Q, D), Becomes(Server, Q),
         out' = [s \in Socks |-> out'[s]], got' = [s \in Socks |-> got'[s]],
         Replied(Q, out'[Own], got'[Own])
  PROVE  UdpIInv'
<1>1. Sane(Q) /\ \A s \in Socks : Q.fd[s] \in {proc[Server].fd[s], -1}
  BY DEF Goes
<1>2. connected = {}
  BY DEF UdpIInv
<1>3. \A s \in Socks : Q.fd[s] \in Fds => s = Own
  BY <1>1, <1>2, OnlyOwn, Names
<1>4. PICK R : /\ proc' = [proc EXCEPT ![Server] = R]
               /\ R.tasks = Q.tasks /\ R.main = Q.main /\ (Gone(R) <=> Gone(Q))
  BY <1>1, <1>3, UdpEnds
<1>5. PICK o, g : o = out'[Own] /\ g = got'[Own]
  OBVIOUS
<1>6. Replied(R, o, g)
  BY <1>4, <1>5, ReplySame
<1> QED BY <1>4, <1>5, <1>6, UdpStep

(* What says nothing of the queue and the descriptors. *)
LEMMA GoneStays ==
  ASSUME NEW P, Sane(P)
  PROVE  /\ \A f, s : Register(P, f, s).tasks = P.tasks /\ (Gone(Register(P, f, s)) <=> Gone(P))
         /\ \A f : cancle(P, f).tasks = P.tasks /\ (Gone(cancle(P, f)) <=> Gone(P))
         /\ \A f : notifyEvents(P, f).tasks = P.tasks /\ (Gone(notifyEvents(P, f)) <=> Gone(P))
         /\ SetExit(P).tasks = P.tasks /\ (Gone(SetExit(P)) <=> Gone(P))
         /\ \A t : Gone(AddTask(P, t)) <=> Gone(P)
         /\ \A f : Gone(EndCallback(P, f)) <=> Gone(P)
<1>1. DOMAIN P = Fields
  BY DEF Sane, Typed
<1>2. /\ \A f, s : /\ Register(P, f, s).tasks = P.tasks /\ Register(P, f, s).fd = P.fd
                   /\ Register(P, f, s).table = P.table
      /\ \A f : /\ cancle(P, f).tasks = P.tasks /\ cancle(P, f).fd = P.fd
                /\ cancle(P, f).table = P.table
      /\ \A f : /\ notifyEvents(P, f).tasks = P.tasks /\ notifyEvents(P, f).fd = P.fd
                /\ notifyEvents(P, f).table = P.table
      /\ SetExit(P).tasks = P.tasks /\ SetExit(P).fd = P.fd /\ SetExit(P).table = P.table
      /\ \A t : AddTask(P, t).fd = P.fd /\ AddTask(P, t).table = P.table
      /\ \A f : EndCallback(P, f).fd = P.fd /\ EndCallback(P, f).table = P.table
  BY <1>1 DEF Register, cancle, notifyEvents, SetExit, AddTask, EndCallback, Fields
<1> QED BY <1>2 DEF Gone

(* The loop of work() goes on. *)
LEMMA ReplyEnd ==
  ASSUME NEW P, NEW o, NEW g, Sane(P), Replied(P, o, g), NEW f
  PROVE  Replied(EndCallback(P, f), o, g)
<1>1. Gone(EndCallback(P, f)) <=> Gone(P)
  BY GoneStays
<1>2. EndCallback(P, f).tasks = IF P.batch = {f} THEN Append(P.tasks, Work) ELSE P.tasks
  BY DEF EndCallback, Sane, Typed, Fields
<1>3. PICK Q : Q = EndCallback(P, f)
  OBVIOUS
<1>4. PICK w : w = Work
  OBVIOUS
<1>5. w.op = "work"
  BY <1>4 DEF Work, Task
<1>6. CASE P.batch = {f}
  <2>1. Q.tasks = Append(P.tasks, w) /\ (Gone(Q) <=> Gone(P))
    BY <1>1, <1>2, <1>3, <1>4, <1>6
  <2> QED BY <1>3, <1>5, <2>1, ReplyAdd
<1>7. CASE P.batch # {f}
  <2>1. Q.tasks = P.tasks /\ (Gone(Q) <=> Gone(P))
    BY <1>1, <1>2, <1>3, <1>7
  <2> QED BY <1>3, <2>1, ReplySame
<1> QED BY <1>6, <1>7

(* The task that polls. *)
LEMMA WorkOp == Work.op = "work"
BY DEF Work, Task

(* testUDP: the socket, the first poll, the listening. *)
LEMMA UdpStart ==
  ASSUME NetIInv, UdpIInv, app = "udp", StartServer
  PROVE  UdpIInv'
<1> DEFINE P == proc[Server]
           A == Open(P, Own)
           B == AddTask(A, Work)
           C == [B EXCEPT !.main = "loop"]
           t == Task("dg_listen", Own, C.fd[Own], <<>>)
           R == AddTask(C, t)
<1>1. /\ P.main = "off" /\ UNCHANGED <<app, connected, out, got>>
      /\ proc' = [proc EXCEPT ![Server] = R]
  <2>1. DG!startListenReadEvent(Prepare(P, Own, "loop"), Own) = R
    BY DGNet DEF DG!startListenReadEvent, Prepare
  <2> QED BY <2>1 DEF StartServer, rest, kernel, testUDP
<1>2. Own \in Socks /\ Proc(Own) = Server /\ Server \in Procs
  BY Names DEF Proc, Own
<1>3. Sane(A) /\ A.fd[Own] \in Fds /\ A.tasks = <<>>
  BY <1>1, <1>2, Opened
<1>4. ~Gone(A)
  <2>1. DOMAIN P = Fields /\ P.table \in [Fds -> Socks \cup {None}] /\ P.fd \in [Socks -> Fds \cup {-1}]
    BY <1>2, SaneProc DEF Sane, Typed
  <2>2. PICK f : f = Min(FreeFds(P))
    OBVIOUS
  <2>3. A.fd = [P.fd EXCEPT ![Own] = f] /\ A.table = [P.table EXCEPT ![f] = Own]
    BY <2>1, <2>2 DEF Open, Fields
  <2> HIDE DEF A
  <2>4. A.fd[Own] = f /\ f \in Fds
    BY <1>2, <1>3, <2>1, <2>3
  <2>5. A.table[f] = Own
    BY <2>1, <2>3, <2>4
  <2> QED BY <2>4, <2>5, Names DEF Gone
<1>5. Replied(P, out[Own], got[Own])
  BY <1>1 DEF UdpIInv
<1>6. PICK o, g : o = out[Own] /\ g = got[Own]
  OBVIOUS
<1>7. P.tasks = <<>> /\ ~Gone(P)
  <2>1. Fresh(P)
    BY <1>1, <1>2 DEF NetIInv, Proper
  <2>2. P.fd[Own] = -1
    BY <1>2, <2>1 DEF Fresh
  <2> QED BY <2>1, <2>2, Names DEF Fresh, Gone
<1> HIDE DEF P, A
<1>8. Replied(A, o, g)
  BY <1>3, <1>4, <1>5, <1>6, <1>7, ReplySame
<1>9. PICK w : w = Work /\ w.op = "work"
  BY WorkOp
<1>10. Replied(B, o, g) /\ Sane(B) /\ ~Gone(B)
  <2>1. B.tasks = Append(A.tasks, w) /\ (Gone(B) <=> Gone(A))
    BY <1>3, <1>9, AddFd, GoneStays
  <2>2. Goes(A, B, {})
    BY <1>3, QueueGoes
  <2>3. Sane(B)
    BY <2>2 DEF Goes
  <2> HIDE DEF B
  <2> QED BY <1>3, <1>4, <1>8, <1>9, <2>1, <2>3, ReplyAdd
<1> HIDE DEF B
<1>11. Replied(C, o, g) /\ Sane(C) /\ ~Gone(C)
  <2>1. C.tasks = B.tasks /\ C.fd = B.fd /\ C.table = B.table
    BY <1>10 DEF Sane, Typed, Fields
  <2>2. Gone(C) <=> Gone(B)
    BY <2>1 DEF Gone
  <2>3. Goes(B, C, {})
    BY <1>10, MainGoes
  <2>4. Sane(C)
    BY <2>3 DEF Goes
  <2> HIDE DEF C
  <2> QED BY <1>10, <2>1, <2>2, <2>4, ReplySame
<1> HIDE DEF C
<1>12. Replied(R, o, g)
  <2>1. PICK u : u = t
    OBVIOUS
  <2>2. u.op = "dg_listen"
    BY <2>1 DEF Task
  <2>3. R.tasks = Append(C.tasks, u) /\ (Gone(R) <=> Gone(C))
    BY <1>11, <2>1, AddFd, GoneStays
  <2> HIDE DEF R, t
  <2> QED BY <1>11, <2>2, <2>3, ReplyAdd
<1> HIDE DEF R
<1>13. out' = [s \in Socks |-> out'[s]] /\ got' = [s \in Socks |-> got'[s]]
       /\ out'[Own] = o /\ got'[Own] = g
  BY <1>1, <1>6 DEF UdpIInv
<1> QED BY <1>1, <1>12, <1>13, UdpStep

(* A task of the UDP server begins. *)
LEMMA UdpPop ==
  ASSUME NetIInv, UdpIInv, app = "udp", NEW p \in Procs, NEW op, IsNext(p, op)
  PROVE  /\ p = Server /\ Replied(proc[p], out[Own], got[Own])
         /\ Sane(proc[p]) /\ Sane(Pop(p)) /\ Goes(proc[p], Pop(p), MayClose(p))
         /\ proc[p].tasks # <<>> /\ Head(proc[p].tasks).op = op
         /\ Pop(p).tasks = Tail(proc[p].tasks) /\ (Gone(Pop(p)) <=> Gone(proc[p]))
<1>1. Up(p) /\ proc[p].tasks # <<>> /\ Head(proc[p].tasks).op = op
  BY DEF IsNext, Idle
<1>2. p = Server
  BY <1>1 DEF UdpIInv, Up, Procs
<1>3. Replied(proc[p], out[Own], got[Own])
  BY <1>1, <1>2 DEF UdpIInv, Up
<1>4. Sane(proc[p]) /\ Sane(Pop(p)) /\ Goes(proc[p], Pop(p), MayClose(p))
  BY Takes
<1>5. Pop(p).tasks = Tail(proc[p].tasks) /\ Pop(p).fd = proc[p].fd /\ Pop(p).table = proc[p].table
  BY <1>4 DEF Pop, Sane, Typed, Fields
<1>6. Gone(Pop(p)) <=> Gone(proc[p])
  BY <1>5 DEF Gone
<1> QED BY <1>1, <1>2, <1>3, <1>4, <1>5, <1>6

(* What is written and read by a step that writes and reads nothing. *)
LEMMA UdpKeeps ==
  ASSUME UdpIInv, app = "udp", UNCHANGED <<out, got>>
  PROVE  /\ out' = [s \in Socks |-> out'[s]] /\ got' = [s \in Socks |-> got'[s]]
         /\ out'[Own] = out[Own] /\ got'[Own] = got[Own]
BY DEF UdpIInv

(* RePoller::work. *)
LEMMA UdpWork ==
  ASSUME NetIInv, UdpIInv, app = "udp", NEW p \in Procs, work(p), app' = app
  PROVE  UdpIInv'
<1> DEFINE P == proc[p]
           Q == Pop(p)
           ready == P.custom \cup {f \in P.interest : Readable(P.table[f])}
           A == [Q EXCEPT !.batch = ready, !.custom = {}]
<1>1. IsNext(p, "work") /\ UNCHANGED <<connected, out, got>>
      /\ Becomes(p, IF ready = {} THEN AddTask(Q, Work) ELSE A)
  BY DEF work, kernel
<1>2. /\ p = Server /\ Replied(P, out[Own], got[Own]) /\ Sane(P) /\ Sane(Q) /\ Goes(P, Q, MayClose(p))
      /\ P.tasks # <<>> /\ Head(P.tasks).op = "work"
      /\ Q.tasks = Tail(P.tasks) /\ (Gone(Q) <=> Gone(P))
  BY <1>1, UdpPop
<1>3. ready \subseteq Fds
  BY <1>2 DEF Sane, Typed
<1>4. PICK o, g : o = out[Own] /\ g = got[Own]
  OBVIOUS
<1> HIDE DEF Q, ready
<1>5. Replied(Q, o, g)
  BY <1>2, <1>4, ReplyPop
<1>6. Goes(Q, A, MayClose(p)) /\ Replied(A, o, g)
  <2>1. /\ DOMAIN A = Fields
        /\ A.main = Q.main /\ A.promise = Q.promise /\ A.tasks = Q.tasks /\ A.blocked = Q.blocked
        /\ A.fd = Q.fd /\ A.table = Q.table /\ A.batch = ready /\ A.custom = {}
        /\ A.interest = Q.interest /\ A.callbacks = Q.callbacks /\ A.objects = Q.objects
    BY <1>2 DEF Sane, Typed, Fields
  <2> HIDE DEF A
  <2>2. Polls(Q, A)
    BY <1>2, <1>3, <2>1 DEF Polls, Sane, Typed
  <2>3. Goes(Q, A, MayClose(p))
    BY <1>2, <2>2, PollsGoes
  <2>4. Gone(A) <=> Gone(Q)
    BY <2>1 DEF Gone
  <2> QED BY <1>5, <2>1, <2>3, <2>4, ReplySame
<1>7. Goes(Q, AddTask(Q, Work), MayClose(p)) /\ Replied(AddTask(Q, Work), o, g)
  <2>1. PICK w : w = Work /\ w.op = "work"
    BY WorkOp
  <2>2. Goes(Q, AddTask(Q, Work), MayClose(p))
    BY <1>2, QueueGoes
  <2>3. PICK B : B = AddTask(Q, Work)
    OBVIOUS
  <2>4. B.tasks = Append(Q.tasks, w) /\ (Gone(B) <=> Gone(Q))
    BY <1>2, <2>1, <2>3, AddFd, GoneStays
  <2>5. Replied(B, o, g)
    BY <1>2, <1>5, <2>1, <2>4, ReplyAdd
  <2> QED BY <2>2, <2>3, <2>5
<1> HIDE DEF A
<1>8. PICK R : R = IF ready = {} THEN AddTask(Q, Work) ELSE A
  OBVIOUS
<1>9. Goes(Q, R, MayClose(p)) /\ Replied(R, o, g) /\ Becomes(p, R)
  BY <1>1, <1>6, <1>7, <1>8
<1>10. Goes(P, R, MayClose(p))
  BY <1>2, <1>9, GoesOn
<1>11. /\ out' = [s \in Socks |-> out'[s]] /\ got' = [s \in Socks |-> got'[s]]
       /\ out'[Own] = o /\ got'[Own] = g
  BY <1>1, <1>4, UdpKeeps
<1> QED BY <1>1, <1>2, <1>9, <1>10, <1>11, UdpCalls

(* The socket that the server's number names. *)
LEMMA NamesOwn ==
  ASSUME NEW P, Sane(P), P.fd[Own] \in Fds
  PROVE  /\ DG!Named(P, Own) = (IF Gone(P) THEN None ELSE Own)
         /\ Named(P, Own) = (IF Gone(P) THEN None ELSE Own)
<1>1. P.table[P.fd[Own]] \in {Own, None}
  BY Names DEF Sane, Owns
<1>2. DG!Named(P, Own) = P.table[P.fd[Own]] /\ Named(P, Own) = P.table[P.fd[Own]]
  BY DEF DG!Named, Named
<1> QED BY <1>1, <1>2, Names DEF Gone

(* The tasks of the datagram socket: listening. *)
LEMMA UdpListen ==
  ASSUME NetIInv, UdpIInv, app = "udp", NEW p \in Procs, DG!ListenTask(p), app' = app
  PROVE  UdpIInv'
<1> DEFINE P == proc[p]
           Q == Pop(p)
           t == Head(P.tasks)
           R == Register(Q, t.fd, t.who)
<1>1. IsNext(p, "dg_listen") /\ UNCHANGED <<connected, out, got>> /\ DG!Becomes(p, R)
  BY DGNet DEF DG!ListenTask, DG!kernel
<1>2. /\ p = Server /\ Replied(P, out[Own], got[Own]) /\ Sane(P) /\ Sane(Q) /\ Goes(P, Q, MayClose(p))
      /\ P.tasks # <<>> /\ Head(P.tasks).op = "dg_listen"
      /\ Q.tasks = Tail(P.tasks) /\ (Gone(Q) <=> Gone(P))
  BY <1>1, UdpPop
<1>3. Sane(Q) /\ SoundTask(Q, t) /\ t.op \in Registers
  BY <1>1, Takes DEF Registers
<1>4. Goes(Q, R, MayClose(p))
  BY <1>3, RegisterTask
<1>5. Goes(P, R, MayClose(p))
  BY <1>2, <1>4, GoesOn
<1>6. PICK o, g : o = out[Own] /\ g = got[Own]
  OBVIOUS
<1>7. Replied(Q, o, g)
  BY <1>2, <1>6, ReplyPop
<1>8. R.tasks = Q.tasks /\ (Gone(R) <=> Gone(Q))
  BY <1>2, GoneStays
<1> HIDE DEF Q, R
<1>9. Replied(R, o, g)
  BY <1>7, <1>8, ReplySame
<1>10. /\ out' = [s \in Socks |-> out'[s]] /\ got' = [s \in Socks |-> got'[s]]
       /\ out'[Own] = o /\ got'[Own] = g
  BY <1>1, <1>6, UdpKeeps
<1>11. Becomes(p, R)
  BY <1>1, DGBecomes
<1> QED BY <1>1, <1>2, <1>5, <1>9, <1>10, <1>11, UdpCalls

(* Sending. *)
LEMMA UdpSend ==
  ASSUME NetIInv, UdpIInv, app = "udp", NEW p \in Procs, DG!SendTask(p), app' = app
  PROVE  UdpIInv'
<1> DEFINE P == proc[p]
           Q == Pop(p)
           t == Head(P.tasks)
           k == DG!Named(P, t.who)
<1>1. /\ IsNext(p, "sendto") /\ UNCHANGED <<connected, got>> /\ DG!Becomes(p, Q)
      /\ out' = IF k = None THEN out ELSE [out EXCEPT ![k] = Append(@, t.data)]
  BY Zenon, DGNet DEF DG!SendTask
<1>2. /\ p = Server /\ Replied(P, out[Own], got[Own]) /\ Sane(P) /\ Sane(Q) /\ Goes(P, Q, MayClose(p))
      /\ P.tasks # <<>> /\ Head(P.tasks).op = "sendto"
      /\ Q.tasks = Tail(P.tasks) /\ (Gone(Q) <=> Gone(P))
  BY <1>1, UdpPop
<1>3. SoundTask(Q, t) /\ t.op \in Holds /\ Q.fd = P.fd
  BY <1>1, Takes DEF Holds
<1>4. t.who \in Socks /\ P.fd[t.who] \in Fds
  BY <1>3, Held
<1>5. t.who = Own
  BY <1>2, <1>4, OnlyOwn DEF UdpIInv
<1>6. k = IF Gone(P) THEN None ELSE Own
  BY <1>2, <1>4, <1>5, NamesOwn
<1>7. /\ out = [s \in Socks |-> out[s]] /\ got = [s \in Socks |-> got[s]]
  BY DEF UdpIInv
<1>8. /\ out' = [s \in Socks |-> out'[s]] /\ got' = [s \in Socks |-> got'[s]]
      /\ out'[Own] = (IF Gone(P) THEN out[Own] ELSE Append(out[Own], t.data)) /\ got'[Own] = got[Own]
  <2>1. CASE Gone(P)
    BY <1>1, <1>6, <1>7, <2>1
  <2>2. CASE ~Gone(P)
    <3>1. out' = [out EXCEPT ![Own] = Append(@, t.data)]
      BY <1>1, <1>6, <2>2, Names
    <3>2. out' = [s \in Socks |-> out'[s]]
      BY <1>7, <3>1
    <3>3. out'[Own] = Append(out[Own], t.data)
      BY <1>7, <3>1, Names
    <3> QED BY ZenonT(40), <1>1, <1>7, <2>2, <3>2, <3>3
  <2> QED BY <2>1, <2>2
<1>9. PICK o, g, r : o = out[Own] /\ g = got[Own] /\ r = out'[Own]
  OBVIOUS
<1> HIDE DEF Q
<1>10. Replied(Q, r, g)
  BY <1>2, <1>5, <1>8, <1>9, ReplySend
<1>11. Becomes(p, Q)
  BY <1>1, DGBecomes
<1>12. Replied(Q, out'[Own], got'[Own])
  BY <1>8, <1>9, <1>10
<1> QED BY ZenonT(40), <1>1, <1>2, <1>8, <1>11, <1>12, UdpCalls

(* Closing. *)
LEMMA UdpClose ==
  ASSUME NetIInv, UdpIInv, app = "udp", NEW p \in Procs, DG!CloseTask(p), app' = app
  PROVE  UdpIInv'
<1> DEFINE P == proc[p]
           Q == Pop(p)
           t == Head(P.tasks)
           A == closeAndNoClear(Q, t.who)
           R == notifyEvents(A, P.fd[t.who])
           D == MayClose(p)
<1>1. IsNext(p, "dg_close") /\ UNCHANGED <<connected, out, got>> /\ DG!Becomes(p, R)
  BY DGNet DEF DG!CloseTask, DG!kernel
<1>2. /\ p = Server /\ Replied(P, out[Own], got[Own]) /\ Sane(P) /\ Sane(Q) /\ Goes(P, Q, D)
      /\ P.tasks # <<>> /\ Head(P.tasks).op = "dg_close"
      /\ Q.tasks = Tail(P.tasks) /\ (Gone(Q) <=> Gone(P))
  BY <1>1, UdpPop
<1>3. SoundTask(Q, t) /\ t.op \in Holds /\ t.who \in D /\ Q.fd = P.fd
  BY <1>1, Takes DEF Holds, Closes
<1>4. t.who \in Socks /\ P.fd[t.who] \in Fds
  BY <1>3, Held
<1>5. t.who = Own
  BY <1>2, <1>4, OnlyOwn DEF UdpIInv
<1>6. Goes(Q, A, D) /\ Sane(A) /\ A.fd = Q.fd
  <2>1. t.who \in D /\ t.who \in Socks
    BY <1>3, <1>4
  <2> HIDE DEF D, Q, t
  <2>2. Goes(Q, A, D) /\ A.fd = Q.fd
    BY <1>2, <2>1, CloseGoes
  <2>3. Sane(A)
    BY <2>2 DEF Goes
  <2> QED BY <2>2, <2>3
<1>7. A.tasks = Q.tasks /\ Gone(A)
  <2>1. A.tasks = Q.tasks /\ A.table = [f \in Fds |-> IF f \in {Q.fd[Own]} THEN None ELSE Q.table[f]]
    BY <1>2, <1>5, CloseFdsFacts DEF closeAndNoClear
  <2> QED BY <1>3, <1>4, <1>5, <1>6, <2>1 DEF Gone
<1> HIDE DEF Q, A
<1>8. Goes(A, R, D) /\ R.tasks = A.tasks /\ Gone(R)
  BY <1>6, <1>7, NotifyGoes, GoneStays
<1> HIDE DEF R
<1>9. Goes(P, R, D)
  BY <1>2, <1>6, <1>8, GoesOn
<1>10. PICK o, g : o = out[Own] /\ g = got[Own]
  OBVIOUS
<1>11. R.tasks = Tail(P.tasks)
  BY <1>2, <1>7, <1>8
<1>12. Replied(R, o, g)
  BY <1>2, <1>8, <1>10, <1>11, ReplyClose
<1>13. /\ out' = [s \in Socks |-> out'[s]] /\ got' = [s \in Socks |-> got'[s]]
       /\ out'[Own] = o /\ got'[Own] = g
  BY <1>1, <1>10, UdpKeeps
<1>14. Becomes(p, R)
  BY <1>1, DGBecomes
<1> QED BY <1>1, <1>2, <1>9, <1>12, <1>13, <1>14, UdpCalls

(* onRead of the UDP server answers, and closes after "exit". *)
LEMMA UdpOnRead ==
  ASSUME app = "udp", NEW P, NEW o, NEW g, Sane(P), P.fd[Own] \in Fds, ~Gone(P), Replied(P, o, g),
         NEW d, d.data # <<>>
  PROVE  Replied(OnRead(P, Own, d), o, Append(g, d))
<1> DEFINE A == AddTask(P, AnswerTask(d))
           B == AddTask(A, Task("dg_close", Own, -1, <<>>))
<1>1. Own[1] = "srv" /\ Own \in Socks
  BY Names DEF Own
<1>2. OnRead(P, Own, d) = udp_onRead(P, Own, d)
  BY <1>1 DEF OnRead
<1>3. DG!asend(P, Own, d.from, d.data) = A
  BY <1>1, AtFd, DGNet DEF DG!asend, AnswerTask
<1>4. udp_onRead(P, Own, d) = IF d.data = ExitMessage THEN B ELSE A
  BY <1>3, DGNet DEF udp_onRead, DG!aclose
<1>5. A.tasks = Append(P.tasks, AnswerTask(d)) /\ ~Gone(A)
  BY AddFd, GoneStays
<1>6. Goes(P, A, {})
  BY <1>1, <1>3, SendGoes
<1>7. Sane(A)
  BY <1>6 DEF Goes
<1> HIDE DEF A
<1>8. PICK h : h = Append(g, d)
  OBVIOUS
<1>9. /\ Replied(A, o, h)
      /\ d.data = ExitMessage => \E i \in DOMAIN A.tasks : Quits(A.tasks[i])
  BY <1>5, <1>8, ReplyAsk
<1>10. CASE d.data # ExitMessage
  BY <1>2, <1>4, <1>8, <1>9, <1>10
<1>11. CASE d.data = ExitMessage
  <2>1. PICK t : t = Task("dg_close", Own, -1, <<>>)
    OBVIOUS
  <2>2. t.op = "dg_close"
    BY <2>1 DEF Task
  <2>3. B.tasks = Append(A.tasks, t) /\ (Gone(B) <=> Gone(A))
    BY <1>7, <2>1, AddFd, GoneStays
  <2> HIDE DEF B
  <2>4. Replied(B, o, h)
    BY <1>7, <1>9, <1>11, <2>2, <2>3, ReplyAdd
  <2> QED BY <1>2, <1>4, <1>8, <1>11, <2>4
<1> QED BY <1>10, <1>11

(* The callback of the datagram socket. *)
LEMMA UdpRead ==
  ASSUME NetIInv, UdpIInv, app = "udp", app' = app, Up(Server), proc[Server].fd[Own] \in Fds,
         NEW f,
         DG!ReadReady(Server, f, Own,
                      AfterRead(Server, Own, Head(inbox[Named(proc[Server], Own)])),
                      AfterClose(Server, Own))
  PROVE  UdpIInv'
<1> DEFINE P == proc[Server]
           k == DG!Named(P, Own)
           d == Head(inbox[k])
           a == OnRead(P, Own, d)
           b == SetExit(P)
           D == MayClose(Server)
<1>0. Server \in Procs /\ Own \in Socks
  BY Names
<1>1. Sane(P) /\ Replied(P, out[Own], got[Own])
  BY <1>0, SaneProc DEF UdpIInv, Up
<1>2. k = (IF Gone(P) THEN None ELSE Own) /\ Named(P, Own) = k
  BY <1>1, NamesOwn
<1>3. AfterRead(Server, Own, Head(inbox[Named(P, Own)])) = a /\ AfterClose(Server, Own) = b
  BY <1>2 DEF AfterRead, AfterClose, OnClose, udp_onClose, Own
<1>4. DG!ReadReady(Server, f, Own, a, b)
  BY <1>3
<1>5. /\ UNCHANGED <<connected, out>>
      /\ k = None => DG!Becomes(Server, EndCallback(b, f)) /\ UNCHANGED got
      /\ k # None => /\ DG!Becomes(Server, EndCallback(IF d.data = <<>> THEN cancle(b, f) ELSE a, f))
                     /\ got' = [got EXCEPT ![k] = Append(@, d)]
  <2> HIDE DEF a, b
  <2> QED BY <1>4, DGNet DEF DG!ReadReady
<1>6. PICK e : e = d
  OBVIOUS
<1>7. PICK o, g : o = out[Own] /\ g = got[Own]
  OBVIOUS
<1>8. /\ out = [s \in Socks |-> out[s]] /\ got = [s \in Socks |-> got[s]]
  BY DEF UdpIInv
<1>9. Goes(P, b, D) /\ Sane(b) /\ b.tasks = P.tasks /\ (Gone(b) <=> Gone(P))
  BY <1>1, SetGoes, GoneStays DEF Goes
<1>10. Replied(b, o, g)
  BY <1>1, <1>7, <1>9, ReplySame
<1>11. Goes(b, cancle(b, f), D) /\ cancle(b, f).tasks = b.tasks /\ (Gone(cancle(b, f)) <=> Gone(b))
  BY <1>9, CancleGoes, GoneStays
<1>12. Goes(P, cancle(b, f), D)
  BY <1>9, <1>11, GoesOn
<1>13. Goes(P, a, D)
  <2>1. ~Pooled /\ Datagrams
    BY DEF Pooled, Datagrams
  <2>2. PICK dd : dd = d
    OBVIOUS
  <2>3. Goes(P, OnRead(P, Own, dd), D)
    BY <1>0, <2>1, OnReadGoes
  <2> QED BY <2>2, <2>3
<1> HIDE DEF P, a, b, D
<1>14. \E R : /\ Goes(P, R, D) /\ DG!Becomes(Server, EndCallback(R, f))
              /\ got' = [s \in Socks |-> got'[s]] /\ Replied(R, o, got'[Own])
  <2>1. CASE Gone(P)
    BY <1>2, <1>5, <1>7, <1>8, <1>9, <1>10, <2>1
  <2>2. CASE ~Gone(P)
    <3>1. k = Own /\ k # None
      BY <1>2, <2>2, Names
    <3>2. got' = [got EXCEPT ![Own] = Append(@, d)]
      BY <1>5, <3>1
    <3> HIDE DEF d
    <3>3. got' = [s \in Socks |-> got'[s]] /\ got'[Own] = Append(g, d)
      BY <1>0, <1>7, <1>8, <3>2
    <3>4. CASE d.data = <<>>
      <4>1. DG!Becomes(Server, EndCallback(cancle(b, f), f))
        BY <1>5, <3>1, <3>4
      <4>2. PICK c : c = cancle(b, f)
        OBVIOUS
      <4>3. Replied(c, o, g) /\ ~Gone(c)
        BY <1>9, <1>10, <1>11, <2>2, <4>2, ReplySame
      <4>4. Replied(c, o, Append(g, d))
        BY <3>4, <4>3, ReplyNone
      <4> QED BY <1>12, <3>3, <4>1, <4>2, <4>4
    <3>5. CASE d.data # <<>>
      <4>1. DG!Becomes(Server, EndCallback(a, f))
        BY <1>5, <3>1, <3>5
      <4>2. Replied(P, o, g)
        BY <1>1, <1>7 DEF P
      <4>3. Replied(OnRead(P, Own, d), o, Append(g, d))
        BY <1>1, <2>2, <3>5, <4>2, UdpOnRead DEF P
      <4> QED BY <1>13, <3>3, <4>1, <4>3 DEF a
    <3> QED BY <3>4, <3>5
  <2> QED BY <2>1, <2>2
<1>15. PICK R : /\ Goes(P, R, D) /\ DG!Becomes(Server, EndCallback(R, f))
                /\ got' = [s \in Socks |-> got'[s]] /\ Replied(R, o, got'[Own])
  BY <1>14
<1>16. Sane(R)
  BY <1>15 DEF Goes
<1>17. PICK h : h = got'[Own]
  OBVIOUS
<1>18. Replied(EndCallback(R, f), o, h)
  BY <1>15, <1>16, <1>17, ReplyEnd
<1>19. Goes(R, EndCallback(R, f), D)
  BY <1>16, EndCallbackGoes
<1>20. Goes(P, EndCallback(R, f), D)
  BY <1>15, <1>19, GoesOn
<1>21. PICK Q : Q = EndCallback(R, f)
  OBVIOUS
<1>22. Becomes(Server, Q)
  BY <1>15, <1>21, DGBecomes
<1>23. out' = [s \in Socks |-> out'[s]] /\ Replied(Q, out'[Own], got'[Own])
  BY <1>5, <1>7, <1>8, <1>17, <1>18, <1>21
<1> QED BY <1>5, <1>15, <1>20, <1>21, <1>22, <1>23, UdpCalls DEF P

(* A callback of the UDP server. *)
LEMMA UdpCallback ==
  ASSUME NetIInv, UdpIInv, app = "udp", NEW p \in Procs, Up(p), Callback(p)
  PROVE  UdpIInv'
<1>0. app' = app /\ ~Pooled /\ Datagrams
  BY DEF Callback, Pooled, Datagrams
<1>1. p = Server
  BY DEF UdpIInv, Up, Procs
<1>2. PICK f \in proc[p].batch : \E s \in {CalledFor(p, f)} :
          CASE s = None -> Becomes(p, EndCallback(proc[p], f))
                                 /\ UNCHANGED <<kernel, out, got, ssl>>
               [] s # None /\ Datagrams ->
                        DG!ReadReady(p, f, s, AfterRead(p, s, Head(inbox[Named(proc[p], s)])), AfterClose(p, s))
                            /\ UNCHANGED ssl
               [] s = Own /\ ~Datagrams -> Acc!AcceptReady(p, f, AfterAccept(p)) /\ UNCHANGED ssl
               [] s \in Streams /\ app = "ssl" ->
                        SSL!ReadReady(p, f, s, AfterRead(p, s, SSL!read(p, s)), AfterClose(p, s))
               [] OTHER ->
                        Sock!ReadReady(p, f, s, AfterRead(p, s, Sock!tryRead(p, s)), AfterClose(p, s))
                            /\ UNCHANGED ssl
  BY DEF Callback
<1> DEFINE s == CalledFor(p, f)
<1>3. \/ s = None /\ Becomes(p, EndCallback(proc[p], f)) /\ UNCHANGED <<connected, out, got>>
      \/ /\ s # None
         /\ DG!ReadReady(p, f, s, AfterRead(p, s, Head(inbox[Named(proc[p], s)])), AfterClose(p, s))
  BY <1>0, <1>2 DEF kernel
<1> HIDE DEF s
<1>4. s # None => s \in Socks /\ proc[p].fd[s] \in Fds
  BY Called DEF s
<1>5. CASE s = None /\ Becomes(p, EndCallback(proc[p], f)) /\ UNCHANGED <<connected, out, got>>
  <2>1. Sane(proc[p]) /\ Replied(proc[p], out[Own], got[Own])
    BY <1>1, SaneProc DEF UdpIInv, Up
  <2>2. PICK o, g, Q : o = out[Own] /\ g = got[Own] /\ Q = EndCallback(proc[p], f)
    OBVIOUS
  <2>3. Replied(EndCallback(proc[p], f), o, g)
    BY <2>1, <2>2, ReplyEnd
  <2>4. Goes(proc[p], EndCallback(proc[p], f), {})
    BY <2>1, EndCallbackGoes
  <2>5. /\ out' = [x \in Socks |-> out'[x]] /\ got' = [x \in Socks |-> got'[x]]
        /\ out'[Own] = o /\ got'[Own] = g
    BY <1>5, <2>2, UdpKeeps
  <2> QED BY <1>0, <1>1, <1>5, <2>2, <2>3, <2>4, <2>5, UdpCalls
<1>6. CASE /\ s # None
           /\ DG!ReadReady(p, f, s, AfterRead(p, s, Head(inbox[Named(proc[p], s)])), AfterClose(p, s))
  <2>1. s = Own
    BY <1>1, <1>4, <1>6, OnlyOwn DEF UdpIInv
  <2>2. DG!ReadReady(Server, f, Own, AfterRead(Server, Own, Head(inbox[Named(proc[Server], Own)])),
                     AfterClose(Server, Own))
    BY <1>1, <1>6, <2>1
  <2> QED BY <1>0, <1>1, <1>4, <1>6, <2>1, <2>2, UdpRead
<1> QED BY <1>3, <1>5, <1>6

(* A step of an IO thread. *)
LEMMA UdpThread ==
  ASSUME NetIInv, UdpIInv, app = "udp", app' = app, NEW p \in Procs, IOThread(p)
  PROVE  UdpIInv'
<1>1. Up(p) /\ ~Pooled /\ Datagrams
  BY DEF IOThread, Pooled, Datagrams
<1>2. CASE work(p)
  BY <1>2, UdpWork
<1>3. CASE Callback(p)
  BY <1>1, <1>3, UdpCallback
<1>4. CASE DataGramTask(p)
  BY <1>4, UdpListen, UdpSend, UdpClose DEF DataGramTask
<1>5. \/ work(p) \/ Callback(p) \/ DataGramTask(p)
  BY <1>1 DEF IOThread, PoolTask, PoolEvent, SockTask, SSLTask, ServerTask, FrameTask, ReadShmTask
<1> QED BY <1>2, <1>3, <1>4, <1>5

(* The server ends. *)
LEMMA UdpEnd ==
  ASSUME NetIInv, UdpIInv, app = "udp", UNCHANGED <<app, connected, out, got>>, End(Server)
  PROVE  UdpIInv'
<1>1. PICK R : R = [NewProcess EXCEPT !.main = "end"]
  OBVIOUS
<1>2. R.main = "end" /\ proc' = [proc EXCEPT ![Server] = R]
  BY <1>1 DEF End, NewProcess
<1> QED BY <1>2, UdpKeeps, UdpStep

(* A signal sets m_exit. *)
LEMMA UdpSignal ==
  ASSUME NetIInv, UdpIInv, app = "udp", app' = app, NEW p \in Procs, Interrupt(p)
  PROVE  UdpIInv'
<1>1. Up(p) /\ proc' = [proc EXCEPT ![p] = SetExit(@)] /\ UNCHANGED <<connected, out, got>>
  BY DEF Interrupt, kernel
<1>2. p = Server
  BY <1>1 DEF UdpIInv, Up, Procs
<1>3. Sane(proc[Server]) /\ Replied(proc[Server], out[Own], got[Own])
  BY <1>1, <1>2, SaneProc DEF UdpIInv, Up
<1>4. PICK R : R = SetExit(proc[Server])
  OBVIOUS
<1>5. PICK o, g : o = out[Own] /\ g = got[Own]
  OBVIOUS
<1>6. R.tasks = proc[Server].tasks /\ (Gone(R) <=> Gone(proc[Server]))
  BY <1>3, <1>4, GoneStays
<1>7. Replied(R, o, g)
  BY <1>3, <1>5, <1>6, ReplySame
<1>8. /\ out' = [x \in Socks |-> out'[x]] /\ got' = [x \in Socks |-> got'[x]]
      /\ out'[Own] = o /\ got'[Own] = g
  BY <1>1, <1>5, UdpKeeps
<1>9. proc' = [proc EXCEPT ![Server] = R]
  BY <1>1, <1>2, <1>4
<1> QED BY <1>1, <1>7, <1>8, <1>9, UdpStep

(* Another program sends a datagram. *)
LEMMA UdpDatagram ==
  ASSUME NetIInv, UdpIInv, app = "udp", app' = app, NEW c \in Clients, Datagram(c)
  PROVE  UdpIInv'
<1>1. proc' = [proc EXCEPT ![c].sent = @ + 1] /\ UNCHANGED <<connected, out, got>>
  BY DEF Datagram
<1>2. c # Server /\ c \in Procs /\ Server \in Procs /\ Clients \subseteq Procs
  BY Names, NamesAssumption
<1>3. proc'[Server] = proc[Server]
  BY <1>1, <1>2 DEF NetIInv
<1>4. ASSUME NEW b \in Clients PROVE proc'[b].main = "off"
  <2>1. DOMAIN proc[b] = Fields /\ proc[b].main = "off"
    BY <1>2, SaneProc DEF Sane, Typed, UdpIInv
  <2> QED BY <1>1, <1>2, <2>1 DEF NetIInv, Fields
<1> QED BY <1>1, <1>3, <1>4 DEF UdpIInv

(* The UDP server answers in order in every step. *)
LEMMA UdpNext ==
  ASSUME NetIInv, UdpIInv, [Next]_vars
  PROVE  UdpIInv'
<1>0. app' = app
  BY AppStays
<1> SUFFICES ASSUME app = "udp" PROVE UdpIInv'
  BY <1>0 DEF UdpIInv
<1>a. ~Pooled /\ \A c \in Clients : proc[c].main = "off"
  BY DEF Pooled, UdpIInv
<1>1. ASSUME NEW c \in Clients, StartClient(c) \/ ConnectClient(c) \/ Datagram(c) PROVE UdpIInv'
  BY <1>0, <1>1, <1>a, UdpDatagram DEF StartClient, ConnectClient
<1>2. ASSUME NEW p \in Procs, MainThread(p) PROVE UdpIInv'
  <2>1. p \in Clients => proc[p].main = "off"
    BY <1>a
  <2>2. Leave(p) /\ p = Server
    <3>1. p \notin Clients \/ ~ClientLoop(p)
      BY DEF ClientLoop
    <3> QED BY <1>2, <2>1, <3>1 DEF MainThread, Connected, SendNext, Leave, Procs
  <2>3. UNCHANGED <<connected, out, got>> /\ End(Server)
    BY <2>2 DEF Leave
  <2> QED BY <1>0, <2>3, UdpEnd
<1>3. ASSUME NEW p \in Procs, Sigpipe(p) PROVE UdpIInv'
  <2>1. Up(p) /\ End(p) /\ UNCHANGED <<connected, out, got>>
    <3>1. PICK op : Sock!Killed(p, op)
      BY <1>3, <1>0 DEF Sigpipe
    <3>2. IsNext(p, op) /\ Sock!End(p) /\ UNCHANGED <<connected, out, got>>
      BY <3>1, SockNet DEF Sock!Killed
    <3> QED BY <3>2, SockEnd DEF IsNext, Idle
  <2>2. p = Server
    BY <1>a, <2>1 DEF Up, Procs
  <2> QED BY <1>0, <2>1, <2>2, UdpEnd
<1>4. CASE UNCHANGED vars
  <2>1. UNCHANGED net
    BY <1>4 DEF vars
  <2>2. proc' = proc /\ UNCHANGED <<connected, out, got>>
    BY <2>1 DEF net, kernel
  <2> QED BY <1>0, <2>2 DEF UdpIInv
<1>5. ~TakeFrame
  BY DEF TakeFrame
<1>6. ASSUME NEW p \in Procs, IOThread(p) \/ Interrupt(p) PROVE UdpIInv'
  BY <1>0, <1>6, UdpThread, UdpSignal
<1>7. CASE StartServer
  BY <1>0, <1>7, UdpStart
<1> QED BY <1>1, <1>2, <1>3, <1>4, <1>5, <1>6, <1>7 DEF Next

(* At the beginning nothing was sent or read. *)
LEMMA UdpInit == ASSUME Init PROVE UdpIInv
<1>1. /\ proc = [p \in Procs |-> NewProcess] /\ connected = {}
      /\ out = [s \in Socks |-> <<>>] /\ got = [s \in Socks |-> <<>>]
  BY DEF Init, NetInit
<1>2. PICK P : P = NewProcess
  OBVIOUS
<1>3. P.main = "off" /\ P.tasks = <<>> /\ P.fd[Own] = -1
  BY <1>2, Names DEF NewProcess
<1>4. Carries(P) /\ Pending(P, Own) = <<>>
  BY <1>3, NoPending
<1>5. ~Gone(P)
  BY <1>3, Names DEF Gone
<1>6. Answers(<<>>) = <<>>
  <2>1. [i \in DOMAIN <<>> |-> Answer(<<>>[i])] = <<>>
    OBVIOUS
  <2>2. Len(<<>>) = 0
    OBVIOUS
  <2>3. FlattenSeq(<<>>) = <<>>
    BY <2>2 DEF FlattenSeq
  <2>4. DOMAIN <<>> = {}
    OBVIOUS
  <2>5. Answers(<<>>) = FlattenSeq([i \in DOMAIN <<>> |-> Answer(<<>>[i])])
    BY DEF Answers
  <2> QED BY <2>1, <2>3, <2>5
<1>7. <<>> \o <<>> = <<>> /\ IsSeq(<<>>) /\ DOMAIN <<>> = {}
  BY Concats
<1>8. PICK o : o = <<>>
  OBVIOUS
<1>9. Answers(o) = o \o Pending(P, Own) /\ IsSeq(o) /\ DOMAIN P.tasks = {}
  BY <1>3, <1>4, <1>6, <1>7, <1>8
<1>10. Replied(P, o, o)
  BY <1>4, <1>5, <1>9 DEF Replied
<1>11. out[Own] = o /\ got[Own] = o /\ proc[Server] = P /\ \A c \in Clients : proc[c] = P
  BY <1>1, <1>2, <1>8, Names
<1> QED BY <1>1, <1>3, <1>10, <1>11 DEF UdpIInv

(* The UDP server's answers. *)
LEMMA UdpAnswers == ASSUME NetIInv, UdpIInv PROVE AnswersInOrder
<1> SUFFICES ASSUME app = "udp", Up(Server) PROVE AnswersInOrder
  BY DEF AnswersInOrder
<1> DEFINE P == proc[Server]
<1>1. Sane(P) /\ Replied(P, out[Own], got[Own])
  BY Names, SaneProc DEF UdpIInv, Up
<1>2. PICK o, g : o = out[Own] /\ g = got[Own]
  OBVIOUS
<1> HIDE DEF P
<1>3. IsPrefix(o, Answers(g))
  <2>1. CASE Gone(P)
    BY <1>1, <1>2, <2>1 DEF Replied
  <2>2. CASE ~Gone(P)
    <3>1. CarriesTask(Work)
      BY WorkOp DEF CarriesTask, Writers
    <3>2. Carries(P) /\ IsSeq(o) /\ Answers(g) = o \o Pending(P, Own)
      BY <1>1, <1>2, <2>2 DEF Replied
    <3>3. IsSeq(Pending(P, Own))
      BY <1>1, <3>1, <3>2, PendingAdd
    <3> QED BY <3>2, <3>3, PrefixSeq
  <2> QED BY <2>1, <2>2
<1>4. ASSUME valid(P, Own), Named(P, Own) = None PROVE Said(o)
  <2>1. P.fd[Own] \in Fds
    BY <1>1, <1>4, AtFd, Names
  <2>2. Gone(P)
    BY <1>1, <1>4, <2>1, NamesOwn, Names
  <2> QED BY <1>1, <1>2, <2>2 DEF Replied
<1> QED BY <1>2, <1>3, <1>4 DEF AnswersInOrder, Said, P

(* What a program writes reaches the callbacks of the other in order and only *)
(* once; the echo servers have written or queued what they read, and the UDP  *)
(* server has answered what it read, "exit" before its close: tryRead, asend, *)
(* aclose and the tasks between them, through any reuse of descriptors.       *)
THEOREM DataStaysInOrder == Spec => []DataInOrder
<1> DEFINE I == NetIInv /\ FlowIInv /\ PoolLinked /\ UdpIInv
<1>1. Init => I
  BY InitInv, InitFlow, InitLinks, UdpInit
<1>2. I /\ [Next]_vars => I'
  BY NetStep, FlowNext, LinkStep, UdpNext
<1>3. I => DataInOrder
  BY FlowReads, FlowEchoes, UdpAnswers DEF DataInOrder
<1> QED BY <1>1, <1>2, <1>3, PTL DEF Spec
=============================================================================
