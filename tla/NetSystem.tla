----------------------------- MODULE NetSystem ------------------------------
(***************************************************************************)
(* The example programs run against each other: one server, the clients of *)
(* the same example, the kernel between them, SIGINT at any time.          *)
(***************************************************************************)
EXTENDS Programs

CONSTANT Apps    \* the examples that are run

ASSUME AppsAssumption ==
    Apps \subseteq {"tcp", "udp", "unix", "dg", "ssl", "detach", "close", "socket", "ssl_socket"}

vars == <<net, app, ssl, forwarded>>
rest == <<app, ssl, forwarded>>

\* Bound: some examples are run with all the clients, where the descriptors of
\* one are reused for the next, the others with one client that sends more.
Active == IF app \in {"unix", "udp", "socket"} THEN Clients ELSE {CHOOSE c \in Clients : TRUE}
Sends == MaxSend \div Cardinality(Active)
Link(c) == <<"cli", c>>
Datagrams == app \in {"udp", "dg"}
Listening == Own \in Range(proc[Server].table)
Pooled == app \in {"socket", "ssl_socket"}
Echoes == app \in {"tcp", "ssl", "socket", "ssl_socket"}

Init ==
    /\ NetInit
    /\ app \in Apps
    /\ ssl = [s \in Socks |-> "open"]
    /\ forwarded = <<>>

-----------------------------------------------------------------------------
(* The main threads. *)

StartServer ==
    /\ proc[Server].main = "off"
    /\ proc' = [proc EXCEPT ![Server] =
           CASE app \in {"tcp", "close"} -> tcp_testTcpServer(@)
             [] app = "unix" -> unix_testUnixDomainStreamServer(@)
             [] app = "ssl" -> ssl_testTcpServer(@)
             [] app = "detach" -> detach_tcpServer(@)
             [] app = "socket" -> socket_test_server(@)
             [] app = "ssl_socket" -> ssl_test_server(@)
             [] app = "udp" -> testUDP(@)
             [] app = "dg" -> testUnixDomainDataGram(@)]
    /\ UNCHANGED <<kernel, out, got, rest>>

StartClient(c) ==
    /\ app # "udp" /\ ~Pooled /\ c \in Active
    /\ proc[c].main = "off"
    /\ proc' = [proc EXCEPT ![c] =
           CASE app \in {"tcp", "detach", "close"} -> tcp_testTcpClient(@, Link(c))
             [] app = "unix" -> unix_testUnixDomainStreamClient(@, Link(c))
             [] app = "ssl" -> ssl_testTcpClient(@, Link(c))
             [] app = "dg" -> testUnixDomainDataGram_sub(@, Link(c))]
    /\ UNCHANGED <<kernel, out, got, rest>>

\* test_client connects by itself; without a server it returns.
ConnectClient(c) ==
    /\ Pooled /\ c \in Active /\ proc[c].main = "off"
    /\ IF Listening
       THEN /\ proc' = [proc EXCEPT ![c] = IF app = "socket" THEN socket_test_client(@, Link(c))
                                                            ELSE ssl_test_client(@, Link(c))]
            /\ connected' = connected \cup {c}
            /\ backlog' = Append(backlog, c)
       ELSE /\ proc' = [proc EXCEPT ![c].main = "end"]
            /\ UNCHANGED <<connected, backlog>>
    /\ UNCHANGED <<inbox, out, got, rest>>

\* The loop of test_client.
ClientLoop(c) ==
    /\ \/ app = "socket" /\ Pool!ClientLoop(c, Link(c), Sends)
       \/ app = "ssl_socket" /\ Pool!SSLClientLoop(c, Link(c), Sends)
    /\ UNCHANGED rest

\* future.get() returns; only then is m_exit looked at again.
Connected(c) ==
    /\ proc[c].main = "wait" /\ proc[c].promise # "none"
    /\ proc' = [proc EXCEPT ![c] =
           IF @.promise = "true" THEN [@ EXCEPT !.main = "send"]
           ELSE [SetExit(@) EXCEPT !.main = "loop"]]
    /\ UNCHANGED <<kernel, out, got, rest>>

\* The loop that sends; only the SSL client looks at m_exit in it.
SendNext(c) ==
    /\ proc[c].main = "send"
    /\ LET n == proc[c].sent + 1
           P == [proc[c] EXCEPT !.sent = n, !.main = IF n < Sends THEN @ ELSE "loop"]
       IN  proc' = [proc EXCEPT ![c] =
             CASE app = "ssl" /\ P.exit -> [@ EXCEPT !.main = "loop"]
               [] app = "ssl" /\ ~P.exit -> SSL!asend(P, Link(c), <<n>>)
               [] app = "dg" -> DG!asend(P, Link(c), Own, <<n>>)
               [] OTHER -> Sock!asend(P, Link(c), <<n>>)]
    /\ UNCHANGED <<kernel, out, got, rest>>

\* The wait for m_exit at the end of main().
Leave(p) ==
    /\ proc[p].main = "loop" /\ proc[p].exit
    /\ End(p)
    /\ UNCHANGED <<connected, out, got, rest>>

MainThread(p) == Leave(p) \/ (p \in Clients /\ (Connected(p) \/ SendNext(p) \/ ClientLoop(p)))

\* SIGINT.
Interrupt(p) ==
    /\ Up(p) /\ ~proc[p].exit
    /\ proc' = [proc EXCEPT ![p] = SetExit(@)]
    /\ UNCHANGED <<kernel, out, got, rest>>

-----------------------------------------------------------------------------
(* The IO threads, with the callbacks of the program that runs. *)

ServerOnAccept(P, s) ==
    CASE app = "tcp" -> tcp_onAccept(P, s)
      [] app = "unix" -> unix_onAccept(P, s)
      [] app = "ssl" -> ssl_onAccept(P, s)
      [] app = "detach" -> detach_onAccept(P, s)
      [] app = "close" -> close_onAccept(P, s)
      [] app = "socket" -> socket_onAccept(P, s)
      [] app = "ssl_socket" -> ssl_onAccept(P, s)

OnRead(P, s, data) ==
    IF s[1] = "cli"
    THEN CASE app = "tcp" -> tcp_client_onRead(P, s, data)
           [] app = "ssl" -> ssl_client_onRead(P, s, data)
           [] OTHER -> P
    ELSE CASE app = "tcp" -> tcp_onRead(P, s, data)
           [] app = "unix" -> unix_onRead(P, s, data)
           [] app = "ssl" -> ssl_onRead(P, s, data)
           [] app = "detach" -> detach_onRead(P, s, data)
           [] app = "close" -> close_onRead(P, s, data)
           [] app = "udp" -> udp_onRead(P, s, data)
           [] app = "dg" -> dg_onRead(P, s, data)

OnClose(P, s) ==
    IF s[1] = "cli" THEN Client_onClose(P, s)
    ELSE CASE app \in {"tcp", "close"} -> tcp_onClose(P, s)
           [] app = "unix" -> unix_onClose(P, s)
           [] app = "ssl" -> ssl_onClose(P, s)
           [] app = "detach" -> detach_onClose(P, s)
           [] app = "udp" -> udp_onClose(P, s)
           [] app = "dg" -> dg_onClose(P, s)

OnWrite(P, s, ret, data) ==
    CASE app = "ssl" /\ s[1] = "cli" -> ssl_client_onWrite(P, s, ret, data)
      [] app = "detach" /\ s[1] = "srv" -> detach_onWrite(P, s, ret, data)
      [] OTHER -> Server_onWrite(P, s, ret, data)

\* The process after its user was called back.
AfterAccept(p) == ServerOnAccept(Open(proc[p], Acc!Accepted), Acc!Accepted)
AfterRead(p, s, data) == OnRead(proc[p], s, data)
AfterClose(p, s) == OnClose(proc[p], s)
AfterWrite(p, ok) ==
    LET t == Head(proc[p].tasks) IN OnWrite(Pop(p), t.who, IF ok THEN Len(t.data) ELSE -1, t.data)
AfterConnect(p) == onConnect(Pop(p), Head(proc[p].tasks).who, Listening)
AfterSSLConnect(p) == ssl_onConnect(Pop(p), Head(proc[p].tasks).who, TRUE)

\* A callback of the poller: the listener's, a stream's or a datagram socket's.
Callback(p) ==
    /\ ~Pooled /\ proc[p].batch # {}
    /\ \E f \in proc[p].batch : \E s \in {CalledFor(p, f)} :
          /\ Reached(p, f)
          /\ CASE s = None -> Becomes(p, EndCallback(proc[p], f))
                                 /\ UNCHANGED <<kernel, out, got, ssl>>
               [] s # None /\ Datagrams ->
                        DG!ReadReady(p, f, s, AfterRead(p, s, Head(inbox[Named(proc[p], s)])), AfterClose(p, s))
                            /\ UNCHANGED ssl
               [] s = Own /\ ~Datagrams -> Acc!AcceptReady(p, f, AfterAccept(p)) /\ UNCHANGED ssl
               [] s \in Streams /\ app = "ssl" ->
                        SSL!ReadReady(p, f, s, AfterRead(p, s, SSL!read(p, s)), AfterClose(p, s))
               [] OTHER ->
                        Sock!ReadReady(p, f, s, AfterRead(p, s, Sock!tryRead(p, s)), AfterClose(p, s))
                            /\ UNCHANGED ssl
    /\ UNCHANGED <<app, forwarded>>

\* The pool servers: their ticks, and an event of a tick, in epoll's order.
PoolTask(p) ==
    /\ Pooled /\ p = Server
    /\ Pool!FirstTick(p) \/ Pool!Tick(p)
    /\ UNCHANGED rest

PoolEvent(p) ==
    /\ Pooled /\ p = Server /\ Up(p) /\ proc[p].blocked = None
    /\ \E f \in proc[p].batch : \E s \in {proc[p].callbacks[f]} :
          CASE s = Own -> Acc!AcceptReady(p, f, AfterAccept(p))
            [] s # Own /\ app = "socket" -> Pool!ReadEvent(p, f, s)
            [] s # Own /\ app = "ssl_socket" -> Pool!SSLReadEvent(p, f, s)
    /\ UNCHANGED rest

\* Tasks of the streams.
SockTask(p) ==
    /\ app \in {"tcp", "unix", "detach", "close"}
    /\ \/ Sock!ListenTask(p)
       \/ Sock!SendTask(p, AfterWrite(p, TRUE), AfterWrite(p, FALSE))
       \/ Sock!CloseTask(p)
       \/ Sock!ConnectTask(p, Listening, AfterConnect(p))
    /\ UNCHANGED rest

SSLTask(p) ==
    /\ app = "ssl"
    /\ \/ SSL!ListenTask(p)
       \/ SSL!SendTask(p, AfterWrite(p, TRUE), AfterWrite(p, FALSE))
       \/ SSL!CloseTask(p)
       \/ Listening /\ SSL!ConnectTask(p, TRUE, AfterSSLConnect(p))
    /\ UNCHANGED <<app, forwarded>>

DataGramTask(p) ==
    /\ Datagrams
    /\ DG!ListenTask(p) \/ DG!SendTask(p) \/ DG!CloseTask(p)
    /\ UNCHANGED rest

ServerTask(p) ==
    /\ p = Server /\ ~Datagrams
    /\ Acc!StartTask(p) \/ Acc!StopTask(p) \/ SaveTask(p) \/ FindTask(p)
    /\ UNCHANGED rest

\* Tasks of the detached server.
FrameTask(p) ==
    /\ app = "detach" /\ IsNext(p, "frame")
    /\ Becomes(p, sendToSharedMemory(Pop(p), Head(proc[p].tasks).data))
    /\ UNCHANGED <<kernel, out, got, rest>>

ReadShmTask(p) ==
    /\ app = "detach" /\ IsNext(p, "shmread")
    /\ Becomes(p, readFromSharedMemory(Pop(p)))
    /\ UNCHANGED <<kernel, out, got, rest>>

\* assert(ok) of the SSL client's connect callback.
ConnectAborts(c) ==
    /\ IsNext(c, "ssl_connect") /\ ~Listening
    /\ End(c)
    /\ UNCHANGED <<connected, out, got, rest>>

\* The client's handshake ends first, while the server is in its own, and tells
\* main(); then the server's ends, sends the session tickets and goes on.
ClientHandshake(c) ==
    /\ c \in Clients /\ Up(c) /\ Up(Server)
    /\ proc[c].blocked = Link(c) /\ proc[Server].blocked = Peer(Link(c))
    /\ ssl[Link(c)] = "open"
    /\ proc' = [proc EXCEPT ![c].blocked = None, ![c].promise = "true",
                            ![c].main = IF Pooled THEN "loop" ELSE @]
    /\ UNCHANGED <<kernel, out, got, rest>>

ServerHandshake(p) ==
    /\ p = Server /\ Up(p) /\ proc[p].blocked \in Streams
    /\ LET s == proc[p].blocked
       IN  /\ proc[s[2]].promise = "true" /\ ssl[s] = "open"
           /\ proc' = [proc EXCEPT ![p] =
                 [IF Pooled THEN socket_onAccept(@, s) ELSE ssl_onHandShake(@, s)
                     EXCEPT !.blocked = None]]
           /\ inbox' = [inbox EXCEPT ![Peer(s)] = Append(@, Ticket)]
    /\ UNCHANGED <<backlog, connected, out, got, rest>>

\* A handshake whose other end is gone fails: an assertion, the end of a pool
\* client, or the end of the connection in the pool server.
HandshakeAborts(p) ==
    /\ Up(p) /\ proc[p].blocked \in Streams /\ Hup(proc[p].blocked)
    /\ ssl[proc[p].blocked] = "open"
    /\ IF Pooled /\ p = Server
       THEN Becomes(p, [proc[p] EXCEPT !.blocked = None]) /\ UNCHANGED <<inbox, backlog>>
       ELSE End(p)
    /\ UNCHANGED <<connected, out, got, rest>>

IOThread(p) ==
    /\ Up(p)
    /\ \/ ~Pooled /\ work(p) /\ UNCHANGED rest
       \/ PoolTask(p) \/ PoolEvent(p)
       \/ Callback(p)
       \/ SockTask(p)
       \/ SSLTask(p)
       \/ DataGramTask(p)
       \/ ServerTask(p)
       \/ FrameTask(p)
       \/ ReadShmTask(p)
       \/ app \in {"ssl", "ssl_socket"} /\
             (ConnectAborts(p) \/ HandshakeAborts(p) \/ ClientHandshake(p) \/ ServerHandshake(p))

Sigpipe(p) ==
    /\ \/ Sock!Killed(p, "send") \/ Sock!Killed(p, "ssl_send")
       \/ app = "ssl_socket" /\ Pool!Killed(p, Sends)
    /\ UNCHANGED rest

-----------------------------------------------------------------------------
(* Outside the programs. *)

\* Any program on the network sends a datagram: text, "exit" or nothing.
Datagram(c) ==
    /\ app = "udp" /\ Listening
    /\ proc[c].sent < Sends + 1
    /\ proc' = [proc EXCEPT ![c].sent = @ + 1]
    /\ \E data \in {<<proc[c].sent + 1>>, ExitMessage, <<>>} :
          inbox' = [inbox EXCEPT ![Own] = Append(@, [from |-> Link(c), data |-> data])]
    /\ UNCHANGED <<backlog, connected, out, got, rest>>

\* The process behind the shared memory takes a frame.
TakeFrame ==
    /\ app = "detach"
    /\ \E frame \in proc[Server].slot : forwarded' = Append(forwarded, frame)
    /\ proc' = [proc EXCEPT ![Server].slot = {}]
    /\ UNCHANGED <<kernel, out, got, app, ssl>>

Next ==
    \/ StartServer
    \/ \E c \in Clients :
          StartClient(c) \/ ConnectClient(c) \/ Datagram(c)
    \/ \E p \in Procs : MainThread(p) \/ IOThread(p) \/ Interrupt(p) \/ Sigpipe(p)
    \/ TakeFrame

\* Threads are scheduled and tasks return; nothing is assumed of signals, of
\* the user who starts programs, or of what other programs send.
Fairness ==
    /\ \A p \in Procs : WF_vars(IOThread(p)) /\ WF_vars(MainThread(p))
    /\ WF_vars(TakeFrame)

Spec == Init /\ [][Next]_vars /\ Fairness

-----------------------------------------------------------------------------
(* Properties *)

\* What task t writes to socket s, and what process P has queued for it.
Writes(t, s) ==
    IF t.who # s THEN <<>>
    ELSE IF t.op \in {"send", "ssl_send"} THEN t.data
    ELSE IF t.op = "sendto" THEN <<t.data>>
    ELSE <<>>
Pending(P, s) == FlattenSeq([i \in DOMAIN P.tasks |-> Writes(P.tasks[i], s)])

\* A descriptor belongs to exactly one live Socket, and the number a live
\* stream keeps never names another stream's socket, through accepts that reuse the
\* numbers of streams destroyed by ~Socket.
OwnDescriptor ==
    \A p \in Procs :
        /\ \A f \in Fds : proc[p].table[f] \in Socks => proc[p].fd[proc[p].table[f]] = f
        /\ \A s \in Socks : valid(proc[p], s) => Named(proc[p], s) \in {s, None}

\* What epoll reports for a descriptor goes to the callback of the stream that
\* has it open, although cancle, the destructor and the next accept of the
\* same number are different tasks.
CallbackOwner ==
    \A p \in Procs : \A f \in proc[p].interest :
        f \in DOMAIN proc[p].callbacks /\ proc[p].callbacks[f] = proc[p].table[f]

\* Through close, destruction, accept and reuse of a number, descriptors and
\* the poller's callbacks stay with the Socket that opened them.
StreamsOwned == NetTypeOK /\ OwnDescriptor /\ CallbackOwner

\* What onRead was given is what the peer wrote, in order, nothing twice.
ReadsInOrder == ~Datagrams => \A s \in Streams : IsPrefix(got[s], out[Peer(s)])

\* The echo servers have written, or queued to be written, exactly what they read,
\* in order, as long as the client is there.
EchoesInOrder ==
    Echoes =>
        \A c \in Clients :
            LET s == Peer(Link(c))
            IN  Up(Server) /\ c \in connected /\ ~Hup(s) =>
                    got[s] = out[s] \o Pending(proc[Server], s)

\* The UDP server answers in the order it reads, and when "exit" has closed its
\* socket the answer to "exit" has been sent: asend and aclose are tasks in order.
Answer(d) == IF d.data = <<>> THEN <<>> ELSE <<[to |-> d.from, data |-> d.data]>>
Answers(read) == FlattenSeq([i \in DOMAIN read |-> Answer(read[i])])
AnswersInOrder ==
    app = "udp" /\ Up(Server) =>
        /\ IsPrefix(out[Own], Answers(got[Own]))
        /\ valid(proc[Server], Own) /\ Named(proc[Server], Own) = None =>
               \E i \in DOMAIN out[Own] : out[Own][i].data = ExitMessage

\* Data keeps its order from a write of one program to the callback of the
\* other and back: tryRead, asend and the tasks between them.
DataInOrder == ReadsInOrder /\ EchoesInOrder /\ AnswersInOrder

\* Every frame the detached server has numbered is in exactly one place: taken
\* by the consumer, in the shared memory, or in a task that tries again.
ForwardedOnce ==
    app = "detach" /\ Up(Server) =>
        LET P == proc[Server]
            places == ({"taken"} \X DOMAIN forwarded)
                         \cup ({"waits"} \X {i \in DOMAIN P.tasks : P.tasks[i].op = "frame"})
                         \cup ({"held"} \X P.slot)
            uids == [w \in places |->
                       IF w[1] = "taken" THEN forwarded[w[2]].uid
                       ELSE IF w[1] = "waits" THEN P.tasks[w[2]].data.uid
                       ELSE w[2].uid]
        IN  IsInjective(uids) /\ Range(uids) = 1 .. P.uid - 1

\* The clients are alike: what holds of one holds of all.
Watched == CHOOSE c \in Clients : TRUE

\* A connection does not stay half open: when a client is gone the end of file
\* reaches the server's onClose and findObject drops the last reference to the
\* stream, or the pool server erases it; when the server is gone the client
\* ends.  The programs of example_ssl.cpp never see an end of file.
HalfOpen(c) ==
    /\ app # "ssl_socket"
    /\ c \in connected \ Range(backlog)
    /\ (Link(c) \in Range(proc[c].table)) # (Peer(Link(c)) \in Range(proc[Server].table))
HalfOpenEnds == HalfOpen(Watched) ~> ~HalfOpen(Watched)

\* A client that has written something gets an answer from the echo server,
\* unless one of them ends first.
Echoed ==
    (Echoes /\ out[Link(Watched)] # <<>>)
        ~> (got[Link(Watched)] # <<>> \/ ~Up(Watched) \/ ~Up(Server))

\* A UDP server that has read "exit" or an empty datagram ends.
ExitHonoured ==
    (\E i \in DOMAIN got[Own] : got[Own][i].data \in {ExitMessage, <<>>})
        ~> proc[Server].main = "end"

\* A server does what it is asked: the echo servers answer, the UDP server exits,
\* through the listen, read, send and close tasks of their streams.
Served == Echoed /\ ExitHonoured
=============================================================================
