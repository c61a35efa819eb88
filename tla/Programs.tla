------------------------------ MODULE Programs ------------------------------
(***************************************************************************)
(* The example programs that use the streams, each as the callbacks it     *)
(* installs and what its main() does before it waits:                      *)
(*   tcp     example_epoll_tcpserver.cpp, server and client                *)
(*   udp     the datagram server of the same file                          *)
(*   unix    example_unixdomain_socket.cpp, stream server and client       *)
(*   dg      the datagram programs of the same file                        *)
(*   ssl     example_sslstream.cpp, server and client                      *)
(*   socket  example_socket.cpp, and ssl_socket, example_ssl.cpp           *)
(*   detach  example_detachtcpserver.cpp, with the tcp client              *)
(*   close   no example: a server that stops accepting after one client,   *)
(*           answers it and closes, to use the calls no example makes      *)
(***************************************************************************)
EXTENDS Net

CONSTANTS
    MaxSend,    \* bound: the messages a client sends
    MaxOut      \* bound: the tokens an echoing client writes

ASSUME SendAssumption == MaxSend \in Nat \ {0} /\ MaxOut \in Nat

VARIABLES
    app,        \* which programs run
    ssl,        \* see SSLStream
    forwarded   \* history: the frames a consumer took from the shared memory

Sock == INSTANCE SockStream
SSL == INSTANCE SSLStream
DG == INSTANCE DataGram
Acc == INSTANCE Acceptor
Pool == INSTANCE PoolServer

ExitMessage == <<0>>    \* the text "exit"

-----------------------------------------------------------------------------
(* main() up to its wait: socket, poller, then the listener, the connect or *)
(* the datagram listener.  Polling starts before anything else is queued.  *)

Listen(P) == Acc!start([AddTask(Open(P, Own), Work) EXCEPT !.main = "loop"])

tcp_testTcpServer(P) == Listen(P)
unix_testUnixDomainStreamServer(P) == Listen(P)
ssl_testTcpServer(P) == Listen(P)
detach_tcpServer(P) == AddTask(Listen(P), Task("shmread", None, -1, <<>>))

FirstPoll(P) == [AddTask(Open(P, Own), Task("first", None, -1, <<>>)) EXCEPT !.main = "loop"]
socket_test_server(P) == FirstPoll(P)
ssl_test_server(P) == FirstPoll(P)

Prepare(P, s, main) == [AddTask(Open(P, s), Work) EXCEPT !.main = main]

tcp_testTcpClient(P, s) == Sock!asyncConnect(Prepare(P, s, "wait"), s)
unix_testUnixDomainStreamClient(P, s) == Sock!asyncConnect(Prepare(P, s, "wait"), s)
ssl_testTcpClient(P, s) == SSL!asyncConnect(Prepare(P, s, "wait"), s)

\* test_client of the pool examples, once its blocking connect has succeeded.
socket_test_client(P, s) == [Open(P, s) EXCEPT !.main = "loop"]
ssl_test_client(P, s) == [Open(P, s) EXCEPT !.main = "wait", !.blocked = s]

testUDP(P) == DG!startListenReadEvent(Prepare(P, Own, "loop"), Own)
testUnixDomainDataGram(P) == DG!startListenReadEvent(Prepare(P, Own, "loop"), Own)
testUnixDomainDataGram_sub(P, s) == DG!startListenReadEvent(Prepare(P, s, "send"), s)

-----------------------------------------------------------------------------
(* Frames for the process behind the shared memory. *)

\* When the last frame has not been taken the send is tried again later, from
\* the end of the queue.
sendToSharedMemory_Once(P, frame) == IF P.slot = {} THEN [P EXCEPT !.slot = {frame}] ELSE P
sendToSharedMemory(P, frame) ==
    IF P.slot = {}
    THEN [P EXCEPT !.slot = {frame}]
    ELSE AddTask(P, Task("frame", None, -1, frame))

Frame(P, op, s, data) == [uid |-> P.uid, op |-> op, who |-> s, data |-> data]
NextUid(P) == [P EXCEPT !.uid = @ + 1]

readFromSharedMemory(P) == AddTask(P, Task("shmread", None, -1, <<>>))

-----------------------------------------------------------------------------
(* Callbacks of the servers. *)

Keep(P, s) == saveObject(P, P.fd[s], s)

tcp_onAccept_Deaf(P, s) == Keep(P, s)
tcp_onAccept(P, s) == Keep(Sock!startListenReadEvent(P, s), s)
unix_onAccept(P, s) == Keep(Sock!startListenReadEvent(P, s), s)
detach_onAccept(P, s) ==
    LET Q == Keep(Sock!startListenReadEvent(P, s), s)
    IN  sendToSharedMemory(NextUid(Q), Frame(P, "new", s, <<>>))
ssl_onAccept(P, s) == [P EXCEPT !.blocked = s]    \* handShake()
socket_onAccept(P, s) == Pool!AddClient(P, s)

\* The rest of the SSL server's onAccept, once the handshake is done.
ssl_onHandShake(P, s) == Keep(SSL!startListenReadEvent(P, s), s)

tcp_onClose_Keeps(P, s) == P
tcp_onClose(P, s) == findObject(P, P.fd[s])
unix_onClose(P, s) == findObject(P, P.fd[s])
ssl_onClose(P, s) == findObject(P, P.fd[s])
detach_onClose(P, s) ==
    sendToSharedMemory(NextUid(findObject(P, P.fd[s])), Frame(P, "closed", s, <<>>))

tcp_onRead(P, s, data) == Sock!asend(P, s, data)
unix_onRead(P, s, data) == P
ssl_onRead(P, s, data) == SSL!asend(P, s, data)

\* A read that fits in one frame; it is sent by a task of its own.
detach_onRead(P, s, data) ==
    AddTask(NextUid(P), Task("frame", None, -1, Frame(P, "read", s, data)))

close_onAccept(P, s) == Acc!asyncStop(tcp_onAccept(P, s))
close_onRead(P, s, data) == Sock!aclose(Sock!asend(P, s, data), s)

Server_onWrite(P, s, ret, data) == P
detach_onWrite(P, s, ret, data) ==
    IF ret # Len(data) THEN sendToSharedMemory(NextUid(P), Frame(P, "write", s, ret)) ELSE P

\* Callbacks of the datagram programs.
udp_onClose(P, s) == SetExit(P)
udp_onRead(P, s, d) ==
    LET Q == DG!asend(P, s, d.from, d.data)
    IN  IF d.data = ExitMessage THEN DG!aclose(Q, s) ELSE Q
dg_onClose(P, s) == SetExit(P)
dg_onRead(P, s, d) == P

-----------------------------------------------------------------------------
(* Callbacks of the clients. *)

Client_onClose(P, s) == SetExit(P)

\* The client echoes what it reads, for as long as MaxOut allows.
tcp_client_onRead(P, s, data) ==
    IF Len(out[s]) + Len(data) <= MaxOut THEN Sock!asend(P, s, data) ELSE P

onConnect(P, s, ok) == [P EXCEPT !.promise = IF ok THEN "true" ELSE "false"]

\* SSL: a failed connect is an assertion failure; else the handshake begins.
ssl_onConnect(P, s, ok) == [P EXCEPT !.blocked = s]

ssl_client_onWrite(P, s, ret, data) == IF ret < 0 THEN SSL!aclose(P, s) ELSE P
ssl_client_onRead(P, s, data) == P
=============================================================================
