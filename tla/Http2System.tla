----------------------------- MODULE Http2System ----------------------------
(***************************************************************************)
(* The server of example_http2.cpp: an Acceptor, an SSLStream and an       *)
(* Http2ndSession for each connection, kept in the poller's object map.    *)
(* The clients are any programs that speak TLS (external), some of them    *)
(* late: a client is silent until it says hello.  The server's main() is   *)
(* run with its own callbacks and with those of other users of the         *)
(* library, and with other settings of aSSLContextCreator.                 *)
(***************************************************************************)
EXTENDS Net

CONSTANTS
    ByteRange,     \* see Alpn
    Ids,           \* see Http2Session
    Offers,        \* the lists of protocols a client may offer
    MaxRecords,    \* bound: the records of a client that is alone
    MaxShared,     \* bound: the records of two clients together
    MaxAside       \* bound: a client's frames that belong to no request, after its first

\* Stream 0 is the connection itself.
ASSUME IdsAssumption == Ids \subseteq Nat \ {0}
ASSUME BoundAssumption ==
    /\ ByteRange \in Nat \ {0}
    /\ MaxRecords \in Nat /\ MaxShared \in Nat /\ MaxAside \in Nat

VARIABLES
    app,        \* which callbacks and which settings the server has
    offer,      \* offer[c]: the protocols client c offers
    agreed,     \* agreed[c]: what the handshake agreed on
    session,    \* session[s]: the Http2ndSession of a connection
    said,       \* history: said[c], the units client c has written, one in a record
    ssl         \* see SSLStream

Sock == INSTANCE SockStream
SSL == INSTANCE SSLStream
Acc == INSTANCE Acceptor
Ctx == INSTANCE Alpn
H2 == INSTANCE Http2Session

Sessions == {"srv"} \X Clients
Link(c) == <<"cli", c>>
vars == <<net, app, offer, agreed, session, said, ssl>>
rest == <<app, offer, agreed, session, said, ssl>>

\* The names of two protocols.
h2 == <<1, 2>>
h2c == <<1, 2, 3>>

\* "example", "keeps" and "refuses" are groups of callbacks (Http2Session).
\* "handlers", "proxy" and "plain" are settings: the handlers' callbacks decide
\* (example_sslstream.cpp has the first two of them), a callback of the program
\* replaces the library's, or no protocol is set.
Apps == {"example", "keeps", "refuses", "handlers", "proxy", "plain"}
Callbacks == IF app \in {"keeps", "refuses"} THEN app ELSE "example"

\* Bounds: two clients are run against the example, one against the others; where
\* the settings differ all the offers are made and nothing is sent.
Watched == CHOOSE c \in Clients : TRUE
Active == IF app = "example" THEN Clients ELSE {Watched}
Bound ==
    CASE app = "example" -> MaxShared
      [] app \in {"keeps", "refuses"} -> MaxRecords
      [] OTHER -> 0

Init ==
    /\ NetInit
    /\ app \in Apps
    /\ offer \in [Active -> IF app \in {"handlers", "proxy"} THEN Offers ELSE {<<h2>>, <<h2c>>}]
    /\ agreed = [c \in Clients |-> None]
    /\ session = [s \in Sessions |-> H2!Http2ndSession]
    /\ said = [c \in Clients |-> <<>>]
    /\ ssl = [s \in Socks |-> "open"]

-----------------------------------------------------------------------------
(* Setting up *)

ServerCreator ==
    CASE app = "plain" -> Ctx!Creator(0)
      [] app = "handlers" -> Ctx!setSupportedProtoForServer(Ctx!Creator(0),
            <<<<h2, "ok">>, <<h2c, "ok">>, <<<<4>>, "unset">>, <<<<5>>, "fails">>>>)
      [] app = "proxy" -> [Ctx!setSupportedProtoForServer(Ctx!Creator(0), <<<<h2, "ok">>>>)
                              EXCEPT !.proxy = TRUE]
      [] OTHER -> [Ctx!setSupportedProtoForServer(Ctx!Creator(0), <<<<h2, "ok">>, <<h2c, "ok">>>>)
                              EXCEPT !.decide = TRUE]

config_server_ssl(fault) == Ctx!startCreate(ServerCreator, 1, fault) = 0

\* The client's handlers have no callbacks.
ClientCreator(c) ==
    Ctx!setSupportedProtoForClient(Ctx!Creator(0),
        [i \in DOMAIN offer[c] |-> <<offer[c][i], "unset">>])
config_client_ssl(c) == Ctx!startCreate(ClientCreator(c), 2, 0) = 0

\* main(): an assertion fails when there is no context, else polling and
\* accepting start.
test_http2server ==
    /\ proc[Server].main = "off"
    /\ \E fault \in {0, -3, -4, -5, -6} :
          proc' = [proc EXCEPT ![Server] =
              IF config_server_ssl(fault)
              THEN Acc!start([AddTask(Open(@, Own), Work) EXCEPT !.main = "loop"])
              ELSE [@ EXCEPT !.main = "end"]]
    /\ UNCHANGED <<kernel, out, got, rest>>

\* A client makes its context and connects; it has said nothing yet.
Connect(c) ==
    /\ c \in Active /\ proc[c].main = "off"
    /\ Own \in Range(proc[Server].table)
    /\ IF config_client_ssl(c)
       THEN /\ proc' = [proc EXCEPT ![c] = [Open(@, Link(c)) EXCEPT !.main = "wait"]]
            /\ connected' = connected \cup {c}
            /\ backlog' = Append(backlog, c)
       ELSE /\ proc' = [proc EXCEPT ![c].main = "end"]
            /\ UNCHANGED <<connected, backlog>>
    /\ UNCHANGED <<inbox, out, got, rest>>

\* It sends its part of the handshake.
Hello(c) ==
    /\ proc[c].main = "wait"
    /\ proc' = [proc EXCEPT ![c].main = "loop"]
    /\ UNCHANGED <<kernel, out, got, rest>>

\* SIGINT ends the loop of main(); a client ends when it likes.
Leave(p) ==
    /\ Up(p)
    /\ End(p)
    /\ UNCHANGED <<connected, out, got, rest>>

-----------------------------------------------------------------------------
(* A connection, in the server *)

\* onAccept makes the session and its stream, and waits in the handshake.
onAccept(P, s) == [P EXCEPT !.blocked = s]

\* The rest of onAccept: startListenReadEvent, setOnCallback and saveObject.
Keep_OneKey(P, s) == saveObject(P, P.fd[Own], s)
Keep(P, s) == saveObject(P, P.fd[s], s)

\* SSL_accept blocks the IO thread until the client has done its part.
tryHandShakeAndInit ==
    /\ Up(Server) /\ proc[Server].blocked \in Sessions
    /\ LET s == proc[Server].blocked
       IN  /\ proc[s[2]].main = "loop"
           /\ proc' = [proc EXCEPT ![Server] =
                 [Keep(SSL!startListenReadEvent(@, s), s) EXCEPT !.blocked = None]]
           /\ session' = [session EXCEPT ![s] = H2!setOnCallback(H2!Http2ndSession, Callbacks)]
           /\ agreed' = [agreed EXCEPT ![s[2]] =
                 Ctx!alpnForServer(ServerCreator, ClientCreator(s[2]).list, h2)]
    /\ UNCHANGED <<kernel, out, got, app, offer, said, ssl>>

\* assert(bret) when the client is gone.
HandshakeAborts ==
    /\ Up(Server) /\ proc[Server].blocked \in Sessions /\ Hup(proc[Server].blocked)
    /\ End(Server)
    /\ UNCHANGED <<connected, out, got, rest>>

\* A record goes by its number: the unit it carries to the server's end s.
UnitOf(s, r) == said[s[2]][r]

Ack == 0
nghttp2RealSend(P, s, data) == SSL!asend(P, s, data)

\* The session's handlers of the stream: what they do to the process ...
OnRead(P, s, data) ==
    IF ~session[s].failed /\ H2!Answers(UnitOf(s, data[1]))
    THEN nghttp2RealSend(P, s, <<Ack>>)
    ELSE P
onSessionClose_Keeps(P, s) == P
onSessionClose(P, s) == findObject(P, P.fd[s])
OnWrite(P) == P

\* ... and to the session, in the same step.
Callback(p) ==
    /\ p = Server /\ proc[p].batch # {}
    /\ \E f \in proc[p].batch : \E s \in {CalledFor(p, f)} :
          /\ Reached(p, f)
          /\ CASE s = None -> Becomes(p, EndCallback(proc[p], f))
                                 /\ UNCHANGED <<kernel, out, got, ssl, session>>
               [] s = Own -> Acc!AcceptReady(p, f, onAccept(Open(proc[p], Acc!Accepted), Acc!Accepted)) /\ UNCHANGED <<ssl, session>>
               [] OTHER ->
                     /\ SSL!ReadReady(p, f, s, OnRead(proc[p], s, SSL!read(p, s)), onSessionClose(proc[p], s))
                     /\ session' = IF got'[s] = got[s] THEN session
                                   ELSE [session EXCEPT ![s] =
                                            H2!nghttp2RealRecv(@, UnitOf(s, Last(got'[s])), <<Last(got'[s])>>)]
    /\ UNCHANGED <<app, offer, agreed, said>>

StreamTask(p) ==
    /\ SSL!ListenTask(p) \/ SSL!SendTask(p, OnWrite(Pop(p)), OnWrite(Pop(p)))
    /\ UNCHANGED <<app, offer, agreed, session, said>>

ServerTask(p) ==
    /\ Acc!StartTask(p) \/ SaveTask(p) \/ FindTask(p)
    /\ UNCHANGED rest

IOThread ==
    \/ work(Server) /\ UNCHANGED rest
    \/ Callback(Server)
    \/ StreamTask(Server)
    \/ ServerTask(Server)
    \/ tryHandShakeAndInit
    \/ HandshakeAborts

Sigpipe == Sock!Killed(Server, "ssl_send") /\ UNCHANGED rest

-----------------------------------------------------------------------------
(* The clients (external): what a client may send after what it has sent. *)

Legal(sent, u) ==
    LET Sent(k, id) == \E i \in DOMAIN sent : sent[i].kind = k /\ sent[i].id = id
        opened == {id \in Ids : Sent("open", id)}
        ended == {id \in Ids : \E i \in DOMAIN sent : sent[i].id = id /\ H2!END_STREAM \in sent[i].flags}
        writable == {id \in opened : id \notin ended /\ ~Sent("rst", id)}
        last == Last(sent)
    IN  CASE sent = <<>> -> u \in {H2!Unit("settings", 0, {}), H2!Unit("junk", 0, {})}
          [] sent # <<>> /\ last.kind = "junk" -> FALSE
          [] sent # <<>> /\ last.kind = "open" -> u.id = last.id /\ u.kind \in {"field", "headers"}
          [] sent # <<>> /\ last.kind = "field" -> u.id = last.id /\ u.kind = "headers"
          [] sent # <<>> /\ last.kind = "chunk" -> u.id = last.id /\ u.kind \in {"chunk", "data"}
          [] OTHER ->
                \/ u.kind = "open" /\ \A id \in opened : u.id > id
                \/ u.kind \in {"chunk", "data", "trailers"} /\ u.id \in writable
                \/ u.kind = "rst" /\ u.id \in opened
                \/ /\ u.kind \in {"priority", "settings", "ping"}
                   /\ Cardinality({i \in 2 .. Len(sent) : sent[i].kind \in {"priority", "settings", "ping"}}) < MaxAside

Written == FoldSet(LAMBDA c, n : n + Len(said[c]), 0, Clients)

\* One that agreed on HTTP/2 speaks it; another sends something else.
SendRecord(c) ==
    /\ Up(c) /\ proc[Server].blocked # Peer(Link(c))
    /\ session[Peer(Link(c))].cbs # None
    /\ Written < Bound
    /\ \E u \in H2!Units, ret \in {-1, 1} :
          /\ (u.kind = "junk") = (agreed[c] # h2)
          /\ Legal(said[c], u)
          /\ send(Link(c), <<Len(said[c]) + 1>>, ret)
          /\ said' = [said EXCEPT ![c] = IF ret = -1 THEN @ ELSE Append(@, u)]
    /\ UNCHANGED <<proc, backlog, connected, got, app, offer, agreed, session, ssl>>

Next ==
    \/ test_http2server
    \/ IOThread
    \/ Sigpipe
    \/ \E c \in Clients : Connect(c) \/ Hello(c) \/ SendRecord(c)
    \/ \E p \in Procs : Leave(p)

\* The IO thread is scheduled; it waits in a handshake as long as the client is
\* silent.  Nothing is assumed of signals, of the kernel's SIGPIPE or of the
\* clients: what depends on them is in the properties.
Spec == Init /\ [][Next]_vars /\ WF_vars(IOThread)

-----------------------------------------------------------------------------
(* Properties *)

H2TypeOK ==
    /\ NetTypeOK
    /\ \A c \in Clients : agreed[c] \in {None, h2, h2c}
    /\ \A s \in Sessions :
          /\ session[s].cbs \in {None, Callbacks}
          /\ DOMAIN session[s].streams \subseteq Ids \cup {0}
          /\ session[s].live \subseteq Ids

\* Names short enough for their length byte are negotiated as offered: the
\* protocol agreed is one both sides have, and a client that puts first what
\* the server supports (or, where nghttp2 decides, offers "h2" at all) gets it.
Negotiated ==
    \A c \in Active :
        LET done == session[Peer(Link(c))].cbs # None
            short == \A n \in Range(offer[c]) : Len(n) \in 1 .. ByteRange - 1
            supported == {n \in DOMAIN ServerCreator.protocbs : ServerCreator.protocbs[n] = "ok"}
        IN  done /\ short =>
                /\ agreed[c] # None => agreed[c] \in Range(offer[c]) \cap supported
                /\ app # "handlers" /\ h2 \in Range(offer[c]) => agreed[c] = h2
                /\ app = "handlers" /\ offer[c] # <<>> /\ Head(offer[c]) \in supported =>
                       agreed[c] = Head(offer[c])

\* The callbacks of one stream come in the order a request has: a head first,
\* at most one onReqRecvDone and after it only onStreamClosed, which is the
\* last, however the frames of other streams, late frames and records interleave.
CallbackOrder ==
    \A s \in Sessions :
        LET calls == session[s].calls
        IN  \A j \in DOMAIN calls :
              calls[j].id \in Ids =>
                 LET before == {i \in 1 .. j - 1 : calls[i].id = calls[j].id}
                 IN  /\ calls[j].cb # "head" => \E i \in before : calls[i].cb = "head"
                     /\ \A i \in before :
                           /\ calls[i].cb # "closed"
                           /\ calls[i].cb = "done" => calls[j].cb = "closed"

\* The records that brought units of a kind for a stream.
RecordsOf(s, id, kind) ==
    {r \in Range(got[s]) : UnitOf(s, r).id = id /\ UnitOf(s, r).kind = kind}

\* A request reported complete is the one its client sent: the path of its own
\* HEADERS, and, for a user who pushes the data and a client with no field
\* called "body", the chunks of its own stream, all of them and in order.
RequestIntact ==
    \A s \in Sessions : \A k \in Range(session[s].calls) :
        LET Holds(name, kind) ==
                LET value == k.headers[name]
                IN  /\ Range(value) = RecordsOf(s, k.id, kind)
                    /\ \A i, j \in DOMAIN value : i < j => value[i] < value[j]
        IN  k.cb = "done" /\ k.id \in Ids =>
                /\ Holds("path", "open")
                /\ app = "keeps" /\ RecordsOf(s, k.id, "field") = {}
                      /\ RecordsOf(s, k.id, "chunk") # {} => Holds("body", "chunk")

\* What the user of a session is told of a request is true and in order.
RequestsIntact == CallbackOrder /\ RequestIntact

\* The session's table holds the streams nghttp2 knows; a stream that is not
\* live is there only because a PRIORITY or RST_STREAM frame came for it when it was
\* not: onStreamClosed has erased the others.
TableMatches ==
    \A s \in Sessions :
        LET units == [i \in DOMAIN got[s] |-> UnitOf(s, got[s][i])]
            Late(id) == \/ \E i \in DOMAIN units : units[i].kind = "priority" /\ units[i].id = id
                        \/ \E i, j \in DOMAIN units :
                              i < j /\ units[i] = units[j] /\ units[i].kind = "rst" /\ units[i].id = id
        IN  /\ session[s].live \subseteq DOMAIN session[s].streams
            /\ \A id \in DOMAIN session[s].streams \ ({0} \cup session[s].live) : Late(id)

\* A reference to the session of s: the object map's, that of a saveObject
\* under way, or onAccept's.
HasSession(s) ==
    LET P == proc[Server]
    IN  \/ s \in Range(P.objects)
        \/ \E i \in DOMAIN P.tasks : P.tasks[i].op = "save" /\ P.tasks[i].who = s
        \/ P.blocked = s

\* The stream's handlers hold a bare pointer to the session, and a task may
\* keep the stream when the session is gone: no descriptor the poller would
\* call back for belongs to such a stream.
SessionAlive ==
    Up(Server) =>
        \A f \in DOMAIN proc[Server].callbacks :
            LET s == CalledFor(Server, f) IN s \in Sessions => HasSession(s)

\* A session's bookkeeping is sound as long as the poller may call it: it is
\* alive and its table matches nghttp2's.
SessionsSound == H2TypeOK /\ TableMatches /\ SessionAlive

\* A request that was sent to its end is reported, unless an end leaves or
\* the session has failed (all streams are served alike: one is watched).
RequestSent(c, id) == \E u \in Range(said[c]) : u.id = id /\ H2!END_STREAM \in u.flags
Reported(s, id) == \E k \in Range(session[s].calls) : k.cb = "done" /\ k.id = id
RequestReported ==
    LET s == Peer(Link(Watched))
        id == Min(Ids)
    IN  RequestSent(Watched, id) ~>
            (Reported(s, id) \/ session[s].failed \/ ~Up(Server) \/ ~Up(Watched))

\* The session of a client that left is destroyed, failed or not.
SessionReclaimed ==
    LET s == Peer(Link(Watched))
    IN  (HasSession(s) /\ ~Up(Watched)) ~> ~HasSession(s)

\* The one IO thread waits for the hello of a client that is silent.
Stalled ==
    /\ Up(Server) /\ proc[Server].blocked \in Sessions
    /\ proc[proc[Server].blocked[2]].main = "wait"

\* A session serves its client and goes when the client does, unless the IO thread
\* is left waiting for ever in the handshake of a silent client: that one client
\* stops the requests and the sessions of all the others.
SessionServed == ([]<>~Stalled) => (RequestReported /\ SessionReclaimed)
=============================================================================
