----------------------------- MODULE PoolServer -----------------------------
(***************************************************************************)
(* The servers of example_socket.cpp and example_ssl.cpp: a task of a      *)
(* thread pool polls once with an Epoll of its own, serves what is ready   *)
(* and puts itself back; blocking sockets, echoed on the spot.  Of the     *)
(* process record, callbacks is what was given to epoll with a descriptor, *)
(* and objects is cliMap.  The clients are a loop of their main thread.    *)
(***************************************************************************)
EXTENDS Net

\* processSocketEvent without user data: the context and the listener.
FirstTick(p) ==
    /\ IsNext(p, "first")
    /\ Becomes(p, IF proc[p].exit THEN Pop(p)
                  ELSE AddTask(Register(Pop(p), proc[p].fd[Own], Own), Work))
    /\ UNCHANGED <<kernel, out, got>>

\* processSocketEvent up to its loop; after m_exit it does not come back.
Tick(p) ==
    IF proc[p].exit
    THEN IsNext(p, "work") /\ Becomes(p, Pop(p)) /\ UNCHANGED <<kernel, out, got>>
    ELSE work(p)

AddClient(P, s) == [Register(P, P.fd[s], s) EXCEPT !.objects = Put(@, s, s)]

\* disconnect: the entry goes, and with it the socket.
Disconnect(P, f, s) == [cancle(P, f) EXCEPT !.objects = Restrict(@, DOMAIN @ \ {s})]

\* What a write brings to the other end.  Nobody looks at what write returns:
\* when the other end is gone the data is lost, or SIGPIPE comes (see below).
Arrives(s, message) == IF Hup(s) THEN <<>> ELSE message

\* What is read is sent back before the loop goes on.
Echo(s, rest, data) ==
    /\ inbox' = [inbox EXCEPT ![s] = rest, ![Peer(s)] = @ \o Arrives(s, data)]
    /\ got' = [got EXCEPT ![s] = @ \o data]
    /\ out' = [out EXCEPT ![s] = @ \o Arrives(s, data)]

\* The recv loop; an end of file behind the data throws it away.
ReadEvent(p, f, s) ==
    /\ IF Hup(s)
       THEN /\ Becomes(p, EndCallback(Disconnect(proc[p], f, s), f))
            /\ inbox' = [inbox EXCEPT ![s] = <<>>]
            /\ UNCHANGED <<out, got>>
       ELSE Becomes(p, EndCallback(proc[p], f)) /\ Echo(s, <<>>, inbox[s])
    /\ UNCHANGED <<backlog, connected>>

\* One record, also when the other end is gone.  read() never returns 0: the end
\* of file behind the last one is a retry, for ever.
SSLReadEvent(p, f, s) ==
    /\ Becomes(p, EndCallback(proc[p], f))
    /\ IF inbox[s] # <<>>
       THEN Echo(s, Tail(inbox[s]), <<Head(inbox[s])>>)
       ELSE UNCHANGED <<inbox, out, got>>
    /\ UNCHANGED <<backlog, connected>>

-----------------------------------------------------------------------------
(* A client: one message is written per turn of the loop, as long as there *)
(* are any; what can be read is read first.                                *)

Exchange(c, s, rest, data, message) ==
    /\ inbox' = [inbox EXCEPT ![s] = rest, ![Peer(s)] = @ \o Arrives(s, message)]
    /\ got' = [got EXCEPT ![s] = @ \o data]
    /\ out' = [out EXCEPT ![s] = @ \o Arrives(s, message)]
    /\ proc' = [proc EXCEPT ![c].sent = @ + Len(message)]
    /\ UNCHANGED <<backlog, connected>>

Message(c, limit) == IF proc[c].sent < limit THEN <<proc[c].sent + 1>> ELSE <<>>

ClientLoop(c, s, limit) ==
    /\ proc[c].main = "loop" /\ ~proc[c].exit
    /\ IF Hup(s)
       THEN End(c) /\ UNCHANGED <<connected, out, got>>
       ELSE /\ inbox[s] # <<>> \/ Message(c, limit) # <<>>
            /\ Exchange(c, s, <<>>, inbox[s], Message(c, limit))

\* SSL_read waits on the blocking socket when it finds only OpenSSL's own
\* records, and with it the message to be written; unless the other end is gone.
SSLClientLoop(c, s, limit) ==
    /\ proc[c].main = "loop" /\ ~proc[c].exit
    /\ inbox[s] # <<>> \/ Message(c, limit) # <<>>
    /\ inbox[s] # <<>> /\ ~Hup(s) => Record(inbox[s]) # <<>>
    /\ Exchange(c, s, Rest(inbox[s]), Record(inbox[s]), Message(c, limit))

-----------------------------------------------------------------------------
(* SIGPIPE, from a write of the SSL programs to an end that is gone. *)

Writing(p, limit) ==
    IF p = Server
    THEN /\ proc[p].blocked = None
         /\ \E f \in proc[p].batch :
               LET s == proc[p].callbacks[f] IN Hup(s) /\ inbox[s] # <<>>
    ELSE proc[p].main = "loop" /\ ~proc[p].exit /\ Hup(<<"cli", p>>) /\ Message(p, limit) # <<>>

Killed(p, limit) ==
    /\ Up(p) /\ Writing(p, limit)
    /\ End(p)
    /\ UNCHANGED <<connected, out, got>>
=============================================================================
