----------------------------- MODULE SSLStream ------------------------------
(***************************************************************************)
(* SockStream with OpenSSL between the stream and its socket               *)
(* (source/extention/sslstream.cpp, aSSLSocketIO of source/base/ssl.cpp).  *)
(* Only streams that use SSL are modelled; one that does not behaves as a  *)
(* SockStream.                                                             *)
(***************************************************************************)
EXTENDS Net

VARIABLE
    ssl    \* ssl[s]: "open", "closing" in the loop of real_close, "shut" after it

startListenReadEvent(P, s) == AddTask(P, Task("ssl_listen", s, P.fd[s], <<>>))
asend(P, s, data) == IF valid(P, s) THEN AddTask(P, Task("ssl_send", s, -1, data)) ELSE P
aclose(P, s) == AddTask(P, Task("ssl_close", s, -1, <<>>))
asyncConnect(P, s) == IF valid(P, s) THEN AddTask(P, Task("ssl_connect", s, -1, <<>>)) ELSE P

listenReadEvent(P, s, f) == Register(P, f, s)

ListenTask(p) ==
    /\ IsNext(p, "ssl_listen")
    /\ LET t == Head(proc[p].tasks) IN Becomes(p, listenReadEvent(Pop(p), t.who, t.fd))
    /\ UNCHANGED <<kernel, out, got, ssl>>

\* real_write: -2 once the stream is shut down.
real_write(k, s, data, ret) ==
    IF ssl[s] = "shut" THEN ret = -2 /\ UNCHANGED <<inbox, out>> ELSE send(k, data, ret)

SendTask(p, afterWrite, afterFailure) ==
    /\ IsNext(p, "ssl_send")
    /\ LET t == Head(proc[p].tasks)
       IN  \E ret \in {-2, -1, Len(t.data)} :
              /\ real_write(Named(proc[p], t.who), t.who, t.data, ret)
              /\ Becomes(p, IF ret < 0 THEN afterFailure ELSE afterWrite)
    /\ UNCHANGED <<backlog, connected, got, ssl>>

\* real_close: a second call only closes the number again.  SSL_shutdown
\* fails when the peer is gone.  While it is there it returns 0, and because
\* shutdown() gave the SSL object away every later call returns 0 too: the
\* loop never ends.
CloseTask(p) ==
    /\ IsNext(p, "ssl_close")
    /\ LET s == Head(proc[p].tasks).who
           k == Named(proc[p], s)
       IN  IF ssl[s] = "shut" \/ k = None \/ Hup(k)
           THEN /\ Becomes(p, closeAndNoClear(Pop(p), s))
                /\ ssl' = [ssl EXCEPT ![s] = "shut"]
           ELSE /\ Becomes(p, [proc[p] EXCEPT !.blocked = s])
                /\ ssl' = [ssl EXCEPT ![s] = "closing"]
    /\ UNCHANGED <<kernel, out, got>>

\* The callback of connect runs the handshake: the IO thread waits for it.
ConnectTask(p, listening, afterConnect) ==
    /\ IsNext(p, "ssl_connect")
    /\ IF listening
       THEN /\ LET s == Head(proc[p].tasks).who
               IN  Becomes(p, listenReadEvent(afterConnect, s, proc[p].fd[s]))
            /\ connected' = connected \cup {p}
            /\ backlog' = Append(backlog, p)
       ELSE /\ Becomes(p, afterConnect)
            /\ UNCHANGED <<connected, backlog>>
    /\ UNCHANGED <<inbox, out, got, ssl>>

\* aSSLSocketIO::read.
read(p, s) ==
    LET k == Named(proc[p], s) IN IF ssl[s] = "shut" \/ k = None THEN <<>> ELSE Record(inbox[k])

\* The callback of listenReadEvent.  read() gives no sign of an end of file
\* but -1, which is ignored when the socket would block.
ReadReady(p, f, s, afterRead, afterClose) ==
    /\ LET k == Named(proc[p], s)
           dead == ssl[s] = "shut" \/ k = None
           data == read(p, s)
       IN  /\ Becomes(p, EndCallback(
                 CASE data # <<>> -> afterRead
                   [] data = <<>> /\ (dead \/ Hup(k)) -> cancle(afterClose, f)
                   [] OTHER -> proc[p], f))
           /\ inbox' = IF dead THEN inbox ELSE [inbox EXCEPT ![k] = Rest(@)]
           /\ got' = IF data = <<>> THEN got ELSE [got EXCEPT ![k] = @ \o data]
    /\ UNCHANGED <<backlog, connected, out, ssl>>
=============================================================================
