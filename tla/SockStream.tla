----------------------------- MODULE SockStream -----------------------------
(***************************************************************************)
(* A connected stream socket whose operations are tasks of the IO thread   *)
(* and whose reads are driven by the RePoller                              *)
(* (source/extention/sockstream.cpp).  An action that calls the user back *)
(* is given the state of the process after the callback.                   *)
(***************************************************************************)
EXTENDS Net

\* The calls, from any thread: each adds a task that keeps the stream alive.
startListenReadEvent(P, s) == AddTask(P, Task("listen", s, P.fd[s], <<>>))
asend(P, s, data) == IF valid(P, s) THEN AddTask(P, Task("send", s, -1, data)) ELSE P
aclose(P, s) == AddTask(P, Task("close", s, -1, <<>>))
asyncConnect(P, s) == IF valid(P, s) THEN AddTask(P, Task("connect", s, -1, <<>>)) ELSE P

listenReadEvent(P, s, f) == Register(P, f, s)

ListenTask(p) ==
    /\ IsNext(p, "listen")
    /\ LET t == Head(proc[p].tasks) IN Becomes(p, listenReadEvent(Pop(p), t.who, t.fd))
    /\ UNCHANGED <<kernel, out, got>>

\* The number is tested again when the task runs, then whatever it names is
\* written to.
SendTask(p, afterWrite, afterFailure) ==
    /\ IsNext(p, "send")
    /\ LET t == Head(proc[p].tasks)
       IN  \E ret \in {-1, Len(t.data)} :
              IF valid(proc[p], t.who)
              THEN /\ send(Named(proc[p], t.who), t.data, ret)
                   /\ Becomes(p, IF ret < 0 THEN afterFailure ELSE afterWrite)
              ELSE Becomes(p, Pop(p)) /\ UNCHANGED <<inbox, out>>
    /\ UNCHANGED <<backlog, connected, got>>

\* The other outcome of a send to a closed peer.
Killed(p, op) ==
    /\ IsNext(p, op)
    /\ LET k == Named(proc[p], Head(proc[p].tasks).who) IN k \in Streams /\ Hup(k)
    /\ End(p)
    /\ UNCHANGED <<connected, out, got>>

CloseTask(p) ==
    /\ IsNext(p, "close")
    /\ Becomes(p, closeAndNoClear(Pop(p), Head(proc[p].tasks).who))
    /\ UNCHANGED <<kernel, out, got>>

\* ::connect succeeds while the server listens.  The stream listens before the
\* user is told; what the user does then does not touch the poller.
ConnectTask(p, listening, afterConnect) ==
    /\ IsNext(p, "connect")
    /\ IF listening
       THEN /\ LET s == Head(proc[p].tasks).who
               IN  Becomes(p, listenReadEvent(afterConnect, s, proc[p].fd[s]))
            /\ connected' = connected \cup {p}
            /\ backlog' = Append(backlog, p)
       ELSE /\ Becomes(p, afterConnect)
            /\ UNCHANGED <<connected, backlog>>
    /\ UNCHANGED <<inbox, out, got>>

\* tryRead takes all there is, but an end of file or an error behind the data
\* throws it away.
tryRead(p, s) ==
    LET k == Named(proc[p], s) IN IF k = None \/ Hup(k) THEN <<>> ELSE inbox[k]

Consume_Again(k, data) ==
    /\ UNCHANGED inbox
    /\ got' = IF k = None THEN got ELSE [got EXCEPT ![k] = @ \o data]
Consume(k, data) ==
    /\ inbox' = IF k = None THEN inbox ELSE [inbox EXCEPT ![k] = <<>>]
    /\ got' = IF k = None THEN got ELSE [got EXCEPT ![k] = @ \o data]

\* The callback of listenReadEvent, called with EPOLLIN.
ReadReady(p, f, s, afterRead, afterClose) ==
    /\ LET data == tryRead(p, s)
       IN  /\ Becomes(p, EndCallback(IF data = <<>> THEN cancle(afterClose, f) ELSE afterRead, f))
           /\ Consume(Named(proc[p], s), data)
    /\ UNCHANGED <<backlog, connected, out>>
=============================================================================
