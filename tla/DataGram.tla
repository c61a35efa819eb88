------------------------------ MODULE DataGram ------------------------------
(***************************************************************************)
(* A datagram socket (source/extention/datagram.cpp).  A datagram is a     *)
(* record of the sender and a payload; one without content has the payload *)
(* <<>>.                                                                   *)
(***************************************************************************)
EXTENDS Net

startListenReadEvent(P, s) == AddTask(P, Task("dg_listen", s, P.fd[s], <<>>))

\* The address of the receiver travels with the message.
asend(P, s, to, data) ==
    IF valid(P, s) THEN AddTask(P, Task("sendto", s, -1, [to |-> to, data |-> data])) ELSE P
aclose(P, s) == AddTask(P, Task("dg_close", s, -1, <<>>))

ListenTask(p) ==
    /\ IsNext(p, "dg_listen")
    /\ LET t == Head(proc[p].tasks) IN Becomes(p, Register(Pop(p), t.fd, t.who))
    /\ UNCHANGED <<kernel, out, got>>

\* sendto a socket, or to an address that nobody has opened.
SendTask(p) ==
    /\ IsNext(p, "sendto")
    /\ LET t == Head(proc[p].tasks)
           k == Named(proc[p], t.who)
       IN  /\ out' = IF k = None THEN out
                     ELSE [out EXCEPT ![k] = Append(@, t.data)]
           /\ inbox' = IF k # None /\ t.data.to \in Range(proc[Proc(t.data.to)].table)
                       THEN [inbox EXCEPT ![t.data.to] =
                                Append(@, [from |-> t.who, data |-> t.data.data])]
                       ELSE inbox
    /\ Becomes(p, Pop(p))
    /\ UNCHANGED <<backlog, connected, got>>

\* The descriptor is closed, its callback stays and is called by hand.
CloseTask(p) ==
    /\ IsNext(p, "dg_close")
    /\ LET s == Head(proc[p].tasks).who
       IN  Becomes(p, notifyEvents(closeAndNoClear(Pop(p), s), proc[p].fd[s]))
    /\ UNCHANGED <<kernel, out, got>>

\* The callback of listenReadEvent.  tryRead takes one datagram; it blocks
\* when there is none and fails on a closed descriptor.  A datagram without
\* content is taken for a close and ends the listening, a failure does not.
ReadReady(p, f, s, afterRead, afterClose) ==
    /\ LET k == Named(proc[p], s)
       IN  IF k = None
           THEN /\ Becomes(p, EndCallback(afterClose, f))
                /\ UNCHANGED <<inbox, got>>
           ELSE /\ inbox[k] # <<>>
                /\ Becomes(p, EndCallback(IF Head(inbox[k]).data = <<>>
                                          THEN cancle(afterClose, f)
                                          ELSE afterRead, f))
                /\ got' = [got EXCEPT ![k] = Append(@, Head(inbox[k]))]
                /\ inbox' = [inbox EXCEPT ![k] = Tail(@)]
    /\ UNCHANGED <<backlog, connected, out>>
=============================================================================
