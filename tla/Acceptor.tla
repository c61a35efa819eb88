------------------------------ MODULE Acceptor ------------------------------
(***************************************************************************)
(* The listening socket of source/extention/acceptor.cpp.                  *)
(***************************************************************************)
EXTENDS Net

start(P) == AddTask(P, Task("start", Own, P.fd[Own], <<>>))
asyncStop(P) == AddTask(P, Task("stop", Own, -1, <<>>))

StartTask(p) ==
    /\ IsNext(p, "start")
    /\ Becomes(p, Register(Pop(p), Head(proc[p].tasks).fd, Own))
    /\ UNCHANGED <<kernel, out, got>>

StopTask(p) ==
    /\ IsNext(p, "stop")
    /\ Becomes(p, cancle(Pop(p), proc[p].fd[Own]))
    /\ UNCHANGED <<kernel, out, got>>

\* The callback: one connection is accepted per event; when accept fails (no
\* descriptor is left) the connection stays where it is.
Accepted == <<"srv", Head(backlog)>>
AcceptReady(p, f, afterAccept) ==
    /\ IF backlog = <<>> \/ FreeFds(proc[p]) = {}
       THEN Becomes(p, EndCallback(proc[p], f)) /\ UNCHANGED backlog
       ELSE /\ backlog' = Tail(backlog)
            /\ Becomes(p, EndCallback(afterAccept, f))
    /\ UNCHANGED <<inbox, connected, out, got>>
=============================================================================
