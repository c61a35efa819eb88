-------------------------------- MODULE Net --------------------------------
(***************************************************************************)
(* Processes that talk through sockets.  Each process has a main thread,   *)
(* one IO thread (worker 0 of its TaskDistributor), one RePoller and one   *)
(* descriptor table; base::Socket (source/base/socket.cpp) is the number   *)
(* it keeps, which may outlive the descriptor.                             *)
(*                                                                         *)
(* The state of a process is a record, and what its code does is an        *)
(* operator from that record to the next one, so that a callback can make  *)
(* several calls in one step.  Tasks, polls and callbacks run one after    *)
(* the other on the IO thread.  A payload is a sequence of tokens; a       *)
(* stream socket joins payloads, a datagram socket keeps them apart.       *)
(***************************************************************************)
EXTENDS Integers, Sequences, FiniteSets, FiniteSetsExt, SequencesExt, Functions

CONSTANTS
    Clients,    \* the processes that talk to the server
    Fds,        \* the descriptor numbers a process may open
    None        \* no socket, no stream

Server == "server"
Procs == Clients \cup {Server}

\* A Socket is valid when its number is above 0; a process can have one open.
ASSUME FdsAssumption == Fds \subseteq Nat \ {0} /\ Fds # {}
ASSUME NamesAssumption == Server \notin Clients /\ None \notin {"srv", "cli"} \X Procs

Own == <<"srv", Server>>                  \* the server's listener or datagram socket
Streams == {"srv", "cli"} \X Clients      \* the two ends of each connection
Socks == Streams \cup {Own}
Proc(s) == IF s[1] = "srv" THEN Server ELSE s[2]
Peer(s) == <<IF s[1] = "srv" THEN "cli" ELSE "srv", s[2]>>

VARIABLES
    proc,       \* proc[p]: the state of a process, see NewProcess
    inbox,      \* external: inbox[s], what the kernel holds for socket s
    backlog,    \* external: connections the server has not accepted
    connected,  \* external: clients whose connect succeeded
    out,        \* history: out[s], what was written to s
    got         \* history: got[s], what the callbacks of s were given

kernel == <<inbox, backlog, connected>>
net == <<proc, kernel, out, got>>
NoMap == [f \in {} |-> None]

\* map[key] = value
Put(map, key, value) ==
    [k \in DOMAIN map \cup {key} |-> IF k = key THEN value ELSE map[k]]

\* What an IO_TASK captured: the call, the stream it keeps alive, the
\* descriptor number it copied and the payload.
Task(op, who, fd, data) == [op |-> op, who |-> who, fd |-> fd, data |-> data]
Work == Task("work", None, -1, <<>>)

NewProcess ==
    [main      |-> "off",                       \* where main() is
     promise   |-> "none",                      \* what the connect callback told it
     sent      |-> 0,                           \* messages it has sent
     exit      |-> FALSE,                       \* m_exit
     slot      |-> {},                          \* the frame in its shared memory, if any
     uid       |-> 1,                           \* m_uid, the next frame's number
     tasks     |-> <<>>,                        \* the queue of the IO thread
     batch     |-> {},                          \* descriptors the running poll has yet to call back
     blocked   |-> None,                        \* the stream whose handshake the IO thread waits in
     fd        |-> [s \in Socks |-> -1],        \* Socket::m_fd of its sockets
     table     |-> [f \in Fds |-> None],        \* external: the open descriptors
     interest  |-> {},                          \* external: the epoll instance
     callbacks |-> NoMap,                       \* RePoller's m_callbacks
     custom    |-> {},                          \* descriptors in m_customEvents
     objects   |-> NoMap]                       \* RePoller's m_objects

\* What the kernel, the peers and the poller's users rely on.
NetTypeOK ==
    /\ \A p \in Procs :
          /\ proc[p].main \in {"off", "wait", "send", "loop", "end"}
          /\ proc[p].promise \in {"none", "true", "false"}
          /\ proc[p].fd \in [Socks -> Fds \cup {-1}]
          /\ proc[p].table \in [Fds -> Socks \cup {None}]
          /\ proc[p].interest \subseteq Fds /\ proc[p].batch \subseteq Fds
          /\ Range(proc[p].callbacks) \cup Range(proc[p].objects) \subseteq Socks
    /\ connected \subseteq Clients /\ Range(backlog) \subseteq connected

Up(p) == proc[p].main \notin {"off", "end"}
AddTask(P, t) == [P EXCEPT !.tasks = Append(@, t)]
SetExit(P) == [P EXCEPT !.exit = TRUE]

-----------------------------------------------------------------------------
(* base::Socket *)

valid(P, s) == P.fd[s] > 0

\* The socket that the number kept in s names now.
Named(P, s) == IF P.fd[s] \in Fds THEN P.table[P.fd[s]] ELSE None

\* ::close of each descriptor of a set; epoll forgets a closed descriptor.
CloseFds(P, F) ==
    [P EXCEPT !.table = [f \in Fds |-> IF f \in F THEN None ELSE @[f]],
              !.interest = @ \ F]

closeAndNoClear(P, s) == CloseFds(P, {P.fd[s]})

FreeFds(P) == {f \in Fds : P.table[f] = None}

\* Socket(domain, type, protocol) or accept: the kernel hands out the lowest number.
Open(P, s) ==
    LET f == Min(FreeFds(P))
    IN  [P EXCEPT !.fd[s] = f, !.table[f] = s]

\* A shared_ptr to an accepted stream is in a task, in the object map, or on
\* the stack of the IO thread; main() keeps the other streams.
Referenced(P, s) ==
    \/ s \notin {"srv"} \X Clients
    \/ \E i \in DOMAIN P.tasks : P.tasks[i].who = s
    \/ s \in Range(P.objects)
    \/ P.blocked = s

\* ~Socket, run by the streams that lose their last reference.
Destroy_Leaks(P, dead) == [P EXCEPT !.fd = [s \in Socks |-> IF s \in dead THEN -1 ELSE @[s]]]
Destroy(P, dead) ==
    [CloseFds(P, {P.fd[s] : s \in dead})
        EXCEPT !.fd = [s \in Socks |-> IF s \in dead THEN -1 ELSE @[s]]]

Unreferenced(P) == {s \in Socks : valid(P, s) /\ ~Referenced(P, s)}

-----------------------------------------------------------------------------
(* What the kernel does for connected sockets (external). *)

\* The other end of s is closed.
Hup(s) ==
    /\ s[2] \in connected
    /\ s[1] = "srv" \/ s[2] \notin Range(backlog)
    /\ \A f \in Fds : proc[Proc(Peer(s))].table[f] # Peer(s)

Readable(k) ==
    \/ k = Own /\ (backlog # <<>> \/ inbox[k] # <<>>)
    \/ k \in Streams /\ (inbox[k] # <<>> \/ Hup(k))

\* ::send on a connected socket.  To a closed peer it may still succeed (the
\* data is lost), fail, or raise SIGPIPE, which nothing in the code handles.
send(k, data, ret) ==
    CASE k = None -> ret = -1 /\ UNCHANGED <<inbox, out>>
      [] k # None /\ Hup(k) ->
            /\ ret \in {-1, Len(data)}
            /\ out' = [out EXCEPT ![k] = IF ret = -1 THEN @ ELSE @ \o data]
            /\ UNCHANGED inbox
      [] OTHER ->
            /\ ret = Len(data)
            /\ out' = [out EXCEPT ![k] = @ \o data]
            /\ inbox' = [inbox EXCEPT ![Peer(k)] = @ \o data]

\* What aSSLSocketIO::read makes of the data of a socket: a record carries one
\* token, OpenSSL's own records (session tickets) the token 0, and the first
\* record with data is all that is read.
Ticket == 0
DataIn(box) == {i \in DOMAIN box : box[i] # Ticket}
Record(box) == IF DataIn(box) = {} THEN <<>> ELSE <<box[Min(DataIn(box))]>>
Rest(box) == IF DataIn(box) = {} THEN <<>> ELSE SubSeq(box, Min(DataIn(box)) + 1, Len(box))

-----------------------------------------------------------------------------
(* The IO thread and its RePoller. *)

\* The next thing the IO thread does is the task at the head of the queue.
Idle(p) == Up(p) /\ proc[p].blocked = None /\ proc[p].batch = {}
IsNext(p, op) == Idle(p) /\ proc[p].tasks # <<>> /\ Head(proc[p].tasks).op = op
Pop(p) == [proc[p] EXCEPT !.tasks = Tail(@)]

\* The end of a step of process p.
Becomes(p, P) ==
    \E Q \in {P} : proc' = [proc EXCEPT ![p] = Destroy(Q, Unreferenced(Q))]

\* RePoller::work up to its loop: the events sent by hand and those of epoll.
\* A poll that finds nothing goes to the end of the queue at once.
work(p) ==
    /\ IsNext(p, "work")
    /\ LET P == proc[p]
           ready == P.custom \cup {f \in P.interest : Readable(P.table[f])}
       IN  Becomes(p, IF ready = {}
                      THEN AddTask(Pop(p), Work)
                      ELSE [Pop(p) EXCEPT !.batch = ready, !.custom = {}])
    /\ UNCHANGED <<kernel, out, got>>

\* The loop of work() comes to descriptor f, in the order of a std::map.
Reached(p, f) ==
    /\ Up(p) /\ proc[p].blocked = None
    /\ proc[p].batch # {} /\ f = Min(proc[p].batch)

\* The stream whose callback is called for f: None when there is no callback
\* any more, or when its stream is gone and wsstream.lock() fails.
CalledFor(p, f) ==
    LET s == IF f \in DOMAIN proc[p].callbacks THEN proc[p].callbacks[f] ELSE None
    IN  IF s # None /\ valid(proc[p], s) THEN s ELSE None

\* The loop goes on after the callback of f; the last one adds the next poll.
EndCallback(P, f) ==
    [P EXCEPT !.batch = @ \ {f},
              !.tasks = IF P.batch = {f} THEN Append(@, Work) ELSE @]

cancle(P, f) ==
    [P EXCEPT !.callbacks = Restrict(@, DOMAIN @ \ {f}), !.interest = @ \ {f}]

notifyEvents(P, f) == [P EXCEPT !.custom = IF f \in DOMAIN P.callbacks THEN @ \cup {f} ELSE @]

\* append(f, EPOLLIN), which fails for a closed descriptor, and
\* setReadyCallback for stream s.
Register(P, f, s) ==
    [P EXCEPT !.interest = IF f \in Fds /\ P.table[f] # None THEN @ \cup {f} ELSE @,
              !.callbacks = Put(@, f, s)]

\* saveObject(f, true, s) and findObject(f, true), and their tasks.
saveObject(P, f, s) == AddTask(P, Task("save", s, f, <<>>))
findObject(P, f) == AddTask(P, Task("find", None, f, <<>>))

SaveTask(p) ==
    /\ IsNext(p, "save")
    /\ LET t == Head(proc[p].tasks)
       IN  Becomes(p, [Pop(p) EXCEPT !.objects = Put(@, t.fd, t.who)])
    /\ UNCHANGED <<kernel, out, got>>

FindTask(p) ==
    /\ IsNext(p, "find")
    /\ LET t == Head(proc[p].tasks)
       IN  Becomes(p, [Pop(p) EXCEPT !.objects = Restrict(@, DOMAIN @ \ {t.fd})])
    /\ UNCHANGED <<kernel, out, got>>

-----------------------------------------------------------------------------
\* A process that ends leaves its descriptors to the kernel, and the server's
\* listener its backlog.
End(p) ==
    /\ proc' = [proc EXCEPT ![p] = [NewProcess EXCEPT !.main = "end"]]
    /\ backlog' = IF p = Server THEN <<>> ELSE backlog
    /\ inbox' = [s \in Socks |-> IF Proc(s) = p THEN <<>> ELSE inbox[s]]

NetInit ==
    /\ proc = [p \in Procs |-> NewProcess]
    /\ inbox = [s \in Socks |-> <<>>]
    /\ backlog = <<>>
    /\ connected = {}
    /\ out = [s \in Socks |-> <<>>]
    /\ got = [s \in Socks |-> <<>>]
=============================================================================
