----------------------------- MODULE IOService ------------------------------
(***************************************************************************)
(* IOService, an EventsService on an io_uring, and the files of io_file    *)
(* that submit requests to it.  A request is the record submitRequest is   *)
(* given: whose file it is about, the operation and the descriptor.        *)
(***************************************************************************)
EXTENDS EventLoop, Functions

CONSTANTS
    IOKey,      \* the key of the IOService
    Entries,    \* entries of the submission queue
    Files, Fds, None,
    MaxFails    \* bound: submits that fail

ASSUME IOAssumption ==
    /\ IOKey \in Keys /\ Entries \in Nat \ {0} /\ MaxFails \in Nat
    /\ Fds \subseteq Nat \ {0} /\ None \notin Files

VARIABLES
    requests,   \* m_request_submit_queue
    contexts,   \* m_fds_context: a request for each uid
    sq, ring,   \* uids prepared for the kernel, and with the kernel
    cq,         \* completions: [uid, res]
    m_used,
    phase,      \* of processEvents: notify, wait, handle
    events,     \* what the notifier returned and is not yet handled
    uids,       \* the uid counter
    lost,       \* history: uids for which no entry was found
    answered,   \* history: uids whose callback was called
    fails,      \* submits that failed
    table,      \* the descriptors of the process: the file that opened it
    held,       \* m_fd of the io_file that main() owns, for each file
    closers,    \* history: files that were closed explicitly
    stolen      \* history: a file has closed another file's descriptor

ringVars == <<requests, contexts, sq, ring, cq, m_used, phase, events, uids, lost, answered, fails>>
fileVars == <<table, held, closers, stolen>>

IOInit ==
    /\ requests = <<>> /\ contexts = <<>>
    /\ sq = {} /\ ring = {} /\ cq = <<>>
    /\ m_used = 0 /\ phase = "notify" /\ events = <<>>
    /\ uids = 1 /\ lost = {} /\ answered = {} /\ fails = 0
    /\ table = [f \in Fds |-> None]
    /\ held = [x \in Files |-> -1]
    /\ closers = {} /\ stolen = FALSE

IOThread == doScheduleU(IOKey)
Serving == cursor[IOThread] = IOKey

-----------------------------------------------------------------------------
(* IOService *)

\* create_uid_u64 and submitRequest.
Submit(x, op, fd) ==
    /\ requests' = Append(requests, [uid |-> uids, file |-> x, op |-> op, fd |-> fd])
    /\ uids' = uids + 1

\* find_empty_sqe finds one of these.
FreeEntries == Entries - Cardinality(sq)

\* submitRequest_Private for all that working_request took: the context is kept
\* first, and then there may be no entry.
working_request(reqs) ==
    LET n == IF Len(reqs) <= FreeEntries THEN Len(reqs) ELSE FreeEntries
        new == {reqs[i].uid : i \in DOMAIN reqs}
    IN  /\ contexts' = [u \in new \cup DOMAIN contexts |->
                           IF u \in new THEN CHOOSE r \in Range(reqs) : r.uid = u ELSE contexts[u]]
        /\ sq' = sq \cup {reqs[i].uid : i \in 1 .. n}
        /\ lost' = lost \cup {reqs[i].uid : i \in n + 1 .. Len(reqs)}
        /\ m_used' = m_used + n

\* The notifier up to io_uring_submit.  sqe_used() is m_size: it always submits.
Notifier ==
    /\ Serving /\ phase = "notify"
    /\ working_request(requests)
    /\ requests' = <<>>
    /\ phase' = "submit"
    /\ UNCHANGED <<ring, cq, events, uids, answered, fails>>

io_uring_submit ==
    /\ Serving /\ phase = "submit"
    /\ ring' = ring \cup sq /\ sq' = {}
    /\ phase' = "wait"
    /\ UNCHANGED <<requests, contexts, cq, m_used, events, uids, lost, answered, fails>>

\* ret < 0: the entries stay prepared, nothing is collected in this turn.
SubmitFails ==
    /\ Serving /\ phase = "submit" /\ sq # {} /\ fails < MaxFails
    /\ fails' = fails + 1
    /\ phase' = "handle" /\ events' = <<>>
    /\ UNCHANGED <<requests, contexts, sq, ring, cq, m_used, uids, lost, answered>>

\* io_uring_wait_cqes returns within a microsecond with what is there.
Collect_Twice ==
    /\ Serving /\ phase = "wait"
    /\ events' = cq /\ cq' = cq
    /\ m_used' = m_used - Len(cq)
    /\ phase' = "handle"
    /\ UNCHANGED <<requests, contexts, sq, ring, uids, lost, answered, fails>>
Collect ==
    /\ Serving /\ phase = "wait"
    /\ events' = cq /\ cq' = <<>>
    /\ m_used' = m_used - Len(cq)
    /\ phase' = "handle"
    /\ UNCHANGED <<requests, contexts, sq, ring, uids, lost, answered, fails>>

\* The events handler, after onEvents returned true: the context goes.
Handled(u) ==
    /\ events' = Tail(events)
    /\ contexts' = Restrict(contexts, DOMAIN contexts \ {u})
    /\ answered' = answered \cup {u}
    /\ UNCHANGED <<sq, ring, cq, m_used, phase, lost, fails>>

-----------------------------------------------------------------------------
(* The kernel *)

Free == {f \in Fds : table[f] = None}

\* close(fd) for file x.
close(x, fd) ==
    IF fd \in Fds
    THEN /\ table' = [table EXCEPT ![fd] = None]
         /\ stolen' = (stolen \/ table[fd] \notin {None, x})
    ELSE UNCHANGED <<table, stolen>>

Opens(x, fd) == table' = [table EXCEPT ![fd] = x]

Complete(u) ==
    /\ u \in ring
    /\ LET r == contexts[u]
           done(res) == cq' = Append(cq, [uid |-> u, res |-> res])
       IN  CASE r.op = "open" ->
                  \/ /\ Free # {}
                     /\ LET fd == CHOOSE f \in Free : \A g \in Free : f <= g
                        IN  Opens(r.file, fd) /\ done(fd)
                     /\ UNCHANGED stolen
                  \/ done(-1) /\ UNCHANGED <<table, stolen>>
             [] r.op = "close" -> close(r.file, r.fd) /\ done(0)
             [] OTHER -> done(1) /\ UNCHANGED <<table, stolen>>
    /\ ring' = ring \ {u}
    /\ UNCHANGED <<requests, contexts, sq, m_used, phase, events, uids, lost, answered, fails, held, closers>>

-----------------------------------------------------------------------------
(* io_file, called by main() *)

\* async_open leaves this io_file alone: the callback gets another one.
async_open(x) ==
    /\ Submit(x, "open", -1)
    /\ UNCHANGED <<contexts, sq, ring, cq, m_used, phase, events, lost, answered, fails, fileVars>>

\* async_read, async_write and async_close: take_handle, then the request.
async_op_Keeps(x, op) ==
    /\ held[x] >= 0
    /\ Submit(x, op, held[x])
    /\ UNCHANGED <<contexts, sq, ring, cq, m_used, phase, events, lost, answered, fails, fileVars>>
async_op(x, op) ==
    /\ held[x] >= 0
    /\ Submit(x, op, held[x])
    /\ held' = [held EXCEPT ![x] = -1]
    /\ closers' = IF op = "close" THEN closers \cup {x} ELSE closers
    /\ UNCHANGED <<contexts, sq, ring, cq, m_used, phase, events, lost, answered, fails, table, stolen>>

immediately_open(x) ==
    /\ held[x] < 0 /\ Free # {}
    /\ LET fd == CHOOSE f \in Free : \A g \in Free : f <= g
       IN  Opens(x, fd) /\ held' = [held EXCEPT ![x] = fd]
    /\ UNCHANGED <<ringVars, closers, stolen>>

\* m_fd keeps the number.
immediately_close(x) ==
    /\ held[x] >= 0
    /\ close(x, held[x])
    /\ closers' = closers \cup {x}
    /\ UNCHANGED <<ringVars, held>>

\* ~io_file: one more immediately_close.
Destruct(x) ==
    /\ held[x] >= 0
    /\ close(x, held[x])
    /\ held' = [held EXCEPT ![x] = -1]
    /\ UNCHANGED <<ringVars, closers>>

-----------------------------------------------------------------------------
(* io_file, in the completion of a request: a local io_file takes the       *)
(* descriptor over, the user's callback may submit the next request with it *)
(* (next, or None), and its destructor closes what it still has.            *)

Completion(next) ==
    /\ Serving /\ phase = "handle" /\ events # <<>>
    /\ LET e == Head(events)
           r == contexts[e.uid]
           fd == IF r.op = "open" THEN e.res ELSE r.fd
       IN  /\ Handled(e.uid)
           /\ closers' = IF next = "close" THEN closers \cup {r.file} ELSE closers
           /\ IF next # None /\ fd > 0
              THEN Submit(r.file, next, fd) /\ UNCHANGED <<table, stolen>>
              ELSE close(r.file, fd) /\ UNCHANGED <<requests, uids>>
    /\ UNCHANGED held
=============================================================================
