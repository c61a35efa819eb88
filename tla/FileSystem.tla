----------------------------- MODULE FileSystem -----------------------------
(***************************************************************************)
(* The programs that use files and the event loop.  part says which runs:  *)
(*   loop   a program that adds, changes, finds and removes services       *)
(*   io     example_io_file.cpp, with more files and more operations       *)
(*   afile  example_afio.cpp, with more calls                              *)
(***************************************************************************)
EXTENDS IOService, AFile

CONSTANTS
    MyFiles,     \* the files main() opens itself; the loop opens the others
    MaxConfig,   \* bound: configuration calls of main()
    MaxRequests  \* bound: requests to the IOService

VARIABLES part, configs

vars == <<part, configs, loopVars, ringVars, fileVars, afileVars>>
rest == <<part, configs, afileVars>>

Init ==
    /\ part \in {"loop", "io", "afile"}
    /\ configs = 0
    /\ LoopInit /\ IOInit /\ AFileInit

-----------------------------------------------------------------------------
(* main() *)

Configure(key) ==
    /\ part = "loop" /\ configs < MaxConfig
    /\ configs' = configs + 1
    /\ addService(key) \/ delService(key) \/ modService(key) \/ findService(key)
    /\ UNCHANGED <<part, afileVars, ringVars, fileVars>>

\* test_io_file: start, then the one service.
Start ==
    /\ part # "afile" /\ start
    /\ UNCHANGED <<rest, ringVars, fileVars>>

AddIOService ==
    /\ part = "io" /\ addService(IOKey)
    /\ UNCHANGED <<rest, ringVars, fileVars>>

\* main() and its files.  A file is open once at a time.
Unused(x) ==
    /\ x \notin Range(table) /\ held[x] < 0
    /\ \A i \in DOMAIN requests : requests[i].file # x
    /\ \A u \in DOMAIN contexts : contexts[u].file # x

UseFile(x) ==
    /\ part = "io" /\ main = "run" /\ IOKey \in wanted
    /\ \/ uids <= MaxRequests /\ x \notin MyFiles /\ Unused(x) /\ async_open(x)
       \/ x \in MyFiles \ closers /\ Unused(x) /\ immediately_open(x)
       \/ \E op \in {"write", "close"} : uids <= MaxRequests /\ async_op(x, op)
       \/ x \notin closers /\ immediately_close(x)
       \/ Destruct(x)
    /\ UNCHANGED <<rest, loopVars>>

\* The end of test_io_file, and of the process after it.
Finish ==
    /\ part # "afile"
    /\ Destroy \/ Joined
    /\ UNCHANGED <<rest, ringVars, fileVars>>

-----------------------------------------------------------------------------
(* The threads of the loop *)

\* A turn of a thread that has no service and no task changes nothing.
Busy(t) == services[t] # {} \/ \E i \in DOMAIN tasks[t] : tasks[t][i] # Step

LoopThread(t) ==
    \/ /\ (Busy(t) /\ Take(t)) \/ RunConfig(t) \/ processEvents(t)
       /\ UNCHANGED <<ringVars, fileVars>>
    \/ /\ cursor[t] # IOKey /\ Processed(t)
       /\ UNCHANGED <<ringVars, fileVars>>

IOServiceTurn ==
    \/ /\ Notifier \/ io_uring_submit \/ SubmitFails \/ Collect
       /\ UNCHANGED <<loopVars, fileVars>>
    \/ /\ \E next \in {None, "read", "close"} :
             (next # None => uids <= MaxRequests) /\ Completion(next)
       /\ UNCHANGED loopVars
    \/ /\ Serving /\ phase = "handle" /\ events = <<>>
       /\ Processed(IOThread)
       /\ phase' = "notify"
       /\ UNCHANGED <<requests, contexts, sq, ring, cq, m_used, events, uids, lost, answered, fails, fileVars>>

\* A callback that looks for its own service.
FindSelf ==
    /\ Serving /\ phase = "handle" /\ events # <<>>
    /\ findServiceInline(IOThread, IOKey)
    /\ UNCHANGED <<ringVars, fileVars>>

Kernel ==
    /\ \E u \in ring : Complete(u)
    /\ UNCHANGED <<rest, loopVars>>

Worker(t) ==
    /\ part # "afile"
    /\ LoopThread(t) \/ (t = IOThread /\ (IOServiceTurn \/ FindSelf))
    /\ UNCHANGED rest

AFileStep ==
    /\ part = "afile" /\ AFileNext
    /\ UNCHANGED <<part, configs, loopVars, ringVars, fileVars>>

Next ==
    \/ Start \/ AddIOService \/ Finish
    \/ \E key \in Keys \ {IOKey} : Configure(key)
    \/ \E x \in Files : UseFile(x)
    \/ \E t \in Threads : Worker(t)
    \/ Kernel
    \/ AFileStep

\* Threads are scheduled, the kernel completes what it was given, join returns.
Fairness ==
    /\ \A t \in Threads : WF_vars(Worker(t))
    /\ WF_vars(Kernel) /\ WF_vars(Finish /\ main' = "end")
    /\ WF_vars(part = "afile" /\ (IOTasks \/ Return) /\ UNCHANGED <<part, configs, loopVars, ringVars, fileVars>>)

Spec == Init /\ [][Next]_vars /\ Fairness

-----------------------------------------------------------------------------
(* Properties *)

FileTypeOK ==
    /\ \A t \in Threads : services[t] \subseteq Keys /\ cursor[t] \in Keys \cup {Nowhere}
    /\ main \in {"new", "run", "join", "end"}
    /\ m_used \in Nat
    /\ \A f \in Fds : table[f] \in Files \cup {None}
    /\ io \in {"run", "spin", "abort", "end"} /\ m_file \in Paths \cup {NoPath}

\* findService finds what the caller has added before, and delService erases
\* something that is there, although both are tasks on the thread that owns
\* the key.  With a negative key they are not the thread addService chose.
ConfigInOrder == \A key \in failures : key < 0

Uids(S) == {S[i].uid : i \in DOMAIN S}

\* A request is in one place of its way: waiting, prepared, with the kernel,
\* completed, handled once, or dropped because there was no entry for it.
EachRequestOnce ==
    LET places == <<Uids(requests), sq, ring, Uids(cq), Uids(events), answered, lost>>
    IN  /\ UNION Range(places) = 1 .. uids - 1
        /\ \A i, j \in DOMAIN places : i # j => places[i] \cap places[j] = {}
        /\ m_used = Cardinality(sq \cup ring) + Len(cq)

\* Who has the number of an open descriptor: a request on its way, the result of
\* an open, or the io_file of main().
Holders(x, fd) ==
    {<<"request", i>> : i \in {j \in DOMAIN requests : requests[j].fd = fd /\ requests[j].file = x}}
        \cup {<<"context", u>> : u \in {v \in DOMAIN contexts : contexts[v].fd = fd /\ contexts[v].file = x}}
        \cup {<<"opened", e.uid>> : e \in {d \in Range(cq) \cup Range(events) :
                 contexts[d.uid].op = "open" /\ contexts[d.uid].file = x /\ d.res = fd}}
        \cup {<<"main", y>> : y \in {z \in {x} : held[z] = fd}}

\* An open descriptor has exactly one holder, from the open to its last
\* completion: none leaks and none is closed twice, unless the file was closed
\* explicitly: async_close and immediately_close close, and the destructor of
\* the io_file closes the number again.
OneHolder ==
    \A fd \in Fds : table[fd] # None /\ table[fd] \notin closers /\ ~stolen =>
        Cardinality(Holders(table[fd], fd)) = 1

StealsOnlyAfterClose == stolen => closers # {}

\* A read of main() reads the file main() last asked to open before it.
ReadsWhatWasOpened == \A i \in DOMAIN reads : reads[i][1] = reads[i][2]

\* Files are what their user thinks they are: a descriptor number stays with
\* the one io_file that has it until it is closed, and what AFile reads is
\* what areopen was last asked for.
FilesHeld == FileTypeOK /\ OneHolder /\ StealsOnlyAfterClose /\ ReadsWhatWasOpened

\* A request that was accepted is answered, unless there was no entry for it
\* or the loop is destroyed first.
RequestAnswered ==
    \A u \in 1 .. MaxRequests :
        (u < uids) ~> (u \in answered \/ u \in lost \/ main \in {"join", "end"})

\* Destroying the loop joins its threads, although each keeps giving itself the
\* next step.
LoopStops == main = "join" ~> main = "end"

\* The threads of the loop serve the IOService until they are told to stop, and
\* then they do stop.
LoopServes == RequestAnswered /\ LoopStops

\* Every call of an AFile is answered, unless the process aborts or ends or the
\* IO thread is caught in a read that fails.
CallsAnswered == (queue # <<>>) ~> (queue = <<>> \/ io # "run")
=============================================================================
