------------------------------- MODULE AFile --------------------------------
(***************************************************************************)
(* AFile: every call becomes a task of the IO thread of a TaskDistributor. *)
(* The calls are made by main(); a path is a regular file or a directory,  *)
(* which can be opened but not read.                                       *)
(***************************************************************************)
EXTENDS Integers, Sequences, SequencesExt

CONSTANTS Paths, Directory, NoPath, MaxCalls    \* MaxCalls: bound on the calls of main()

ASSUME AFileAssumption == Directory \in Paths /\ NoPath \notin Paths /\ MaxCalls \in Nat

VARIABLES
    queue,      \* the tasks of the IO thread
    m_file,     \* the path that is open, or NoPath
    io,         \* the IO thread: run, spin, or the process: abort, end
    g_exit,
    calls,      \* calls made by main()
    last,       \* history: the path main() last asked to open
    reads       \* history: the reads of main(): the path it means, the path read

afileVars == <<queue, m_file, io, g_exit, calls, last, reads>>

AFileInit ==
    /\ queue = <<>> /\ m_file = NoPath /\ io = "run" /\ g_exit = FALSE
    /\ calls = 0 /\ last = NoPath /\ reads = <<>>

Push(op, path, own) == Append(queue, [op |-> op, path |-> path, own |-> own])

Call(op, path) ==
    /\ io \in {"run", "spin"} /\ ~g_exit /\ calls < MaxCalls
    /\ calls' = calls + 1
    /\ queue' = Push(op, path, TRUE)
    /\ UNCHANGED <<m_file, io, g_exit, reads>>

areopen(path) == Call("open", path) /\ last' = path
aread == Call("read", last) /\ UNCHANGED last
asend == Call("send", last) /\ UNCHANGED last
aclose == Call("close", NoPath) /\ last' = NoPath

IsNextOp(op) == io = "run" /\ queue # <<>> /\ Head(queue).op = op

\* The callback of areopen in testAFIO reads when the file is open.
onControl(ok, path) == IF ok THEN Append(Tail(queue), [op |-> "read", path |-> path, own |-> FALSE])
                             ELSE Tail(queue)

open(ok, path) == IF ok THEN path ELSE NoPath

\* A file that is open is closed first, also when the other one cannot be opened.
OpenTask ==
    /\ IsNextOp("open")
    /\ \E ok \in BOOLEAN :
          /\ m_file' = open(ok, Head(queue).path)
          /\ queue' = onControl(ok, Head(queue).path)
    /\ UNCHANGED <<io, g_exit, calls, last, reads>>

CloseTask ==
    /\ IsNextOp("close")
    /\ m_file' = NoPath
    /\ queue' = Tail(queue)
    /\ UNCHANGED <<io, g_exit, calls, last, reads>>

\* switchNonblock asserts; with NDEBUG it returns false, which nobody looks at.
switchNonblock(io2) == \/ m_file # NoPath /\ io2 = "run"
                       \/ m_file = NoPath /\ io2 \in {"abort", "run"}

SendTask ==
    /\ IsNextOp("send")
    /\ \E io2 \in {"run", "abort"} : switchNonblock(io2) /\ io' = io2
    /\ queue' = Tail(queue)
    /\ UNCHANGED <<m_file, g_exit, calls, last, reads>>

\* The loop ends at 0 and EAGAIN only: any other error is read again, for ever.
ReadTask_Again ==
    /\ IsNextOp("read")
    /\ \E io2 \in {"run", "abort"} : switchNonblock(io2) /\ io' = io2
    /\ queue' = IF m_file \in {NoPath, Directory} THEN Append(Tail(queue), Head(queue)) ELSE Tail(queue)
    /\ UNCHANGED <<m_file, g_exit, calls, last, reads>>
ReadTask ==
    /\ IsNextOp("read")
    /\ \E io2 \in {"run", "abort"} :
          /\ switchNonblock(io2)
          /\ io' = IF io2 = "run" /\ m_file \in {NoPath, Directory} THEN "spin" ELSE io2
          /\ reads' = IF io' = "run" /\ Head(queue).own
                      THEN Append(reads, <<Head(queue).path, m_file>>) ELSE reads
    /\ queue' = IF io' = "run" THEN Tail(queue) ELSE queue
    /\ UNCHANGED <<m_file, g_exit, calls, last>>

\* SIGINT.
AFileInterrupt ==
    /\ io \in {"run", "spin"} /\ ~g_exit
    /\ g_exit' = TRUE
    /\ UNCHANGED <<queue, m_file, io, calls, last, reads>>

\* testAFIO returns: the distributor is joined between two batches, the tasks
\* that are left are freed, and with the last of them the file is closed.
Return ==
    /\ g_exit /\ io = "run"
    /\ io' = "end" /\ queue' = <<>> /\ m_file' = NoPath
    /\ UNCHANGED <<g_exit, calls, last, reads>>

IOTasks == OpenTask \/ CloseTask \/ SendTask \/ ReadTask

AFileNext ==
    \/ \E p \in Paths : areopen(p)
    \/ aread \/ asend \/ aclose
    \/ IOTasks
    \/ AFileInterrupt \/ Return
=============================================================================
