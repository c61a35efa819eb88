---------------------------- MODULE BaseClasses -----------------------------
(***************************************************************************)
(* The classes of base/ that one thread uses by itself: the heaps, the     *)
(* timer manager, the compression streams and the archive.                 *)
(* A behaviour is a program that uses one of them; the others stay as they *)
(* were constructed.                                                       *)
(***************************************************************************)
EXTENDS Integers, Sequences, FiniteSetsExt, Functions

CONSTANTS
    Keys, MaxPushes,                          \* see MinHeap
    Tasks, Intervals, TimeRange, MaxClock,    \* see TimerManager
    Symbols, MaxSource, Chunks,               \* see ZStream
    Paths, MaxFile, BufferSize                \* see Archive

ASSUME SizesAssumption ==
    /\ Chunks \subseteq Nat \ {0} /\ BufferSize \in Nat \ {0}
    /\ TimeRange \in Nat \ {0} /\ Intervals \subseteq 0 .. TimeRange - 1

VARIABLES
    used,    \* the class the program uses
    heapType, bhp, pushed, extracted,
    timerHeap, m_minHeap, clock, interval, waitList, created, armedAt, checkedAt, fresh, ran, dropped,
    chunk, source, split, zpc, avail_in, window, m_valid, m_data, cdata, ddata, zret,
    files, apc, position, entries, old, target, fileAt, outList, aret, unread, unwritten

H == INSTANCE MinHeap
T == INSTANCE TimerManager
Z == INSTANCE ZStream
A == INSTANCE Archive

heapVars == <<heapType, bhp, pushed, extracted>>
timerVars ==
    <<timerHeap, m_minHeap, clock, interval, waitList, created, armedAt, checkedAt, fresh, ran, dropped>>
zVars == <<chunk, source, split, zpc, avail_in, window, m_valid, m_data, cdata, ddata, zret>>
archiveVars ==
    <<files, apc, position, entries, old, target, fileAt, outList, aret, unread, unwritten>>
baseVars == <<used, heapVars, timerVars, zVars, archiveVars>>

\* Of the classes the program does not use, one of the initial states.
BaseInit ==
    /\ used \in {"heap", "timer", "zstream", "archive"}
    /\ H!Init /\ (used # "heap" => heapType = "binary")
    /\ T!Init /\ (used # "timer" => timerHeap = "binary" /\ Range(interval) = {Min(Intervals)})
    /\ Z!Init /\ (used # "zstream" => source = <<<<>>, <<>>>> /\ chunk = Min(Chunks) /\ m_valid)
    /\ A!Init /\ (used # "archive" => \A p \in Paths : ~files[p].there /\ old[p] = <<>>)

Heaps == used = "heap" /\ H!Next /\ UNCHANGED <<used, timerVars, zVars, archiveVars>>
Timers == used = "timer" /\ T!Next /\ UNCHANGED <<used, heapVars, zVars, archiveVars>>
Streams == used = "zstream" /\ Z!Next /\ UNCHANGED <<used, heapVars, timerVars, archiveVars>>
Archives == used = "archive" /\ A!Next /\ UNCHANGED <<used, heapVars, timerVars, zVars>>

BaseNext == Heaps \/ Timers \/ Streams \/ Archives

BaseSpec == BaseInit /\ [][BaseNext]_baseVars

-----------------------------------------------------------------------------
\* Whatever was pushed before, extract_min_pair of both heaps gives the keys
\* back in ascending order, none lost: see MinHeap.
ExtractsSorted == H!ExtractsSorted

\* Each round of the timer takes exactly the tasks that are due and runs them
\* in the order of their times; a task that is armed again meanwhile is neither
\* lost nor doubled (check and proxy_exec): see TimerManager.
TimerRounds == T!NeverEarly /\ T!DueTaken /\ T!RoundInOrder /\ T!TaskOnce

\* What was compressed or packed comes back as it was, however the loops cut
\* the data into buffers: see ZStream and Archive.
DataRestored == Z!RoundTrip /\ A!Unpacked
=============================================================================
