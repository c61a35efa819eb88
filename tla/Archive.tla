------------------------------ MODULE Archive -------------------------------
(***************************************************************************)
(* Archive (source/base/zlibstream.cpp) and testArchive of                 *)
(* example_zlibstream.cpp: files are added to an archive one by one, and   *)
(* the archive is unpacked into a directory.  libarchive and the file      *)
(* system are external.  One step is one turn of a loop.                   *)
(***************************************************************************)
EXTENDS Integers, Sequences, SequencesExt, FiniteSetsExt, Functions

CONSTANTS
    Paths,      \* the files to add, in the order of their numbers
    MaxFile,    \* bound on the length of a file
    BufferSize  \* buffer.size()

VARIABLES
    files,      \* external: the contents of each file, or "none"
    apc,        \* what the program does next
    position,   \* how much of the current file or entry has been copied
    entries,    \* external: the entries of the archive
    old,        \* external: what an earlier run left in the directory
    target,     \* external: the files of the directory it is unpacked into
    fileAt,     \* external: the position of the file that is being unpacked
    outList,    \* what decompress lists
    aret,       \* the return codes of compress
    unread,     \* history: the files that compress did not read to the end
    unwritten   \* history: the files that decompress did not write in full

Contents == BoundedSeq({0, 1}, MaxFile)

Init ==
    /\ files \in [Paths -> {[there |-> TRUE, data |-> c] : c \in Contents}
                              \cup {[there |-> FALSE, data |-> <<>>]}]
    /\ apc = "compress" /\ position = 0
    /\ entries = <<>> /\ outList = <<>> /\ aret = <<>>
    /\ fileAt = 0 /\ unread = {} /\ unwritten = {}
    /\ old \in [Paths -> BoundedSeq({2}, MaxFile)]
    /\ target = old

Current == Len(aret) + 1
Buffer(data) == SubSeq(data, position + 1, Min({position + BufferSize, Len(data)}))

\* compress: -2 when stat fails, else the header of an entry is written.
WriteHeader ==
    /\ apc = "compress" /\ Current \in Paths
    /\ IF files[Current].there
       THEN apc' = "copy" /\ entries' = Append(entries, [path |-> Current, data |-> <<>>]) /\ UNCHANGED aret
       ELSE aret' = Append(aret, -2) /\ UNCHANGED <<apc, entries>>
    /\ UNCHANGED <<files, position, old, target, fileAt, outList, unread, unwritten>>

\* The end of the loop, whatever ended it.  The header has the size that stat
\* gave: libarchive fills up the entry with zeros.
EndCopy ==
    LET size == Len(files[Current].data)
    IN  /\ entries' = [entries EXCEPT ![Len(entries)].data =
                            [i \in 1 .. size |-> IF i <= Len(@) THEN @[i] ELSE 0]]
        /\ apc' = "compress" /\ aret' = Append(aret, 0) /\ position' = 0

\* The loop that copies the file, until read returns 0, or -1: the file could not
\* be opened for reading and writing, or could not be read.
CopyBuffer ==
    LET piece == Buffer(files[Current].data)
    IN  \/ /\ piece # <<>>
           /\ entries' = [entries EXCEPT ![Len(entries)].data = @ \o piece]
           /\ position' = position + BufferSize
           /\ UNCHANGED <<apc, aret, unread>>
        \/ piece = <<>> /\ EndCopy /\ UNCHANGED unread
        \/ EndCopy /\ unread' = unread \cup {Current}

compress ==
    /\ apc = "copy"
    /\ CopyBuffer
    /\ UNCHANGED <<files, old, target, fileAt, outList, unwritten>>

\* ~Archive writes the archive, and it is opened again to be read.
Reopen ==
    /\ apc = "compress" /\ Current \notin Paths
    /\ apc' = "next"
    /\ UNCHANGED <<files, position, entries, old, target, fileAt, outList, aret, unread, unwritten>>

\* decompress: the next header.  An entry of size 0 is skipped.
NextHeader ==
    /\ apc = "next"
    /\ IF entries = <<>>
       THEN apc' = "done" /\ UNCHANGED <<entries, outList>>
       ELSE LET e == Head(entries)
            IN  IF e.data = <<>>
                THEN entries' = Tail(entries) /\ UNCHANGED <<apc, outList>>
                ELSE /\ apc' = "extract"
                     /\ outList' = Append(outList, e.path)
                     /\ UNCHANGED entries
    /\ UNCHANGED <<files, position, old, target, fileAt, aret, unread, unwritten>>

\* createDirectories or open fails: decompress returns -2 or -3 at once.
CannotCreate ==
    /\ apc = "next" /\ entries # <<>> /\ Head(entries).data # <<>>
    /\ apc' = "failed"
    /\ UNCHANGED <<files, position, entries, old, target, fileAt, outList, aret, unread, unwritten>>

\* File::write at the position of the file, which was opened without O_TRUNC.
Written(f, b) ==
    [i \in 1 .. Max({Len(f), fileAt + Len(b)}) |->
        IF i - fileAt \in DOMAIN b THEN b[i - fileAt] ELSE f[i]]

\* The loop that copies the entry, until archive_read_data returns 0.  Nobody
\* looks at how much of a piece write has written.
decompress ==
    /\ apc = "extract"
    /\ LET e == Head(entries)
           piece == Buffer(e.data)
       IN  \/ /\ piece # <<>>
              /\ \E n \in 0 .. Len(piece) :
                    /\ target' = [target EXCEPT ![e.path] = Written(@, SubSeq(piece, 1, n))]
                    /\ fileAt' = fileAt + n
                    /\ unwritten' = IF n < Len(piece) THEN unwritten \cup {e.path} ELSE unwritten
              /\ position' = position + BufferSize
              /\ UNCHANGED <<apc, entries>>
           \/ /\ piece = <<>>
              /\ apc' = "next" /\ position' = 0 /\ fileAt' = 0 /\ entries' = Tail(entries)
              /\ UNCHANGED <<target, unwritten>>
    /\ UNCHANGED <<files, old, outList, aret, unread>>

\* archive_read_data fails for good.  As a size_t its code is no end of the loop
\* but a huge number of bytes, which write(2) refuses, again and again.
ReadDataFails ==
    /\ apc = "extract"
    /\ apc' = "spins"
    /\ UNCHANGED <<files, position, entries, old, target, fileAt, outList, aret, unread, unwritten>>

Next ==
    WriteHeader \/ compress \/ Reopen \/ NextHeader \/ CannotCreate \/ decompress \/ ReadDataFails

-----------------------------------------------------------------------------
(* Properties *)

Whole(p) ==
    /\ IsPrefix(files[p].data, target[p])
    /\ Len(old[p]) <= Len(files[p].data) => target[p] = files[p].data

\* A beginning of the file, and zeros for the rest of it.
Padded(p) ==
    \E n \in 0 .. Len(files[p].data) :
        IsPrefix([i \in DOMAIN files[p].data |-> IF i <= n THEN files[p].data[i] ELSE 0], target[p])

\* When decompress returns 0 it has unpacked every file that was there and not
\* empty, in the order they were added.  Each begins with what was packed, and is
\* exactly that unless an earlier run left a longer file in its place; where
\* compress lost the rest of a file it has zeros, though all the calls returned 0.
\* When decompress fails, or never returns, this is true of the files it has done.
Done == IF apc = "spins" THEN Front(outList) ELSE outList
Unpacked ==
    /\ apc \in {"done", "failed", "spins"} =>
          \A p \in Range(Done) \ unwritten : IF p \in unread THEN Padded(p) ELSE Whole(p)
    /\ apc = "done" =>
          outList = SelectSeq([i \in 1 .. Len(aret) |-> i], LAMBDA p : files[p].data # <<>>)
=============================================================================
