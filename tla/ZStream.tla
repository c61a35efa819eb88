------------------------------ MODULE ZStream -------------------------------
(***************************************************************************)
(* ZStreamCompress and ZStreamDecompress (source/base/zlibstream.cpp), and *)
(* the program of example_zlibstream.cpp: a source is compressed in two    *)
(* calls, what comes out is split and decompressed in two calls.           *)
(*                                                                         *)
(* zlib is external.  A compressed stream is a sequence of codes that each *)
(* stand for a run of equal symbols, and a trailer (the checksum).         *)
(* deflate and inflate stop when their input is used up or their output    *)
(* has no room; inflate reads the trailer after it has given out all the   *)
(* data.  One step is one turn of a loop.                                  *)
(***************************************************************************)
EXTENDS Integers, Sequences, SequencesExt

CONSTANTS
    Symbols,   \* the bytes of the source
    MaxSource, \* bound on its length
    Chunks     \* the sizes of the buffer tmp

VARIABLES
    chunk,     \* tmp.size()
    source,    \* the two pieces to compress
    split,     \* the pieces into which the compressed data is cut
    zpc,       \* the call that runs: its next turn
    avail_in,  \* z_stream: input not yet used
    window,    \* external: output zlib has not yet given out
    m_valid,   \* of the object in use: deflateInit or inflateInit succeeded
    m_data,    \* the output collected by the object
    cdata,     \* what ZStreamCompress::finished returned
    ddata,     \* what ZStreamDecompress::finished returned
    zret       \* the return codes of the calls

Trailer == [run |-> <<>>]
Code(x, n) == [run |-> [i \in 1 .. n |-> x]]


Init ==
    /\ chunk \in Chunks
    /\ source \in BoundedSeq(Symbols, MaxSource) \X BoundedSeq(Symbols, 1)
    /\ split = 0 /\ zpc = "compress1" /\ m_valid \in BOOLEAN
    /\ avail_in = source[1]
    /\ window = <<>> /\ m_data = <<>> /\ cdata = <<>> /\ ddata = <<>> /\ zret = <<>>

-----------------------------------------------------------------------------
(* zlib *)

\* The codes of a piece of source: longest runs first.
RECURSIVE Encode(_)
Encode(data) ==
    IF data = <<>> THEN <<>>
    ELSE LET n == CHOOSE k \in 1 .. Len(data) :
                     /\ \A i \in 1 .. k : data[i] = data[1]
                     /\ k = Len(data) \/ data[k + 1] # data[1]
         IN  <<Code(data[1], n)>> \o Encode(SubSeq(data, n + 1, Len(data)))

Given(out) == SubSeq(out, 1, IF Len(out) < chunk THEN Len(out) ELSE chunk)
Kept(out) == SubSeq(out, Len(Given(out)) + 1, Len(out))

\* Z_NO_FLUSH: deflate may hold back what it has.  It uses up the input unless
\* it fills the buffer.
deflate(data) ==
    \E n \in 0 .. Len(data) :
        LET out == window \o Encode(SubSeq(data, 1, n))
        IN  /\ n = Len(data) \/ Len(out) >= chunk
            /\ avail_in' = SubSeq(data, n + 1, Len(data))
            /\ \/ m_data' = m_data \o Given(out) /\ window' = Kept(out)
               \/ n = Len(data) /\ m_data' = m_data /\ window' = out

\* inflate uses a code when all the output of the last one has been given out.
RECURSIVE Inflate(_, _, _)
Inflate(in, win, room) ==
    IF room > 0 /\ win # <<>> THEN
        LET r == Inflate(in, Tail(win), room - 1) IN [r EXCEPT !.out = <<Head(win)>> \o @]
    ELSE IF room > 0 /\ in # <<>>
         THEN Inflate(Tail(in), Head(in).run, room)
         ELSE [in |-> in, win |-> win, out |-> <<>>]

-----------------------------------------------------------------------------
(* ZStreamCompress *)

Compressing == zpc \in {"compress1", "compress2"}
Decompressing == zpc \in {"decompress1", "decompress2"}

CompressTurn ==
    /\ Compressing /\ m_valid /\ avail_in # <<>>
    /\ deflate(avail_in)
    /\ UNCHANGED <<chunk, source, split, zpc, m_valid, cdata, ddata, zret>>

\* The loop of compress ends and it returns 0; test_compress makes the next call.
compress ==
    /\ Compressing /\ m_valid /\ avail_in = <<>>
    /\ zret' = Append(zret, 0)
    /\ IF zpc = "compress1"
       THEN zpc' = "compress2" /\ avail_in' = source[2] /\ UNCHANGED window
       ELSE zpc' = "finish" /\ avail_in' = <<>> /\ window' = Append(window, Trailer)
    /\ UNCHANGED <<chunk, source, split, m_valid, m_data, cdata, ddata>>

\* A turn of finished with Z_FINISH, which gives out a buffer of what deflate
\* holds; the last one returns Z_STREAM_END.
FinishTurn_OnlyOne ==
    zpc' = "cut" /\ cdata' = m_data \o Given(window) /\ window' = <<>> /\ m_data' = <<>>
FinishTurn ==
    IF Len(window) <= chunk
    THEN zpc' = "cut" /\ cdata' = m_data \o window /\ window' = <<>> /\ m_data' = <<>>
    ELSE m_data' = m_data \o Given(window) /\ window' = Kept(window) /\ UNCHANGED <<zpc, cdata>>

CompressFinished ==
    /\ zpc = "finish"
    /\ FinishTurn
    /\ UNCHANGED <<chunk, source, split, m_valid, avail_in, ddata, zret>>

-----------------------------------------------------------------------------
(* ZStreamDecompress *)

\* test_decompress cuts the data in two and decompresses the first part.
test_decompress ==
    /\ zpc = "cut"
    /\ \E n \in 0 .. Len(cdata) : split' = n /\ avail_in' = SubSeq(cdata, 1, n)
    /\ zpc' = "decompress1" /\ m_valid' \in BOOLEAN
    /\ UNCHANGED <<chunk, source, window, m_data, cdata, ddata, zret>>

\* A turn of the loop of decompress.  What inflate has decoded and not given
\* out stays in it when the input is used up.
DecompressTurn ==
    /\ Decompressing /\ m_valid /\ avail_in # <<>>
    /\ \E r \in {Inflate(avail_in, window, chunk)} :
          avail_in' = r.in /\ window' = r.win /\ m_data' = m_data \o r.out
    /\ UNCHANGED <<chunk, source, split, m_valid, zpc, cdata, ddata, zret>>

\* The loop ends; a program may also have only the first part of the data.
decompress ==
    /\ Decompressing /\ m_valid /\ avail_in = <<>>
    /\ zret' = Append(zret, 0)
    /\ \/ zpc = "decompress1" /\ zpc' = "decompress2" /\ avail_in' = SubSeq(cdata, split + 1, Len(cdata))
       \/ zpc' = "end" /\ UNCHANGED avail_in
    /\ UNCHANGED <<chunk, source, split, window, m_valid, m_data, cdata, ddata>>

\* finished: what inflate still gives out goes to tmp and is not collected.
\* inflateEnd succeeds whether or not the stream was complete.
DecompressFinished ==
    /\ zpc = "end"
    /\ zpc' = "done" /\ m_valid' = FALSE
    /\ ddata' = m_data /\ m_data' = <<>> /\ window' = <<>>
    /\ UNCHANGED <<chunk, source, split, avail_in, cdata, zret>>

\* A call on an object that is not valid returns -1, and the examples abort on
\* it; but decompress does so only for empty data, and else lets inflate fail.
InvalidCall ==
    /\ ~m_valid
    /\ \/ Compressing /\ zret' = Append(zret, -1)
       \/ Decompressing /\ zret' = Append(zret, IF avail_in = <<>> THEN -1 ELSE -2)
    /\ zpc' = "aborted"
    /\ UNCHANGED <<chunk, source, split, avail_in, window, m_valid, m_data, cdata, ddata>>

Next ==
    \/ CompressTurn \/ compress \/ CompressFinished
    \/ test_decompress \/ DecompressTurn \/ decompress \/ DecompressFinished
    \/ InvalidCall

-----------------------------------------------------------------------------
(* Properties *)

\* What is decompressed is the source, or the beginning of it when the end of
\* the data was not given, however the data was cut and whatever zlib held back
\* between two calls.  decompress leaves its loop with output still in zlib, and
\* finished collects none of it: the trailer, read last, is what makes this right.
RoundTrip ==
    zpc = "done" =>
        /\ IsPrefix(ddata, source[1] \o source[2])
        /\ Len(zret) = 4 => ddata = source[1] \o source[2]

=============================================================================
