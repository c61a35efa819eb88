---------------------------- MODULE Http2Session ----------------------------
(***************************************************************************)
(* Http2ndSession and Http2ndStream (source/extention/http2.cpp,           *)
(* include/extention/http2.hh) and the frames of http2frame.hh.            *)
(*                                                                         *)
(* nghttp2 is external: it turns the bytes into callbacks.  What it makes  *)
(* of a piece of input is a unit:                                          *)
(*   open      HEADERS begin, with the field "path"                        *)
(*   field     another field of the same block, named "body"               *)
(*   headers   the block ends; trailers: a whole block after the data      *)
(*   chunk     a piece of a DATA frame; data: the frame ends               *)
(*   rst, priority, settings, ping    one whole frame each                 *)
(*   junk      bytes that are not HTTP/2                                   *)
(* A unit's flags are those of its frame: END_STREAM is the same bit as    *)
(* the ACK of PING.  The payload of a unit is the number of the record *)
(* that brought it.                                                        *)
(***************************************************************************)
EXTENDS Integers, Sequences, FiniteSets, Functions

CONSTANTS
    Ids,     \* the streams a client opens
    None     \* no callbacks

END_STREAM == 1
END_HEADERS == 4

Unit(kind, id, flags) == [kind |-> kind, id |-> id, flags |-> flags]
UnitsOf(id) ==
    {Unit("open", id, {}), Unit("field", id, {}), Unit("headers", id, {END_HEADERS}),
     Unit("headers", id, {END_HEADERS, END_STREAM}), Unit("chunk", id, {}), Unit("data", id, {}),
     Unit("data", id, {END_STREAM}), Unit("trailers", id, {END_HEADERS, END_STREAM}),
     Unit("rst", id, {}), Unit("priority", id, {})}
Units ==
    {Unit("junk", 0, {}), Unit("settings", 0, {}), Unit("ping", 0, {END_STREAM})}
        \cup UNION {UnitsOf(id) : id \in Ids}

-----------------------------------------------------------------------------
(* Http2ndStream: both alternatives of derive_data hold one map. *)

\* map[key] = value
Put(map, key, value) ==
    [k \in DOMAIN map \cup {key} |-> IF k = key THEN value ELSE map[k]]

NoHeaders == [n \in {} |-> <<>>]
Http2ndStream == [id |-> 0, headers |-> NoHeaders, saving |-> FALSE, frames |-> <<>>]

push_header(S, name, value) == [S EXCEPT !.headers = Put(@, name, value)]
push_data_Replaces(S, data) == [S EXCEPT !.headers = Put(@, "body", data)]
push_data(S, data) ==
    [S EXCEPT !.headers =
        Put(@, "body", IF "body" \in DOMAIN @ THEN @["body"] \o data ELSE data)]

\* Http2ndFrame keeps a copy of the frame; its move constructor keeps nothing,
\* and push_back moves.
Http2ndFrame(u) == u.kind
Blank == "blank"
Moved(frame) == Blank

push_frame(S, frame) == IF S.saving THEN [S EXCEPT !.frames = Append(@, Moved(frame))] ELSE S
enableFrameSave(S) == [S EXCEPT !.saving = TRUE]
clearFrameHistory(S) == [S EXCEPT !.frames = <<>>]

-----------------------------------------------------------------------------
(* Http2ndSession *)

\* The constructor; `live' and `failed' are nghttp2's, `calls' is history.
Http2ndSession ==
    [streams |-> [i \in {} |-> Http2ndStream],
     cbs     |-> None,       \* which group of callbacks is installed
     live    |-> {},         \* external: the streams nghttp2 knows
     failed  |-> FALSE,      \* external: nghttp2_session_mem_recv returns an error
     calls   |-> <<>>]       \* the callbacks made

setOnCallback(H, cbg) == [H EXCEPT !.cbs = cbg]

StreamOf(H, id) == IF id \in DOMAIN H.streams THEN H.streams[id] ELSE Http2ndStream
WithStream(H, id, S) == [H EXCEPT !.streams = Put(@, id, S)]

Call(H, cb, id) ==
    [H EXCEPT !.calls = Append(@, [cb |-> cb, id |-> id, headers |-> StreamOf(H, id).headers])]

\* The groups of callbacks: "example" is that of example_http2.cpp.  "keeps"
\* does what the comments offer: it saves frames and pushes the data into
\* the stream.  "refuses" returns an error for every head.
onHeadDone(H, id) ==
    LET C == Call(H, "head", id)
    IN  CASE H.cbs = "keeps" -> WithStream(C, id, enableFrameSave(StreamOf(C, id)))
          [] H.cbs = "refuses" -> [C EXCEPT !.failed = TRUE]
          [] OTHER -> C

onReqRecvDone(H, id) ==
    LET C == Call(H, "done", id)
    IN  IF H.cbs = "keeps" THEN WithStream(C, id, clearFrameHistory(StreamOf(C, id))) ELSE C

onDataChunkRecv(H, id, data) ==
    LET K == IF H.cbs = "keeps" THEN WithStream(H, id, push_data(StreamOf(H, id), data)) ELSE H
    IN  Call(K, "chunk", id)

onStreamClosed(H, id) == Call(H, "closed", id)

-----------------------------------------------------------------------------
(* The callbacks of nghttp2.  No stream has user data, for OnHeader never   *)
(* gets to set it: each of them looks its stream up and makes a new one.    *)

\* END_HEADERS first, then END_STREAM, whatever the type of the frame.
OnFrameRecv(H, u) ==
    LET F == WithStream(H, u.id, push_frame(StreamOf(H, u.id), Http2ndFrame(u)))
        D == IF END_HEADERS \in u.flags THEN onHeadDone(F, u.id) ELSE F
    IN  IF END_STREAM \in u.flags /\ ~D.failed THEN onReqRecvDone(D, u.id) ELSE D

OnStreamClose(H, id) ==
    IF id \notin DOMAIN H.streams THEN H
    ELSE [onStreamClosed(H, id) EXCEPT !.streams = Restrict(@, DOMAIN @ \ {id})]

OnHeadDone(H, id, name, value) == WithStream(H, id, push_header(StreamOf(H, id), name, value))

OnDataChunkRecv(H, id, data) ==
    onDataChunkRecv(WithStream(H, id, StreamOf(H, id)), id, data)

\* A category is never three things at once, so the early return is always
\* taken and what follows it, a new stream with its number and onNewHead, is
\* never done.
NewHead(H, id) == Call(WithStream(H, id, [StreamOf(H, id) EXCEPT !.id = id]), "new", id)
OnHeader(H, id, cat) ==
    IF cat # "request" \/ cat # "response" \/ cat # "push" THEN H ELSE NewHead(H, id)

\* nghttp2_session_mem_recv (external): the callbacks of one unit.  A stream
\* starts with its HEADERS and ends with RST_STREAM, for nothing is ever
\* answered; RST_STREAM and PRIORITY also come for streams it has forgotten, and
\* the ACK of a PING though the server has sent none.  Once it has failed it takes
\* nothing more.
mem_recv(H, u, payload) ==
    IF H.failed THEN H ELSE
    CASE u.kind = "open" ->
            OnHeadDone(OnHeader([H EXCEPT !.live = @ \cup {u.id}], u.id, "request"),
                       u.id, "path", payload)
      [] u.kind = "field" -> OnHeadDone(H, u.id, "body", payload)
      [] u.kind = "trailers" ->
            OnFrameRecv(OnHeadDone(OnHeader(H, u.id, "headers"), u.id, "trailer", payload), u)
      [] u.kind = "chunk" -> OnDataChunkRecv(H, u.id, payload)
      [] u.kind = "rst" ->
            LET F == OnFrameRecv(H, u)
            IN  IF u.id \in F.live
                THEN OnStreamClose([F EXCEPT !.live = @ \ {u.id}], u.id)
                ELSE F
      [] u.kind = "junk" -> [H EXCEPT !.failed = TRUE]
      [] OTHER -> OnFrameRecv(H, u)

\* What nghttp2 has to send after a unit: the ACK of SETTINGS.
Answers(u) == u.kind = "settings" /\ END_STREAM \notin u.flags

\* nghttp2RealRecv; when mem_recv returns no error, nghttp2_session_send follows,
\* see OnRead of Http2System.
nghttp2RealRecv(H, u, payload) == mem_recv(H, u, payload)
=============================================================================
