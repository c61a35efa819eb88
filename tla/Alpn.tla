-------------------------------- MODULE Alpn --------------------------------
(***************************************************************************)
(* How aSSLContextCreator (source/base/ssl.cpp) negotiates the application *)
(* protocol in a handshake.  A protocol's name is a sequence of bytes, and *)
(* a list on the wire is for each name one byte of length and the name.    *)
(* A byte has ByteRange values, so the length of a long name wraps.        *)
(***************************************************************************)
EXTENDS Integers, Sequences, FiniteSets, FiniteSetsExt, SequencesExt, Functions

CONSTANTS
    ByteRange,    \* the number of values of an unsigned char
    None          \* no protocol

\* m_protocbs: "ok" and "fails" are what the handler's callback returns,
\* "unset" is a handler without one.  A callback of the program may take
\* the decision ("decide") or replace the library's ("proxy").
Handlers == {"ok", "fails", "unset"}
Creator(endType) ==
    [endType |-> endType, list |-> <<>>, protocbs |-> [n \in {} |-> "unset"],
     decide |-> FALSE, proxy |-> FALSE]

appendProtocolOnList(list, name) ==
    LET size == Len(name) % ByteRange
    IN  list \o <<size>> \o SubSeq(name, 1, size)

\* A handler is a name and its callback; a second one with the same name
\* replaces the callback and is listed again.
Places(handlers, name) == {i \in DOMAIN handlers : handlers[i][1] = name}
Support(C, handlers) ==
    [C EXCEPT !.list = FoldLeft(LAMBDA list, h : appendProtocolOnList(list, h[1]), @, handlers),
              !.protocbs = [name \in DOMAIN @ \cup {h[1] : h \in Range(handlers)} |->
                  IF Places(handlers, name) = {} THEN @[name]
                  ELSE handlers[Max(Places(handlers, name))][2]]]

setSupportedProtoForServer(C, handlers) == [Support(C, handlers) EXCEPT !.endType = 1]
setSupportedProtoForClient(C, handlers) == [Support(C, handlers) EXCEPT !.endType = 2]

\* What OpenSSL accepts as a list (external): names that are not empty and
\* fill it exactly.
WellFormed(list) ==
    LET from[i \in 1 .. Len(list) + ByteRange] ==
            IF i > Len(list) THEN i = Len(list) + 1
            ELSE list[i] > 0 /\ from[i + list[i] + 1]
    IN  from[1]

alpnForClient(C) == WellFormed(C.list)

\* 0, or why there is no context: `fault' is the first OpenSSL call that
\* fails (-3 the context, -4 the curves, -5 the key, -6 the certificate), 0
\* when none does.
startCreate(C, method, fault) ==
    CASE method \notin {1, 2} -> -2
      [] method \in {1, 2} /\ fault # 0 -> fault
      [] OTHER -> IF C.endType = 1 \/ (C.endType = 2 /\ alpnForClient(C)) THEN 0 ELSE -7

-----------------------------------------------------------------------------
(* The server's side of the handshake. *)

\* The name whose length is at place i of a list.
NameAt_Short(in, i) == SubSeq(in, i + 1, i + in[i] - 1)
NameAt(in, i) == SubSeq(in, i + 1, i + in[i])
Following(in, i) == i + in[i] + 1

\* nghttp2_select_next_protocol (external) finds "h2" wherever it is in the
\* list; the program's callback accepts that and nothing else.
Names(in) ==
    LET from[i \in 1 .. Len(in) + ByteRange] ==
            IF i > Len(in) THEN {} ELSE {NameAt(in, i)} \cup from[Following(in, i)]
    IN  from[1]
DecideH2(in, h2) == IF h2 \in Names(in) THEN [ret |-> 0, out |-> h2]
                                        ELSE [ret |-> 3, out |-> None]

\* The first name decides unless its handler has no callback: an unknown one
\* ends the search.
select_next_protocol(C, in, h2) ==
    LET Ends(i) == i > Len(in) \/ in[i] = 0
        Passed(i) == NameAt(in, i) \in DOMAIN C.protocbs /\ C.protocbs[NameAt(in, i)] = "unset"
        from[i \in 1 .. Len(in) + ByteRange] ==
            IF ~Ends(i) /\ Passed(i) THEN from[Following(in, i)] ELSE i
        name == NameAt(in, from[1])
        first ==
            CASE Ends(from[1]) -> [ret |-> -1, out |-> None]
              [] ~Ends(from[1]) /\ name \notin DOMAIN C.protocbs -> [ret |-> -3, out |-> None]
              [] OTHER -> IF C.protocbs[name] = "ok" THEN [ret |-> 0, out |-> name]
                                                     ELSE [ret |-> -2, out |-> None]
    IN  IF C.decide THEN DecideH2(in, h2) ELSE first

\* What SSL_CTX_set_alpn_select_cb's callback makes of it: without an answer
\* the handshake goes on and no protocol is agreed.
alpnForServer(C, in, h2) ==
    LET answer == IF C.proxy THEN DecideH2(in, h2) ELSE select_next_protocol(C, in, h2)
    IN  IF answer.ret = 0 THEN answer.out ELSE None
=============================================================================
