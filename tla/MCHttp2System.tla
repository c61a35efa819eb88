--------------------------- MODULE MCHttp2System ----------------------------
EXTENDS Http2System
CONSTANTS c1, c2
MCClients == {c1, c2}
MCFds == 3 .. 5
MCIds == {1, 3}
\* "h2" first, late, alone or not at all; a name of another protocol; names of
\* the lengths at which the length byte wraps.
MCOffers == {<<>>, <<h2>>, <<h2c, h2>>, <<<<4>>, h2>>, <<<<4>>>>, <<<<5>>, h2>>, <<<<6>>, h2>>,
             <<<<1, 2, 3, 4>>, h2>>, <<<<1, 2, 3, 4, 5, 6>>>>}
=============================================================================
