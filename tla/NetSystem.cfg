SPECIFICATION Spec
CONSTANTS
    c1 = c1
    c2 = c2
    None = None
    Clients = {c1, c2}
    Fds = {3, 4, 5}
    Apps = {"tcp", "udp", "unix", "dg", "ssl", "detach", "close", "socket", "ssl_socket"}
    MaxSend = 2
    MaxOut = 3
INVARIANTS
    StreamsOwned
    DataInOrder
    ForwardedOnce
PROPERTIES
    HalfOpenEnds
    Served
CHECK_DEADLOCK FALSE
