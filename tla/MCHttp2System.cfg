SPECIFICATION Spec
CONSTANTS
    c1 = c1
    c2 = c2
    None = None
    Clients <- MCClients
    Fds <- MCFds
    Ids <- MCIds
    Offers <- MCOffers
    ByteRange = 4
    MaxRecords = 6
    MaxAside = 1
    MaxShared = 3
INVARIANTS
    Negotiated
    RequestsIntact
    SessionsSound
PROPERTIES
    SessionServed
CHECK_DEADLOCK FALSE
