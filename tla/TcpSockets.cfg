SPECIFICATION Spec
CONSTANTS
    SeqMod = 64
    NS_TCP_LOCAL_MSS = 2
    NS_TCP_SEND_CAPACITY = 2
    NS_TCP_RECV_CAPACITY = 2
    NS_TCP_RETRY_LIMIT = 1
    NoLimit = 9
    Host <- Hosts
    Peer <- PeerOf
    Port <- Ports
    Program <- Programs
    FirstIss <- Isses
    IssStep = 20
    TCP_EPHEMERAL_FIRST = 3
    TCP_EPHEMERAL_LAST = 4
    NS_TCP_MAX_SOCKETS = 2
    NS_SOCKET_MAX_OPEN = 2
    Backlog = 1
    Load <- Loads
    MaxOpens = 1
    MaxFaults = 1
    MaxNet = 2
    ReadSize = 1
INVARIANTS TypeOK StreamIntact WindowKept NoStall ConnectionsOwned
CHECK_DEADLOCK FALSE
