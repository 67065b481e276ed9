SPECIFICATION Spec
CONSTANTS
    OwnMac = "m0"
    NoMac = "none"
    NET_ARP_CACHE_CAPACITY = 1
    NET_ARP_CACHE_TTL_TICKS = 3
    NET_ARP_REQUEST_RETRY_TICKS = 1
    NET_ARP_PENDING_TTL_TICKS = 2
    NET_IPV4_PENDING_CAPACITY = 1
    NET_IPV4_PENDING_TTL_TICKS = 2
    NET_UDP_MAX_ENDPOINTS = 3
    NET_UDP_QUEUE_DEPTH = 1
    NET_UDP_EPHEMERAL_FIRST = 600
    NET_UDP_EPHEMERAL_LAST = 601
    NET_DHCP_INITIAL_RETRY = 1
    NET_DHCP_MAX_RETRY = 2
    NET_DNS_MAX_TRANSACTIONS = 1
    NET_DNS_MAX_CACHE_ENTRIES = 1
    NET_DNS_MAX_RETRIES = 2
    DNS_RETRY_BASE = 1
    DNS_TRANSACTION_TIMEOUT = 2
    XidMod = 2
    IdMod = 3
    Neighbour <- Hosts
    MacsOf <- Macs
    Remote = 35
    Offers <- OfferSet
    StaticConfigs <- Statics
    Names = {"a"}
    Replies <- ReplySet
    ProgramPort = 7
    TxRoom = 3
    MaxLag = 1
    MaxOf <- Bounds
    MaxAll = 5
INVARIANTS TypeOK ConfigurationCoherent DeliveredOnce
CHECK_DEADLOCK FALSE
