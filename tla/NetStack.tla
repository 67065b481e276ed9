------------------------------- MODULE NetStack -------------------------------
(***************************************************************************)
(* The network stack as the kernel runs it (kernel/net/net_stack.c): the   *)
(* DHCP client configures the device, the routes and the addresses that    *)
(* UDP, DNS and the sockets send from; programs and the DNS client send    *)
(* datagrams that may have to wait for an address resolution; and          *)
(* net_stack_poll takes frames from the driver and runs every timer.       *)
(*                                                                         *)
(* Everything runs in one thread: a poll hands over what the driver holds, *)
(* here at most one frame, and then runs the timers.  Between two polls    *)
(* programs call the stack and time passes.                                *)
(*                                                                         *)
(* The network answers what it heard, as often and as late as it likes:    *)
(* a reply to a message that was transmitted may arrive at any time after. *)
(***************************************************************************)
EXTENDS NetServices

CONSTANTS
    Neighbour,      \* the hosts of the link, and
    MacsOf,         \* the hardware addresses that each of them has had
    Remote,         \* a host that is not on the link
    Offers,         \* the configurations that DHCP servers hand out
    StaticConfigs,  \* the configurations that a program sets
    Names, Replies, \* what is asked of the DNS server, and what it answers
    ProgramPort,
    TxRoom,         \* the transmit slots of the driver
    \* Bounds
    MaxLag,         \* seconds between two polls
    MaxOf,          \* uses of each kind of step: see Kind
    MaxAll          \* uses in all

Kind == {"start", "static", "query", "socket", "datagram", "stranger", "fault"}

\* Network 0 stands for every network in a route, so no host has an address in it.
ASSUME StackAssumption ==
    /\ Neighbour \subseteq Nat /\ Remote \in Nat
    /\ \A a \in Neighbour : MacsOf[a] # {} /\ {OwnMac, NoMac} \cap MacsOf[a] = {}
    /\ Offers \subseteq Config
    /\ StaticConfigs \subseteq [address : Nat, mask : BOOLEAN, gateway : Nat, dns : Nat]
    /\ \A c \in Offers \cup StaticConfigs : c.address # Zero => Network(c.address) # Zero
    /\ TxRoom \in Nat \ {0} /\ MaxLag \in Nat \ {0} /\ MaxOf \in [Kind -> Nat]

\* The hosts that this one sends to.
Peers == Neighbour \cup {Remote} \cup {o.server : o \in Offers}
         \cup {c.dns : c \in Offers \cup StaticConfigs} \cup {c.gateway : c \in Offers \cup StaticConfigs}

\* The numbering of the network: the neighbours are on the network of every address
\* that this host is given, and nobody else has that address or a broadcast address.
ASSUME NumberingAssumption ==
    /\ \A c \in Offers \cup StaticConfigs : c.address # Zero =>
          /\ c.address \notin Peers
          /\ \A a \in Neighbour : Network(a) = Network(c.address)
    /\ \A a \in Peers : ~BroadcastHost(a)

NoApplied == [valid |-> FALSE, address |-> Zero, gateway |-> Zero, dns |-> Zero, mask |-> FALSE]
Query == 1..MaxOf["query"]
Datagram == 1..MaxOf["datagram"]

VARIABLES
    link, udp, dhcp, dns,
    applied,        \* stack->applied
    backend,        \* the local address of the socket backend
    lag,            \* seconds since the timers last ran
    heard,          \* DHCP and DNS messages that went out, to be answered
    answers,        \* history: the results given to each query
    latest,         \* history: the hardware address last told by each host with an entry
    carried,        \* history: the transmissions of each datagram
    strayed,        \* history: a frame left for a hardware address not told by its next hop
    origin,         \* history: who set the configuration, see below
    used            \* what is used up of the bounds

vars == <<link, udp, dhcp, dns, applied, backend, lag, heard, answers, latest,
          carried, strayed, origin, used>>

\* The configuration that UDP, DNS and the sockets were last given: none or one that
\* was cleared, one of a lease or of a program that is in force, or one that was taken
\* from the device for another that was then refused.
Origin == {"none", "dhcp", "program", "refused"}

\* The stack as one value, for the calls that go through several parts, with tx
\* free slots in the driver and no frame sent yet.
Stack(tx) ==
    [link |-> [link EXCEPT !.tx = tx], udp |-> udp, dhcp |-> dhcp, dns |-> dns,
     applied |-> applied, backend |-> backend, answers |-> answers, origin |-> origin]

Init ==
    /\ link = LinkInit /\ udp = UdpInit /\ dhcp = DhcpInit /\ dns = DnsInit
    /\ applied = NoApplied /\ backend = Zero
    /\ lag = 0 /\ heard = {}
    /\ answers = [q \in Query |-> <<>>]
    /\ latest = [a \in Neighbour |-> NoMac]
    /\ carried = [n \in Datagram |-> 0]
    /\ strayed = FALSE /\ origin = "none"
    /\ used = [k \in Kind |-> 0]

----------------------------------------------------------------------------
\* Configuration.

\* Mutant: the default route of the configuration before stays.
Withdrawn_KeepsDefault(s) ==
    IF ~s.applied.valid THEN s.link
    ELSE net_arp_reset(net_device_clear_ipv4(
            net_ipv4_route_remove(s.link, Network(s.applied.address))))

\* apply_ipv4_config with what remains of the configuration before it taken away.
Withdrawn(s) ==
    IF ~s.applied.valid THEN s.link
    ELSE net_arp_reset(net_device_clear_ipv4(net_ipv4_route_remove(
            net_ipv4_route_remove(s.link, Network(s.applied.address)), Zero)))

WithRoutes(k, c) ==
    LET connected == net_ipv4_route_add(k, Network(c.address), Zero, 0)
    IN  IF c.gateway = Zero THEN connected ELSE net_ipv4_route_add(connected, Zero, c.gateway, 100)

RoutesFree(k, c) ==
    \A r \in k.routes : r.network # Network(c.address) /\ (c.gateway = Zero \/ r.network # Zero)

\* Without an address or a netmask nothing changes.  A configuration that the device
\* or the routes refuse leaves the device without one, and UDP, DNS and the sockets
\* with the one before.
apply_ipv4_config(s, c, by) ==
    IF c.address = Zero \/ ~c.mask THEN s
    ELSE IF ~Configurable(c) \/ ~RoutesFree(Withdrawn(s), c)
    THEN [s EXCEPT !.link = Withdrawn(s), !.applied = NoApplied,
                   !.origin = IF @ = "none" THEN @ ELSE "refused"]
    ELSE [s EXCEPT !.link = WithRoutes(net_device_configure_ipv4(Withdrawn(s), c), c),
                   !.applied = [valid |-> TRUE, address |-> c.address, gateway |-> c.gateway,
                                dns |-> c.dns, mask |-> c.mask],
                   !.udp.local = c.address,
                   !.dns = net_dns_set_network(@, c.address, c.dns),
                   !.backend = c.address,
                   !.origin = by]

clear_ipv4_config(s) ==
    IF ~s.applied.valid THEN s
    ELSE [s EXCEPT !.link = Withdrawn(s), !.udp.local = Zero,
                   !.dns = net_dns_flush_cache(net_dns_set_network(@, Zero, Zero)),
                   !.backend = Zero, !.applied = NoApplied, !.origin = "none"]

\* Without a DNS server in the lease, the router is asked.
Wanted(c) == [address |-> c.address, gateway |-> c.gateway, mask |-> c.mask,
              dns |-> IF c.dns # Zero THEN c.dns ELSE c.gateway]

synchronize_dhcp_config(s) ==
    LET c == Wanted(s.dhcp.config)
    IN  IF s.dhcp.state = "EXPIRED" THEN clear_ipv4_config(s)
        ELSE IF \/ ~net_dhcp_is_configured(s.dhcp)
                \/ s.applied.valid /\ \A f \in DOMAIN c : s.applied[f] = c[f]
        THEN s
        ELSE apply_ipv4_config(s, c, "dhcp")

----------------------------------------------------------------------------
\* A frame comes in.

\* The services take a datagram at once.
dhcp_udp_notify(s, m) ==
    synchronize_dhcp_config(IF m.service = "dhcp" THEN net_dhcp_receive(s, m) ELSE s)

dns_udp_notify(s, i, src, m) ==
    IF m.service = "dns" THEN net_dns_receive(s, i, src, m) ELSE s

\* A program finds a datagram in its queue.
net_udp_receive(s, p) ==
    LET to == find_destination(s.udp, p.dst, p.data.dport)
        x == Min(to)
    IN  IF to = {} THEN s
        ELSE IF x = DhcpEndpoint
        THEN dhcp_udp_notify(s, p.data.message)
        ELSE IF x \notin ProgramEndpoint
        THEN dns_udp_notify(s, x - DnsEndpoint(0), p.src, p.data.message)
        ELSE IF Len(s.udp.endpoint[x].queue) = NET_UDP_QUEUE_DEPTH THEN s
        ELSE [s EXCEPT !.udp.endpoint[x].queue = Append(@, p.data.message)]

net_ipv4_input(s, p) ==
    IF ~ForThisHost(s.link, p.dst) THEN s
    ELSE IF p.proto = "ICMP" THEN [s EXCEPT !.link = net_icmp_input(@, p)]
    ELSE net_udp_receive(s, p)

net_ethernet_input(s, f) ==
    IF f.type = "ARP" THEN [s EXCEPT !.link = net_arp_input(@, f.body)]
    ELSE net_ipv4_input(s, f.body)

net_stack_timers(s, elapsed) ==
    synchronize_dhcp_config(net_dns_poll(net_dhcp_poll(
        [s EXCEPT !.link = IF elapsed = 0 THEN @ ELSE net_ipv4_tick(net_arp_tick(@, elapsed), elapsed)])))

----------------------------------------------------------------------------
\* The network.

DatagramFrame(src, dst, sport, dport, message) ==
    [mac |-> OwnMac, type |-> "IPv4",
     body |-> [src |-> src, dst |-> dst, proto |-> "UDP",
               data |-> [sport |-> sport, dport |-> dport, message |-> message]]]

\* The part of a frame that a server keeps.
Asked(f) ==
    IF f.type = "ARP" \/ f.body.proto # "UDP" THEN {}
    ELSE IF f.body.data.message.service = "dhcp" THEN {f.body.data.message}
    ELSE IF f.body.data.message.service = "dns"
    THEN {[service |-> "dns", client |-> f.body.src, server |-> f.body.dst,
           port |-> f.body.data.sport, query |-> f.body.data.message]}
    ELSE {}

\* A server has any of its configurations to give, may refuse, and answers to the
\* address that the client gave, or to all.
DhcpReply(m, type, o) ==
    DatagramFrame(o.server, IF m.address # Zero THEN m.address ELSE Broadcast,
                  NET_DHCP_SERVER_PORT, NET_DHCP_CLIENT_PORT,
                  [service |-> "dhcp", type |-> type, xid |-> m.xid, config |-> o])

DhcpReplies(m) ==
    LET mine == {o \in Offers : m.server \in {Zero, o.server}}
    IN  IF m.type = "DISCOVER" THEN {DhcpReply(m, "OFFER", o) : o \in Offers}
        ELSE {DhcpReply(m, "ACK", o) : o \in mine}
             \cup {DhcpReply(m, "NAK", [NoConfig EXCEPT !.server = o.server]) : o \in mine}

DnsReplies(m) ==
    {DatagramFrame(m.server, m.client, NET_DNS_PORT, m.port,
                   [service |-> "dns", id |-> m.query.id, name |-> m.query.name, reply |-> r]) : r \in Replies}

ArpPacket(op, a, mac) ==
    [mac |-> OwnMac, type |-> "ARP", body |-> [op |-> op, smac |-> mac, sip |-> a, tip |-> link.address]]

\* Frames that answer the stack.
Answers ==
    (UNION {DhcpReplies(m) : m \in {x \in heard : x.service = "dhcp"}})
    \cup (UNION {DnsReplies(m) : m \in {x \in heard : x.service = "dns"}})
    \cup (UNION {{ArpPacket("reply", a, mac) : mac \in MacsOf[a]} :
                    a \in {h \in Neighbour : find_entry(link, h) # {}}})

\* Frames that come unasked: a host that resolves or gives an address, pings, or sends.
Strangers ==
    (UNION {{ArpPacket(op, a, mac) : op \in {"request", "reply"}, mac \in MacsOf[a]} : a \in Neighbour})
    \cup {[mac |-> OwnMac, type |-> "IPv4",
           body |-> [src |-> Remote, dst |-> link.address, proto |-> "ICMP",
                     data |-> [type |-> "echo_request"]]]}
    \cup {DatagramFrame(Remote, link.address, ProgramPort, ProgramPort, [service |-> "program", n |-> 0])}

----------------------------------------------------------------------------
\* Steps.

\* Times that datagram n is among the frames of out.
Carries(f, n) ==
    /\ f.type = "IPv4" /\ f.body.proto = "UDP" /\ f.body.data.message.service = "program"
    /\ f.body.data.message.n = n

\* The hosts that may be the next hop of a datagram for a.
NextHops(a) == IF a \in Neighbour THEN {a} ELSE Neighbour

Strays(f, told) ==
    /\ f.type = "IPv4" /\ f.body.dst # Broadcast
    /\ f.mac \notin {told[h] : h \in NextHops(f.body.dst)}

\* A DHCP server answers the last message of each type and transaction that it got.
Recent(old, new) ==
    new \cup {m \in old : ~\E n \in new : m.service = "dhcp" /\ n.service = "dhcp"
                                          /\ m.type = n.type /\ m.xid = n.xid}

\* The stack goes on as s, after hosts have told their hardware addresses.
Becomes(s, told) ==
    /\ link' = [s.link EXCEPT !.tx = 0, !.out = <<>>, !.refused = FALSE] /\ udp' = s.udp /\ dhcp' = s.dhcp /\ dns' = s.dns
    /\ applied' = s.applied /\ backend' = s.backend /\ answers' = s.answers /\ origin' = s.origin
    /\ latest' = [a \in Neighbour |-> IF find_entry(s.link, a) = {} THEN NoMac ELSE told[a]]
    /\ heard' = Recent(heard, UNION {Asked(s.link.out[x]) : x \in DOMAIN s.link.out})
    /\ carried' = [n \in Datagram |->
                      carried[n] + Cardinality({x \in DOMAIN s.link.out : Carries(s.link.out[x], n)})]
    /\ strayed' = (strayed \/ \E x \in DOMAIN s.link.out : Strays(s.link.out[x], told))

\* Steps are bounded by kind, and by what they cost in all.  A frame that the driver
\* refuses and a lease that a server refuses are faults.
Cost(k) == CASE k = "start" -> 3 [] k \in {"fault", "stranger"} -> 2 [] OTHER -> 1
Spent(kinds) == FoldSet(LAMBDA k, n : n + Cost(k) * (used[k] + (IF k \in kinds THEN 1 ELSE 0)), 0, Kind)
Allowed(kinds) ==
    /\ \A k \in kinds : used[k] < MaxOf[k]
    /\ kinds = {} \/ MaxAll >= Spent(kinds)
Uses(kinds) == Allowed(kinds) /\ used' = [k \in Kind |-> used[k] + (IF k \in kinds THEN 1 ELSE 0)]

\* The free slots that a call may find in the driver.
Room == IF Allowed({"fault"}) THEN {0, TxRoom} ELSE {TxRoom}

Fault(s) == IF s.link.refused THEN {"fault"} ELSE {}
Refusal(s) == IF s.dhcp.xid # dhcp.xid THEN {"fault"} ELSE {}

Pass ==
    /\ lag < MaxLag
    /\ lag' = lag + 1 /\ dhcp' = DhcpTick(dhcp) /\ dns' = DnsTick(dns)
    /\ UNCHANGED <<link, udp, applied, backend, heard, answers, latest, carried, strayed,
                   origin, used>>

\* The hardware addresses told once frame f is in.
Told(f) ==
    IF f.type = "ARP" /\ ArpAccepted(link, f.body)
    THEN [latest EXCEPT ![f.body.sip] = f.body.smac] ELSE latest

\* rtl8139_poll hands over a frame, or none, and the timers run.
PollIdle ==
    \E tx \in Room : \E s \in {net_stack_timers(Stack(tx), lag)} :
        Uses(Fault(s)) /\ Becomes(s, latest) /\ lag' = 0

PollFrame(f, kinds) ==
    \E tx \in Room : \E s \in {net_stack_timers(net_ethernet_input(Stack(tx), f), lag)} :
        Uses(kinds \cup Fault(s) \cup Refusal(s)) /\ Becomes(s, Told(f)) /\ lag' = 0

PollAnswer == \E f \in Answers : PollFrame(f, {})

PollStranger == Allowed({"stranger"}) /\ \E f \in Strangers : PollFrame(f, {"stranger"})

net_stack_poll == PollIdle \/ PollAnswer \/ PollStranger

\* Calls of a program, between two polls, that leave the stack as s.
Call(s, kind) == Uses({kind} \cup Fault(s)) /\ Becomes(s, latest) /\ UNCHANGED lag

net_stack_start_dhcp ==
    Allowed({"start"}) /\ \E tx \in Room : Call(net_dhcp_start(Stack(tx)), "start")

net_stack_configure_static ==
    Allowed({"static"}) /\ \E c \in StaticConfigs : Call(apply_ipv4_config(Stack(0), c, "program"), "static")

ResolveName ==
    /\ Allowed({"query"})
    /\ \E tx \in Room : \E name \in Names :
        /\ find_cache_entry(dns, name) # {} \/ FreeTransactions(Stack(tx)) # {}
        /\ Call(net_dns_resolve(Stack(tx), name, used["query"] + 1), "query")

UdpSend ==
    /\ Allowed({"datagram"})
    /\ \E tx \in Room : \E x \in ProgramEndpoint : \E dst \in Neighbour \cup {Remote} :
        /\ udp.endpoint[x].active
        /\ Call(net_udp_sendto(Stack(tx), x, dst, ProgramPort,
                               [service |-> "program", n |-> used["datagram"] + 1]), "datagram")

\* A step of a program on an endpoint that sends nothing.
EndpointStep(u, kinds) ==
    /\ Uses(kinds) /\ udp' = u
    /\ UNCHANGED <<link, dhcp, dns, applied, backend, lag, heard, answers, latest, carried,
                   strayed, origin>>

UdpOpen == \E x \in ProgramEndpoint :
    /\ \A y \in ProgramEndpoint : y < x => udp.endpoint[y].active
    /\ ~udp.endpoint[x].active
    /\ EndpointStep([udp EXCEPT !.endpoint[x] = [Inactive EXCEPT !.active = TRUE]], {"socket"})

\* The address is the stack's, which is the wildcard while there is none.
UdpBind == \E x \in ProgramEndpoint :
    /\ udp.endpoint[x].active /\ ~udp.endpoint[x].bound
    /\ EndpointStep(net_udp_bind(udp, x, backend, ProgramPort), {})

UdpRecv == \E x \in ProgramEndpoint :
    /\ udp.endpoint[x].queue # <<>>
    /\ EndpointStep([udp EXCEPT !.endpoint[x].queue = Tail(@)], {})

UdpClose == \E x \in ProgramEndpoint :
    /\ udp.endpoint[x].active
    /\ EndpointStep([udp EXCEPT !.endpoint[x] = Inactive], {})

Next ==
    \/ Pass \/ net_stack_poll
    \/ net_stack_start_dhcp \/ net_stack_configure_static \/ ResolveName
    \/ UdpOpen \/ UdpBind \/ UdpSend \/ UdpRecv \/ UdpClose

Spec == Init /\ [][Next]_vars

----------------------------------------------------------------------------
\* Properties.

Mac == (UNION {MacsOf[a] : a \in Neighbour}) \cup {NoMac}

\* Every table of the stack keeps to its size and its deadlines: an entry of the ARP
\* cache or of the queue is dropped by the poll in which its time is up, and a lease
\* has T1 < T2 < expiry (net_arp.c, net_ipv4.c, net_dhcp.c, net_dns.c).
TypeOK ==
    /\ \A x \in ArpSlot :
          /\ link.arp[x].state \in {"EMPTY", "PENDING", "VALID"} /\ link.arp[x].mac \in Mac
          /\ link.arp[x].age < NET_ARP_CACHE_TTL_TICKS
          /\ link.arp[x].state = "PENDING" => link.arp[x].age < NET_ARP_PENDING_TTL_TICKS
          /\ link.arp[x].req <= link.arp[x].age
    /\ \A x \in PendingSlot : link.pending[x].age < NET_IPV4_PENDING_TTL_TICKS
    /\ \A x \in Endpoint : Len(udp.endpoint[x].queue) <= NET_UDP_QUEUE_DEPTH
    /\ dhcp.state \in {"INIT", "SELECTING", "REQUESTING", "BOUND", "RENEWING", "REBINDING", "EXPIRED"}
    /\ dhcp.config \in Config /\ dhcp.offer \in Config
    /\ net_dhcp_is_configured(dhcp) =>
          /\ 0 < dhcp.config.t1 /\ dhcp.config.t1 < dhcp.config.t2 /\ dhcp.config.t2 < dhcp.config.lease
          /\ dhcp.expire <= dhcp.config.lease
    /\ dhcp.interval \in 1..NET_DHCP_MAX_RETRY /\ dhcp.retry \in 0..NET_DHCP_MAX_RETRY
    /\ \A i \in Transaction : dns.transaction[i].attempts \in 0..NET_DNS_MAX_RETRIES

\* UDP, DNS and the sockets always send from one address.  While a configuration is
\* applied, they, the device and the routes have it and no route of an earlier one is
\* left; while none is, the device has no address and no route, and the others have
\* none either, unless the last thing that happened to theirs is that the device gave
\* it up for one that it refused.
PartsAgree ==
    /\ udp.local = backend /\ dns.local = backend
    /\ applied.valid <=> origin \in {"dhcp", "program"}
    /\ origin = "none" => backend = Zero /\ dns.server = Zero
    /\ IF applied.valid
       THEN /\ link.address = applied.address /\ link.gateway = applied.gateway
            /\ backend = applied.address /\ dns.server = applied.dns
            /\ {r.network : r \in link.routes} =
                   {Network(applied.address)} \cup (IF applied.gateway = Zero THEN {} ELSE {Zero})
            /\ \A r \in link.routes : r.gateway = IF r.network = Zero THEN applied.gateway ELSE Zero
       ELSE link.address = Zero /\ link.gateway = Zero /\ link.routes = {}

\* An address is resolved only on the link of the current configuration.
ResolvesOnLink ==
    \A x \in ArpSlot : link.arp[x].state = "PENDING" => OnLink(link.arp[x].ip, link.address)

\* An address that DHCP gave is given up when the lease runs out, and follows the
\* lease in force, unless that lease came without a netmask and so cannot be applied.
AddressLeased ==
    applied.valid /\ origin = "dhcp" =>
        /\ dhcp.state # "EXPIRED"
        /\ net_dhcp_is_configured(dhcp) /\ dhcp.config.mask =>
               applied.address = dhcp.config.address

\* However leases are granted, changed, refused and run out, and programs set
\* configurations in between, the parts of the stack keep to one configuration
\* (apply_ipv4_config, clear_ipv4_config, synchronize_dhcp_config).
ConfigurationCoherent == PartsAgree /\ ResolvesOnLink /\ AddressLeased

Waiting(n) == {x \in PendingSlot : link.pending[x].used /\ Carries([type |-> "IPv4", body |-> link.pending[x].packet], n)}

\* A datagram is transmitted or waits at most once in all, and every frame goes
\* to the hardware address that its next hop told last.
DatagramsOnce ==
    /\ ~strayed
    /\ \A n \in Datagram : carried[n] + Cardinality(Waiting(n)) <= 1

Outstanding(q) == {i \in Transaction : dns.transaction[i].in_use /\ dns.transaction[i].query = q}

\* A query that was accepted is outstanding or has one result, never both, and its
\* transaction ends in time.
QueriesOnce ==
    \A q \in Query : Len(answers[q]) + Cardinality(Outstanding(q)) = IF q <= used["query"] THEN 1 ELSE 0

\* Nothing that the stack accepts is done twice, whatever the network repeats,
\* delays or loses (net_ipv4.c, net_arp.c, net_dns.c).
DeliveredOnce == DatagramsOnce /\ QueriesOnce
=============================================================================
