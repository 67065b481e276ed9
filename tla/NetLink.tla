------------------------------- MODULE NetLink -------------------------------
(***************************************************************************)
(* The lower half of the network stack: the device (net_device.c,          *)
(* net_ethernet.c), the ARP cache (net_arp.c), the routes and the queue of *)
(* datagrams that wait for an address resolution (net_ipv4.c).  A call     *)
(* takes the state k of these parts and returns the state it leaves; the   *)
(* module NetStack strings the calls together.                             *)
(*                                                                         *)
(* An address is a number: the tens are its network, the units its host,   *)
(* so there is one netmask, and 9 is the host of a directed broadcast.     *)
(* There is one device, configured iff its address is not Zero.  Of the    *)
(* driver, only its free transmit slots (k.tx) are kept: a frame is handed *)
(* over or refused with NET_ERR_AGAIN.  Time is in ticks of one second.    *)
(***************************************************************************)
EXTENDS Integers, Sequences, FiniteSets, FiniteSetsExt, SequencesExt

CONSTANTS
    OwnMac, NoMac,
    NET_ARP_CACHE_CAPACITY, NET_ARP_CACHE_TTL_TICKS,
    NET_ARP_REQUEST_RETRY_TICKS, NET_ARP_PENDING_TTL_TICKS,
    NET_IPV4_PENDING_CAPACITY, NET_IPV4_PENDING_TTL_TICKS

Zero == 0
Broadcast == 99         \* the limited broadcast address
BroadcastMac == "ff"

ASSUME LinkAssumption ==
    /\ NET_ARP_CACHE_CAPACITY \in Nat \ {0} /\ NET_IPV4_PENDING_CAPACITY \in Nat \ {0}
    /\ NET_ARP_CACHE_TTL_TICKS \in Nat \ {0} /\ NET_ARP_PENDING_TTL_TICKS \in Nat \ {0}
    /\ NET_ARP_REQUEST_RETRY_TICKS \in Nat \ {0} /\ NET_IPV4_PENDING_TTL_TICKS \in Nat \ {0}
    /\ NET_ARP_PENDING_TTL_TICKS <= NET_ARP_CACHE_TTL_TICKS
    /\ OwnMac # NoMac /\ BroadcastMac # NoMac

Network(a) == a \div 10
Unicast(a) == a \notin {Zero, Broadcast}
BroadcastHost(a) == a % 10 = 9
OnLink(a, own) == own # Zero /\ Network(a) = Network(own)

ArpSlot == 1..NET_ARP_CACHE_CAPACITY
PendingSlot == 1..NET_IPV4_PENDING_CAPACITY

EmptyEntry == [state |-> "EMPTY", ip |-> Zero, mac |-> NoMac, age |-> 0, req |-> 0]
NoPacket == [used |-> FALSE, hop |-> Zero, packet |-> <<>>, age |-> 0]

LinkInit == [address |-> Zero, gateway |-> Zero, routes |-> {},
             arp |-> [x \in ArpSlot |-> EmptyEntry],
             pending |-> [x \in PendingSlot |-> NoPacket],
             tx |-> 0, out |-> <<>>, refused |-> FALSE]

FirstOf(S) == Min(S)

----------------------------------------------------------------------------
\* The device.

net_ethernet_send(k, mac, type, body) ==
    IF k.tx = 0 THEN [k EXCEPT !.refused = TRUE]
    ELSE [k EXCEPT !.tx = @ - 1, !.out = Append(@, [mac |-> mac, type |-> type, body |-> body])]

\* The addresses and gateways that net_device_configure_ipv4 accepts.
Configurable(c) ==
    /\ Unicast(c.address) /\ c.mask
    /\ c.address % 10 # 0 /\ ~BroadcastHost(c.address)
    /\ c.gateway # Zero =>
          /\ Unicast(c.gateway) /\ c.gateway # c.address
          /\ Network(c.gateway) = Network(c.address)
          /\ c.gateway % 10 # 0 /\ ~BroadcastHost(c.gateway)

net_device_configure_ipv4(k, c) == [k EXCEPT !.address = c.address, !.gateway = c.gateway]
net_device_clear_ipv4(k) == [k EXCEPT !.address = Zero, !.gateway = Zero]

----------------------------------------------------------------------------
\* The routes: the connected network, or everything (a route to Zero).

net_ipv4_route_add(k, network, gateway, metric) ==
    IF \/ \E r \in k.routes : r.network = network
       \/ gateway # Zero /\ ~OnLink(gateway, k.address)
    THEN k
    ELSE [k EXCEPT !.routes = @ \cup {[network |-> network, gateway |-> gateway, metric |-> metric]}]

net_ipv4_route_remove(k, network) ==
    [k EXCEPT !.routes = {r \in @ : r.network # network}]

route_matches(r, a) == r.network \in {Zero, Network(a)}

net_ipv4_route_lookup(k, a) ==
    \/ a = Broadcast
    \/ \E r \in k.routes : route_matches(r, a)
    \/ OnLink(a, k.address)
    \/ k.address # Zero /\ k.gateway # Zero

\* The most specific route decides; Zero stands for NET_ERR_NO_ROUTE.
next_hop_for_device(k, a) ==
    LET via == {r \in k.routes : route_matches(r, a)}
        best == CHOOSE r \in via : \A q \in via : r.network >= q.network
    IN  IF a = Broadcast \/ OnLink(a, k.address) THEN a
        ELSE IF via # {} THEN IF best.gateway = Zero THEN a ELSE best.gateway
        ELSE IF k.address # Zero THEN k.gateway ELSE Zero

----------------------------------------------------------------------------
\* The ARP cache.

find_entry(k, a) == {x \in ArpSlot : k.arp[x].state # "EMPTY" /\ k.arp[x].ip = a}

\* A free entry, or else the oldest one, which is then lost.
allocate_entry(k) ==
    LET free == {x \in ArpSlot : k.arp[x].state = "EMPTY"}
        oldest == {x \in ArpSlot : \A y \in ArpSlot : k.arp[x].age >= k.arp[y].age}
    IN  FirstOf(IF free # {} THEN free ELSE oldest)

EntryFor(k, a) == IF find_entry(k, a) # {} THEN FirstOf(find_entry(k, a)) ELSE allocate_entry(k)

net_arp_reset(k) == [k EXCEPT !.arp = [x \in ArpSlot |-> EmptyEntry]]

\* The hardware address for a, or NoMac.
net_arp_lookup(k, a) ==
    IF a = Broadcast \/ (OnLink(a, k.address) /\ BroadcastHost(a)) THEN BroadcastMac
    ELSE IF k.address # Zero /\ a = k.address THEN OwnMac
    ELSE IF \E x \in find_entry(k, a) : k.arp[x].state = "VALID"
         THEN k.arp[FirstOf(find_entry(k, a))].mac
         ELSE NoMac

net_arp_request(k, a) ==
    net_ethernet_send(k, BroadcastMac, "ARP",
        [op |-> "request", smac |-> OwnMac, sip |-> k.address, tip |-> a])

\* Asked when net_arp_lookup has found nothing: starts a resolution unless one runs.
net_arp_resolve(k, a) ==
    LET x == EntryFor(k, a)
        e == k.arp[x]
    IN  IF e.state = "PENDING" /\ e.ip = a /\ e.age - e.req < NET_ARP_REQUEST_RETRY_TICKS THEN k
        ELSE net_arp_request(
                [k EXCEPT !.arp[x] = [EmptyEntry EXCEPT !.state = "PENDING", !.ip = a]], a)

\* One entry after n more ticks; a pending one asks again.
TickEntry(k, x, n) ==
    LET e == [k.arp[x] EXCEPT !.age = @ + n]
    IN  IF e.state = "EMPTY" THEN k
        ELSE IF e.age >= (IF e.state = "VALID" THEN NET_ARP_CACHE_TTL_TICKS
                                                ELSE NET_ARP_PENDING_TTL_TICKS)
             THEN [k EXCEPT !.arp[x] = EmptyEntry]
        ELSE IF e.state = "PENDING" /\ e.age - e.req >= NET_ARP_REQUEST_RETRY_TICKS
             THEN net_arp_request([k EXCEPT !.arp[x] = [e EXCEPT !.req = e.age]], e.ip)
        ELSE [k EXCEPT !.arp[x] = e]

net_arp_tick(k, n) ==
    LET ticked[x \in 0..NET_ARP_CACHE_CAPACITY] ==
            IF x = 0 THEN k ELSE TickEntry(ticked[x - 1], x, n)
    IN  ticked[NET_ARP_CACHE_CAPACITY]

----------------------------------------------------------------------------
\* Datagrams on their way out.

\* Mutant: the slot stays in use.
SendPending_Keeps(k, x, mac) == net_ethernet_send(k, mac, "IPv4", k.pending[x].packet)

\* Sends the datagram of a slot to the hardware address mac and frees the slot,
\* whether the driver takes the frame or not.
SendPending(k, x, mac) ==
    [net_ethernet_send(k, mac, "IPv4", k.pending[x].packet) EXCEPT !.pending[x] = NoPacket]

\* One slot when the hardware address of a is known to be mac.
NotifyPending(k, x, a, mac) ==
    IF k.pending[x].used /\ k.pending[x].hop = a THEN SendPending(k, x, mac) ELSE k

net_ipv4_notify_arp_resolved(k, a) ==
    LET sent[x \in 0..NET_IPV4_PENDING_CAPACITY] ==
            IF x = 0 THEN k ELSE NotifyPending(sent[x - 1], x, a, net_arp_lookup(k, a))
    IN  sent[NET_IPV4_PENDING_CAPACITY]

TickPending(k, x, n) ==
    LET p == k.pending[x]
    IN  IF ~p.used THEN k
        ELSE IF net_arp_lookup(k, p.hop) # NoMac THEN SendPending(k, x, net_arp_lookup(k, p.hop))
        ELSE IF p.age + n >= NET_IPV4_PENDING_TTL_TICKS THEN [k EXCEPT !.pending[x] = NoPacket]
        ELSE [k EXCEPT !.pending[x].age = @ + n]

net_ipv4_tick(k, n) ==
    LET ticked[x \in 0..NET_IPV4_PENDING_CAPACITY] ==
            IF x = 0 THEN k ELSE TickPending(ticked[x - 1], x, n)
    IN  ticked[NET_IPV4_PENDING_CAPACITY]

FreePending(k) == {x \in PendingSlot : ~k.pending[x].used}

queue_pending_packet(k, hop, packet) ==
    IF FreePending(k) = {} THEN k
    ELSE [k EXCEPT !.pending[FirstOf(FreePending(k))] =
                       [used |-> TRUE, hop |-> hop, packet |-> packet, age |-> 0]]

\* The source address of a datagram, or Broadcast where the send is refused.
SourceAddress(k, src, dst) ==
    IF k.address # Zero
    THEN IF src \in {Zero, k.address} THEN k.address ELSE Broadcast
    ELSE IF src = Zero /\ dst = Broadcast THEN Zero ELSE Broadcast

\* NET_OK: the datagram is with the driver, or in the queue.
Sendable(k, src, dst) ==
    /\ dst # Zero /\ net_ipv4_route_lookup(k, dst)
    /\ SourceAddress(k, src, dst) # Broadcast
    /\ next_hop_for_device(k, dst) # Zero
    /\ IF net_arp_lookup(k, next_hop_for_device(k, dst)) # NoMac
       THEN k.tx > 0 ELSE FreePending(k) # {}

\* net_ipv4_send_on.  A resolution is started even where the queue is full.
SendVia(k, hop, packet) ==
    IF net_arp_lookup(k, hop) # NoMac
    THEN net_ethernet_send(k, net_arp_lookup(k, hop), "IPv4", packet)
    ELSE queue_pending_packet(net_arp_resolve(k, hop), hop, packet)

net_ipv4_send(k, src, dst, proto, data) ==
    IF \/ dst = Zero \/ ~net_ipv4_route_lookup(k, dst)
       \/ SourceAddress(k, src, dst) = Broadcast \/ next_hop_for_device(k, dst) = Zero
    THEN k
    ELSE SendVia(k, next_hop_for_device(k, dst),
                 [src |-> SourceAddress(k, src, dst), dst |-> dst, proto |-> proto, data |-> data])

----------------------------------------------------------------------------
\* Packets that come in.

cache_protocol_address(k, a, mac) ==
    IF ~Unicast(a) THEN k
    ELSE net_ipv4_notify_arp_resolved(
            [k EXCEPT !.arp[EntryFor(k, a)] = [EmptyEntry EXCEPT !.state = "VALID", !.ip = a, !.mac = mac]],
            a)

\* An ARP packet that is for this device, from the host that it names.
ArpAccepted(k, p) ==
    /\ k.address # Zero /\ p.tip = k.address /\ p.sip # k.address
    /\ p.sip = Zero \/ Unicast(p.sip)
    /\ p.op = "reply" => p.sip # Zero /\ find_entry(k, p.sip) # {}

net_arp_input(k, p) ==
    IF ~ArpAccepted(k, p) THEN k
    ELSE IF p.op = "reply" THEN cache_protocol_address(k, p.sip, p.smac)
    ELSE net_ethernet_send(cache_protocol_address(k, p.sip, p.smac), p.smac, "ARP",
            [op |-> "reply", smac |-> OwnMac, sip |-> k.address, tip |-> p.sip])

\* The destinations that net_ipv4_input takes.
ForThisHost(k, dst) ==
    \/ dst = Broadcast
    \/ k.address # Zero /\ (dst = k.address \/ (OnLink(dst, k.address) /\ BroadcastHost(dst)))

\* An echo request is answered; the reply to one of ours goes to a handler.
net_icmp_input(k, p) ==
    IF p.data.type = "echo_request" /\ k.address # Zero /\ p.dst = k.address
    THEN net_ipv4_send(k, p.dst, p.src, "ICMP", [p.data EXCEPT !.type = "echo_reply"])
    ELSE k
=============================================================================
