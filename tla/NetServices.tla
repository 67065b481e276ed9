----------------------------- MODULE NetServices -----------------------------
(***************************************************************************)
(* UDP endpoints (net_udp.c) and the two clients that run on them: DHCP    *)
(* (net_dhcp.c) and DNS (net_dns.c).  A call takes the state s of the      *)
(* whole stack and returns the state that it leaves.                       *)
(*                                                                         *)
(* A deadline is the time that is left until it, so the clock needs no     *)
(* bound; a deadline in the past is 0.  An endpoint is known by its slot:  *)
(* the first is the DHCP client's, the next ones are the DNS client's, one *)
(* for each transaction, the rest belong to programs.                      *)
(***************************************************************************)
EXTENDS NetLink

CONSTANTS
    NET_UDP_MAX_ENDPOINTS, NET_UDP_QUEUE_DEPTH,
    NET_UDP_EPHEMERAL_FIRST, NET_UDP_EPHEMERAL_LAST,
    NET_DHCP_INITIAL_RETRY, NET_DHCP_MAX_RETRY,
    NET_DNS_MAX_TRANSACTIONS, NET_DNS_MAX_CACHE_ENTRIES, NET_DNS_MAX_RETRIES,
    DNS_RETRY_BASE, DNS_TRANSACTION_TIMEOUT,
    XidMod, IdMod       \* the range of transaction identifiers

NET_DHCP_CLIENT_PORT == 68
NET_DHCP_SERVER_PORT == 67
NET_DNS_PORT == 53
NET_STACK_DNS_PORT_BASE == 500

ASSUME ServicesAssumption ==
    /\ NET_UDP_MAX_ENDPOINTS \in Nat /\ NET_UDP_QUEUE_DEPTH \in Nat \ {0}
    /\ NET_UDP_MAX_ENDPOINTS > 1 + NET_DNS_MAX_TRANSACTIONS
    /\ NET_DHCP_MAX_RETRY \in Nat /\ NET_DHCP_INITIAL_RETRY \in 1..NET_DHCP_MAX_RETRY
    /\ NET_DNS_MAX_RETRIES \in Nat \ {0}
    /\ NET_UDP_EPHEMERAL_LAST >= NET_UDP_EPHEMERAL_FIRST
    /\ NET_DNS_MAX_TRANSACTIONS \in Nat \ {0} /\ NET_DNS_MAX_CACHE_ENTRIES \in Nat \ {0}
    /\ IdMod > NET_DNS_MAX_TRANSACTIONS /\ XidMod > 1
    /\ NET_STACK_DNS_PORT_BASE + NET_DNS_MAX_TRANSACTIONS < NET_UDP_EPHEMERAL_FIRST

Endpoint == 1..NET_UDP_MAX_ENDPOINTS
DhcpEndpoint == 1
Transaction == 1..NET_DNS_MAX_TRANSACTIONS
DnsEndpoint(i) == 1 + i
ProgramEndpoint == (2 + NET_DNS_MAX_TRANSACTIONS)..NET_UDP_MAX_ENDPOINTS
CacheSlot == 1..NET_DNS_MAX_CACHE_ENTRIES

----------------------------------------------------------------------------
\* UDP.

Inactive == [active |-> FALSE, bound |-> FALSE, address |-> Zero, port |-> 0, queue |-> <<>>]
BoundTo(address, port) == [Inactive EXCEPT !.active = TRUE, !.bound = TRUE,
                                           !.address = address, !.port = port]

\* initialize_service_endpoints: the services hold their ports from the start.
UdpInit ==
    [local |-> Zero, ephemeral |-> NET_UDP_EPHEMERAL_FIRST,
     endpoint |-> [x \in Endpoint |->
        IF x = DhcpEndpoint THEN BoundTo(Zero, NET_DHCP_CLIENT_PORT)
        ELSE IF x \in ProgramEndpoint THEN Inactive
        ELSE BoundTo(Zero, NET_STACK_DNS_PORT_BASE + x - DnsEndpoint(1))]]

binding_conflicts(u, x, address, port) ==
    \E y \in Endpoint \ {x} :
        /\ u.endpoint[y].active /\ u.endpoint[y].bound /\ u.endpoint[y].port = port
        /\ Zero \in {address, u.endpoint[y].address} \/ address = u.endpoint[y].address

\* The first free port from the cursor on, cyclically; 0 when there is none.
choose_ephemeral(u, x, address) ==
    LET range == NET_UDP_EPHEMERAL_LAST - NET_UDP_EPHEMERAL_FIRST + 1
        nth(i) == NET_UDP_EPHEMERAL_FIRST + ((u.ephemeral - NET_UDP_EPHEMERAL_FIRST + i) % range)
        free == {i \in 0..(range - 1) : ~binding_conflicts(u, x, address, nth(i))}
    IN  IF free = {} THEN 0 ELSE nth(Min(free))

\* net_udp_bind with port 0 also moves the cursor past the port it takes.
net_udp_bind(u, x, address, port) ==
    IF u.endpoint[x].bound \/ port = 0 \/ binding_conflicts(u, x, address, port) THEN u
    ELSE [u EXCEPT !.endpoint[x] = BoundTo(address, port)]

BindEphemeral(u, x, address) ==
    LET port == choose_ephemeral(u, x, address)
    IN  IF u.endpoint[x].bound \/ port = 0 THEN u
        ELSE [net_udp_bind(u, x, address, port) EXCEPT
                 !.ephemeral = IF port = NET_UDP_EPHEMERAL_LAST
                               THEN NET_UDP_EPHEMERAL_FIRST ELSE port + 1]

\* The state of the endpoints in which net_udp_sendto hands the datagram on.
UdpForSend(u, x) == IF u.endpoint[x].bound THEN u ELSE BindEphemeral(u, x, Zero)

UdpSource(u, x) == IF u.endpoint[x].address # Zero THEN u.endpoint[x].address ELSE u.local

net_udp_sendto(s, x, dst, dport, message) ==
    LET u == UdpForSend(s.udp, x)
    IN  IF dst = Zero \/ ~u.endpoint[x].bound THEN [s EXCEPT !.udp = u]
        ELSE [s EXCEPT !.udp = u,
                       !.link = net_ipv4_send(s.link, UdpSource(u, x), dst, "UDP",
                                    [sport |-> u.endpoint[x].port, dport |-> dport,
                                     message |-> message])]

\* net_udp_sendto returns NET_UDP_OK.
UdpSends(s, x, dst) ==
    LET u == UdpForSend(s.udp, x)
    IN  dst # Zero /\ u.endpoint[x].bound /\ Sendable(s.link, UdpSource(u, x), dst)

\* The endpoint a datagram is for: an exact match before a wildcard, or none.
find_destination(u, dst, port) ==
    LET bound == {x \in Endpoint : u.endpoint[x].active /\ u.endpoint[x].bound
                                   /\ u.endpoint[x].port = port}
        exact == {x \in bound : u.endpoint[x].address = dst}
        wild == {x \in bound : u.endpoint[x].address = Zero}
    IN  IF exact # {} THEN {Min(exact)} ELSE IF wild # {} THEN {Max(wild)} ELSE {}

----------------------------------------------------------------------------
\* The DHCP client.

Config == [address : Nat, mask : BOOLEAN, gateway : Nat, dns : Nat, server : Nat,
           lease : Nat, t1 : Nat, t2 : Nat]
NoConfig == [address |-> Zero, mask |-> FALSE, gateway |-> Zero, dns |-> Zero, server |-> Zero,
             lease |-> 0, t1 |-> 0, t2 |-> 0]

DhcpInit == [state |-> "INIT", xid |-> 0, config |-> NoConfig, offer |-> NoConfig,
             retry |-> 0, interval |-> NET_DHCP_INITIAL_RETRY,
             renew |-> 0, rebind |-> 0, expire |-> 0]

net_dhcp_is_configured(d) == d.state \in {"BOUND", "RENEWING", "REBINDING"}

reset_retry(d) == [d EXCEPT !.interval = NET_DHCP_INITIAL_RETRY, !.retry = 0]

\* What build_message puts together, with the address it is sent to.
DhcpMessage(d) ==
    [service |-> "dhcp", xid |-> d.xid,
     type |-> IF d.state = "SELECTING" THEN "DISCOVER" ELSE "REQUEST",
     server |-> CASE d.state = "REQUESTING" -> d.offer.server
                  [] d.state = "RENEWING" -> d.config.server [] OTHER -> Zero,
     address |-> IF d.state = "RENEWING" THEN d.config.address ELSE Zero]
DhcpDestination(d) == IF d.state = "RENEWING" THEN d.config.server ELSE Broadcast

\* The interval doubles up to its limit, whether the datagram left or not.
transmit_for_state(s) ==
    [net_udp_sendto(s, DhcpEndpoint, DhcpDestination(s.dhcp), NET_DHCP_SERVER_PORT, DhcpMessage(s.dhcp))
        EXCEPT !.dhcp.retry = s.dhcp.interval,
               !.dhcp.interval = Min({2 * s.dhcp.interval, NET_DHCP_MAX_RETRY})]

net_dhcp_start(s) ==
    transmit_for_state(
        [s EXCEPT !.dhcp = [DhcpInit EXCEPT !.state = "SELECTING", !.xid = (s.dhcp.xid + 1) % XidMod]])

\* An option that the server leaves out keeps the value it had.
copy_option_configuration(c, o) ==
    [f \in DOMAIN c |-> IF f # "address" /\ o[f] # NoConfig[f] THEN o[f] ELSE c[f]]

\* T1 and T2 where the server gives none or gives them out of order.
DefaultRenewal(lease) == lease \div 2
DefaultRebinding(lease) == Min({Max({lease - lease \div 8, DefaultRenewal(lease) + 1}), lease - 1})

\* Mutant: T1 and T2 of the server are taken as they come.
BoundConfig_Trusts(d, o) ==
    LET c == [copy_option_configuration(IF d.state = "REQUESTING" THEN d.offer ELSE d.config, o)
                 EXCEPT !.address = IF o.address # Zero THEN o.address ELSE @]
    IN  IF 0 < c.t1 /\ 0 < c.t2 /\ c.t2 < c.lease THEN c
        ELSE [c EXCEPT !.t1 = DefaultRenewal(c.lease), !.t2 = DefaultRebinding(c.lease)]

\* The configuration that an ACK binds.
BoundConfig(d, o) ==
    LET c == [copy_option_configuration(IF d.state = "REQUESTING" THEN d.offer ELSE d.config, o)
                 EXCEPT !.address = IF o.address # Zero THEN o.address ELSE @]
    IN  IF 0 < c.t1 /\ c.t1 < c.t2 /\ c.t2 < c.lease THEN c
        ELSE [c EXCEPT !.t1 = DefaultRenewal(c.lease), !.t2 = DefaultRebinding(c.lease)]

bind_configuration(d, o) ==
    LET c == BoundConfig(d, o)
    IN  IF c.address = Zero \/ c.server = Zero \/ o.lease < 3 THEN d
        ELSE [reset_retry(d) EXCEPT !.state = "BOUND", !.config = c,
                 !.renew = c.t1, !.rebind = c.t2, !.expire = c.lease]

net_dhcp_receive(s, m) ==
    LET d == s.dhcp
        o == m.config
    IN  CASE m.xid # d.xid -> s
          [] m.type = "OFFER" ->
                IF d.state # "SELECTING" \/ o.server = Zero \/ o.address = Zero THEN s
                ELSE transmit_for_state(
                        [s EXCEPT !.dhcp = [reset_retry(d) EXCEPT !.state = "REQUESTING", !.offer = o]])
          [] \/ d.state \notin {"REQUESTING", "RENEWING", "REBINDING"} \/ o.server = Zero
             \/ d.state # "REBINDING" /\ o.server \notin {d.config.server, d.offer.server} -> s
          [] m.type = "NAK" -> net_dhcp_start(s)
          [] OTHER ->
                IF d.state = "REQUESTING" /\ o.address # d.offer.address THEN s
                ELSE [s EXCEPT !.dhcp = bind_configuration(d, o)]

\* The deadline that a poll acts on: expiry before T2, T2 before T1.
net_dhcp_poll(s) ==
    LET d == s.dhcp
        leased == net_dhcp_is_configured(d)
        enter(state) == transmit_for_state([s EXCEPT !.dhcp = [reset_retry(d) EXCEPT !.state = state]])
    IN  CASE leased /\ d.expire = 0 ->
                [s EXCEPT !.dhcp = [d EXCEPT !.state = "EXPIRED", !.config = NoConfig,
                                             !.renew = 0, !.rebind = 0]]
          [] d.state \in {"BOUND", "RENEWING"} /\ d.rebind = 0 /\ d.expire > 0 -> enter("REBINDING")
          [] d.state = "BOUND" /\ d.renew = 0 /\ d.rebind > 0 -> enter("RENEWING")
          [] /\ d.retry = 0
             /\ \/ d.state \in {"SELECTING", "REQUESTING"}
                \/ d.state = "RENEWING" /\ d.rebind > 0
                \/ d.state = "REBINDING" /\ d.expire > 0 -> transmit_for_state(s)
          [] OTHER -> s

DhcpTick(d) == [d EXCEPT !.retry = Max({@ - 1, 0}), !.renew = Max({@ - 1, 0}),
                         !.rebind = Max({@ - 1, 0}), !.expire = Max({@ - 1, 0})]

----------------------------------------------------------------------------
\* The DNS client.

FreeTransaction == [in_use |-> FALSE, id |-> 0, name |-> "", attempts |-> 0,
                    retry |-> 0, deadline |-> 0, query |-> 0]
FreeCache == [in_use |-> FALSE, name |-> "", address |-> Zero, expires |-> 0, sequence |-> 0]

DnsInit == [local |-> Zero, server |-> Zero, next |-> 0, sequence |-> 0,
            transaction |-> [i \in Transaction |-> FreeTransaction],
            cache |-> [x \in CacheSlot |-> FreeCache]]

\* The first entry for a name that has not expired.
find_cache_entry(c, name) ==
    {x \in CacheSlot : c.cache[x].in_use /\ c.cache[x].expires > 0 /\ c.cache[x].name = name}

\* The first identifier from the cursor on that no transaction uses; the slot of the
\* new one counts, and holds 0.
allocate_identifier(c) ==
    LET used == {0} \cup {c.transaction[i].id : i \in {j \in Transaction : c.transaction[j].in_use}}
        free == {k \in 0..(IdMod - 1) : (c.next + k) % IdMod \notin used}
    IN  (c.next + Min(free)) % IdMod

DnsQuery(t) == [service |-> "dns", id |-> t.id, name |-> t.name]

send_query(s, i) ==
    net_udp_sendto(s, DnsEndpoint(i), s.dns.server, NET_DNS_PORT, DnsQuery(s.dns.transaction[i]))

\* The result of a query, an address or Zero with an error, reaches its caller, and
\* the transaction is free again.
deliver_result(s, i, result) ==
    [s EXCEPT !.dns.transaction[i] = FreeTransaction,
              !.answers[s.dns.transaction[i].query] = Append(@, result.address)]

Failure(status) == [status |-> status, address |-> Zero]

\* net_dns_resolve for the query numbered q.
StartQuery(s, i, name, q) ==
    LET c == s.dns
        id == allocate_identifier(c)
        asked == [s EXCEPT
            !.dns.next = (id + 1) % IdMod,
            !.dns.transaction[i] =
                [in_use |-> TRUE, id |-> id, name |-> name, attempts |-> 1,
                 retry |-> DNS_RETRY_BASE, deadline |-> DNS_TRANSACTION_TIMEOUT, query |-> q]]
    IN  IF UdpSends(asked, DnsEndpoint(i), c.server) THEN send_query(asked, i)
        ELSE deliver_result(send_query(asked, i), i, Failure("SEND_FAILED"))

FreeTransactions(s) == {i \in Transaction : ~s.dns.transaction[i].in_use}

net_dns_resolve(s, name, q) ==
    LET hit == find_cache_entry(s.dns, name)
    IN  IF hit # {}
        THEN [s EXCEPT !.answers[q] = Append(@, s.dns.cache[Min(hit)].address)]
        ELSE StartQuery(s, Min(FreeTransactions(s)), name, q)

\* The entry that takes a result: the first one that has the name, is free or has
\* expired; where there is none, the one filled first.
CacheTarget(c, name) ==
    LET fit == {x \in CacheSlot : \/ ~c.cache[x].in_use \/ c.cache[x].expires = 0
                                  \/ c.cache[x].name = name}
        first == {x \in CacheSlot : \A y \in CacheSlot : c.cache[x].sequence <= c.cache[y].sequence}
    IN  Min(IF fit # {} THEN fit ELSE first)

cache_result(c, name, address, ttl) ==
    IF ttl = 0 THEN c
    ELSE [c EXCEPT !.sequence = @ + 1,
                   !.cache[CacheTarget(c, name)] =
                       [in_use |-> TRUE, name |-> name, address |-> address, expires |-> ttl,
                        sequence |-> c.sequence + 1]]

\* The names reached from a name along the aliases of a reply, up to the first one
\* with an address; a loop of aliases ends at a name that still has one.
AliasChain(r, name) ==
    LET target(a) == {x.target : x \in {y \in r.aliases : y.owner = a}}
        chain[n \in 0..(Cardinality(r.aliases) + 1)] ==
            IF n = 0 THEN <<name>>
            ELSE LET c == chain[n - 1]
                     last == c[Len(c)]
                 IN  IF \/ \E x \in r.addresses : x.owner = last
                        \/ Cardinality(target(last)) # 1
                     THEN c ELSE Append(c, CHOOSE a \in target(last) : TRUE)
    IN  chain[Cardinality(r.aliases) + 1]

\* What a reply that answers the question comes to.
AnswerOf(r, name) ==
    LET chain == AliasChain(r, name)
        last == chain[Len(chain)]
        found == {x \in r.addresses : x.owner = last}
    IN  CASE r.flags = "malformed" -> Failure("MALFORMED")
          [] r.flags = "truncated" -> Failure("TRUNCATED")
          [] r.flags = "nxdomain" -> Failure("NXDOMAIN")
          [] r.flags = "error" -> Failure("SERVER_ERROR")
          [] found # {} -> [status |-> "OK", address |-> (CHOOSE x \in found : TRUE).address]
          [] \E x \in r.aliases : x.owner = last -> Failure("MALFORMED")
          [] OTHER -> Failure("NODATA")

AnswerTtl(r, name) ==
    LET chain == AliasChain(r, name)
    IN  Min({x.ttl : x \in {y \in r.addresses : y.owner = chain[Len(chain)]}}
            \cup {x.ttl : x \in {y \in r.aliases : \E n \in 1..(Len(chain) - 1) : y.owner = chain[n]}})

\* net_dns_receive on the endpoint of transaction i.
AcceptReply(s, i, m) ==
    LET name == s.dns.transaction[i].name
        answer == AnswerOf(m.reply, name)
    IN  IF m.name # name THEN deliver_result(s, i, Failure("MALFORMED"))
        ELSE IF answer.status = "OK"
        THEN deliver_result([s EXCEPT !.dns = cache_result(@, name, answer.address, AnswerTtl(m.reply, name))],
                            i, answer)
        ELSE deliver_result(s, i, answer)

net_dns_receive(s, i, src, m) ==
    IF src # s.dns.server \/ ~s.dns.transaction[i].in_use \/ s.dns.transaction[i].id # m.id THEN s
    ELSE AcceptReply(s, i, m)

PollTransaction(s, i) ==
    LET t == s.dns.transaction[i]
    IN  IF ~t.in_use THEN s
        ELSE IF t.deadline = 0 THEN deliver_result(s, i, Failure("TIMEOUT"))
        ELSE IF t.retry > 0 \/ t.attempts >= NET_DNS_MAX_RETRIES THEN s
        ELSE [send_query(s, i) EXCEPT !.dns.transaction[i] =
                 [t EXCEPT !.attempts = t.attempts + 1, !.retry = DNS_RETRY_BASE * 2^t.attempts]]

\* Entries that have expired are dropped.
DropExpired(c) ==
    [c EXCEPT !.cache = [x \in CacheSlot |-> IF @[x].expires = 0 THEN FreeCache ELSE @[x]]]

\* Then each transaction has its turn.
net_dns_poll(s) ==
    LET polled[i \in 0..NET_DNS_MAX_TRANSACTIONS] ==
            IF i = 0 THEN [s EXCEPT !.dns = DropExpired(@)]
            ELSE PollTransaction(polled[i - 1], i)
    IN  polled[NET_DNS_MAX_TRANSACTIONS]

DnsTick(c) ==
    LET later(t) == [t EXCEPT !.retry = Max({@ - 1, 0}), !.deadline = Max({@ - 1, 0})]
        older(e) == [e EXCEPT !.expires = Max({@ - 1, 0})]
    IN  [c EXCEPT !.transaction = [i \in Transaction |-> later(@[i])],
                  !.cache = [x \in CacheSlot |-> older(@[x])]]

net_dns_flush_cache(c) == [c EXCEPT !.cache = [x \in CacheSlot |-> FreeCache]]
net_dns_set_network(c, address, server) == [c EXCEPT !.local = address, !.server = server]
=============================================================================
