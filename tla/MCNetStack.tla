----------------------------- MODULE MCNetStack -----------------------------
EXTENDS NetStack

Hosts == {15, 16}
Macs == [a \in Hosts |-> IF a = 15 THEN {"m1", "m2"} ELSE {"m3"}]

Lease(server, address, mask, gateway, resolver, lease, t1, t2) ==
    [server |-> server, address |-> address, mask |-> mask, gateway |-> gateway, dns |-> resolver,
     lease |-> lease, t1 |-> t1, t2 |-> t2]

\* The first has T1 after T2, the second no netmask.
OfferSet == {Lease(15, 11, TRUE, 15, 16, 3, 2, 1), Lease(16, 12, FALSE, 15, 0, 3, 0, 0)}

Static(gateway) == [address |-> 13, mask |-> TRUE, gateway |-> gateway, dns |-> 16]
Statics == {Static(0), Static(25)}                  \* a gateway of another network

Record(owner, address, ttl) == [owner |-> owner, address |-> address, ttl |-> ttl]
Alias(owner, target, ttl) == [owner |-> owner, target |-> target, ttl |-> ttl]
Reply(flags, aliases, addresses) == [flags |-> flags, aliases |-> aliases, addresses |-> addresses]
ReplySet == {Reply("", {Alias("a", "b", 1)}, {Record("b", 41, 2)}),
             Reply("", {Alias("a", "b", 1), Alias("b", "a", 1)}, {}),
             Reply("nxdomain", {}, {})}

Bounds == [start |-> 1, static |-> 1, query |-> 1, socket |-> 1, datagram |-> 1, stranger |-> 1, fault |-> 1]
=============================================================================
