----------------------------- MODULE TcpSockets -----------------------------
(***************************************************************************)
(* Stream sockets of two hosts over a network that loses, duplicates and   *)
(* reorders segments: the socket table (kernel/net/socket_api.c), the      *)
(* backend that ties a socket to a connection (socket_net_backend.c) and   *)
(* the connection table of net_tcp.c, whose connections TcpConnection      *)
(* describes.                                                              *)
(*                                                                         *)
(* A blocking call is the repetition of its non-blocking step while the    *)
(* network runs in between (wait_once), so every step is an action of its  *)
(* own; a call that fails changes nothing and is left out.  An entry of    *)
(* the socket table and its backend object are taken and released together *)
(* and are one record here.  Each host has one well-known port.            *)
(***************************************************************************)
EXTENDS TcpConnection, FiniteSets, FiniteSetsExt

CONSTANTS
    Host,
    Peer,           \* the other host
    Port,           \* the port of a host that it binds and that its peer connects to
    Program,        \* what the user of a host does: "bind", "listen", "connect"
    FirstIss, IssStep,                     \* initial sequence numbers
    TCP_EPHEMERAL_FIRST, TCP_EPHEMERAL_LAST,
    NS_TCP_MAX_SOCKETS, NS_SOCKET_MAX_OPEN,
    Backlog,
    Load,           \* bytes a host's user sends in all
    MaxOpens,       \* sockets a host's user opens in all
    MaxFaults,      \* segments lost, duplicated, delayed or refused, full tables
    MaxNet,         \* segments in flight
    ReadSize

ASSUME SocketsAssumption ==
    /\ \A h \in Host : Peer[h] \in Host \ {h} /\ Peer[Peer[h]] = h
    /\ \A h \in Host : Port[h] \in Nat \ {0}
    /\ \A h \in Host : "bind" \in Program[h] => Port[h] < TCP_EPHEMERAL_FIRST
    /\ FirstIss \in [Host -> 0..(SeqMod - 1)] /\ IssStep \in Nat
    /\ TCP_EPHEMERAL_FIRST \in Nat \ {0} /\ TCP_EPHEMERAL_LAST \in Nat
    /\ NS_TCP_MAX_SOCKETS \in Nat \ {0} /\ NS_SOCKET_MAX_OPEN \in Nat \ {0}
    /\ Backlog \in Nat \ {0} /\ ReadSize \in Nat \ {0} /\ Load \in [Host -> Nat]

Slot == 1..NS_TCP_MAX_SOCKETS
Fd == 1..NS_SOCKET_MAX_OPEN
Ephemeral == TCP_EPHEMERAL_FIRST..TCP_EPHEMERAL_LAST

NoHandle == <<0, 0>>
FreeSocket == [open |-> FALSE, bound |-> FALSE, listening |-> FALSE, connected |-> FALSE,
               port |-> 0, handle |-> NoHandle, last |-> "none"]

VARIABLES
    conn,       \* stack->sockets of each host
    order,      \* stack->next_accept_order
    iss,        \* stack->next_initial_sequence
    ephemeral,  \* stack->next_ephemeral_port
    sock,       \* the socket table with the backend's objects
    net,        \* segments in flight, each with the host it is for
    faults, opens,      \* what is used up of the bounds
    sent, rcvd,         \* history: bytes accepted from, bytes given to the user
    abandoned           \* history: handles a listening socket has overwritten

vars == <<conn, order, iss, ephemeral, sock, net, faults, opens, sent, rcvd, abandoned>>
tables == <<order, iss, ephemeral, opens, abandoned>>

Init ==
    /\ conn = [h \in Host |-> [x \in Slot |-> Closed(0)]]
    /\ order = [h \in Host |-> 1]
    /\ iss = FirstIss
    /\ ephemeral = [h \in Host |-> TCP_EPHEMERAL_FIRST]
    /\ sock = [h \in Host |-> [f \in Fd |-> FreeSocket]]
    /\ net = {} /\ faults = 0 /\ opens = [h \in Host |-> 0]
    /\ sent = [h \in Host |-> 0] /\ rcvd = [h \in Host |-> <<>>]
    /\ abandoned = {}

----------------------------------------------------------------------------
\* Handles and the connection table.

Handle(h, x) == <<x, conn[h][x].generation>>

\* connection_from_handle: the slot, if it still is the connection meant.
Live(h, handle) ==
    /\ handle # NoHandle
    /\ conn[h][handle[1]].generation = handle[2]
    /\ conn[h][handle[1]].state # "CLOSED"

FreeSlots(h) == {x \in Slot : conn[h][x].state = "CLOSED"}

\* find_connection and find_listener, for a segment that has arrived.
Found(h, m) == {x \in Slot : /\ conn[h][x].state \notin {"CLOSED", "LISTEN"}
                             /\ conn[h][x].lport = m.dport /\ conn[h][x].rport = m.sport}
Listener(h, m) == {x \in Slot : conn[h][x].state = "LISTEN" /\ conn[h][x].lport = m.dport}

\* Children a listener still has to hand out.
Children(h, x) == {y \in Slot : /\ conn[h][y].state # "CLOSED"
                                /\ conn[h][y].parent = x /\ ~conn[h][y].accepted}

Acceptable(h, x) == {y \in Children(h, x) : conn[h][y].state \in {"ESTABLISHED", "CLOSE_WAIT"}}

PortsInUse(h) == {conn[h][x].lport : x \in Slot \ FreeSlots(h)}

\* Where allocate_ephemeral_port ends up: the first free port in cyclic order.
EphemeralPort(h) ==
    LET free == Ephemeral \ PortsInUse(h)
        later == {p \in free : p >= ephemeral[h]}
    IN  IF later # {} THEN Min(later) ELSE Min(free)

\* tcp_event_adapter and ns_net_backend_tcp_event: the object remembers how its
\* connection ended.
Notified(table, handle, events) ==
    IF events = <<>> THEN table
    ELSE [f \in Fd |-> IF table[f].open /\ table[f].handle = handle
                       THEN [table[f] EXCEPT !.last = events[Len(events)]] ELSE table[f]]

\* What a handler emitted joins the network; a refused segment is a fault.
Sent(h, s, inflight, cost) ==
    /\ net' = inflight \cup {[to |-> Peer[h], seg |-> m] : m \in s.out}
    /\ Cardinality(net') <= MaxNet
    /\ faults' = faults + cost + (IF s.failed THEN 1 ELSE 0)
    /\ faults' <= MaxFaults

\* The end of a handler that has run on the connection in slot x of host h.
Finish(h, x, s, inflight, cost) ==
    /\ conn' = [conn EXCEPT ![h][x] = s.c]
    /\ sock' = [sock EXCEPT ![h] = Notified(@, Handle(h, x), s.events)]
    /\ Sent(h, s, inflight, cost)

Room == {NoLimit, 0, 1}     \* segments of a handler that the interface takes

----------------------------------------------------------------------------
\* Arriving segments and time.

\* handle_listen_syn: a half-open child, within the backlog and the table.
handle_listen_syn(h, x, m, room, inflight, cost) ==
    LET child == Min(FreeSlots(h))
        c == [allocate_connection(conn[h][child]) EXCEPT
                 !.state = "SYN_RECEIVED", !.parent = x, !.lport = m.dport, !.rport = m.sport,
                 !.irs = m.seq, !.rnxt = Add(m.seq, 1), !.iss = iss[h], !.una = iss[h],
                 !.nxt = Add(iss[h], 1), !.tx_sequence = Add(iss[h], 1), !.wnd = m.win,
                 !.wl1 = m.seq]
        s == EmitSynAck(Handling(c, room))
    IN  IF \/ m.flags # {"SYN"}
           \/ Cardinality(Children(h, x)) >= Backlog
           \/ FreeSlots(h) = {}
        THEN /\ Sent(h, send_reset_for_segment(Handling(conn[h][x], room), m), inflight, cost)
             /\ UNCHANGED <<conn, sock, iss>>
        ELSE /\ Finish(h, child, [s EXCEPT !.c = start_retransmit_timer(@)], inflight, cost)
             /\ iss' = [iss EXCEPT ![h] = Add(@, IssStep)]

\* ns_tcp_input of a segment that was not corrupted on its way.  The network may
\* deliver any segment, and deliver it again later.
ns_tcp_input(h) ==
    \E p \in net, room \in Room, again \in BOOLEAN :
        LET m == p.seg
            inflight == IF again THEN net ELSE net \ {p}
            cost == IF again THEN 1 ELSE 0
        IN  /\ p.to = h
            /\ \/ /\ Found(h, m) # {}
                  /\ LET x == Min(Found(h, m))
                         s == Receive(Handling(conn[h][x], room), m, order[h])
                     IN  /\ Finish(h, x, s, inflight, cost)
                         /\ order' = [order EXCEPT ![h] =
                                @ + (IF s.c.order # conn[h][x].order THEN 1 ELSE 0)]
                  /\ UNCHANGED iss
               \/ /\ Found(h, m) = {} /\ Listener(h, m) # {}
                  /\ handle_listen_syn(h, Min(Listener(h, m)), m, room, inflight, cost)
                  /\ UNCHANGED order
               \/ /\ Found(h, m) = {} /\ Listener(h, m) = {}
                  /\ Sent(h, send_reset_for_segment(Handling(Closed(0), room), m), inflight, cost)
                  /\ UNCHANGED <<conn, sock, iss, order>>
            /\ UNCHANGED <<ephemeral, opens, sent, rcvd, abandoned>>

\* A segment is lost, or arrives corrupted and is dropped.
Lose ==
    /\ faults < MaxFaults /\ faults' = faults + 1
    /\ \E p \in net : net' = net \ {p}
    /\ UNCHANGED <<conn, order, iss, ephemeral, sock, opens, sent, rcvd, abandoned>>

\* ns_tcp_tick, at a connection some of whose deadlines have passed.  The others
\* have their turn in ticks of their own: flush_send does nothing for them that
\* the last handler on them did not do.  A deadline that passes while segments
\* are in flight is the network's fault: it delays them.
ns_tcp_tick(h) ==
    \E x \in Slot \ FreeSlots(h), room \in Room :
        \E expired \in SUBSET Armed(conn[h][x]) :
            /\ Finish(h, x, Tick(Handling(conn[h][x], room), expired), net,
                      IF expired # {} /\ net # {} THEN 1 ELSE 0)
            /\ UNCHANGED <<tables, sent, rcvd>>

----------------------------------------------------------------------------
\* The user's calls.

ns_socket_open(h) ==
    /\ opens[h] < MaxOpens
    /\ \E f \in Fd : ~sock[h][f].open
    /\ LET f == Min({g \in Fd : ~sock[h][g].open})
       IN  sock' = [sock EXCEPT ![h][f] = [FreeSocket EXCEPT !.open = TRUE]]
    /\ opens' = [opens EXCEPT ![h] = @ + 1]
    /\ UNCHANGED <<conn, order, iss, ephemeral, net, faults, sent, rcvd, abandoned>>

\* ns_socket_bind, backend_bind
ns_socket_bind(h, f) ==
    /\ "bind" \in Program[h]
    /\ sock[h][f].open /\ ~sock[h][f].bound
    /\ \A g \in Fd : ~(sock[h][g].bound /\ sock[h][g].port = Port[h])
    /\ sock' = [sock EXCEPT ![h][f].bound = TRUE, ![h][f].port = Port[h]]
    /\ UNCHANGED <<conn, net, faults, tables, sent, rcvd>>

\* ns_socket_listen, backend_listen, ns_tcp_listen: nothing asks whether the
\* socket already has a connection.
ns_socket_listen(h, f) ==
    LET x == Min(FreeSlots(h))
        c == [allocate_connection(conn[h][x]) EXCEPT !.state = "LISTEN", !.lport = sock[h][f].port]
    IN  /\ "listen" \in Program[h]
        /\ sock[h][f].open /\ sock[h][f].bound /\ sock[h][f].port = Port[h]
        /\ ~sock[h][f].listening /\ ~sock[h][f].connected
        /\ \A y \in Slot : ~(conn[h][y].state = "LISTEN" /\ conn[h][y].lport = sock[h][f].port)
        /\ FreeSlots(h) # {}
        /\ conn' = [conn EXCEPT ![h][x] = c]
        /\ sock' = [sock EXCEPT ![h][f].listening = TRUE, ![h][f].handle = <<x, c.generation>>]
        /\ abandoned' = IF Live(h, sock[h][f].handle)
                        THEN abandoned \cup {<<h, sock[h][f].handle>>} ELSE abandoned
        /\ UNCHANGED <<order, iss, ephemeral, net, faults, opens, sent, rcvd>>

\* The first step of ns_socket_connect: backend_connect calls ns_tcp_connect.
ns_tcp_connect(h, f) ==
    \E room \in Room :
        LET k == sock[h][f]
            port == IF k.bound THEN k.port ELSE EphemeralPort(h)
            x == Min(FreeSlots(h))
            c == [allocate_connection(conn[h][x]) EXCEPT
                     !.state = "SYN_SENT", !.lport = port, !.rport = Port[Peer[h]],
                     !.iss = iss[h], !.una = iss[h], !.nxt = Add(iss[h], 1),
                     !.tx_sequence = Add(iss[h], 1), !.wnd = 1]
            s == emit_segment(Handling(c, room), iss[h], 0, {"SYN"}, <<>>)
        IN  /\ "connect" \in Program[h]
            /\ k.open /\ ~k.connected /\ ~k.listening /\ k.handle = NoHandle
            /\ k.bound \/ Ephemeral \ PortsInUse(h) # {}
            /\ ~\E y \in Slot : /\ conn[h][y].state # "CLOSED" /\ conn[h][y].lport = port
                                /\ conn[h][y].rport = Port[Peer[h]]
            /\ FreeSlots(h) # {}
            /\ conn' = [conn EXCEPT ![h][x] = IF s.failed THEN release_connection(s.c)
                                              ELSE start_retransmit_timer(s.c)]
            /\ sock' = IF s.failed THEN sock
                       ELSE [sock EXCEPT ![h][f].handle = <<x, c.generation>>,
                                         ![h][f].bound = TRUE, ![h][f].port = port]
            /\ Sent(h, s, net, 0)
            /\ iss' = [iss EXCEPT ![h] = Add(@, IssStep)]
            /\ ephemeral' = IF k.bound THEN ephemeral
                            ELSE [ephemeral EXCEPT ![h] = IF port = TCP_EPHEMERAL_LAST
                                                          THEN TCP_EPHEMERAL_FIRST ELSE port + 1]
            /\ UNCHANGED <<order, opens, sent, rcvd, abandoned>>

\* A later step of ns_socket_connect finds the connection established.
ns_socket_connect(h, f) ==
    /\ sock[h][f].open /\ ~sock[h][f].connected /\ ~sock[h][f].listening
    /\ Live(h, sock[h][f].handle)
    /\ conn[h][sock[h][f].handle[1]].state = "ESTABLISHED"
    /\ sock' = [sock EXCEPT ![h][f].connected = TRUE]
    /\ UNCHANGED <<conn, net, faults, tables, sent, rcvd>>

\* ns_tcp_close of a listener resets the children it still owns.
CloseListener(h, x, room) ==
    LET ended == {y \in Slot : conn[h][y].state # "CLOSED" /\ conn[h][y].parent = x}
        turn(y) == Abort(Handling(conn[h][y], room))
    IN  /\ conn' = [conn EXCEPT ![h] = [y \in Slot |->
                       IF y = x \/ y \in ended THEN release_connection(conn[h][y])
                       ELSE conn[h][y]]]
        /\ Sent(h, [out |-> UNION {turn(y).out : y \in ended},
                    failed |-> \E y \in ended : turn(y).failed], net, 0)

\* backend_close: an orderly end where there is one, otherwise a reset; what is
\* left of the connection finishes on its own.
backend_close(h, handle, room) ==
    IF ~Live(h, handle) THEN UNCHANGED <<conn, net, faults>>
    ELSE LET x == handle[1]
             s == Handling(conn[h][x], room)
             t == IF s.c.state \in {"SYN_SENT", "SYN_RECEIVED", "ESTABLISHED", "CLOSE_WAIT"}
                  THEN CloseConnection(s) ELSE Abort(s)
         IN  IF s.c.state = "LISTEN" THEN CloseListener(h, x, room)
             ELSE conn' = [conn EXCEPT ![h][x] = t.c] /\ Sent(h, t, net, 0)

\* Mutation: the descriptor goes, the connection stays.
ns_socket_close_KeepsConnection(h, f) ==
    /\ sock[h][f].open
    /\ UNCHANGED <<conn, net, faults>>
    /\ sock' = [sock EXCEPT ![h][f] = FreeSocket]
    /\ UNCHANGED <<tables, sent, rcvd>>

ns_socket_close(h, f) ==
    /\ sock[h][f].open
    /\ \E room \in Room : backend_close(h, sock[h][f].handle, room)
    /\ sock' = [sock EXCEPT ![h][f] = FreeSocket]
    /\ UNCHANGED <<tables, sent, rcvd>>

\* ns_socket_accept, backend_accept, ns_tcp_accept: the child established first.
\* Without a free object it is reset, without a free entry it is closed; other
\* programs share the objects, so that may happen at any time.
ns_socket_accept(h, f) ==
    LET x == sock[h][f].handle[1]
        y == CHOOSE z \in Acceptable(h, x) :
                 \A w \in Acceptable(h, x) : conn[h][z].order <= conn[h][w].order
        c == [conn[h][y] EXCEPT !.accepted = TRUE, !.parent = NO_PARENT]
        free == {g \in Fd : ~sock[h][g].open}
    IN  /\ sock[h][f].open /\ sock[h][f].listening /\ Live(h, sock[h][f].handle)
        /\ Acceptable(h, x) # {}
        /\ \/ /\ free # {}
              /\ conn' = [conn EXCEPT ![h][y] = c]
              /\ sock' = [sock EXCEPT ![h][Min(free)] =
                            [FreeSocket EXCEPT !.open = TRUE, !.bound = TRUE, !.connected = TRUE,
                                               !.port = c.lport, !.handle = Handle(h, y)]]
              /\ UNCHANGED <<net, faults>>
           \/ /\ \E room \in Room :
                 \E t \in {Abort(Handling(c, room)), CloseConnection(Handling(c, room))} :
                     conn' = [conn EXCEPT ![h][y] = t.c] /\ Sent(h, t, net, 1)
              /\ UNCHANGED sock
        /\ UNCHANGED <<tables, sent, rcvd>>

\* ns_socket_send, backend_send, ns_tcp_send of n bytes.
ns_socket_send(h, f, n) ==
    LET x == sock[h][f].handle[1]
        data == [i \in 1..n |-> sent[h] + i]
    IN  /\ sock[h][f].connected /\ Live(h, sock[h][f].handle)
        /\ conn[h][x].state = "ESTABLISHED" /\ ~conn[h][x].want_fin
        /\ Len(conn[h][x].tx) < NS_TCP_SEND_CAPACITY
        /\ \E room \in Room : Finish(h, x, Queue(Handling(conn[h][x], room), data), net, 0)
        /\ sent' = [sent EXCEPT ![h] = @ + Least(n, NS_TCP_SEND_CAPACITY - Len(conn[h][x].tx))]
        /\ UNCHANGED <<tables, rcvd>>

\* ns_socket_recv, backend_receive, ns_tcp_receive of at most ReadSize bytes.
ns_socket_recv(h, f) ==
    LET x == sock[h][f].handle[1]
        n == Least(ReadSize, Len(conn[h][x].rx))
    IN  /\ sock[h][f].connected /\ Live(h, sock[h][f].handle)
        /\ n # 0
        /\ \E room \in Room : Finish(h, x, Take(Handling(conn[h][x], room), n), net, 0)
        /\ rcvd' = [rcvd EXCEPT ![h] = @ \o SubSeq(conn[h][x].rx, 1, n)]
        /\ UNCHANGED <<tables, sent>>

User(h) ==
    \/ ns_socket_open(h)
    \/ \E f \in Fd :
        \/ ns_socket_bind(h, f) \/ ns_socket_listen(h, f)
        \/ ns_tcp_connect(h, f) \/ ns_socket_connect(h, f) \/ ns_socket_accept(h, f)
        \/ \E n \in 1..(Load[h] - sent[h]) : ns_socket_send(h, f, n)
        \/ ns_socket_recv(h, f) \/ ns_socket_close(h, f)

Next == Lose \/ \E h \in Host : ns_tcp_input(h) \/ ns_tcp_tick(h) \/ User(h)

Spec == Init /\ [][Next]_vars

----------------------------------------------------------------------------
\* Properties.

Synchronized == {"ESTABLISHED", "FIN_WAIT_1", "FIN_WAIT_2", "CLOSE_WAIT", "CLOSING",
                 "LAST_ACK", "TIME_WAIT"}

\* The connection at the other end of the one in slot x.
Other(h, x) ==
    {y \in Slot : /\ conn[Peer[h]][y].state \in Synchronized
                  /\ conn[Peer[h]][y].lport = conn[h][x].rport
                  /\ conn[Peer[h]][y].rport = conn[h][x].lport
                  /\ conn[Peer[h]][y].irs = conn[h][x].iss}

\* The tables, the segments in flight and the histories have their types.
TypeOK ==
    /\ \A h \in Host, x \in Slot :
        LET c == conn[h][x]
        IN  /\ c.state \in State /\ c.parent \in Slot \cup {NO_PARENT}
            /\ {c.iss, c.irs, c.una, c.nxt, c.wl1, c.wl2, c.rnxt, c.tx_sequence,
                c.fin_sequence, c.reorder.seq} \subseteq 0..(SeqMod - 1)
            /\ c.wnd \in 0..NS_TCP_RECV_CAPACITY /\ c.rwnd \in 0..NS_TCP_RECV_CAPACITY
            /\ Len(c.tx) <= NS_TCP_SEND_CAPACITY /\ c.tx_sent \in 0..Len(c.tx)
            /\ Len(c.rx) <= NS_TCP_RECV_CAPACITY /\ Len(c.reorder.data) <= NS_TCP_LOCAL_MSS
            /\ c.count \in 0..NS_TCP_RETRY_LIMIT
    /\ \A h \in Host, f \in Fd : sock[h][f].handle \in {NoHandle} \cup (Slot \X Nat)
    /\ \A p \in net : p.to \in Host /\ p.seg.flags \subseteq Flag

\* What the user has read and what waits to be read is the beginning of what the
\* other user sent, in order and without a gap, a repetition or a probe's byte,
\* and it is all of it once the FIN was consumed; bytes are acknowledged only
\* after they were received, and until then the sender keeps them
\* (apply_ack, process_payload_and_fin, drain_reordered, retransmit).
StreamIntact ==
    \A h \in Host, x \in Slot :
        conn[h][x].state \in Synchronized =>
            LET c == conn[h][x]
                stream == rcvd[h] \o c.rx
            IN  /\ stream = [i \in 1..Len(stream) |-> i]
                /\ Len(stream) <= sent[Peer[h]]
                /\ c.state \in {"CLOSE_WAIT", "CLOSING", "LAST_ACK", "TIME_WAIT"}
                       => Len(stream) = sent[Peer[h]]
                /\ Sub(c.nxt, c.una) =
                       c.tx_sent + (IF c.fin_sent /\ ~sequence_after(c.una, c.fin_sequence)
                                    THEN 1 ELSE 0)
                /\ \A y \in Other(h, x) :
                       LET d == conn[Peer[h]][y]
                       IN  /\ ~sequence_after(c.una, d.rnxt)
                           /\ ~sequence_after(d.rnxt, c.nxt)

\* A window, once advertised, is never taken back: the right edge that a segment
\* in flight announces, and the one the sender has recorded, lie within what the
\* receiver still has room for (current_receive_window, emit_segment).
WindowKept ==
    \A h \in Host, x \in Slot :
        LET c == conn[h][x]
            edge == Add(c.rnxt, current_receive_window(c))
        IN  c.state \in Synchronized =>
            /\ \A p \in net :
                  (/\ p.to = Peer[h] /\ p.seg.sport = c.lport /\ p.seg.dport = c.rport
                   /\ "ACK" \in p.seg.flags /\ "RST" \notin p.seg.flags)
                  => ~sequence_after(Add(p.seg.ack, p.seg.win), edge)
            /\ \A y \in Other(h, x) :
                  LET d == conn[Peer[h]][y] IN ~sequence_after(Add(d.wl2, d.wnd), edge)

\* Nothing waits for ever: what is in flight has a retransmission deadline, and
\* what the peer's closed window keeps back has a persist deadline
\* (start_retransmit_timer, reset_retransmit_after_progress, flush_send).
NoStall ==
    \A h \in Host, x \in Slot :
        LET c == conn[h][x]
        IN  c.state \notin {"CLOSED", "LISTEN"} =>
            /\ c.una # c.nxt => c.rto
            /\ Unsent(c) /\ c.una = c.nxt /\ c.wnd = 0 => c.persist

\* Every connection belongs to one open socket, waits in the queue of a live
\* listener, or is on its way to being closed.  The one way out: a socket that
\* is connecting is made to listen.
ConnectionsOwned ==
    \A h \in Host, x \in Slot :
        LET c == conn[h][x]
            owners == {f \in Fd : sock[h][f].open /\ sock[h][f].handle = Handle(h, x)}
        IN  c.state # "CLOSED" =>
            /\ Cardinality(owners) <= 1
            /\ \/ owners # {}
               \/ c.want_fin
               \/ c.parent # NO_PARENT /\ conn[h][c.parent].state = "LISTEN"
               \/ <<h, Handle(h, x)>> \in abandoned
============================================================================
