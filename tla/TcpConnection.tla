---------------------------- MODULE TcpConnection ----------------------------
(***************************************************************************)
(* One TCP connection (kernel/net/net_tcp.c): what an arriving segment, a  *)
(* timer and a call of the user do to it.                                  *)
(*                                                                         *)
(* A handler takes and returns a handler state: the connection, the        *)
(* segments emitted so far, how many more the interface takes before its   *)
(* emit callback fails (room), whether one failed, and the events raised.  *)
(* Sequence numbers are taken modulo SeqMod and compared as the code does, *)
(* by the sign of their difference.  A deadline is only armed or not: the  *)
(* tick that finds it expired may come at any time.  A byte is its number  *)
(* in the sender's stream; PSH and the MSS option (both ends announce MSS) *)
(* carry nothing here.                                                     *)
(***************************************************************************)
EXTENDS Integers, Sequences

CONSTANTS
    SeqMod,                 \* 2^32 in the code
    NS_TCP_LOCAL_MSS,
    NS_TCP_SEND_CAPACITY,
    NS_TCP_RECV_CAPACITY,
    NS_TCP_RETRY_LIMIT,
    NoLimit                 \* an interface that accepts every segment of a handler

ASSUME TcpAssumption ==
    /\ SeqMod \in Nat /\ SeqMod % 2 = 0
    /\ NS_TCP_LOCAL_MSS \in Nat \ {0}
    /\ NS_TCP_SEND_CAPACITY \in Nat \ {0} /\ NS_TCP_RECV_CAPACITY \in Nat \ {0}
    /\ SeqMod > 4 * (NS_TCP_SEND_CAPACITY + NS_TCP_RECV_CAPACITY + 2)
    /\ NS_TCP_RETRY_LIMIT \in Nat
    /\ NoLimit \in Nat /\ NoLimit > NS_TCP_SEND_CAPACITY + 2

----------------------------------------------------------------------------
\* Sequence arithmetic.

Add(a, n) == (a + n) % SeqMod
Sub(a, b) == (a - b + SeqMod) % SeqMod
sequence_before(a, b) == Sub(a, b) >= SeqMod \div 2
sequence_after(a, b) == Sub(a, b) \in 1..(SeqMod \div 2 - 1)
sequence_at_or_before(a, b) == ~sequence_after(a, b)

Least(a, b) == IF a < b THEN a ELSE b

----------------------------------------------------------------------------
\* The connection.

State == {"CLOSED", "LISTEN", "SYN_SENT", "SYN_RECEIVED", "ESTABLISHED", "FIN_WAIT_1",
          "FIN_WAIT_2", "CLOSE_WAIT", "CLOSING", "LAST_ACK", "TIME_WAIT"}
Flag == {"SYN", "ACK", "FIN", "RST"}
NO_PARENT == 0
NoReorder == [seq |-> 0, data |-> <<>>, fin |-> FALSE]

\* A slot of the table before its first use, and what release leaves of it:
\* nothing reads the other fields of a closed slot.
Closed(generation) ==
    [state |-> "CLOSED", generation |-> generation, parent |-> NO_PARENT, accepted |-> FALSE,
     lport |-> 0, rport |-> 0, want_fin |-> FALSE, fin_sent |-> FALSE, ack_pending |-> FALSE,
     iss |-> 0, irs |-> 0, una |-> 0, nxt |-> 0, wnd |-> 0, wl1 |-> 0, wl2 |-> 0,
     rnxt |-> 0, rwnd |-> 0, tx_sequence |-> 0, fin_sequence |-> 0,
     tx |-> <<>>, tx_sent |-> 0, rx |-> <<>>, reorder |-> NoReorder,
     count |-> 0, rto |-> FALSE, persist |-> FALSE, order |-> 0]

\* allocate_connection: a zeroed slot of the next generation.
allocate_connection(c) == [Closed(c.generation + 1) EXCEPT !.rwnd = NS_TCP_RECV_CAPACITY]

release_connection(c) == Closed(c.generation)

\* Mutation: bytes kept out of order are taken off the window.
current_receive_window_Shrinks(c) ==
    IF Len(c.rx) + Len(c.reorder.data) >= NS_TCP_RECV_CAPACITY THEN 0
    ELSE NS_TCP_RECV_CAPACITY - Len(c.rx) - Len(c.reorder.data)

current_receive_window(c) == NS_TCP_RECV_CAPACITY - Len(c.rx)

\* A handler's state.
Handling(c, room) == [c |-> c, out |-> {}, room |-> room, failed |-> FALSE, events |-> <<>>]

notify(s, event) == [s EXCEPT !.events = Append(@, event)]

Segment(c, seq, ack, flags, data) ==
    [sport |-> c.lport, dport |-> c.rport, seq |-> seq, ack |-> ack, flags |-> flags,
     win |-> current_receive_window(c), data |-> data]

\* emit_segment: the advertised window is noted whether or not the segment leaves.
emit_segment(s, seq, ack, flags, data) ==
    LET t == [s EXCEPT !.c.rwnd = current_receive_window(s.c)]
    IN  IF s.room = 0
        THEN [t EXCEPT !.failed = TRUE]
        ELSE [t EXCEPT !.room = @ - 1, !.out = @ \cup {Segment(s.c, seq, ack, flags, data)}]

Emits(s) == s.room # 0      \* the next emit_segment will succeed

start_retransmit_timer(c) == IF c.rto THEN c ELSE [c EXCEPT !.rto = TRUE, !.count = 0]

\* emit_ack: nothing is pending any more if the segment left.
emit_ack(s) ==
    LET t == emit_segment(s, s.c.nxt, s.c.rnxt, {"ACK"}, <<>>)
    IN  IF Emits(s) THEN [t EXCEPT !.c.ack_pending = FALSE] ELSE t

queue_delayed_ack(s, immediate) ==
    IF immediate \/ s.c.ack_pending THEN emit_ack(s) ELSE [s EXCEPT !.c.ack_pending = TRUE]

\* segment_sequence_length
SegLen(m) == Len(m.data) + (IF "SYN" \in m.flags THEN 1 ELSE 0)
                         + (IF "FIN" \in m.flags THEN 1 ELSE 0)

\* segment_acceptable: against the window last advertised, from receive_next.
segment_acceptable(c, m) ==
    LET InWindow(x) == ~sequence_before(x, c.rnxt) /\ sequence_before(x, Add(c.rnxt, c.rwnd))
        last == Add(m.seq, SegLen(m) - 1)
    IN  IF c.rwnd = 0
        THEN SegLen(m) = 0 /\ m.seq = c.rnxt
        ELSE InWindow(m.seq) \/ (SegLen(m) # 0 /\ InWindow(last))

\* send_reset_for_segment: the answer to a segment no connection wants.
ResetFor(m) ==
    IF "RST" \in m.flags THEN {}
    ELSE {[sport |-> m.dport, dport |-> m.sport, data |-> <<>>, win |-> NS_TCP_RECV_CAPACITY,
           seq |-> IF "ACK" \in m.flags THEN m.ack ELSE 0,
           ack |-> IF "ACK" \in m.flags THEN 0 ELSE Add(m.seq, SegLen(m)),
           flags |-> IF "ACK" \in m.flags THEN {"RST"} ELSE {"RST", "ACK"}]}

send_reset_for_segment(s, m) ==
    IF ResetFor(m) = {} THEN s
    ELSE IF ~Emits(s) THEN [s EXCEPT !.failed = TRUE]
    ELSE [s EXCEPT !.out = @ \cup ResetFor(m), !.room = @ - 1]

----------------------------------------------------------------------------
\* Sending.

\* Mutation: any progress acknowledges everything that was sent.
Acknowledged_All(c, ack) == c.tx_sent

\* How many bytes of the transmit buffer an acknowledgment covers.
Acknowledged(c, ack) ==
    IF sequence_after(ack, c.tx_sequence)
    THEN Least(Sub(ack, c.tx_sequence), c.tx_sent) ELSE 0

\* apply_ack: forget the acknowledged bytes; the retransmission timer restarts
\* while anything is outstanding and stops otherwise.
apply_ack(c, ack) ==
    LET acked == Acknowledged(c, ack)
    IN  IF ~sequence_after(ack, c.una) THEN c
        ELSE [c EXCEPT !.tx = SubSeq(@, acked + 1, Len(@)), !.tx_sent = @ - acked,
                       !.tx_sequence = Add(@, acked), !.una = ack,
                       !.count = 0, !.rto = (ack # c.nxt)]

\* n bytes of the transmit buffer from an offset, in pieces of at most one MSS
\* that are numbered from seq.
Pieces(c, seq, offset, n) ==
    {LET from == offset + i * NS_TCP_LOCAL_MSS
     IN  Segment(c, Add(seq, i * NS_TCP_LOCAL_MSS), c.rnxt, {"ACK"},
                 SubSeq(c.tx, from + 1, Least(from + NS_TCP_LOCAL_MSS, offset + n)))
     : i \in 0..((n + NS_TCP_LOCAL_MSS - 1) \div NS_TCP_LOCAL_MSS - 1)}

PieceCount(n) == (n + NS_TCP_LOCAL_MSS - 1) \div NS_TCP_LOCAL_MSS

\* What the peer's window leaves of bytes beyond those in flight.
WindowLeft(c) ==
    LET flight == Sub(c.nxt, c.una) IN IF flight >= c.wnd THEN 0 ELSE c.wnd - flight

\* The loop of flush_send: as many segments as the window and the interface take.
FlushData(s) ==
    LET c == s.c
        n == IF c.state \in {"ESTABLISHED", "CLOSE_WAIT", "FIN_WAIT_1", "FIN_WAIT_2"}
             THEN Least(Len(c.tx) - c.tx_sent, WindowLeft(c)) ELSE 0
        k == Least(n, s.room * NS_TCP_LOCAL_MSS)
        d == [c EXCEPT !.tx_sent = @ + k, !.nxt = Add(@, k)]
        segments == Pieces(c, c.nxt, c.tx_sent, k)
    IN  IF n = 0 THEN s
        ELSE [s EXCEPT !.c = [(IF k = 0 THEN d ELSE start_retransmit_timer(d))
                                  EXCEPT !.rwnd = current_receive_window(c)],
                       !.out = @ \cup segments, !.room = @ - PieceCount(k),
                       !.failed = @ \/ k < n]

\* The connection once its FIN has left.
FinSent(c) ==
    start_retransmit_timer(
        [c EXCEPT !.fin_sequence = c.nxt, !.nxt = Add(@, 1), !.fin_sent = TRUE,
                  !.state = IF @ = "ESTABLISHED" THEN "FIN_WAIT_1" ELSE "LAST_ACK"])

\* The FIN follows the last byte, inside the window.
FlushFin(s) ==
    LET c == s.c
        t == emit_segment(s, c.nxt, c.rnxt, {"FIN", "ACK"}, <<>>)
    IN  IF ~(/\ c.want_fin /\ ~c.fin_sent /\ c.tx_sent = Len(c.tx)
             /\ Sub(c.nxt, c.una) < c.wnd
             /\ c.state \in {"ESTABLISHED", "CLOSE_WAIT"})
        THEN s
        ELSE IF ~Emits(s) THEN t
        ELSE [t EXCEPT !.c = FinSent(@)]

Unsent(c) == c.tx_sent < Len(c.tx) \/ (c.want_fin /\ ~c.fin_sent)

\* Mutation: the persist timer is armed only for data, not for a FIN.
Persist_DataOnly(c) ==
    IF c.tx_sent < Len(c.tx) /\ c.wnd = 0 /\ c.una = c.nxt
    THEN [c EXCEPT !.persist = TRUE]
    ELSE IF c.wnd # 0 \/ ~Unsent(c) THEN [c EXCEPT !.persist = FALSE] ELSE c

\* Something to send, a closed window and nothing in flight arm the persist timer.
Persist(c) ==
    IF Unsent(c) /\ c.wnd = 0 /\ c.una = c.nxt
    THEN [c EXCEPT !.persist = TRUE]
    ELSE IF c.wnd # 0 \/ ~Unsent(c) THEN [c EXCEPT !.persist = FALSE] ELSE c

flush_send(s) ==
    LET t == FlushFin(FlushData(s)) IN [t EXCEPT !.c = Persist(@)]

----------------------------------------------------------------------------
\* Arriving segments: the handshake.

enter_time_wait(c) == [c EXCEPT !.state = "TIME_WAIT", !.rto = FALSE, !.ack_pending = FALSE]

close_with_event(s, event) == notify([s EXCEPT !.c = release_connection(@)], event)

\* connection_established: a child takes its place in its listener's queue.
connection_established(s, order) ==
    LET c == [s.c EXCEPT !.state = "ESTABLISHED", !.tx_sequence = s.c.nxt, !.rto = FALSE,
                         !.count = 0,
                         !.order = IF s.c.parent # NO_PARENT THEN order ELSE 0]
    IN  notify([s EXCEPT !.c = c], IF c.parent # NO_PARENT THEN "ACCEPT_READY" ELSE "CONNECTED")

TakeWindow(c, m) == [c EXCEPT !.wnd = m.win, !.wl1 = m.seq, !.wl2 = m.ack]

EmitSynAck(s) == emit_segment(s, s.c.iss, s.c.rnxt, {"SYN", "ACK"}, <<>>)

process_syn_sent(s, m, order) ==
    LET c == s.c
        acks == "ACK" \in m.flags
        d == TakeWindow([c EXCEPT !.irs = m.seq, !.rnxt = Add(m.seq, 1),
                                  !.rwnd = NS_TCP_RECV_CAPACITY], m)
    IN  IF acks /\ (sequence_at_or_before(m.ack, c.iss) \/ sequence_after(m.ack, c.nxt))
        THEN send_reset_for_segment(s, m)
        ELSE IF "RST" \in m.flags
        THEN IF acks THEN close_with_event(s, "RESET") ELSE s
        ELSE IF "SYN" \notin m.flags THEN s
        ELSE IF acks
        THEN flush_send(emit_ack(connection_established([s EXCEPT !.c = [d EXCEPT !.una = m.ack]],
                                                        order)))
        ELSE LET t == EmitSynAck([s EXCEPT !.c = [d EXCEPT !.state = "SYN_RECEIVED"]])
             IN  [t EXCEPT !.c.rto = TRUE]          \* simultaneous open

process_syn_received(s, m, order) ==
    LET c == s.c
        d == TakeWindow([c EXCEPT !.una = m.ack], m)
        established == connection_established([s EXCEPT !.c = d], order)
    IN  IF "RST" \in m.flags
        THEN IF m.seq = c.rnxt THEN close_with_event(s, "RESET") ELSE s
        ELSE IF "SYN" \in m.flags /\ m.seq = c.irs
        THEN IF "ACK" \in m.flags /\ m.ack = c.nxt THEN emit_ack(established) ELSE EmitSynAck(s)
        ELSE IF m.seq # c.rnxt \/ "ACK" \notin m.flags \/ m.ack # c.nxt
        THEN IF "ACK" \in m.flags THEN send_reset_for_segment(s, m) ELSE s
        ELSE established

----------------------------------------------------------------------------
\* Arriving segments: data and FIN.

\* store_reordered: one segment is kept, the earliest.
store_reordered(c, seq, data, fin) ==
    IF c.reorder.data # <<>> /\ ~sequence_before(seq, c.reorder.seq) THEN c
    ELSE [c EXCEPT !.reorder = [seq |-> seq, data |-> data, fin |-> fin]]

consume_fin(s) ==
    LET c == [s.c EXCEPT !.rnxt = Add(@, 1)]
        d == CASE c.state = "ESTABLISHED" -> [c EXCEPT !.state = "CLOSE_WAIT"]
               [] c.state = "FIN_WAIT_1" ->
                    IF sequence_after(c.una, c.fin_sequence) THEN enter_time_wait(c)
                    ELSE [c EXCEPT !.state = "CLOSING"]
               [] c.state = "FIN_WAIT_2" -> enter_time_wait(c)
               [] OTHER -> c
        t == [s EXCEPT !.c = d]
    IN  emit_ack(IF c.state = "ESTABLISHED" THEN notify(t, "PEER_CLOSED") ELSE t)

\* What the kept segment adds to what was received.
Fresh(c) == SubSeq(c.reorder.data, Sub(c.rnxt, c.reorder.seq) + 1, Len(c.reorder.data))

\* drain_reordered: append the kept segment once the gap before it is filled.
drain_reordered(s) ==
    LET c == s.c
        r == c.reorder
        duplicate == Sub(c.rnxt, r.seq)
        d == [c EXCEPT !.rx = @ \o Fresh(c), !.rnxt = Add(@, Len(Fresh(c))),
                       !.reorder = NoReorder]
    IN  IF (r.data = <<>> /\ ~r.fin) \/ sequence_after(r.seq, c.rnxt) THEN s
        ELSE IF duplicate > Len(r.data) \/ (duplicate = Len(r.data) /\ ~r.fin)
        THEN [s EXCEPT !.c.reorder = NoReorder]
        ELSE IF Len(c.rx) + Len(Fresh(c)) > NS_TCP_RECV_CAPACITY THEN s
        ELSE IF r.fin /\ Add(r.seq, Len(r.data)) = d.rnxt THEN consume_fin([s EXCEPT !.c = d])
        ELSE [s EXCEPT !.c = d]

\* The segment without what was received already and, on the right, without
\* what lies beyond the advertised window, the FIN included.
Clipped(c, m) ==
    LET duplicate == IF sequence_before(m.seq, c.rnxt)
                     THEN Least(Sub(c.rnxt, m.seq), Len(m.data)) ELSE 0
        seq == Add(m.seq, duplicate)
        data == SubSeq(m.data, duplicate + 1, Len(m.data))
        allowed == c.rwnd - Sub(seq, c.rnxt)
    IN  [seq |-> seq, data |-> SubSeq(data, 1, Least(Len(data), allowed)),
         fin |-> "FIN" \in m.flags /\ Len(data) < allowed]

process_payload_and_fin(s, m) ==
    LET c == s.c
        behind == Sub(c.rnxt, m.seq)
        p == Clipped(c, m)
        data == SubSeq(p.data, 1, Least(Len(p.data), NS_TCP_RECV_CAPACITY - Len(c.rx)))
        fin == p.fin /\ data = p.data
        t == drain_reordered([s EXCEPT !.c.rx = @ \o data, !.c.rnxt = Add(@, Len(data))])
        added == Len(t.c.rx) - Len(c.rx)
        u == IF fin /\ Add(p.seq, Len(data)) = t.c.rnxt THEN consume_fin(t)
             ELSE IF added # 0
             THEN queue_delayed_ack(t, t.c.reorder.data = <<>> /\ added >= 2 * NS_TCP_LOCAL_MSS)
             ELSE t
    IN  IF /\ sequence_before(m.seq, c.rnxt)
           /\ behind > Len(m.data) \/ (behind = Len(m.data) /\ "FIN" \notin m.flags)
        THEN emit_ack(s)
        ELSE IF sequence_after(p.seq, c.rnxt)
        THEN emit_ack([s EXCEPT !.c = store_reordered(@, p.seq, p.data, p.fin)])
        ELSE IF added # 0 THEN notify(u, "DATA") ELSE u

\* The peer's window, from segments that are not older than its last source.
UpdateWindow(c, m) ==
    IF sequence_after(m.seq, c.wl1) \/ (m.seq = c.wl1 /\ ~sequence_before(m.ack, c.wl2))
    THEN [TakeWindow(c, m) EXCEPT !.persist = @ /\ m.win = 0]
    ELSE c

\* Our FIN acknowledged.
Advance(c) ==
    IF ~sequence_after(c.una, c.fin_sequence) THEN c
    ELSE CASE c.state = "FIN_WAIT_1" -> [c EXCEPT !.state = "FIN_WAIT_2"]
           [] c.state = "CLOSING" -> enter_time_wait(c)
           [] OTHER -> c

process_connected_segment(s, m) ==
    LET c == s.c
        d == UpdateWindow(IF sequence_before(m.ack, c.una) THEN c ELSE apply_ack(c, m.ack), m)
        t == [s EXCEPT !.c = Advance(d)]
        u == IF m.data # <<>> \/ "FIN" \in m.flags THEN process_payload_and_fin(t, m) ELSE t
    IN  IF ~segment_acceptable(c, m)
        THEN IF "RST" \in m.flags THEN s ELSE emit_ack(s)
        ELSE IF "RST" \in m.flags
        THEN IF m.seq = c.rnxt THEN close_with_event(s, "RESET") ELSE emit_ack(s)
        ELSE IF "SYN" \in m.flags THEN emit_ack(s)
        ELSE IF "ACK" \notin m.flags THEN s
        ELSE IF sequence_after(m.ack, c.nxt) THEN emit_ack(s)
        ELSE IF d.state = "LAST_ACK" /\ sequence_after(d.una, d.fin_sequence)
        THEN close_with_event([s EXCEPT !.c = d], "CLOSED")
        ELSE IF u.c.state = "TIME_WAIT" THEN u ELSE flush_send(u)

\* The part of ns_tcp_input that follows find_connection.
Receive(s, m, order) ==
    CASE s.c.state = "SYN_SENT" -> process_syn_sent(s, m, order)
      [] s.c.state = "SYN_RECEIVED" ->
            LET t == process_syn_received(s, m, order)
            IN  IF t.c.state = "ESTABLISHED" /\ (m.data # <<>> \/ "FIN" \in m.flags)
                THEN process_connected_segment(t, m) ELSE t
      [] OTHER -> process_connected_segment(s, m)

----------------------------------------------------------------------------
\* Timers.

\* retransmit: everything sent and not acknowledged, whatever the window.
retransmit(s) ==
    LET c == s.c
        n == PieceCount(c.tx_sent)
        data == [s EXCEPT !.out = @ \cup Pieces(c, c.tx_sequence, 0,
                                                Least(c.tx_sent, s.room * NS_TCP_LOCAL_MSS)),
                          !.room = @ - Least(n, @), !.failed = @ \/ n > s.room,
                          !.c.rwnd = IF n = 0 THEN @ ELSE current_receive_window(c)]
    IN  CASE c.state = "SYN_SENT" -> emit_segment(s, c.iss, 0, {"SYN"}, <<>>)
          [] c.state = "SYN_RECEIVED" -> EmitSynAck(s)
          [] OTHER -> IF c.fin_sent /\ sequence_at_or_before(c.una, c.fin_sequence)
                      THEN emit_segment(data, c.fin_sequence, c.rnxt, {"FIN", "ACK"}, <<>>)
                      ELSE data

\* The deadlines of a connection that are armed.
Armed(c) ==
    (IF c.state = "TIME_WAIT" THEN {"time_wait"} ELSE {})
    \cup (IF c.ack_pending THEN {"delayed_ack"} ELSE {})
    \cup (IF c.rto THEN {"retransmit"} ELSE {})
    \cup (IF c.persist THEN {"persist"} ELSE {})

\* The zero-window probe: one byte to the left of what the peer expects.
Probe(s) ==
    IF s.c.wnd = 0 /\ s.c.una = s.c.nxt /\ Unsent(s.c)
    THEN emit_segment(s, Sub(s.c.una, 1), s.c.rnxt, {"ACK"}, <<0>>)
    ELSE [s EXCEPT !.c.persist = FALSE]

\* Mutation: one retransmission too many.
GivesUp_Late(c) == c.count > NS_TCP_RETRY_LIMIT

GivesUp(c) == c.count >= NS_TCP_RETRY_LIMIT

\* One connection's turn in ns_tcp_tick, with the deadlines that have expired.
Tick(s, expired) ==
    LET a == IF "delayed_ack" \in expired THEN emit_ack(s) ELSE s
        r == IF "retransmit" \in expired
             THEN [retransmit(a) EXCEPT !.c.count = @ + 1] ELSE a
        p == IF "persist" \in expired THEN Probe(r) ELSE r
    IN  IF s.c.state \in {"CLOSED", "LISTEN"} THEN s
        ELSE IF "time_wait" \in expired THEN close_with_event(s, "CLOSED")
        ELSE IF "retransmit" \in expired /\ GivesUp(s.c)
        THEN close_with_event(a, "TIMEOUT")
        ELSE IF p.c.state = "TIME_WAIT" THEN p ELSE flush_send(p)

----------------------------------------------------------------------------
\* The user's calls.

\* ns_tcp_send of data, of which the buffer takes what fits.
Queue(s, data) ==
    LET c == s.c
        accepted == SubSeq(data, 1, Least(Len(data), NS_TCP_SEND_CAPACITY - Len(c.tx)))
    IN  flush_send([s EXCEPT !.c.tx_sequence = IF c.tx = <<>> THEN c.nxt ELSE @,
                             !.c.tx = @ \o accepted])

\* ns_tcp_receive of n bytes: a window that was closed, or grows by an MSS,
\* is announced.
Take(s, n) ==
    LET t == [s EXCEPT !.c.rx = SubSeq(@, n + 1, Len(@))]
    IN  IF \/ s.c.rwnd = 0
           \/ current_receive_window(t.c) >= s.c.rwnd + NS_TCP_LOCAL_MSS
        THEN emit_ack(t) ELSE t

\* RST and release: ns_tcp_abort, and a listener's end for its children.
Abort(s) ==
    LET t == emit_segment(s, s.c.nxt, s.c.rnxt, {"RST", "ACK"}, <<>>)
    IN  close_with_event(IF s.c.state \in {"LISTEN", "SYN_SENT"} THEN s ELSE t, "CLOSED")

\* ns_tcp_close of a connection.
CloseConnection(s) ==
    IF s.c.state \in {"SYN_SENT", "SYN_RECEIVED"} THEN Abort(s)
    ELSE flush_send([s EXCEPT !.c.want_fin = TRUE])
============================================================================
