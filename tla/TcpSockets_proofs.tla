-------------------------- MODULE TcpSockets_proofs --------------------------
(***************************************************************************)
(* Proofs about TcpSockets for every number of hosts, connections and      *)
(* sockets, every buffer size and every behaviour of the network: no       *)
(* connection waits without a timer, and none is left without an owner.    *)
(***************************************************************************)
EXTENDS TcpSockets, SequenceTheorems, FiniteSetTheorems, WellFoundedInduction, TLAPS

Seqno == 0..(SeqMod - 1)
Bytes(n) == {d \in Seq(Nat) : Len(d) <= n}

Reordered == [seq : Seqno, data : Bytes(NS_TCP_LOCAL_MSS), fin : BOOLEAN]

Connection ==
    [state : State, generation : Nat, parent : Slot \cup {NO_PARENT}, accepted : BOOLEAN,
     lport : Nat, rport : Nat, want_fin : BOOLEAN, fin_sent : BOOLEAN, ack_pending : BOOLEAN,
     iss : Seqno, irs : Seqno, una : Seqno, nxt : Seqno, wnd : 0..NS_TCP_RECV_CAPACITY,
     wl1 : Seqno, wl2 : Seqno, rnxt : Seqno, rwnd : 0..NS_TCP_RECV_CAPACITY,
     tx_sequence : Seqno, fin_sequence : Seqno, tx : Bytes(NS_TCP_SEND_CAPACITY),
     tx_sent : Nat, rx : Bytes(NS_TCP_RECV_CAPACITY), reorder : Reordered,
     count : 0..NS_TCP_RETRY_LIMIT, rto : BOOLEAN, persist : BOOLEAN, order : Nat]

Packet == [sport : Nat, dport : Nat, seq : Seqno, ack : Seqno, flags : SUBSET Flag,
           win : 0..NS_TCP_RECV_CAPACITY, data : Bytes(NS_TCP_LOCAL_MSS)]

Event == {"ACCEPT_READY", "CONNECTED", "DATA", "PEER_CLOSED", "RESET", "CLOSED", "TIMEOUT"}

HandlerState == [c : Connection, out : SUBSET Packet, room : Nat, failed : BOOLEAN,
                 events : Seq(Event)]

Opening == {"SYN_SENT", "SYN_RECEIVED"}
Finishing == {"FIN_WAIT_1", "FIN_WAIT_2", "CLOSING", "LAST_ACK", "TIME_WAIT"}
Idle == {"CLOSED", "LISTEN"}

\* What the handlers rely on when they find a connection.
Sound(c) ==
    /\ Sub(c.nxt, c.una) <= NS_TCP_RECV_CAPACITY
    /\ c.una # c.nxt => c.rto
    /\ c.state \in Opening =>
         c.nxt = Add(c.iss, 1) /\ c.una = c.iss /\ c.tx = <<>> /\ ~c.want_fin
    /\ c.fin_sent <=> c.state \in Finishing
    /\ c.fin_sent => c.tx_sent = Len(c.tx) /\ c.nxt = Add(c.fin_sequence, 1)
    /\ c.state \in {"FIN_WAIT_2", "TIME_WAIT"} => c.una = c.nxt

\* A connection in the table.
Good(c) ==
    /\ c \in Connection
    /\ c.tx_sent <= Len(c.tx)
    /\ c.state \in Idle \/ Sound(c)

\* What a closed window holds back has a persist deadline.
Settled(c) == Unsent(c) /\ c.una = c.nxt /\ c.wnd = 0 => c.persist

\* What a handler may make of connection c.
Goes(c, d) ==
    /\ d.generation = c.generation
    /\ \/ d.state = "CLOSED"
       \/ /\ d.state = "LISTEN" <=> c.state = "LISTEN"
          /\ d.parent = c.parent /\ d.accepted = c.accepted
          /\ c.want_fin => d.want_fin

----------------------------------------------------------------------------
\* Arithmetic.

\* The constants, as far as the proofs use them.
LEMMA Sizes ==
    /\ SeqMod \in Nat \ {0} /\ SeqMod % 2 = 0
    /\ NS_TCP_LOCAL_MSS \in Nat \ {0}
    /\ NS_TCP_SEND_CAPACITY \in Nat \ {0} /\ NS_TCP_RECV_CAPACITY \in Nat \ {0}
    /\ SeqMod > 4 * NS_TCP_RECV_CAPACITY + 4
    /\ NS_TCP_RETRY_LIMIT \in Nat
    /\ NoLimit \in Nat
    /\ SeqMod \div 2 \in Nat /\ SeqMod = 2 * (SeqMod \div 2)
  BY TcpAssumption

LEMMA ModIs ==
    ASSUME NEW m \in Nat \ {0}, NEW a \in 0..(2 * m - 1)
    PROVE  a % m = IF a < m THEN a ELSE a - m
  OBVIOUS

LEMMA AddIs ==
    ASSUME NEW a \in Seqno, NEW n \in 0..SeqMod
    PROVE  /\ Add(a, n) = IF a + n < SeqMod THEN a + n ELSE a + n - SeqMod
           /\ Add(a, n) \in Seqno
  <1> DEFINE d == a + n
  <1>1. d \in 0..(2 * SeqMod - 1) /\ SeqMod \in Nat \ {0}
    BY Sizes DEF Seqno
  <1>2. d % SeqMod = IF d < SeqMod THEN d ELSE d - SeqMod
    <2> HIDE DEF d
    <2> QED
      BY ONLY <1>1, ModIs
  <1> QED
    BY <1>1, <1>2 DEF Add, Seqno

LEMMA AddIn ==
    ASSUME NEW a \in Seqno, NEW n \in Nat
    PROVE  Add(a, n) \in Seqno
  BY Sizes DEF Add, Seqno

LEMMA SubIs ==
    ASSUME NEW a \in Seqno, NEW b \in Seqno
    PROVE  /\ Sub(a, b) = IF a >= b THEN a - b ELSE a - b + SeqMod
           /\ Sub(a, b) \in Seqno
  <1> DEFINE d == a - b + SeqMod
  <1>1. d \in 0..(2 * SeqMod - 1) /\ SeqMod \in Nat \ {0}
    BY Sizes DEF Seqno
  <1>2. d % SeqMod = IF d < SeqMod THEN d ELSE d - SeqMod
    <2> HIDE DEF d
    <2> QED
      BY ONLY <1>1, ModIs
  <1> QED
    BY <1>1, <1>2 DEF Sub, Seqno

\* Bytes sent lengthen the flight by as much.
LEMMA FlightGrows ==
    ASSUME NEW u \in Seqno, NEW n \in Seqno, NEW k \in Nat, Sub(n, u) + k < SeqMod
    PROVE  /\ Add(n, k) \in Seqno
           /\ Sub(Add(n, k), u) = Sub(n, u) + k
           /\ k = 0 => Add(n, k) = n
  <1>1. Sub(n, u) = (IF n >= u THEN n - u ELSE n - u + SeqMod) /\ Sub(n, u) \in Seqno
    BY SubIs
  <1>2. k \in 0..SeqMod
    BY <1>1, Sizes DEF Seqno
  <1>3. /\ Add(n, k) = IF n + k < SeqMod THEN n + k ELSE n + k - SeqMod
        /\ Add(n, k) \in Seqno
    BY <1>2, AddIs
  <1>4. Sub(Add(n, k), u) =
            IF Add(n, k) >= u THEN Add(n, k) - u ELSE Add(n, k) - u + SeqMod
    BY <1>3, SubIs
  <1> QED
    BY <1>1, <1>2, <1>3, <1>4, Sizes DEF Seqno

\* An acknowledgment of something in flight shortens it.
LEMMA FlightShrinks ==
    ASSUME NEW u \in Seqno, NEW n \in Seqno, NEW a \in Seqno,
           Sub(n, u) <= NS_TCP_RECV_CAPACITY, sequence_after(a, u), ~sequence_after(a, n)
    PROVE  Sub(n, a) <= NS_TCP_RECV_CAPACITY
  <1> DEFINE half == SeqMod \div 2
  <1>1. /\ half \in Nat /\ SeqMod = 2 * half /\ half > 2 * NS_TCP_RECV_CAPACITY + 2
        /\ NS_TCP_RECV_CAPACITY \in Nat
    BY Sizes
  <1>2. /\ Sub(n, u) = (IF n >= u THEN n - u ELSE n - u + SeqMod)
        /\ Sub(a, u) = (IF a >= u THEN a - u ELSE a - u + SeqMod)
        /\ Sub(a, n) = (IF a >= n THEN a - n ELSE a - n + SeqMod)
        /\ Sub(n, a) = (IF n >= a THEN n - a ELSE n - a + SeqMod)
    BY SubIs
  <1>3. Sub(a, u) \in 1..(half - 1) /\ Sub(a, n) \notin 1..(half - 1)
    BY DEF sequence_after
  <1> HIDE DEF half
  <1> QED
    BY <1>1, <1>2, <1>3 DEF Seqno

\* A number after one in flight and not after the next one is the next one.
LEMMA JustAfter ==
    ASSUME NEW u \in Seqno, NEW f \in Seqno, sequence_after(u, f),
           \/ Sub(Add(f, 1), u) <= NS_TCP_RECV_CAPACITY
           \/ ~sequence_after(u, Add(f, 1))
    PROVE  u = Add(f, 1)
  <1> DEFINE half == SeqMod \div 2
             n == Add(f, 1)
  <1>1. /\ half \in Nat /\ SeqMod = 2 * half /\ half > 2 * NS_TCP_RECV_CAPACITY + 2
        /\ NS_TCP_RECV_CAPACITY \in Nat
    BY Sizes
  <1>2. n = (IF f + 1 < SeqMod THEN f + 1 ELSE f + 1 - SeqMod) /\ n \in Seqno
    BY <1>1, AddIs
  <1> HIDE DEF n
  <1>3. /\ Sub(u, f) = (IF u >= f THEN u - f ELSE u - f + SeqMod)
        /\ Sub(u, n) = (IF u >= n THEN u - n ELSE u - n + SeqMod)
        /\ Sub(n, u) = (IF n >= u THEN n - u ELSE n - u + SeqMod)
    BY <1>2, SubIs
  <1>4. Sub(u, f) \in 1..(half - 1)
        /\ (Sub(n, u) <= NS_TCP_RECV_CAPACITY \/ Sub(u, n) \notin 1..(half - 1))
    BY DEF sequence_after, n
  <1> HIDE DEF half
  <1>5. u = n
    BY <1>1, <1>2, <1>3, <1>4 DEF Seqno
  <1> QED
    BY <1>5 DEF n

LEMMA SubZero ==
    ASSUME NEW a \in Seqno, NEW b \in Seqno
    PROVE  Sub(a, b) = 0 <=> a = b
  <1>1. Sub(a, b) = IF a >= b THEN a - b ELSE a - b + SeqMod
    BY SubIs
  <1> QED
    BY <1>1, Sizes DEF Seqno

LEMMA NextOf ==
    ASSUME NEW i \in Seqno
    PROVE  Add(i, 1) \in Seqno /\ Add(i, 1) # i /\ Sub(Add(i, 1), i) = 1
  <1>1. /\ Add(i, 1) = IF i + 1 < SeqMod THEN i + 1 ELSE i + 1 - SeqMod
        /\ Add(i, 1) \in Seqno
    BY AddIs, Sizes
  <1>2. Sub(Add(i, 1), i) = IF Add(i, 1) >= i THEN Add(i, 1) - i ELSE Add(i, 1) - i + SeqMod
    BY <1>1, SubIs
  <1> QED
    BY <1>1, <1>2, Sizes DEF Seqno

\* Segments that carry k bytes are within what the interface takes.
LEMMA PiecesFit ==
    ASSUME NEW k \in Nat, NEW r \in Nat, k <= r * NS_TCP_LOCAL_MSS
    PROVE  PieceCount(k) \in 0..r
  <1> DEFINE M == NS_TCP_LOCAL_MSS
             q == (k + M - 1) \div M
  <1>1. M \in Nat \ {0} /\ r * M \in Nat
    BY Sizes
  <1>2. q \in Nat /\ q * M <= k + M - 1
    BY <1>1
  <1>3. ASSUME q >= r + 1 PROVE FALSE
    <2>1. q * M >= (r + 1) * M
      BY <1>1, <1>2, <1>3
    <2>2. (r + 1) * M = r * M + M
      BY <1>1
    <2> QED
      BY <1>1, <1>2, <2>1, <2>2
  <1> QED
    BY <1>1, <1>2, <1>3 DEF PieceCount

\* The least of some numbers is one of them.
LEMMA MinIn ==
    ASSUME NEW S \in SUBSET Nat, S # {}
    PROVE  Min(S) \in S
  <1> DEFINE R == {p \in Nat \X Nat : p[1] < p[2]}
  <1>1. IsWellFoundedOn(R, Nat)
    BY NatLessThanWellFounded DEF OpToRel
  <1>2. \A x, n \in Nat : x < n => <<x, n>> \in R
    OBVIOUS
  <1> HIDE DEF R
  <1>3. PICK n \in S : \A x \in S : ~(<<x, n>> \in R)
    BY <1>1, WFMin
  <1>4. ASSUME NEW y \in S PROVE n <= y
    <2>1. n \in Nat /\ y \in Nat /\ ~(y < n)
      BY <1>2, <1>3
    <2> QED
      BY <2>1
  <1> QED
    BY <1>3, <1>4 DEF Min
----------------------------------------------------------------------------
\* Connections that a handler leaves alike.

\* The fields on which Good and Goes depend.
Alike(c, d) ==
    /\ d.state = c.state /\ d.generation = c.generation /\ d.parent = c.parent
    /\ d.accepted = c.accepted /\ d.want_fin = c.want_fin /\ d.fin_sent = c.fin_sent
    /\ d.iss = c.iss /\ d.una = c.una /\ d.nxt = c.nxt /\ d.tx = c.tx
    /\ d.tx_sent = c.tx_sent /\ d.fin_sequence = c.fin_sequence /\ d.rto = c.rto

\* A handler that only answers, or works on the receiving side.
Quiet(s, t) ==
    /\ t \in HandlerState /\ Alike(s.c, t.c)
    /\ t.c.wnd = s.c.wnd /\ t.c.persist = s.c.persist

\* Any part of a handler.
Step(s, t) == t \in HandlerState /\ Good(t.c) /\ Goes(s.c, t.c)

LEMMA AlikeGood ==
    ASSUME NEW c, NEW d \in Connection, Good(c), Alike(c, d)
    PROVE  Good(d) /\ Goes(c, d)
  BY DEF Good, Sound, Alike, Goes

LEMMA QuietStep ==
    ASSUME NEW s, NEW t, Good(s.c), Quiet(s, t)
    PROVE  /\ Step(s, t) /\ t.c.state = s.c.state
           /\ Settled(s.c) => Settled(t.c)
  <1>1. t.c \in Connection /\ Alike(s.c, t.c)
    BY DEF Quiet, HandlerState
  <1>2. Good(t.c) /\ Goes(s.c, t.c)
    BY <1>1, AlikeGood
  <1> QED
    BY <1>1, <1>2 DEF Quiet, Step, Settled, Unsent, Alike

LEMMA GoesTransitive ==
    ASSUME NEW c, NEW d, NEW e, Goes(c, d), Goes(d, e), d.state # "CLOSED"
    PROVE  Goes(c, e)
  BY DEF Goes

LEMMA StepTransitive ==
    ASSUME NEW s, NEW t, NEW u, Step(s, t), Step(t, u), t.c.state # "CLOSED"
    PROVE  Step(s, u)
  BY GoesTransitive DEF Step

LEMMA QuietTransitive ==
    ASSUME NEW s, NEW t, NEW u, Quiet(s, t), Quiet(t, u)
    PROVE  Quiet(s, u)
  BY DEF Quiet, Alike

----------------------------------------------------------------------------
\* Segments.

LEMMA WindowIs ==
    ASSUME NEW c \in Connection
    PROVE  current_receive_window(c) \in 0..NS_TCP_RECV_CAPACITY
  BY Sizes DEF current_receive_window, Connection, Bytes

LEMMA SegmentIs ==
    ASSUME NEW c \in Connection, NEW seq \in Seqno, NEW ack \in Seqno, NEW flags \in SUBSET Flag,
           NEW data \in Bytes(NS_TCP_LOCAL_MSS)
    PROVE  Segment(c, seq, ack, flags, data) \in Packet
  BY WindowIs DEF Segment, Packet, Connection

LEMMA EmptyIs ==
    ASSUME NEW n \in Nat
    PROVE  <<>> \in Bytes(n)
  BY DEF Bytes

LEMMA Cut ==
    ASSUME NEW d \in Seq(Nat), NEW m \in Nat \ {0}, NEW k \in Int, k <= Len(d)
    PROVE  /\ SubSeq(d, m, k) \in Seq(Nat)
           /\ Len(SubSeq(d, m, k)) = IF m <= k THEN k - m + 1 ELSE 0
  <1>1. \A i \in m..k : d[i] \in Nat
    OBVIOUS
  <1> QED
    BY <1>1, SubSeqProperties

LEMMA WithOut ==
    ASSUME NEW s \in HandlerState, NEW O \in SUBSET Packet, NEW r \in Nat
    PROVE  LET t == [s EXCEPT !.room = r, !.out = O]
           IN  t \in HandlerState /\ t.c = s.c /\ t.failed = s.failed
  BY DEF HandlerState

LEMMA WithRwnd ==
    ASSUME NEW s \in HandlerState, NEW w \in 0..NS_TCP_RECV_CAPACITY
    PROVE  /\ [s EXCEPT !.c.rwnd = w] \in HandlerState
           /\ Quiet(s, [s EXCEPT !.c.rwnd = w])
  <1> DEFINE d == [s.c EXCEPT !.rwnd = w]
  <1>1. s.c \in Connection
    BY DEF HandlerState
  <1>2. d \in Connection
    BY <1>1 DEF Connection
  <1>3. Alike(s.c, d) /\ d.wnd = s.c.wnd /\ d.persist = s.c.persist
    BY <1>1 DEF Connection, Alike
  <1>4. [s EXCEPT !.c.rwnd = w] = [s EXCEPT !.c = d]
    BY DEF HandlerState
  <1> HIDE DEF d
  <1>5. [s EXCEPT !.c = d] \in HandlerState /\ [s EXCEPT !.c = d].c = d
    BY <1>2 DEF HandlerState
  <1> QED
    BY <1>3, <1>4, <1>5 DEF Quiet

LEMMA WithAckPending ==
    ASSUME NEW s \in HandlerState, NEW a \in BOOLEAN
    PROVE  /\ [s EXCEPT !.c.ack_pending = a] \in HandlerState
           /\ Quiet(s, [s EXCEPT !.c.ack_pending = a])
  <1> DEFINE d == [s.c EXCEPT !.ack_pending = a]
  <1>1. s.c \in Connection
    BY DEF HandlerState
  <1>2. d \in Connection
    BY <1>1 DEF Connection
  <1>3. Alike(s.c, d) /\ d.wnd = s.c.wnd /\ d.persist = s.c.persist
    BY <1>1 DEF Connection, Alike
  <1>4. [s EXCEPT !.c.ack_pending = a] = [s EXCEPT !.c = d]
    BY DEF HandlerState
  <1> HIDE DEF d
  <1>5. [s EXCEPT !.c = d] \in HandlerState /\ [s EXCEPT !.c = d].c = d
    BY <1>2 DEF HandlerState
  <1> QED
    BY <1>3, <1>4, <1>5 DEF Quiet

\* Whatever emit_segment sends, the connection only notes the window.
LEMMA EmitSegment ==
    ASSUME NEW s \in HandlerState, NEW seq \in Seqno, NEW ack \in Seqno,
           NEW flags \in SUBSET Flag, NEW data \in Bytes(NS_TCP_LOCAL_MSS)
    PROVE  /\ Quiet(s, emit_segment(s, seq, ack, flags, data))
           /\ emit_segment(s, seq, ack, flags, data).c
                = [s.c EXCEPT !.rwnd = current_receive_window(s.c)]
  <1> DEFINE t == [s EXCEPT !.c.rwnd = current_receive_window(s.c)]
             m == Segment(s.c, seq, ack, flags, data)
  <1>1. s.c \in Connection /\ m \in Packet
    BY SegmentIs DEF HandlerState
  <1>2. t \in HandlerState /\ Quiet(s, t)
    BY <1>1, WindowIs, WithRwnd
  <1>3. t.c = [s.c EXCEPT !.rwnd = current_receive_window(s.c)] /\ t.room = s.room
           /\ t.failed = s.failed
    BY DEF HandlerState
  <1>4. emit_segment(s, seq, ack, flags, data) =
            IF s.room = 0 THEN [t EXCEPT !.failed = TRUE]
            ELSE [t EXCEPT !.room = @ - 1, !.out = @ \cup {m}]
    BY DEF emit_segment
  <1> HIDE DEF t, m
  <1>5. \A f \in BOOLEAN : /\ [t EXCEPT !.failed = f] \in HandlerState
                           /\ [t EXCEPT !.failed = f].c = t.c
                           /\ [t EXCEPT !.failed = f].failed = f
    BY <1>2 DEF HandlerState
  <1>6. s.room # 0 => /\ [t EXCEPT !.room = @ - 1, !.out = @ \cup {m}] \in HandlerState
                      /\ [t EXCEPT !.room = @ - 1, !.out = @ \cup {m}].c = t.c
                      /\ [t EXCEPT !.room = @ - 1, !.out = @ \cup {m}].failed = t.failed
    <2>1. s.room # 0 => t.room - 1 \in Nat
      BY <1>3 DEF HandlerState
    <2>2. t.out \cup {m} \in SUBSET Packet
      BY <1>1, <1>2 DEF HandlerState
    <2>3. [t EXCEPT !.room = @ - 1, !.out = @ \cup {m}]
            = [t EXCEPT !.room = t.room - 1, !.out = t.out \cup {m}]
      BY <1>2 DEF HandlerState
    <2> QED
      BY <1>2, <2>1, <2>2, <2>3, WithOut
  <1>7. s.failed \in BOOLEAN
    BY DEF HandlerState
  <1> QED
    BY <1>2, <1>3, <1>4, <1>5, <1>6, <1>7 DEF Quiet

LEMMA EmitAck ==
    ASSUME NEW s \in HandlerState
    PROVE  Quiet(s, emit_ack(s))
  <1> DEFINE t == emit_segment(s, s.c.nxt, s.c.rnxt, {"ACK"}, <<>>)
  <1>1. s.c.nxt \in Seqno /\ s.c.rnxt \in Seqno
    BY DEF HandlerState, Connection
  <1>2. {"ACK"} \in SUBSET Flag /\ <<>> \in Bytes(NS_TCP_LOCAL_MSS)
    BY EmptyIs, Sizes DEF Flag
  <1>3. Quiet(s, t)
    BY <1>1, <1>2, EmitSegment
  <1> HIDE DEF t
  <1>4. \A a \in BOOLEAN : Quiet(t, [t EXCEPT !.c.ack_pending = a])
    BY <1>3, WithAckPending DEF Quiet
  <1>5. \A a \in BOOLEAN : Quiet(s, [t EXCEPT !.c.ack_pending = a])
    BY <1>3, <1>4, QuietTransitive
  <1> QED
    BY <1>3, <1>5 DEF emit_ack, t

LEMMA QueueDelayedAck ==
    ASSUME NEW s \in HandlerState, NEW immediate \in BOOLEAN
    PROVE  Quiet(s, queue_delayed_ack(s, immediate))
  <1>1. \A a \in BOOLEAN : Quiet(s, [s EXCEPT !.c.ack_pending = a])
    BY WithAckPending
  <1> QED
    BY <1>1, EmitAck DEF queue_delayed_ack

LEMMA SendReset ==
    ASSUME NEW s \in HandlerState, NEW m \in Packet
    PROVE  Quiet(s, send_reset_for_segment(s, m)) /\ send_reset_for_segment(s, m).c = s.c
  <1>1. SegLen(m) \in Nat
    <2>1. Len(m.data) \in Nat
      BY DEF Packet, Bytes
    <2> DEFINE a == IF "SYN" \in m.flags THEN 1 ELSE 0
               b == IF "FIN" \in m.flags THEN 1 ELSE 0
    <2>2. a \in Nat /\ b \in Nat /\ SegLen(m) = Len(m.data) + a + b
      BY DEF SegLen
    <2> HIDE DEF a, b
    <2> QED
      BY <2>1, <2>2
  <1>2. Add(m.seq, SegLen(m)) \in Seqno
    BY <1>1, AddIn DEF Packet
  <1>3. 0 \in Seqno /\ <<>> \in Bytes(NS_TCP_LOCAL_MSS)
        /\ NS_TCP_RECV_CAPACITY \in 0..NS_TCP_RECV_CAPACITY
    BY Sizes, EmptyIs DEF Seqno
  <1>4. ResetFor(m) \subseteq Packet
    BY <1>2, <1>3 DEF ResetFor, Packet, Flag
  <1> DEFINE out == ResetFor(m)
  <1> HIDE DEF out
  <1>5. s.room # 0 => /\ [s EXCEPT !.out = @ \cup out, !.room = @ - 1] \in HandlerState
                      /\ [s EXCEPT !.out = @ \cup out, !.room = @ - 1].c = s.c
    <2>1. s.room # 0 => s.room - 1 \in Nat
      BY DEF HandlerState
    <2>2. s.out \cup out \in SUBSET Packet
      BY <1>4 DEF HandlerState, out
    <2>3. [s EXCEPT !.out = @ \cup out, !.room = @ - 1]
            = [s EXCEPT !.room = s.room - 1, !.out = s.out \cup out]
      BY DEF HandlerState
    <2> DEFINE O == s.out \cup out
               r == s.room - 1
    <2> HIDE DEF O, r
    <2>4. s.room # 0 => /\ [s EXCEPT !.room = r, !.out = O] \in HandlerState
                        /\ [s EXCEPT !.room = r, !.out = O].c = s.c
      BY <2>1, <2>2, WithOut DEF O, r
    <2> QED
      BY <2>3, <2>4 DEF O, r
  <1>6. \A f \in BOOLEAN : /\ [s EXCEPT !.failed = f] \in HandlerState
                           /\ [s EXCEPT !.failed = f].c = s.c
    BY DEF HandlerState
  <1>7. send_reset_for_segment(s, m) \in HandlerState /\ send_reset_for_segment(s, m).c = s.c
    BY <1>5, <1>6 DEF send_reset_for_segment, Emits, out
  <1> QED
    BY <1>7 DEF Quiet, Alike

----------------------------------------------------------------------------
\* Sending.

LEMMA PiecesAre ==
    ASSUME NEW c \in Connection, NEW seq \in Seqno, NEW offset \in Nat, NEW n \in Nat,
           offset + n <= Len(c.tx)
    PROVE  Pieces(c, seq, offset, n) \subseteq Packet
  <1> DEFINE M == NS_TCP_LOCAL_MSS
  <1>1. M \in Nat \ {0} /\ c.tx \in Seq(Nat) /\ Len(c.tx) \in Nat /\ c.rnxt \in Seqno
        /\ {"ACK"} \in SUBSET Flag
    BY Sizes DEF Connection, Bytes, Flag
  <1> SUFFICES ASSUME NEW i \in 0..((n + M - 1) \div M - 1)
               PROVE  LET from == offset + i * M
                      IN  Segment(c, Add(seq, i * M), c.rnxt, {"ACK"},
                                  SubSeq(c.tx, from + 1, Least(from + M, offset + n))) \in Packet
    BY DEF Pieces
  <1>2. i \in Nat /\ i * M \in Nat
    <2>1. (n + M - 1) \div M \in Int
      BY <1>1
    <2>2. i \in Nat
      BY <2>1
    <2> QED
      BY <1>1, <2>2
  <1>3. Add(seq, i * M) \in Seqno
    BY <1>2, AddIn
  <1> DEFINE from == offset + i * M
             to == Least(from + M, offset + n)
  <1>4. from \in Nat /\ to \in Nat /\ to <= Len(c.tx) /\ to <= from + M
    BY <1>1, <1>2 DEF Least
  <1> HIDE DEF from, to, M
  <1>5. /\ SubSeq(c.tx, from + 1, to) \in Seq(Nat)
        /\ Len(SubSeq(c.tx, from + 1, to)) = IF from + 1 <= to THEN to - (from + 1) + 1 ELSE 0
    BY <1>1, <1>4, Cut
  <1>6. SubSeq(c.tx, from + 1, to) \in Bytes(M)
    BY <1>1, <1>4, <1>5 DEF Bytes
  <1> QED
    BY <1>1, <1>3, <1>6, SegmentIs DEF from, to, M

LEMMA StartTimer ==
    ASSUME NEW c \in Connection
    PROVE  /\ start_retransmit_timer(c) \in Connection
           /\ start_retransmit_timer(c).rto
           /\ start_retransmit_timer(c).wnd = c.wnd
           /\ LET d == start_retransmit_timer(c)
              IN  /\ d.state = c.state /\ d.generation = c.generation /\ d.parent = c.parent
                  /\ d.accepted = c.accepted /\ d.want_fin = c.want_fin
                  /\ d.fin_sent = c.fin_sent /\ d.iss = c.iss /\ d.una = c.una /\ d.nxt = c.nxt
                  /\ d.tx = c.tx /\ d.tx_sent = c.tx_sent /\ d.fin_sequence = c.fin_sequence
  <1>1. 0 \in 0..NS_TCP_RETRY_LIMIT
    BY Sizes
  <1> DEFINE D(t) == [c EXCEPT !.rto = t, !.count = 0]
             Like(d) == /\ d.wnd = c.wnd /\ d.state = c.state /\ d.generation = c.generation
                        /\ d.parent = c.parent /\ d.accepted = c.accepted
                        /\ d.want_fin = c.want_fin /\ d.fin_sent = c.fin_sent
                        /\ d.iss = c.iss /\ d.una = c.una /\ d.nxt = c.nxt /\ d.tx = c.tx
                        /\ d.tx_sent = c.tx_sent /\ d.fin_sequence = c.fin_sequence
  <1>2. \A t \in BOOLEAN : D(t) \in Connection /\ D(t).rto = t
    BY <1>1 DEF Connection
  <1>3. \A t \in BOOLEAN : Like(D(t))
    BY DEF Connection
  <1>4. start_retransmit_timer(c) = IF c.rto THEN c ELSE D(TRUE)
    BY DEF start_retransmit_timer
  <1>5. Like(c)
    OBVIOUS
  <1> HIDE DEF D
  <1>6. D(TRUE) \in Connection /\ D(TRUE).rto /\ Like(D(TRUE))
    BY <1>2, <1>3
  <1>7. /\ start_retransmit_timer(c) \in Connection /\ start_retransmit_timer(c).rto
        /\ Like(start_retransmit_timer(c))
    <2> HIDE DEF Like
    <2> QED
      BY <1>4, <1>5, <1>6
  <1> QED
    BY <1>7

\* The data loop.
LEMMA FlushDataStep ==
    ASSUME NEW s \in HandlerState, Good(s.c), s.c.state \notin Idle
    PROVE  Step(s, FlushData(s)) /\ FlushData(s).c.state = s.c.state
  <1> DEFINE c == s.c
             n == IF c.state \in {"ESTABLISHED", "CLOSE_WAIT", "FIN_WAIT_1", "FIN_WAIT_2"}
                  THEN Least(Len(c.tx) - c.tx_sent, WindowLeft(c)) ELSE 0
             k == Least(n, s.room * NS_TCP_LOCAL_MSS)
             d == [c EXCEPT !.tx_sent = @ + k, !.nxt = Add(@, k)]
             e == [(IF k = 0 THEN d ELSE start_retransmit_timer(d))
                      EXCEPT !.rwnd = current_receive_window(c)]
             segments == Pieces(c, c.nxt, c.tx_sent, k)
             t == [s EXCEPT !.c = e, !.out = @ \cup segments, !.room = @ - PieceCount(k),
                            !.failed = @ \/ k < n]
  <1>1. c \in Connection /\ s.room \in Nat /\ Sound(c) /\ c.tx_sent <= Len(c.tx)
    BY DEF HandlerState, Good
  <1>2. /\ c.tx_sent \in Nat /\ Len(c.tx) \in Nat /\ c.wnd \in 0..NS_TCP_RECV_CAPACITY
        /\ c.nxt \in Seqno /\ c.una \in Seqno
    BY <1>1 DEF Connection, Bytes
  <1>3. Sub(c.nxt, c.una) \in Nat
    BY <1>2, SubIs DEF Seqno
  <1>4. WindowLeft(c) \in Nat
        /\ (WindowLeft(c) = 0 \/ Sub(c.nxt, c.una) + WindowLeft(c) <= NS_TCP_RECV_CAPACITY)
    BY <1>2, <1>3, Sizes, SMTT(20) DEF WindowLeft
  <1>5. /\ n \in Nat /\ c.tx_sent + n <= Len(c.tx)
        /\ n = 0 \/ Sub(c.nxt, c.una) + n <= NS_TCP_RECV_CAPACITY
        /\ c.fin_sent => n = 0
        /\ c.state \in Opening => n = 0
    <2> DEFINE l == Len(c.tx) - c.tx_sent
               w == WindowLeft(c)
    <2>1. l \in Nat /\ w \in Nat /\ c.tx_sent + l = Len(c.tx)
      BY <1>1, <1>2, <1>4
    <2>2. c.fin_sent => l = 0
      BY <1>1, <1>2 DEF Sound
    <2>3. n = Least(l, w) \/ n = 0
      OBVIOUS
    <2>4. c.state \in Opening => n = 0
      BY DEF Opening
    <2> HIDE DEF l, n
    <2>5. Least(l, w) \in Nat /\ Least(l, w) <= l /\ Least(l, w) <= w
      BY <2>1 DEF Least
    <2> QED
      BY <1>2, <1>3, <1>4, <2>1, <2>2, <2>3, <2>4, <2>5, Sizes
  <1>6. FlushData(s) = IF n = 0 THEN s ELSE t
    BY DEF FlushData
  <1>7. CASE n = 0
    BY <1>6, <1>7 DEF Step, Goes
  <1>8. CASE n # 0
    <2> HIDE DEF n
    <2>1. s.room * NS_TCP_LOCAL_MSS \in Nat
      BY <1>1, Sizes
    <2>2. k \in Nat /\ k <= n /\ k <= s.room * NS_TCP_LOCAL_MSS
      BY <1>5, <2>1 DEF Least
    <2> HIDE DEF k
    <2>3. /\ Add(c.nxt, k) \in Seqno /\ Sub(Add(c.nxt, k), c.una) = Sub(c.nxt, c.una) + k
          /\ k = 0 => Add(c.nxt, k) = c.nxt
      BY <1>2, <1>3, <1>5, <1>8, <2>2, FlightGrows, Sizes
    <2>4. /\ d \in Connection /\ d.tx_sent = c.tx_sent + k /\ d.nxt = Add(c.nxt, k)
          /\ d.state = c.state /\ d.generation = c.generation /\ d.parent = c.parent
          /\ d.accepted = c.accepted /\ d.want_fin = c.want_fin /\ d.fin_sent = c.fin_sent
          /\ d.iss = c.iss /\ d.una = c.una /\ d.tx = c.tx /\ d.fin_sequence = c.fin_sequence
          /\ d.rto = c.rto
      <3>1. c.tx_sent + k \in Nat
        BY <1>2, <2>2
      <3> DEFINE a == c.tx_sent + k
                 b == Add(c.nxt, k)
      <3>2. d = [c EXCEPT !.tx_sent = a, !.nxt = b]
        BY <1>1 DEF Connection
      <3> HIDE DEF a, b, c, d
      <3>3. a \in Nat /\ b \in Seqno
        BY <2>3, <3>1 DEF a, b
      <3> QED
        BY <1>1, <3>2, <3>3 DEF Connection, a, b
    <2> DEFINE g == IF k = 0 THEN d ELSE start_retransmit_timer(d)
    <2> HIDE DEF d
    <2>5. /\ g \in Connection /\ g.tx_sent = c.tx_sent + k /\ g.nxt = Add(c.nxt, k)
          /\ g.state = c.state /\ g.generation = c.generation /\ g.parent = c.parent
          /\ g.accepted = c.accepted /\ g.want_fin = c.want_fin /\ g.fin_sent = c.fin_sent
          /\ g.iss = c.iss /\ g.una = c.una /\ g.tx = c.tx /\ g.fin_sequence = c.fin_sequence
          /\ k = 0 => g.rto = c.rto
          /\ k # 0 => g.rto
      BY <2>4, StartTimer
    <2>6. e = [g EXCEPT !.rwnd = current_receive_window(c)]
      OBVIOUS
    <2> HIDE DEF g, e
    <2>7. current_receive_window(c) \in 0..NS_TCP_RECV_CAPACITY
      BY <1>1, WindowIs
    <2>8. /\ e \in Connection /\ Alike(g, e)
      <3> DEFINE w == current_receive_window(c)
      <3> HIDE DEF w
      <3>1. w \in 0..NS_TCP_RECV_CAPACITY /\ e = [g EXCEPT !.rwnd = w]
        BY <2>6, <2>7 DEF w
      <3> QED
        BY <2>5, <3>1 DEF Connection, Alike
    <2>9. Good(e)
      <3>1. e.tx_sent <= Len(e.tx)
        BY <1>2, <1>5, <2>2, <2>5, <2>8 DEF Alike
      <3>2. Sub(e.nxt, e.una) <= NS_TCP_RECV_CAPACITY
        BY <1>2, <1>3, <1>5, <1>8, <2>2, <2>3, <2>5, <2>8, Sizes DEF Alike
      <3>3. e.una # e.nxt => e.rto
        BY <1>1, <2>3, <2>5, <2>8 DEF Alike, Sound
      <3>4. ~c.fin_sent /\ c.state \notin Opening /\ c.state \notin Finishing
        BY <1>1, <1>5, <1>8 DEF Sound
      <3>5. Sound(e)
        BY <1>1, <2>5, <2>8, <3>2, <3>3, <3>4 DEF Alike, Sound, Finishing
      <3> QED
        BY <2>8, <3>1, <3>5 DEF Good
    <2>10. Goes(c, e) /\ e.state = c.state
      BY <2>5, <2>8 DEF Alike, Goes
    <2>11. segments \subseteq Packet
      BY <1>1, <1>2, <1>5, <2>2, PiecesAre
    <2>12. s.room - PieceCount(k) \in Nat
      <3>1. PieceCount(k) \in 0..s.room
        BY <1>1, <2>2, PiecesFit
      <3> QED
        BY <1>1, <3>1
    <2>13. t \in HandlerState /\ t.c = e
      <3> DEFINE O == s.out \cup segments
                 r == s.room - PieceCount(k)
                 f == s.failed \/ k < n
      <3>1. t = [s EXCEPT !.c = e, !.out = O, !.room = r, !.failed = f]
        BY DEF HandlerState
      <3>2. O \in SUBSET Packet /\ r \in Nat /\ f \in BOOLEAN
        BY <2>11, <2>12 DEF HandlerState
      <3> HIDE DEF O, r, f, t
      <3> QED
        BY <2>8, <3>1, <3>2 DEF HandlerState
    <2> HIDE DEF t
    <2> QED
      BY <1>6, <1>8, <2>9, <2>10, <2>13 DEF Step
  <1> QED
    BY <1>7, <1>8
LEMMA WithC ==
    ASSUME NEW s \in HandlerState, NEW d \in Connection
    PROVE  [s EXCEPT !.c = d] \in HandlerState /\ [s EXCEPT !.c = d].c = d
  BY DEF HandlerState

FinAt(c, f, n, y, x) ==
    [c EXCEPT !.fin_sequence = f, !.nxt = n, !.fin_sent = y, !.state = x]

LEMMA FinAtIs ==
    ASSUME NEW c \in Connection, NEW f \in Seqno, NEW n \in Seqno, NEW y \in BOOLEAN,
           NEW x \in State
    PROVE  LET d == FinAt(c, f, n, y, x)
           IN  /\ d \in Connection /\ d.fin_sent = y
               /\ d.fin_sequence = f /\ d.nxt = n /\ d.state = x
               /\ d.generation = c.generation /\ d.parent = c.parent
               /\ d.accepted = c.accepted /\ d.want_fin = c.want_fin
               /\ d.una = c.una /\ d.tx = c.tx /\ d.tx_sent = c.tx_sent
  BY DEF Connection, FinAt

\* The connection whose FIN has left.
LEMMA FinSentIs ==
    ASSUME NEW c, Good(c), c.state \in {"ESTABLISHED", "CLOSE_WAIT"},
           c.tx_sent = Len(c.tx), Sub(c.nxt, c.una) < c.wnd
    PROVE  Good(FinSent(c)) /\ Goes(c, FinSent(c)) /\ FinSent(c).state \notin Idle
  <1> DEFINE x == IF c.state = "ESTABLISHED" THEN "FIN_WAIT_1" ELSE "LAST_ACK"
             d == FinAt(c, c.nxt, Add(c.nxt, 1), TRUE, x)
             e == start_retransmit_timer(d)
  <1>1. c \in Connection /\ Sound(c)
    BY DEF Good, Idle
  <1>2. c.nxt \in Seqno /\ c.una \in Seqno /\ c.wnd \in 0..NS_TCP_RECV_CAPACITY
    BY <1>1 DEF Connection
  <1>3. Sub(c.nxt, c.una) \in Nat
    <2>1. Sub(c.nxt, c.una) \in Seqno
      BY <1>2, SubIs
    <2> QED
      BY <2>1, Sizes DEF Seqno
  <1>4. Add(c.nxt, 1) \in Seqno /\ Sub(Add(c.nxt, 1), c.una) = Sub(c.nxt, c.una) + 1
    BY <1>2, <1>3, FlightGrows, Sizes
  <1>5. x \in State /\ x \in {"FIN_WAIT_1", "LAST_ACK"}
    BY DEF State
  <1>6. FinSent(c) = e
    BY DEF FinSent, FinAt
  <1> HIDE DEF x
  <1>8. /\ d \in Connection /\ d.fin_sent /\ d.fin_sequence = c.nxt
        /\ d.nxt = Add(c.nxt, 1) /\ d.state = x /\ d.generation = c.generation
        /\ d.parent = c.parent /\ d.accepted = c.accepted /\ d.want_fin = c.want_fin
        /\ d.una = c.una /\ d.tx = c.tx /\ d.tx_sent = c.tx_sent
    <2> DEFINE D(y) == FinAt(c, c.nxt, Add(c.nxt, 1), y, x)
    <2>1. \A y \in BOOLEAN :
            /\ D(y) \in Connection /\ D(y).fin_sent = y
            /\ D(y).fin_sequence = c.nxt /\ D(y).nxt = Add(c.nxt, 1) /\ D(y).state = x
            /\ D(y).generation = c.generation /\ D(y).parent = c.parent
            /\ D(y).accepted = c.accepted /\ D(y).want_fin = c.want_fin
            /\ D(y).una = c.una /\ D(y).tx = c.tx /\ D(y).tx_sent = c.tx_sent
      BY <1>1, <1>2, <1>4, <1>5, FinAtIs
    <2>2. d = D(TRUE)
      OBVIOUS
    <2> HIDE DEF D, d
    <2> QED
      BY <2>1, <2>2
  <1> HIDE DEF d
  <1>9. /\ e \in Connection /\ e.rto /\ e.fin_sent /\ e.fin_sequence = c.nxt
        /\ e.nxt = Add(c.nxt, 1) /\ e.state = x /\ e.generation = c.generation
        /\ e.parent = c.parent /\ e.accepted = c.accepted /\ e.want_fin = c.want_fin
        /\ e.una = c.una /\ e.tx = c.tx /\ e.tx_sent = c.tx_sent
    BY <1>8, StartTimer
  <1> HIDE DEF e
  <1>10. Sub(e.nxt, e.una) <= NS_TCP_RECV_CAPACITY
    BY <1>2, <1>3, <1>4, <1>9, Sizes
  <1>11. Good(e)
    <2>1. e.tx_sent <= Len(e.tx)
      BY <1>9 DEF Good
    <2> QED
      BY <1>5, <1>9, <1>10, <2>1 DEF Good, Sound, Opening, Finishing
  <1>12. Goes(c, e) /\ e.state \notin Idle
    BY <1>5, <1>9 DEF Goes, Idle
  <1> QED
    BY <1>6, <1>11, <1>12

\* The FIN.
LEMMA FlushFinStep ==
    ASSUME NEW s \in HandlerState, Good(s.c), s.c.state \notin Idle
    PROVE  Step(s, FlushFin(s)) /\ FlushFin(s).c.state \notin Idle
  <1> DEFINE c == s.c
             t == emit_segment(s, c.nxt, c.rnxt, {"FIN", "ACK"}, <<>>)
             due == /\ c.want_fin /\ ~c.fin_sent /\ c.tx_sent = Len(c.tx)
                    /\ Sub(c.nxt, c.una) < c.wnd
                    /\ c.state \in {"ESTABLISHED", "CLOSE_WAIT"}
  <1>1. c.nxt \in Seqno /\ c.rnxt \in Seqno
    BY DEF HandlerState, Connection
  <1>2. {"FIN", "ACK"} \in SUBSET Flag /\ <<>> \in Bytes(NS_TCP_LOCAL_MSS)
    BY EmptyIs, Sizes DEF Flag
  <1>3. Quiet(s, t)
    BY <1>1, <1>2, EmitSegment
  <1>4. Step(s, t) /\ t.c.state = s.c.state
    BY <1>3, QuietStep
  <1>5. FlushFin(s) = IF ~due THEN s ELSE IF ~Emits(s) THEN t ELSE [t EXCEPT !.c = FinSent(t.c)]
    BY DEF FlushFin
  <1> HIDE DEF t
  <1>6. CASE ~due
    BY <1>5, <1>6 DEF Step, Goes
  <1>7. CASE due /\ ~Emits(s)
    BY <1>4, <1>5, <1>7
  <1>8. CASE due /\ Emits(s)
    <2> DEFINE e == FinSent(t.c)
    <2>1. /\ t.c.state \in {"ESTABLISHED", "CLOSE_WAIT"} /\ t.c.tx_sent = Len(t.c.tx)
          /\ Sub(t.c.nxt, t.c.una) < t.c.wnd
      BY <1>3, <1>8 DEF Quiet, Alike
    <2>2. Good(e) /\ Goes(t.c, e) /\ e.state \notin Idle
      BY <1>4, <2>1, FinSentIs DEF Step
    <2> HIDE DEF e
    <2>3. Goes(s.c, e)
      BY <1>4, <2>1, <2>2, GoesTransitive DEF Step
    <2>4. FlushFin(s) = [t EXCEPT !.c = e]
      BY <1>5, <1>8 DEF e
    <2>5. FlushFin(s) \in HandlerState /\ FlushFin(s).c = e
      BY <1>4, <2>2, <2>4, WithC DEF Step, Good
    <2> QED
      BY <2>2, <2>3, <2>5 DEF Step
  <1> QED
    BY <1>6, <1>7, <1>8

LEMMA PersistIs ==
    ASSUME NEW c \in Connection
    PROVE  /\ Persist(c) \in Connection /\ Alike(c, Persist(c)) /\ Persist(c).wnd = c.wnd
           /\ Settled(Persist(c))
  <1> DEFINE D(y) == [c EXCEPT !.persist = y]
  <1>1. \A y \in BOOLEAN : /\ D(y) \in Connection /\ Alike(c, D(y)) /\ D(y).wnd = c.wnd
                           /\ D(y).persist = y
    BY DEF Connection, Alike
  <1>2. \A y \in BOOLEAN : Unsent(D(y)) <=> Unsent(c)
    BY <1>1 DEF Unsent, Alike
  <1> HIDE DEF D
  <1>3. Persist(c) = IF Unsent(c) /\ c.wnd = 0 /\ c.una = c.nxt THEN D(TRUE)
                     ELSE IF c.wnd # 0 \/ ~Unsent(c) THEN D(FALSE) ELSE c
    BY DEF Persist, D
  <1>4. CASE Unsent(c) /\ c.wnd = 0 /\ c.una = c.nxt
    BY <1>1, <1>3, <1>4 DEF Settled
  <1>5. CASE ~(Unsent(c) /\ c.wnd = 0 /\ c.una = c.nxt) /\ (c.wnd # 0 \/ ~Unsent(c))
    <2>1. Persist(c) = D(FALSE) /\ (D(FALSE).wnd # 0 \/ ~Unsent(D(FALSE)))
      BY <1>1, <1>2, <1>3, <1>5
    <2>2. Settled(D(FALSE))
      BY <2>1 DEF Settled
    <2> QED
      BY <1>1, <2>1, <2>2
  <1>6. CASE ~(Unsent(c) /\ c.wnd = 0 /\ c.una = c.nxt) /\ ~(c.wnd # 0 \/ ~Unsent(c))
    BY <1>3, <1>6 DEF Settled, Alike
  <1> QED
    BY <1>4, <1>5, <1>6

\* After flush_send nothing waits without a timer.
LEMMA FlushSend ==
    ASSUME NEW s \in HandlerState, Good(s.c), s.c.state \notin Idle
    PROVE  /\ Step(s, flush_send(s)) /\ Settled(flush_send(s).c)
           /\ flush_send(s).c.state \notin Idle
  <1> DEFINE a == FlushData(s)
             b == FlushFin(a)
             t == [b EXCEPT !.c = Persist(b.c)]
  <1>1. Step(s, a) /\ a.c.state = s.c.state
    BY FlushDataStep
  <1> HIDE DEF a
  <1>2. Step(a, b) /\ b.c.state \notin Idle
    BY <1>1, FlushFinStep DEF Step
  <1> HIDE DEF b
  <1>3. Step(s, b)
    BY <1>1, <1>2, StepTransitive DEF Idle
  <1>4. b \in HandlerState /\ b.c \in Connection /\ Good(b.c)
    BY <1>3 DEF Step, HandlerState
  <1>5. flush_send(s) = t
    BY <1>4 DEF flush_send, a, b, HandlerState
  <1>6. /\ Persist(b.c) \in Connection /\ Alike(b.c, Persist(b.c)) /\ Settled(Persist(b.c))
    BY <1>4, PersistIs
  <1>7. t \in HandlerState /\ t.c = Persist(b.c)
    BY <1>4, <1>6, WithC
  <1> HIDE DEF t
  <1>8. Good(t.c) /\ Goes(b.c, t.c) /\ t.c.state = b.c.state
    BY <1>4, <1>6, <1>7, AlikeGood DEF Alike
  <1>9. Goes(s.c, t.c)
    BY <1>2, <1>3, <1>8, GoesTransitive DEF Step, Idle
  <1> QED
    BY <1>2, <1>5, <1>6, <1>7, <1>8, <1>9 DEF Step

LEMMA Retransmit ==
    ASSUME NEW s \in HandlerState, Good(s.c)
    PROVE  Quiet(s, retransmit(s)) /\ retransmit(s).c.count = s.c.count
  <1> DEFINE c == s.c
             n == PieceCount(c.tx_sent)
             k == Least(c.tx_sent, s.room * NS_TCP_LOCAL_MSS)
             O == s.out \cup Pieces(c, c.tx_sequence, 0, k)
             r == s.room - Least(n, s.room)
             f == s.failed \/ n > s.room
             w == IF n = 0 THEN c.rwnd ELSE current_receive_window(c)
             a == [s EXCEPT !.c.rwnd = w]
             data == [a EXCEPT !.out = O, !.room = r, !.failed = f]
  <1>1. c \in Connection /\ s.room \in Nat
    BY DEF HandlerState
  <1>2. /\ c.tx_sent \in Nat /\ Len(c.tx) \in Nat /\ c.tx_sent <= Len(c.tx)
        /\ c.iss \in Seqno /\ c.rnxt \in Seqno /\ c.fin_sequence \in Seqno
        /\ c.tx_sequence \in Seqno /\ c.rwnd \in 0..NS_TCP_RECV_CAPACITY
    BY <1>1 DEF Connection, Bytes, Good
  <1>a. 0 \in Seqno
    BY Sizes DEF Seqno
  <1>b. \A d \in Connection : \A u : [d EXCEPT !.rwnd = u].count = d.count
    BY DEF Connection
  <1>3. s.room * NS_TCP_LOCAL_MSS \in Nat
    BY <1>1, Sizes
  <1>4. k \in Nat /\ k <= c.tx_sent
    BY <1>2, <1>3 DEF Least
  <1>5. n \in Nat
    <2>1. NS_TCP_LOCAL_MSS \in Nat \ {0} /\ c.tx_sent + NS_TCP_LOCAL_MSS - 1 \in Nat
      BY <1>2, Sizes
    <2> QED
      BY <2>1 DEF PieceCount
  <1> HIDE DEF k, n
  <1>6. O \in SUBSET Packet
    <2>1. Pieces(c, c.tx_sequence, 0, k) \subseteq Packet
      BY <1>1, <1>2, <1>4, PiecesAre
    <2> QED
      BY <2>1 DEF HandlerState
  <1>7. r \in Nat /\ f \in BOOLEAN
    BY <1>1, <1>5 DEF Least, HandlerState
  <1>8. w \in 0..NS_TCP_RECV_CAPACITY
    BY <1>1, <1>2, WindowIs
  <1> HIDE DEF O, r, f, w
  <1>9. a \in HandlerState /\ Quiet(s, a) /\ a.c.count = c.count
    <2>1. a \in HandlerState /\ Quiet(s, a)
      BY <1>8, WithRwnd
    <2>2. a.c = [c EXCEPT !.rwnd = w]
      BY DEF HandlerState
    <2> QED
      BY <1>1, <1>b, <2>1, <2>2
  <1> HIDE DEF a
  <1>10. data \in HandlerState /\ data.c = a.c
    BY <1>6, <1>7, <1>9 DEF HandlerState
  <1>11. Quiet(s, data) /\ data.c.count = c.count
    BY <1>9, <1>10 DEF Quiet
  <1>12. /\ {"SYN"} \in SUBSET Flag /\ {"SYN", "ACK"} \in SUBSET Flag
         /\ {"FIN", "ACK"} \in SUBSET Flag /\ <<>> \in Bytes(NS_TCP_LOCAL_MSS)
    BY EmptyIs, Sizes DEF Flag
  <1> DEFINE x == emit_segment(s, c.iss, 0, {"SYN"}, <<>>)
             y == emit_segment(s, c.iss, c.rnxt, {"SYN", "ACK"}, <<>>)
             z == emit_segment(data, c.fin_sequence, c.rnxt, {"FIN", "ACK"}, <<>>)
  <1> HIDE DEF data
  <1>13. Quiet(s, x) /\ x.c.count = c.count
    <2>1. Quiet(s, x) /\ x.c = [c EXCEPT !.rwnd = current_receive_window(c)]
      BY <1>2, <1>12, <1>a, EmitSegment
    <2> QED
      BY <1>1, <1>b, <2>1
  <1>14. Quiet(s, y) /\ y.c.count = c.count
    <2>1. Quiet(s, y) /\ y.c = [c EXCEPT !.rwnd = current_receive_window(c)]
      BY <1>2, <1>12, <1>a, EmitSegment
    <2> QED
      BY <1>1, <1>b, <2>1
  <1>15. Quiet(data, z) /\ z.c.count = data.c.count
    <2>1. data.c \in Connection
      BY <1>10 DEF HandlerState
    <2>2. Quiet(data, z) /\ z.c = [data.c EXCEPT !.rwnd = current_receive_window(data.c)]
      BY <1>2, <1>10, <1>12, EmitSegment
    <2> QED
      BY <1>b, <2>1, <2>2
  <1>16. Quiet(s, z) /\ z.c.count = c.count
    BY <1>11, <1>15, QuietTransitive
  <1>17. retransmit(s) \in {x, y, z, data}
    <2>1. data = [s EXCEPT !.out = @ \cup Pieces(c, c.tx_sequence, 0, k),
                           !.room = @ - Least(n, @), !.failed = @ \/ n > s.room,
                           !.c.rwnd = IF n = 0 THEN @ ELSE current_receive_window(c)]
      BY <1>1 DEF data, a, O, r, f, w, HandlerState, Connection
    <2> HIDE DEF x, y, z
    <2>2. retransmit(s) = CASE c.state = "SYN_SENT" -> x
                            [] c.state = "SYN_RECEIVED" -> y
                            [] OTHER -> IF c.fin_sent /\ sequence_at_or_before(c.una, c.fin_sequence)
                                        THEN z ELSE data
      BY <2>1 DEF retransmit, EmitSynAck, x, y, z, k, n
    <2> QED
      BY <2>2
  <1> HIDE DEF x, y, z
  <1> QED
    BY <1>11, <1>13, <1>14, <1>16, <1>17
----------------------------------------------------------------------------
\* Acknowledgments and windows.

Unsynchronized == Idle \cup Opening

AckedAt(c, x, n, q, a, r) ==
    [c EXCEPT !.tx = x, !.tx_sent = n, !.tx_sequence = q, !.una = a, !.count = 0, !.rto = r]

LEMMA AckedAtIs ==
    ASSUME NEW c \in Connection, NEW x \in Bytes(NS_TCP_SEND_CAPACITY), NEW n \in Nat,
           NEW q \in Seqno, NEW a \in Seqno, NEW r \in BOOLEAN
    PROVE  LET d == AckedAt(c, x, n, q, a, r)
           IN  /\ d \in Connection /\ d.tx = x /\ d.tx_sent = n /\ d.una = a /\ d.rto = r
               /\ d.state = c.state /\ d.generation = c.generation /\ d.parent = c.parent
               /\ d.accepted = c.accepted /\ d.want_fin = c.want_fin
               /\ d.fin_sent = c.fin_sent /\ d.nxt = c.nxt /\ d.fin_sequence = c.fin_sequence
  <1>1. 0 \in 0..NS_TCP_RETRY_LIMIT
    BY Sizes
  <1> QED
    BY <1>1 DEF Connection, AckedAt

LEMMA ApplyAck ==
    ASSUME NEW c, Good(c), c.state \notin Unsynchronized, NEW ack \in Seqno,
           ~sequence_after(ack, c.nxt)
    PROVE  /\ Good(apply_ack(c, ack)) /\ Goes(c, apply_ack(c, ack))
           /\ apply_ack(c, ack).state = c.state
  <1> DEFINE k == Acknowledged(c, ack)
             x == SubSeq(c.tx, k + 1, Len(c.tx))
             r == (ack # c.nxt)
             d == AckedAt(c, x, c.tx_sent - k, Add(c.tx_sequence, k), ack, r)
  <1>1. c \in Connection /\ Sound(c) /\ c.tx_sent <= Len(c.tx)
    BY DEF Good, Unsynchronized
  <1>2. CASE ~sequence_after(ack, c.una)
    BY <1>2 DEF apply_ack, Goes
  <1>3. CASE sequence_after(ack, c.una)
    <2>1. apply_ack(c, ack) = d
      BY <1>3 DEF apply_ack, AckedAt
    <2>2. /\ c.tx \in Seq(Nat) /\ Len(c.tx) \in Nat /\ Len(c.tx) <= NS_TCP_SEND_CAPACITY
          /\ c.tx_sent \in Nat /\ c.una \in Seqno /\ c.nxt \in Seqno /\ c.tx_sequence \in Seqno
      BY <1>1 DEF Connection, Bytes
    <2>3. k \in Nat /\ k <= c.tx_sent
      <3>1. Sub(ack, c.tx_sequence) \in Nat
        <4>1. Sub(ack, c.tx_sequence) \in Seqno
          BY <2>2, SubIs
        <4> QED
          BY <4>1, Sizes DEF Seqno
      <3> QED
        BY <2>2, <3>1 DEF Acknowledged, Least
    <2> HIDE DEF k
    <2>4. x \in Seq(Nat) /\ Len(x) = Len(c.tx) - k
      <3>1. /\ x \in Seq(Nat)
            /\ Len(x) = IF k + 1 <= Len(c.tx) THEN Len(c.tx) - (k + 1) + 1 ELSE 0
        BY <2>2, <2>3, Cut
      <3> HIDE DEF x
      <3> QED
        BY <1>1, <2>2, <2>3, <3>1
    <2> HIDE DEF x
    <2>5. /\ x \in Bytes(NS_TCP_SEND_CAPACITY) /\ c.tx_sent - k \in Nat
          /\ c.tx_sent - k <= Len(x) /\ (c.tx_sent = Len(c.tx) => c.tx_sent - k = Len(x))
      BY <1>1, <2>2, <2>3, <2>4, Sizes DEF Bytes
    <2>6. Add(c.tx_sequence, k) \in Seqno
      BY <2>2, <2>3, AddIn
    <2>7. r \in BOOLEAN
      OBVIOUS
    <2> HIDE DEF r
    <2>8. /\ d \in Connection /\ d.tx = x /\ d.tx_sent = c.tx_sent - k /\ d.una = ack /\ d.rto = r
          /\ d.state = c.state /\ d.generation = c.generation /\ d.parent = c.parent
          /\ d.accepted = c.accepted /\ d.want_fin = c.want_fin
          /\ d.fin_sent = c.fin_sent /\ d.nxt = c.nxt /\ d.fin_sequence = c.fin_sequence
      BY <1>1, <2>5, <2>6, <2>7, AckedAtIs
    <2> HIDE DEF d
    <2>9. Sub(d.nxt, d.una) <= NS_TCP_RECV_CAPACITY
      BY <1>1, <1>3, <2>2, <2>8, FlightShrinks DEF Sound
    <2>10. c.una # c.nxt
      BY <1>3
    <2>11. d.una # d.nxt => d.rto
      BY <2>8 DEF r
    <2>12. Sound(d)
      <3>1. c.state \notin Opening
        BY DEF Unsynchronized
      <3> QED
        BY <1>1, <2>5, <2>8, <2>9, <2>10, <2>11, <3>1 DEF Sound
    <2> QED
      BY <2>1, <2>5, <2>8, <2>12 DEF Good, Goes
  <1> QED
    BY <1>2, <1>3

LEMMA TakeWindowIs ==
    ASSUME NEW c \in Connection, NEW m \in Packet
    PROVE  TakeWindow(c, m) \in Connection /\ Alike(c, TakeWindow(c, m))
  <1> DEFINE d == TakeWindow(c, m)
             w == m.win
             a == m.seq
             b == m.ack
  <1>1. w \in 0..NS_TCP_RECV_CAPACITY /\ a \in Seqno /\ b \in Seqno
    BY DEF Packet
  <1>2. d = [c EXCEPT !.wnd = w, !.wl1 = a, !.wl2 = b]
    BY DEF TakeWindow
  <1> HIDE DEF d, w, a, b
  <1>3. d \in Connection
    BY <1>1, <1>2 DEF Connection
  <1>4. Alike(c, d)
    BY <1>1, <1>2 DEF Connection, Alike
  <1> QED
    BY <1>3, <1>4 DEF d

LEMMA UpdateWindowIs ==
    ASSUME NEW c \in Connection, NEW m \in Packet
    PROVE  UpdateWindow(c, m) \in Connection /\ Alike(c, UpdateWindow(c, m))
  <1> DEFINE d == TakeWindow(c, m)
             y == d.persist /\ m.win = 0
             e == [d EXCEPT !.persist = y]
  <1>1. d \in Connection /\ Alike(c, d)
    BY TakeWindowIs
  <1>2. UpdateWindow(c, m) = c \/ UpdateWindow(c, m) = e
    BY DEF UpdateWindow
  <1> HIDE DEF d
  <1>3. y \in BOOLEAN
    BY <1>1 DEF Connection
  <1> HIDE DEF y
  <1>4. e \in Connection /\ Alike(d, e)
    BY <1>1, <1>3 DEF Connection, Alike
  <1> HIDE DEF e
  <1> QED
    BY <1>1, <1>2, <1>4 DEF Alike

----------------------------------------------------------------------------
\* Changes of state.

\* Among the synchronized states those with and without a FIN are kept apart.
LEMMA StateGood ==
    ASSUME NEW c, Good(c), c.state \notin Unsynchronized, NEW x \in State \ Unsynchronized,
           x \in Finishing <=> c.state \in Finishing,
           x \in {"FIN_WAIT_2", "TIME_WAIT"} => c.una = c.nxt
    PROVE  /\ Good([c EXCEPT !.state = x]) /\ Goes(c, [c EXCEPT !.state = x])
           /\ [c EXCEPT !.state = x].state = x
  <1> DEFINE d == [c EXCEPT !.state = x]
  <1>1. c \in Connection /\ Sound(c) /\ c.tx_sent <= Len(c.tx)
    BY DEF Good, Unsynchronized
  <1>2. /\ d \in Connection /\ d.state = x /\ d.generation = c.generation
        /\ d.parent = c.parent /\ d.accepted = c.accepted /\ d.want_fin = c.want_fin
        /\ d.fin_sent = c.fin_sent /\ d.una = c.una /\ d.nxt = c.nxt /\ d.tx = c.tx
        /\ d.tx_sent = c.tx_sent /\ d.fin_sequence = c.fin_sequence /\ d.rto = c.rto
    BY <1>1 DEF Connection
  <1> HIDE DEF d
  <1>3. Good(d)
    BY <1>1, <1>2 DEF Good, Sound, Unsynchronized
  <1>4. Goes(c, d)
    BY <1>2 DEF Goes, Unsynchronized, Idle
  <1> QED
    BY <1>2, <1>3, <1>4 DEF d

TimeWaitAt(c, r, a) == [c EXCEPT !.state = "TIME_WAIT", !.rto = r, !.ack_pending = a]

LEMMA EnterTimeWait ==
    ASSUME NEW c, Good(c), c.state \in Finishing, c.una = c.nxt
    PROVE  /\ Good(enter_time_wait(c)) /\ Goes(c, enter_time_wait(c))
           /\ enter_time_wait(c).state = "TIME_WAIT"
  <1> DEFINE d == enter_time_wait(c)
             D(y) == TimeWaitAt(c, y, y)
  <1>1. c \in Connection /\ Sound(c) /\ c.tx_sent <= Len(c.tx)
    BY DEF Good, Idle, Finishing
  <1>2. \A y \in BOOLEAN :
          /\ D(y) \in Connection /\ D(y).state = "TIME_WAIT" /\ D(y).generation = c.generation
          /\ D(y).parent = c.parent /\ D(y).accepted = c.accepted
          /\ D(y).want_fin = c.want_fin /\ D(y).fin_sent = c.fin_sent /\ D(y).una = c.una
          /\ D(y).nxt = c.nxt /\ D(y).tx = c.tx /\ D(y).tx_sent = c.tx_sent
          /\ D(y).fin_sequence = c.fin_sequence
    BY <1>1, ZenonT(30) DEF TimeWaitAt, Connection, State
  <1>3. d = D(FALSE)
    BY DEF enter_time_wait, TimeWaitAt
  <1> HIDE DEF D, d
  <1>4. Good(d)
    BY <1>1, <1>2, <1>3 DEF Good, Sound, Opening, Finishing
  <1>5. Goes(c, d)
    BY <1>2, <1>3 DEF Goes, Finishing
  <1> QED
    BY <1>2, <1>3, <1>4, <1>5 DEF d

\* A FIN that is acknowledged leaves nothing in flight.
LEMMA AckedFin ==
    ASSUME NEW c, Good(c), c.state \in Finishing, sequence_after(c.una, c.fin_sequence)
    PROVE  c.una = c.nxt
  <1>1. c \in Connection /\ Sound(c)
    BY DEF Good, Idle, Finishing
  <1>2. c.nxt = Add(c.fin_sequence, 1) /\ Sub(c.nxt, c.una) <= NS_TCP_RECV_CAPACITY
    BY <1>1 DEF Sound
  <1>3. c.una \in Seqno /\ c.fin_sequence \in Seqno
    BY <1>1 DEF Connection
  <1> QED
    BY <1>2, <1>3, JustAfter

LEMMA AdvanceIs ==
    ASSUME NEW c, Good(c), c.state \notin Unsynchronized
    PROVE  Good(Advance(c)) /\ Goes(c, Advance(c)) /\ Advance(c).state \notin Unsynchronized
  <1> DEFINE x == [c EXCEPT !.state = "FIN_WAIT_2"]
             y == enter_time_wait(c)
  <1>1. Goes(c, c)
    BY DEF Goes
  <1>2. CASE ~sequence_after(c.una, c.fin_sequence)
    BY <1>1, <1>2 DEF Advance
  <1>3. CASE sequence_after(c.una, c.fin_sequence) /\ c.state = "FIN_WAIT_1"
    <2>1. c.una = c.nxt
      BY <1>3, AckedFin DEF Finishing
    <2>2. Good(x) /\ Goes(c, x) /\ x.state = "FIN_WAIT_2"
      BY <1>3, <2>1, StateGood DEF Finishing, State, Unsynchronized, Idle, Opening
    <2>3. Advance(c) = x
      BY <1>3 DEF Advance
    <2> HIDE DEF x
    <2> QED
      BY <2>2, <2>3 DEF Unsynchronized, Idle, Opening
  <1>4. CASE sequence_after(c.una, c.fin_sequence) /\ c.state = "CLOSING"
    <2>1. c.una = c.nxt
      BY <1>4, AckedFin DEF Finishing
    <2>2. Good(y) /\ Goes(c, y) /\ y.state = "TIME_WAIT"
      BY <1>4, <2>1, EnterTimeWait DEF Finishing
    <2>3. Advance(c) = y
      BY <1>4 DEF Advance
    <2> HIDE DEF y
    <2> QED
      BY <2>2, <2>3 DEF Unsynchronized, Idle, Opening
  <1>5. CASE c.state \notin {"FIN_WAIT_1", "CLOSING"}
    BY <1>1, <1>5 DEF Advance
  <1> QED
    BY <1>2, <1>3, <1>4, <1>5
----------------------------------------------------------------------------
\* Data and FIN.

LEMMA Notify ==
    ASSUME NEW s \in HandlerState, NEW event \in Event
    PROVE  Quiet(s, notify(s, event)) /\ notify(s, event).c = s.c
  <1>1. Append(s.events, event) \in Seq(Event)
    BY DEF HandlerState
  <1> DEFINE v == Append(s.events, event)
  <1>2. notify(s, event) = [s EXCEPT !.events = v]
    BY DEF notify
  <1> HIDE DEF v
  <1>3. [s EXCEPT !.events = v] \in HandlerState /\ [s EXCEPT !.events = v].c = s.c
    BY <1>1 DEF HandlerState, v
  <1> QED
    BY <1>2, <1>3 DEF Quiet, Alike

ReceivedAt(c, x, n, r) == [c EXCEPT !.rx = x, !.rnxt = n, !.reorder = r]

LEMMA ReceivedAtIs ==
    ASSUME NEW c \in Connection, NEW x \in Bytes(NS_TCP_RECV_CAPACITY), NEW n \in Seqno,
           NEW r \in Reordered
    PROVE  LET d == ReceivedAt(c, x, n, r)
           IN  /\ d \in Connection /\ Alike(c, d) /\ d.wnd = c.wnd /\ d.persist = c.persist
  <1> DEFINE d == ReceivedAt(c, x, n, r)
  <1>1. d = [c EXCEPT !.rx = x, !.rnxt = n, !.reorder = r]
    BY DEF ReceivedAt
  <1> HIDE DEF d
  <1>2. d \in Connection
    BY <1>1 DEF Connection
  <1>3. Alike(c, d) /\ d.wnd = c.wnd /\ d.persist = c.persist
    BY <1>1 DEF Connection, Alike
  <1> QED
    BY <1>2, <1>3 DEF d

LEMMA ReceivedQuiet ==
    ASSUME NEW s \in HandlerState, NEW x \in Bytes(NS_TCP_RECV_CAPACITY), NEW n \in Seqno,
           NEW r \in Reordered
    PROVE  LET t == [s EXCEPT !.c = ReceivedAt(s.c, x, n, r)]
           IN  Quiet(s, t) /\ t.c = ReceivedAt(s.c, x, n, r)
  <1> DEFINE d == ReceivedAt(s.c, x, n, r)
  <1>1. s.c \in Connection
    BY DEF HandlerState
  <1>2. d \in Connection /\ Alike(s.c, d) /\ d.wnd = s.c.wnd /\ d.persist = s.c.persist
    BY <1>1, ReceivedAtIs
  <1> HIDE DEF d
  <1>3. [s EXCEPT !.c = d] \in HandlerState /\ [s EXCEPT !.c = d].c = d
    BY <1>2, WithC
  <1> QED
    BY <1>2, <1>3 DEF Quiet, d

LEMMA Received ==
    ASSUME NEW c \in Connection
    PROVE  /\ c.rx \in Bytes(NS_TCP_RECV_CAPACITY) /\ c.rnxt \in Seqno /\ c.reorder \in Reordered
           /\ c.rx \in Seq(Nat) /\ Len(c.rx) \in Nat /\ Len(c.rx) <= NS_TCP_RECV_CAPACITY
           /\ c.reorder.seq \in Seqno /\ c.reorder.data \in Seq(Nat)
           /\ Len(c.reorder.data) \in Nat
           /\ c.rwnd \in Nat
  BY Sizes DEF Connection, Bytes, Reordered

LEMMA ConsumeFin ==
    ASSUME NEW s \in HandlerState, Good(s.c), s.c.state \notin Unsynchronized
    PROVE  Step(s, consume_fin(s)) /\ consume_fin(s).c.state \notin Unsynchronized
  <1> DEFINE c == [s.c EXCEPT !.rnxt = Add(@, 1)]
             d == CASE c.state = "ESTABLISHED" -> [c EXCEPT !.state = "CLOSE_WAIT"]
                    [] c.state = "FIN_WAIT_1" ->
                         IF sequence_after(c.una, c.fin_sequence) THEN enter_time_wait(c)
                         ELSE [c EXCEPT !.state = "CLOSING"]
                    [] c.state = "FIN_WAIT_2" -> enter_time_wait(c)
                    [] OTHER -> c
             t == [s EXCEPT !.c = d]
             u == IF c.state = "ESTABLISHED" THEN notify(t, "PEER_CLOSED") ELSE t
  <1>1. s.c \in Connection
    BY DEF HandlerState
  <1>2. c \in Connection /\ Alike(s.c, c)
    <2>1. Add(s.c.rnxt, 1) \in Seqno
      BY <1>1, Received, NextOf
    <2> DEFINE n == Add(s.c.rnxt, 1)
    <2>2. c = [s.c EXCEPT !.rnxt = n]
      OBVIOUS
    <2> HIDE DEF n, c
    <2> QED
      BY <1>1, <2>1, <2>2 DEF Connection, Alike, n
  <1>3. consume_fin(s) = emit_ack(u)
    BY DEF consume_fin
  <1> HIDE DEF c
  <1>4. Good(c) /\ Goes(s.c, c) /\ c.state = s.c.state
    BY <1>2, AlikeGood DEF Alike
  <1>5. Good(d) /\ Goes(c, d) /\ d.state \notin Unsynchronized
    <2>1. CASE c.state = "ESTABLISHED"
      <3> DEFINE x == [c EXCEPT !.state = "CLOSE_WAIT"]
      <3>1. Good(x) /\ Goes(c, x) /\ x.state = "CLOSE_WAIT"
        BY <1>4, <2>1, StateGood DEF Finishing, State, Unsynchronized, Idle, Opening
      <3>2. d = x
        BY <2>1
      <3> HIDE DEF x, d
      <3> QED
        BY <3>1, <3>2 DEF Unsynchronized, Idle, Opening
    <2>2. CASE /\ \/ c.state = "FIN_WAIT_1" /\ sequence_after(c.una, c.fin_sequence)
                  \/ c.state = "FIN_WAIT_2"
      <3>1. c.una = c.nxt
        BY <1>4, <2>2, AckedFin DEF Finishing, Good, Sound, Idle
      <3>2. d = enter_time_wait(c)
        BY <2>2
      <3>3. Good(d) /\ Goes(c, d) /\ d.state = "TIME_WAIT"
        BY <1>4, <2>2, <3>1, <3>2, EnterTimeWait DEF Finishing
      <3> HIDE DEF d
      <3> QED
        BY <3>3 DEF Unsynchronized, Idle, Opening
    <2>3. CASE c.state = "FIN_WAIT_1" /\ ~sequence_after(c.una, c.fin_sequence)
      <3> DEFINE x == [c EXCEPT !.state = "CLOSING"]
      <3>1. Good(x) /\ Goes(c, x) /\ x.state = "CLOSING"
        BY <1>4, <2>3, StateGood DEF Finishing, State, Unsynchronized, Idle, Opening
      <3>2. d = x
        BY <2>3
      <3> HIDE DEF x, d
      <3> QED
        BY <3>1, <3>2 DEF Unsynchronized, Idle, Opening
    <2>4. CASE c.state \notin {"ESTABLISHED", "FIN_WAIT_1", "FIN_WAIT_2"}
      <3>1. d = c
        BY <2>4
      <3> HIDE DEF d
      <3> QED
        BY <1>4, <3>1 DEF Goes
    <2> QED
      BY <2>1, <2>2, <2>3, <2>4
  <1> HIDE DEF d
  <1>6. t \in HandlerState /\ t.c = d
    BY <1>5, WithC DEF Good
  <1> HIDE DEF t
  <1>7. Quiet(t, u)
    <2>1. Quiet(t, notify(t, "PEER_CLOSED"))
      <3>1. "PEER_CLOSED" \in Event
        BY DEF Event
      <3> QED
        BY <1>6, <3>1, Notify
    <2>2. Quiet(t, t)
      BY <1>6 DEF Quiet, Alike
    <2> QED
      BY <2>1, <2>2
  <1> HIDE DEF u
  <1>8. Quiet(u, emit_ack(u))
    BY <1>7, EmitAck DEF Quiet
  <1>9. Quiet(t, emit_ack(u))
    BY <1>7, <1>8, QuietTransitive
  <1>10. Step(t, emit_ack(u)) /\ emit_ack(u).c.state = t.c.state
    BY <1>5, <1>6, <1>9, QuietStep
  <1>11. Goes(s.c, d)
    BY <1>4, <1>5, GoesTransitive DEF Unsynchronized, Idle
  <1>12. Step(s, t)
    BY <1>5, <1>6, <1>11 DEF Step
  <1>13. t.c.state # "CLOSED"
    BY <1>5, <1>6 DEF Unsynchronized, Idle
  <1> QED
    BY <1>3, <1>5, <1>6, <1>10, <1>12, <1>13, StepTransitive

LEMMA NoReorderIs == NoReorder \in Reordered
  <1>1. 0 \in Seqno /\ <<>> \in Bytes(NS_TCP_LOCAL_MSS)
    BY Sizes, EmptyIs DEF Seqno
  <1> QED
    BY <1>1 DEF NoReorder, Reordered

LEMMA FreshIs ==
    ASSUME NEW c \in Connection
    PROVE  Fresh(c) \in Seq(Nat)
  <1> DEFINE d == c.reorder.data
             m == Sub(c.rnxt, c.reorder.seq) + 1
  <1>1. Sub(c.rnxt, c.reorder.seq) \in Seqno
    BY Received, SubIs
  <1>2. d \in Seq(Nat) /\ Len(d) \in Nat
    BY Received
  <1>3. m \in Nat \ {0}
    BY <1>1, Sizes DEF Seqno
  <1>4. Fresh(c) = SubSeq(d, m, Len(d))
    BY DEF Fresh
  <1> HIDE DEF d, m
  <1>5. Len(d) \in Int /\ Len(d) <= Len(d)
    BY <1>2
  <1> QED
    BY <1>2, <1>3, <1>4, <1>5, Cut

LEMMA DrainReordered ==
    ASSUME NEW s \in HandlerState, Good(s.c), s.c.state \notin Unsynchronized
    PROVE  Step(s, drain_reordered(s)) /\ drain_reordered(s).c.state \notin Unsynchronized
  <1> DEFINE c == s.c
             more == Fresh(c)
             d == ReceivedAt(c, c.rx \o more, Add(c.rnxt, Len(more)), NoReorder)
             none == ReceivedAt(c, c.rx, c.rnxt, NoReorder)
             t == [s EXCEPT !.c = d]
  <1>1. c \in Connection
    BY DEF HandlerState
  <1>2. Step(s, s)
    BY DEF Step, Goes
  <1>3. drain_reordered(s) \in {s, [s EXCEPT !.c = none]}
        \/ /\ Len(c.rx) + Len(more) <= NS_TCP_RECV_CAPACITY
           /\ drain_reordered(s) = t \/ drain_reordered(s) = consume_fin(t)
    <2>1. [s EXCEPT !.c.reorder = NoReorder] = [s EXCEPT !.c = none]
      <3>1. [c EXCEPT !.reorder = NoReorder] = none
        BY <1>1 DEF ReceivedAt, Connection
      <3> HIDE DEF none
      <3> QED
        BY <3>1 DEF HandlerState
    <2>2. d = [c EXCEPT !.rx = @ \o Fresh(c), !.rnxt = Add(@, Len(Fresh(c))),
                        !.reorder = NoReorder]
      BY DEF ReceivedAt
    <2>3. Len(c.rx) \in Nat /\ Len(more) \in Nat
      <3>1. Len(c.rx) \in Nat
        BY <1>1, Received
      <3>2. more \in Seq(Nat)
        BY <1>1, FreshIs
      <3> QED
        BY <3>1, <3>2
    <2> HIDE DEF d, none, t
    <2> DEFINE e == [c EXCEPT !.rx = @ \o Fresh(c), !.rnxt = Add(@, Len(Fresh(c))),
                              !.reorder = NoReorder]
    <2>4. t = [s EXCEPT !.c = e]
      BY <2>2 DEF t
    <2>5. drain_reordered(s) \in {s, [s EXCEPT !.c.reorder = NoReorder]}
          \/ /\ ~(Len(c.rx) + Len(more) > NS_TCP_RECV_CAPACITY)
             /\ \/ drain_reordered(s) = [s EXCEPT !.c = e]
                \/ drain_reordered(s) = consume_fin([s EXCEPT !.c = e])
      <3> HIDE DEF e
      <3> QED
        BY DEF drain_reordered, e
    <2> DEFINE a == Len(c.rx) + Len(more)
    <2>6. ~(a > NS_TCP_RECV_CAPACITY) => a <= NS_TCP_RECV_CAPACITY
      <3> HIDE DEF more
      <3>1. a \in Nat
        BY <2>3
      <3> HIDE DEF a
      <3> QED
        BY <3>1, Sizes
    <2> DEFINE v == [s EXCEPT !.c = none]
               w == [s EXCEPT !.c = e]
    <2>7. v = [s EXCEPT !.c.reorder = NoReorder] /\ t = w
      BY <2>1, <2>4
    <2> HIDE DEF e, more, a, v, w
    <2>8. drain_reordered(s) \in {s, v}
          \/ (~(a > NS_TCP_RECV_CAPACITY)
               /\ (drain_reordered(s) = w \/ drain_reordered(s) = consume_fin(w)))
      BY <2>5, <2>7 DEF a, w
    <2>9. drain_reordered(s) \in {s, v}
          \/ (a <= NS_TCP_RECV_CAPACITY
               /\ (drain_reordered(s) = t \/ drain_reordered(s) = consume_fin(t)))
      BY <2>6, <2>7, <2>8
    <2> QED
      BY <2>9 DEF a, v
  <1>4. CASE drain_reordered(s) \in {s, [s EXCEPT !.c = none]}
    <2> DEFINE v == [s EXCEPT !.c = none]
    <2>1. Quiet(s, v)
      BY <1>1, Received, NoReorderIs, ReceivedQuiet
    <2> HIDE DEF v, none
    <2>2. Step(s, v) /\ v.c.state = s.c.state
      BY <2>1, QuietStep
    <2>3. drain_reordered(s) = s \/ drain_reordered(s) = v
      BY <1>4 DEF v
    <2> QED
      BY <1>2, <2>2, <2>3
  <1>5. CASE /\ Len(c.rx) + Len(more) <= NS_TCP_RECV_CAPACITY
             /\ drain_reordered(s) = t \/ drain_reordered(s) = consume_fin(t)
    <2>1. more \in Seq(Nat)
      BY <1>1, FreshIs
    <2> DEFINE x == c.rx \o more
               n == Add(c.rnxt, Len(more))
    <2> HIDE DEF more
    <2>2. x \in Bytes(NS_TCP_RECV_CAPACITY)
      <3>1. c.rx \in Seq(Nat)
        BY <1>1, Received
      <3> QED
        BY <1>5, <2>1, <3>1 DEF Bytes
    <2>3. n \in Seqno
      BY <1>1, <2>1, Received, AddIn
    <2>4. t = [s EXCEPT !.c = ReceivedAt(s.c, x, n, NoReorder)]
      OBVIOUS
    <2> HIDE DEF x, n
    <2>5. Quiet(s, t)
      BY <2>2, <2>3, <2>4, NoReorderIs, ReceivedQuiet
    <2> HIDE DEF t, d
    <2>6. Step(s, t) /\ t.c.state = s.c.state
      BY <2>5, QuietStep
    <2>7. Step(t, consume_fin(t)) /\ consume_fin(t).c.state \notin Unsynchronized
      BY <2>6, ConsumeFin DEF Step
    <2>8. Step(s, consume_fin(t))
      BY <2>6, <2>7, StepTransitive DEF Unsynchronized, Idle
    <2> QED
      BY <1>5, <2>6, <2>7, <2>8
  <1> QED
    BY <1>3, <1>4, <1>5
LEMMA ClippedIs ==
    ASSUME NEW c \in Connection, NEW m \in Packet
    PROVE  Clipped(c, m) \in Reordered
  <1> DEFINE dup == IF sequence_before(m.seq, c.rnxt)
                    THEN Least(Sub(c.rnxt, m.seq), Len(m.data)) ELSE 0
             seq == Add(m.seq, dup)
             data == SubSeq(m.data, dup + 1, Len(m.data))
             allowed == c.rwnd - Sub(seq, c.rnxt)
             part == SubSeq(data, 1, Least(Len(data), allowed))
             fin == "FIN" \in m.flags /\ Len(data) < allowed
  <1>1. /\ m.seq \in Seqno /\ m.data \in Seq(Nat) /\ Len(m.data) \in Nat
        /\ Len(m.data) <= NS_TCP_LOCAL_MSS
    BY DEF Packet, Bytes
  <1>2. c.rnxt \in Seqno /\ c.rwnd \in Nat
    BY Received
  <1>3. Sub(c.rnxt, m.seq) \in Nat
    <2>1. Sub(c.rnxt, m.seq) \in Seqno
      BY <1>1, <1>2, SubIs
    <2> QED
      BY <2>1, Sizes DEF Seqno
  <1>4. dup \in Nat /\ dup <= Len(m.data)
    BY <1>1, <1>3 DEF Least
  <1>5. Clipped(c, m) = [seq |-> seq, data |-> part, fin |-> fin]
    BY DEF Clipped
  <1> HIDE DEF dup
  <1>6. seq \in Seqno
    BY <1>1, <1>4, AddIn
  <1>7. data \in Seq(Nat) /\ Len(data) \in Nat /\ Len(data) <= Len(m.data)
    <2>1. /\ data \in Seq(Nat)
          /\ Len(data) = IF dup + 1 <= Len(m.data) THEN Len(m.data) - (dup + 1) + 1 ELSE 0
      BY <1>1, <1>4, Cut
    <2> HIDE DEF data
    <2> QED
      BY <1>1, <1>4, <2>1
  <1> HIDE DEF seq, data
  <1>8. allowed \in Int
    <2>1. Sub(seq, c.rnxt) \in Seqno
      BY <1>2, <1>6, SubIs
    <2> QED
      BY <1>2, <2>1, Sizes DEF Seqno
  <1> HIDE DEF allowed
  <1>9. Least(Len(data), allowed) \in Int /\ Least(Len(data), allowed) <= Len(data)
    BY <1>7, <1>8 DEF Least
  <1>10. part \in Seq(Nat) /\ Len(part) <= Len(data)
    <2> DEFINE k == Least(Len(data), allowed)
    <2> HIDE DEF k
    <2>1. k \in Int /\ k <= Len(data) /\ part = SubSeq(data, 1, k)
      BY <1>9 DEF k
    <2> HIDE DEF part
    <2>2. /\ SubSeq(data, 1, k) \in Seq(Nat)
          /\ Len(SubSeq(data, 1, k)) = IF 1 <= k THEN k - 1 + 1 ELSE 0
      <3>1. 1 \in Nat \ {0} /\ k \in Int /\ k <= Len(data) /\ data \in Seq(Nat)
        BY <1>7, <2>1
      <3> QED
        BY ONLY <3>1, Cut
    <2> QED
      BY <1>7, <2>1, <2>2
  <1>11. fin \in BOOLEAN
    OBVIOUS
  <1> HIDE DEF part, fin
  <1>12. part \in Bytes(NS_TCP_LOCAL_MSS)
    BY <1>1, <1>7, <1>10, Sizes DEF Bytes
  <1> QED
    BY <1>5, <1>6, <1>11, <1>12 DEF Reordered

LEMMA StoreReordered ==
    ASSUME NEW s \in HandlerState, NEW p \in Reordered
    PROVE  Quiet(s, [s EXCEPT !.c = store_reordered(s.c, p.seq, p.data, p.fin)])
  <1> DEFINE d == store_reordered(s.c, p.seq, p.data, p.fin)
             r == [seq |-> p.seq, data |-> p.data, fin |-> p.fin]
  <1>1. s.c \in Connection
    BY DEF HandlerState
  <1>2. r \in Reordered
    BY DEF Reordered
  <1>3. d = s.c \/ d = ReceivedAt(s.c, s.c.rx, s.c.rnxt, r)
    <2>1. ReceivedAt(s.c, s.c.rx, s.c.rnxt, r) = [s.c EXCEPT !.reorder = r]
      BY <1>1 DEF ReceivedAt, Connection
    <2> QED
      BY <2>1 DEF store_reordered
  <1> HIDE DEF r
  <1>4. d \in Connection /\ Alike(s.c, d) /\ d.wnd = s.c.wnd /\ d.persist = s.c.persist
    <2> DEFINE e == ReceivedAt(s.c, s.c.rx, s.c.rnxt, r)
    <2>1. e \in Connection /\ Alike(s.c, e) /\ e.wnd = s.c.wnd /\ e.persist = s.c.persist
      BY <1>1, <1>2, Received, ReceivedAtIs
    <2> HIDE DEF d, e
    <2>2. d = s.c \/ d = e
      BY <1>3 DEF e
    <2> QED
      BY <1>1, <2>1, <2>2 DEF Alike
  <1> HIDE DEF d
  <1>5. [s EXCEPT !.c = d] \in HandlerState /\ [s EXCEPT !.c = d].c = d
    BY <1>4, WithC
  <1> QED
    BY <1>4, <1>5 DEF Quiet, d

LEMMA ProcessPayload ==
    ASSUME NEW s \in HandlerState, Good(s.c), s.c.state \notin Unsynchronized, NEW m \in Packet
    PROVE  /\ Step(s, process_payload_and_fin(s, m))
           /\ process_payload_and_fin(s, m).c.state \notin Unsynchronized
  <1> DEFINE c == s.c
             p == Clipped(c, m)
             data == SubSeq(p.data, 1, Least(Len(p.data), NS_TCP_RECV_CAPACITY - Len(c.rx)))
             i == [s EXCEPT !.c.rx = @ \o data, !.c.rnxt = Add(@, Len(data))]
             t == drain_reordered(i)
             v == [s EXCEPT !.c = store_reordered(c, p.seq, p.data, p.fin)]
             now == t.c.reorder.data = <<>> /\ Len(t.c.rx) - Len(c.rx) >= 2 * NS_TCP_LOCAL_MSS
             q == queue_delayed_ack(t, now)
             f == consume_fin(t)
             r == process_payload_and_fin(s, m)
  <1>1. c \in Connection /\ p \in Reordered
    BY ClippedIs DEF HandlerState
  <1>2. /\ p.data \in Seq(Nat) /\ Len(p.data) \in Nat /\ c.rx \in Seq(Nat) /\ Len(c.rx) \in Nat
        /\ Len(c.rx) <= NS_TCP_RECV_CAPACITY /\ c.rnxt \in Seqno /\ c.reorder \in Reordered
    BY <1>1, Received DEF Reordered, Bytes
  <1>3. r \in {emit_ack(s), emit_ack(v), notify(f, "DATA"), notify(q, "DATA"), notify(t, "DATA"),
               f, q, t}
    <2> HIDE DEF t, q, f, v, now
    <2>1. r \in {emit_ack(s), emit_ack([s EXCEPT !.c = store_reordered(c, p.seq, p.data, p.fin)]),
                 notify(consume_fin(t), "DATA"), notify(queue_delayed_ack(t, now), "DATA"),
                 notify(t, "DATA"), consume_fin(t), queue_delayed_ack(t, now), t}
      BY DEF process_payload_and_fin, t, now
    <2> QED
      BY <2>1 DEF f, q, v
  <1> HIDE DEF p
  <1>4. data \in Seq(Nat) /\ Len(data) \in Nat /\ Len(data) <= NS_TCP_RECV_CAPACITY - Len(c.rx)
    <2> DEFINE k == Least(Len(p.data), NS_TCP_RECV_CAPACITY - Len(c.rx))
    <2>1. /\ k \in Nat /\ k <= Len(p.data) /\ k <= NS_TCP_RECV_CAPACITY - Len(c.rx)
          /\ NS_TCP_RECV_CAPACITY - Len(c.rx) \in Nat
      <3> DEFINE left == NS_TCP_RECV_CAPACITY - Len(c.rx)
      <3>1. left \in Nat
        BY <1>2, Sizes
      <3> HIDE DEF left
      <3>2. Least(Len(p.data), left) \in Nat /\ Least(Len(p.data), left) <= Len(p.data)
            /\ Least(Len(p.data), left) <= left
        BY <1>2, <3>1 DEF Least
      <3> QED
        BY <3>1, <3>2 DEF left
    <2>2. data = SubSeq(p.data, 1, k)
      OBVIOUS
    <2> HIDE DEF k, data
    <2>3. /\ SubSeq(p.data, 1, k) \in Seq(Nat)
          /\ Len(SubSeq(p.data, 1, k)) = IF 1 <= k THEN k - 1 + 1 ELSE 0
      <3>1. 1 \in Nat \ {0} /\ k \in Int /\ k <= Len(p.data) /\ p.data \in Seq(Nat)
        BY <1>2, <2>1
      <3> QED
        BY ONLY <3>1, Cut
    <2>4. Len(data) = k
      BY <2>1, <2>2, <2>3
    <2> QED
      BY <2>1, <2>2, <2>3, <2>4
  <1> HIDE DEF data
  <1>5. Quiet(s, i)
    <2> DEFINE x == c.rx \o data
               n == Add(c.rnxt, Len(data))
               d == ReceivedAt(c, x, n, c.reorder)
    <2>1. x \in Bytes(NS_TCP_RECV_CAPACITY)
      <3>1. x \in Seq(Nat) /\ Len(x) = Len(c.rx) + Len(data)
        BY <1>2, <1>4
      <3> HIDE DEF x
      <3> QED
        BY <1>2, <1>4, <3>1, Sizes DEF Bytes
    <2>2. n \in Seqno
      BY <1>2, <1>4, AddIn
    <2>3. i = [s EXCEPT !.c = d]
      <3>1. d = [[c EXCEPT !.rx = x] EXCEPT !.rnxt = n]
        <4> HIDE DEF x, n
        <4> QED
          BY <1>1 DEF ReceivedAt, Connection
      <3>2. i = [s EXCEPT !.c = [[c EXCEPT !.rx = x] EXCEPT !.rnxt = n]]
        BY <1>1 DEF HandlerState, Connection
      <3> HIDE DEF d, i, x, n
      <3> QED
        BY <3>1, <3>2
    <2> HIDE DEF x, n, i
    <2> QED
      BY <1>2, <2>1, <2>2, <2>3, ReceivedQuiet
  <1> HIDE DEF i
  <1>6. Step(s, i) /\ i.c.state = s.c.state
    BY <1>5, QuietStep
  <1>7. Step(i, t) /\ t.c.state \notin Unsynchronized
    BY <1>6, DrainReordered DEF Step
  <1> HIDE DEF t
  <1>8. Step(s, t)
    BY <1>6, <1>7, StepTransitive DEF Unsynchronized, Idle
  <1>9. t \in HandlerState /\ Good(t.c) /\ t.c.state # "CLOSED"
    BY <1>7 DEF Step, Unsynchronized, Idle
  <1>10. Step(s, f) /\ f.c.state \notin Unsynchronized
    <2>1. Step(t, f) /\ f.c.state \notin Unsynchronized
      BY <1>7, <1>9, ConsumeFin
    <2> HIDE DEF f
    <2> QED
      BY <1>8, <1>9, <2>1, StepTransitive
  <1>11. Step(s, q) /\ q.c.state \notin Unsynchronized
    <2>1. now \in BOOLEAN
      OBVIOUS
    <2> HIDE DEF now
    <2>2. Quiet(t, q)
      BY <1>9, <2>1, QueueDelayedAck
    <2> HIDE DEF q
    <2>3. Step(t, q) /\ q.c.state = t.c.state
      BY <1>9, <2>2, QuietStep
    <2> QED
      BY <1>7, <1>8, <1>9, <2>3, StepTransitive
  <1> HIDE DEF q, f
  <1>12. ASSUME NEW u, Step(s, u), u.c.state \notin Unsynchronized
         PROVE  /\ Step(s, notify(u, "DATA"))
                /\ notify(u, "DATA").c.state \notin Unsynchronized
    <2> DEFINE n == notify(u, "DATA")
    <2>1. "DATA" \in Event /\ u \in HandlerState /\ Good(u.c)
      BY <1>12 DEF Event, Step
    <2>2. Quiet(u, n)
      BY <2>1, Notify
    <2> HIDE DEF n
    <2>3. Step(u, n) /\ n.c.state = u.c.state
      BY <2>1, <2>2, QuietStep
    <2>4. Step(s, n)
      BY <1>12, <2>3, StepTransitive DEF Unsynchronized, Idle
    <2> QED
      BY <1>12, <2>3, <2>4 DEF n
  <1>13. Step(s, emit_ack(s)) /\ emit_ack(s).c.state \notin Unsynchronized
    BY EmitAck, QuietStep
  <1>14. Step(s, emit_ack(v)) /\ emit_ack(v).c.state \notin Unsynchronized
    <2>1. Quiet(s, v)
      BY <1>1, StoreReordered
    <2> HIDE DEF v
    <2>2. Quiet(v, emit_ack(v))
      BY <2>1, EmitAck DEF Quiet
    <2>3. Quiet(s, emit_ack(v))
      BY <2>1, <2>2, QuietTransitive
    <2> QED
      BY <2>3, QuietStep
  <1> HIDE DEF v, r
  <1>15. Step(s, r) /\ r.c.state \notin Unsynchronized
    BY <1>3, <1>7, <1>8, <1>10, <1>11, <1>12, <1>13, <1>14
  <1> QED
    BY <1>15 DEF r

LEMMA ClosedIs ==
    ASSUME NEW g \in Nat
    PROVE  /\ Closed(g) \in Connection /\ Good(Closed(g)) /\ Settled(Closed(g))
           /\ Closed(g).state = "CLOSED" /\ Closed(g).generation = g
           /\ Closed(g).parent = NO_PARENT
  <1>1. /\ 0 \in Seqno /\ 0 \in 0..NS_TCP_RECV_CAPACITY /\ 0 \in 0..NS_TCP_RETRY_LIMIT
        /\ <<>> \in Bytes(NS_TCP_SEND_CAPACITY) /\ <<>> \in Bytes(NS_TCP_RECV_CAPACITY)
    BY Sizes, EmptyIs DEF Seqno
  <1>2. Closed(g) \in Connection
    BY <1>1, NoReorderIs DEF Closed, Connection, State
  <1>3. /\ Closed(g).tx = <<>> /\ Closed(g).tx_sent = 0 /\ ~Closed(g).want_fin
        /\ Closed(g).state = "CLOSED" /\ Closed(g).generation = g
        /\ Closed(g).parent = NO_PARENT
    BY DEF Closed
  <1> QED
    BY <1>2, <1>3 DEF Good, Settled, Unsent, Idle

LEMMA CloseWithEvent ==
    ASSUME NEW s \in HandlerState, NEW event \in Event
    PROVE  /\ Step(s, close_with_event(s, event)) /\ Settled(close_with_event(s, event).c)
           /\ close_with_event(s, event).c = Closed(s.c.generation)
  <1> DEFINE d == Closed(s.c.generation)
             t == [s EXCEPT !.c = d]
  <1>1. s.c.generation \in Nat
    BY DEF HandlerState, Connection
  <1>2. /\ d \in Connection /\ Good(d) /\ Settled(d) /\ d.state = "CLOSED"
        /\ d.generation = s.c.generation
    BY <1>1, ClosedIs
  <1> HIDE DEF d
  <1>3. t \in HandlerState /\ t.c = d
    BY <1>2, WithC
  <1>4. close_with_event(s, event) = notify(t, event)
    BY DEF close_with_event, release_connection, d
  <1> HIDE DEF t
  <1>5. notify(t, event) \in HandlerState /\ notify(t, event).c = d
    BY <1>3, Notify DEF Quiet
  <1> QED
    BY <1>2, <1>4, <1>5 DEF Step, Goes, d

----------------------------------------------------------------------------
\* Handlers.

\* A handler that leaves the connection as the table may hold it.
Turn(s, t) == Step(s, t) /\ Settled(t.c)

LEMMA Stays ==
    ASSUME NEW s \in HandlerState, Good(s.c), Settled(s.c)
    PROVE  Turn(s, s)
  BY DEF Turn, Step, Goes

LEMMA QuietTurn ==
    ASSUME NEW s, NEW t, Good(s.c), Settled(s.c), Quiet(s, t)
    PROVE  Turn(s, t)
  BY QuietStep DEF Turn

LEMMA FinishedSettled ==
    ASSUME NEW c, Good(c), c.state = "TIME_WAIT"
    PROVE  Settled(c)
  <1>1. Sound(c) /\ c \in Connection
    BY DEF Good, Idle
  <1>2. c.fin_sent /\ c.tx_sent = Len(c.tx)
    BY <1>1 DEF Sound, Finishing
  <1>3. Len(c.tx) \in Nat
    BY <1>1 DEF Connection, Bytes
  <1>4. ~(c.tx_sent < Len(c.tx))
    BY <1>2, <1>3
  <1> QED
    BY <1>2, <1>4 DEF Settled, Unsent

LEMMA ConnectedSegment ==
    ASSUME NEW s \in HandlerState, Good(s.c), Settled(s.c), s.c.state \notin Unsynchronized,
           NEW m \in Packet
    PROVE  Turn(s, process_connected_segment(s, m))
  <1> DEFINE c == s.c
             a == IF sequence_before(m.ack, c.una) THEN c ELSE apply_ack(c, m.ack)
             d == UpdateWindow(a, m)
             x == [s EXCEPT !.c = d]
             t == [s EXCEPT !.c = Advance(d)]
             u == IF m.data # <<>> \/ "FIN" \in m.flags
                  THEN process_payload_and_fin(t, m) ELSE t
             r == process_connected_segment(s, m)
  <1>1. \/ r \in {s, emit_ack(s), close_with_event(s, "RESET")}
        \/ /\ ~sequence_after(m.ack, c.nxt)
           /\ \/ r = close_with_event(x, "CLOSED")
              \/ u.c.state = "TIME_WAIT" /\ r = u
              \/ r = flush_send(u)
    BY DEF process_connected_segment
  <1>2. "RESET" \in Event /\ "CLOSED" \in Event /\ m.ack \in Seqno
    BY DEF Event, Packet
  <1>3. Turn(s, s) /\ Turn(s, emit_ack(s)) /\ Turn(s, close_with_event(s, "RESET"))
    BY <1>2, Stays, EmitAck, QuietTurn, CloseWithEvent DEF Turn
  <1>4. ASSUME ~sequence_after(m.ack, c.nxt)
        PROVE  Good(d) /\ Goes(c, d) /\ d.state = c.state
    <2>1. Good(a) /\ Goes(c, a) /\ a.state = c.state
      BY <1>2, <1>4, ApplyAck DEF Goes
    <2> HIDE DEF a
    <2>2. d \in Connection /\ Alike(a, d)
      BY <2>1, UpdateWindowIs DEF Good
    <2> HIDE DEF d
    <2>3. Good(d) /\ Goes(a, d) /\ d.state = a.state
      BY <2>1, <2>2, AlikeGood DEF Alike
    <2> QED
      BY <2>1, <2>3, GoesTransitive DEF Unsynchronized, Idle
  <1> HIDE DEF d
  <1>5. ASSUME ~sequence_after(m.ack, c.nxt)
        PROVE  Turn(s, close_with_event(x, "CLOSED"))
    <2>1. x \in HandlerState /\ x.c = d
      BY <1>4, <1>5, WithC DEF Good
    <2> HIDE DEF x
    <2>2. Step(s, x) /\ x.c.state # "CLOSED"
      BY <1>4, <1>5, <2>1 DEF Step, Unsynchronized, Idle
    <2>3. Step(x, close_with_event(x, "CLOSED")) /\ Settled(close_with_event(x, "CLOSED").c)
      BY <1>2, <2>1, CloseWithEvent
    <2> QED
      BY <2>2, <2>3, StepTransitive DEF Turn
  <1>6. ASSUME ~sequence_after(m.ack, c.nxt)
        PROVE  Step(s, u) /\ u.c.state \notin Unsynchronized
    <2>1. Good(Advance(d)) /\ Goes(d, Advance(d)) /\ Advance(d).state \notin Unsynchronized
      BY <1>4, <1>6, AdvanceIs
    <2>2. t \in HandlerState /\ t.c = Advance(d)
      BY <2>1, WithC DEF Good
    <2> HIDE DEF t
    <2>3. Step(s, t) /\ t.c.state \notin Unsynchronized
      BY <1>4, <1>6, <2>1, <2>2, GoesTransitive DEF Step, Unsynchronized, Idle
    <2>4. /\ Step(t, process_payload_and_fin(t, m))
          /\ process_payload_and_fin(t, m).c.state \notin Unsynchronized
      BY <2>2, <2>3, ProcessPayload DEF Step
    <2>5. Step(s, process_payload_and_fin(t, m))
      BY <2>3, <2>4, StepTransitive DEF Unsynchronized, Idle
    <2> QED
      BY <2>3, <2>4, <2>5
  <1> HIDE DEF u, x
  <1>7. ASSUME ~sequence_after(m.ack, c.nxt)
        PROVE  /\ u.c.state = "TIME_WAIT" => Turn(s, u)
               /\ Turn(s, flush_send(u))
    <2>1. u \in HandlerState /\ Good(u.c) /\ u.c.state \notin Idle /\ u.c.state # "CLOSED"
      BY <1>6, <1>7 DEF Step, Unsynchronized, Idle
    <2>2. Step(u, flush_send(u)) /\ Settled(flush_send(u).c)
      BY <2>1, FlushSend
    <2>3. Step(s, flush_send(u))
      BY <1>6, <1>7, <2>1, <2>2, StepTransitive
    <2> QED
      BY <1>6, <1>7, <2>1, <2>2, <2>3, FinishedSettled DEF Turn
  <1> HIDE DEF r
  <1>8. Turn(s, r)
    BY <1>1, <1>3, <1>5, <1>7
  <1> QED
    BY <1>8 DEF r

LEMMA TurnTransitive ==
    ASSUME NEW s, NEW t, NEW u, Step(s, t), Turn(t, u), t.c.state # "CLOSED"
    PROVE  Turn(s, u)
  BY StepTransitive DEF Turn

\* Nothing is queued before the handshake is over.
LEMMA OpeningIs ==
    ASSUME NEW c, Good(c), c.state \in Opening
    PROVE  /\ Settled(c) /\ c.tx = <<>> /\ c.tx_sent = 0 /\ ~c.want_fin /\ ~c.fin_sent
           /\ c.nxt = Add(c.iss, 1) /\ c.una = c.iss /\ c.nxt # c.una /\ c.rto
  <1>1. c \in Connection /\ Sound(c) /\ c.tx_sent <= Len(c.tx) /\ c.tx_sent \in Nat
    BY DEF Good, Opening, Idle, Connection
  <1>2. c.tx = <<>> /\ ~c.want_fin /\ ~c.fin_sent /\ c.nxt = Add(c.iss, 1) /\ c.una = c.iss
    BY <1>1 DEF Sound, Opening, Finishing
  <1>3. c.tx_sent = 0 /\ ~(c.tx_sent < Len(c.tx))
    BY <1>1, <1>2
  <1>4. c.nxt # c.una
    BY <1>1, <1>2, NextOf DEF Connection
  <1> QED
    BY <1>1, <1>2, <1>3, <1>4 DEF Settled, Unsent, Sound

\* A connection whose SYN is acknowledged.
Acked(c) ==
    /\ c \in Connection /\ c.state \in Opening /\ c.una = c.nxt
    /\ c.tx = <<>> /\ c.tx_sent = 0 /\ ~c.want_fin /\ ~c.fin_sent

EstablishedAt(c, q, r, o) ==
    [c EXCEPT !.state = "ESTABLISHED", !.tx_sequence = q, !.rto = r, !.count = 0, !.order = o]

LEMMA Established ==
    ASSUME NEW s \in HandlerState, Acked(s.c), NEW n \in Nat
    PROVE  /\ Turn(s, connection_established(s, n))
           /\ connection_established(s, n).c.state = "ESTABLISHED"
  <1> DEFINE c == s.c
             o == IF c.parent # NO_PARENT THEN n ELSE 0
             D(y) == EstablishedAt(c, c.nxt, y, o)
             d == D(FALSE)
             t == [s EXCEPT !.c = d]
             e == IF d.parent # NO_PARENT THEN "ACCEPT_READY" ELSE "CONNECTED"
  <1>1. c \in Connection /\ c.nxt \in Seqno /\ c.una \in Seqno
    BY DEF Acked, Connection
  <1>2. o \in Nat /\ 0 \in 0..NS_TCP_RETRY_LIMIT /\ e \in Event
    BY Sizes DEF Event
  <1>3. connection_established(s, n) = notify(t, e)
    BY DEF connection_established, EstablishedAt
  <1> HIDE DEF o, e
  <1>4. \A y \in BOOLEAN :
          /\ D(y) \in Connection /\ D(y).state = "ESTABLISHED" /\ D(y).generation = c.generation
          /\ D(y).parent = c.parent /\ D(y).accepted = c.accepted
          /\ D(y).want_fin = c.want_fin /\ D(y).fin_sent = c.fin_sent /\ D(y).una = c.una
          /\ D(y).nxt = c.nxt /\ D(y).tx = c.tx /\ D(y).tx_sent = c.tx_sent
    BY <1>1, <1>2, ZenonT(30) DEF EstablishedAt, Connection, State
  <1> HIDE DEF D
  <1>5. /\ d \in Connection /\ d.state = "ESTABLISHED" /\ d.generation = c.generation
        /\ d.parent = c.parent /\ d.accepted = c.accepted /\ ~d.want_fin /\ ~d.fin_sent
        /\ d.una = d.nxt /\ d.una \in Seqno /\ d.tx = <<>> /\ d.tx_sent = 0
    BY <1>1, <1>4 DEF Acked
  <1> HIDE DEF d
  <1>6. Sub(d.nxt, d.una) = 0
    BY <1>5, SubZero
  <1>7. Good(d)
    BY <1>5, <1>6, Sizes DEF Good, Sound, Opening, Finishing
  <1>8. Goes(c, d) /\ Settled(d)
    BY <1>5 DEF Goes, Settled, Unsent, Acked, Opening
  <1>9. t \in HandlerState /\ t.c = d
    BY <1>5, WithC
  <1> HIDE DEF t
  <1>10. notify(t, e) \in HandlerState /\ notify(t, e).c = d
    BY <1>2, <1>9, Notify DEF Quiet
  <1> QED
    BY <1>3, <1>5, <1>7, <1>8, <1>10 DEF Turn, Step

\* The three fields that a SYN brings.
SynAt(c, i, n, w) == [c EXCEPT !.irs = i, !.rnxt = n, !.rwnd = w]

LEMMA SynAtIs ==
    ASSUME NEW c \in Connection, NEW i \in Seqno, NEW n \in Seqno,
           NEW w \in 0..NS_TCP_RECV_CAPACITY
    PROVE  SynAt(c, i, n, w) \in Connection /\ Alike(c, SynAt(c, i, n, w))
  BY DEF SynAt, Connection, Alike

LEMMA WithUna ==
    ASSUME NEW c \in Connection, NEW a \in Seqno
    PROVE  LET d == [c EXCEPT !.una = a]
           IN  /\ d \in Connection /\ d.una = a /\ d.nxt = c.nxt /\ d.state = c.state
               /\ d.tx = c.tx /\ d.tx_sent = c.tx_sent /\ d.want_fin = c.want_fin
               /\ d.fin_sent = c.fin_sent /\ d.generation = c.generation
               /\ d.parent = c.parent /\ d.accepted = c.accepted
  BY DEF Connection

\* The acknowledgment of a SYN makes a connection.
LEMMA AckedIs ==
    ASSUME NEW c, Good(c), c.state \in Opening, NEW d \in Connection, Alike(c, d),
           NEW e \in Connection, Alike([d EXCEPT !.una = c.nxt], e)
    PROVE  Acked(e) /\ Goes(c, e) /\ e.state = c.state
  <1> DEFINE b == [d EXCEPT !.una = c.nxt]
  <1>1. /\ c.tx = <<>> /\ c.tx_sent = 0 /\ ~c.want_fin /\ ~c.fin_sent /\ c.nxt \in Seqno
    BY OpeningIs DEF Good, Connection
  <1>2. /\ b.una = c.nxt /\ b.nxt = d.nxt /\ b.state = d.state /\ b.tx = d.tx
        /\ b.tx_sent = d.tx_sent /\ b.want_fin = d.want_fin /\ b.fin_sent = d.fin_sent
        /\ b.generation = d.generation /\ b.parent = d.parent /\ b.accepted = d.accepted
    BY <1>1, WithUna
  <1> HIDE DEF b
  <1>3. Alike(b, e)
    BY DEF b
  <1> QED
    BY <1>1, <1>2, <1>3 DEF Alike, Acked, Goes, Opening

LEMMA WithRto ==
    ASSUME NEW s \in HandlerState, s.c.rto
    PROVE  Quiet(s, [s EXCEPT !.c.rto = TRUE])
  <1> DEFINE D(y) == [s.c EXCEPT !.rto = y]
             d == D(TRUE)
  <1>1. s.c \in Connection /\ s.c.rto \in BOOLEAN
    BY DEF HandlerState, Connection
  <1>2. \A y \in BOOLEAN :
          /\ D(y) \in Connection /\ D(y).rto = y
          /\ D(y).state = s.c.state /\ D(y).generation = s.c.generation
          /\ D(y).parent = s.c.parent /\ D(y).accepted = s.c.accepted
          /\ D(y).want_fin = s.c.want_fin /\ D(y).fin_sent = s.c.fin_sent
          /\ D(y).iss = s.c.iss /\ D(y).una = s.c.una /\ D(y).nxt = s.c.nxt /\ D(y).tx = s.c.tx
          /\ D(y).tx_sent = s.c.tx_sent /\ D(y).fin_sequence = s.c.fin_sequence
          /\ D(y).wnd = s.c.wnd /\ D(y).persist = s.c.persist
    BY <1>1 DEF Connection
  <1>3. [s EXCEPT !.c.rto = TRUE] = [s EXCEPT !.c = d]
    BY DEF HandlerState
  <1> HIDE DEF D
  <1>4. d \in Connection /\ Alike(s.c, d) /\ d.wnd = s.c.wnd /\ d.persist = s.c.persist
    BY <1>1, <1>2 DEF Alike
  <1> HIDE DEF d
  <1>5. [s EXCEPT !.c = d] \in HandlerState /\ [s EXCEPT !.c = d].c = d
    BY <1>4, WithC
  <1> QED
    BY <1>3, <1>4, <1>5 DEF Quiet

LEMMA EmitsSynAck ==
    ASSUME NEW s \in HandlerState
    PROVE  Quiet(s, EmitSynAck(s))
  <1>1. s.c.iss \in Seqno /\ s.c.rnxt \in Seqno
    BY DEF HandlerState, Connection
  <1>2. {"SYN", "ACK"} \in SUBSET Flag /\ <<>> \in Bytes(NS_TCP_LOCAL_MSS)
    BY EmptyIs, Sizes DEF Flag
  <1> QED
    BY <1>1, <1>2, EmitSegment DEF EmitSynAck

LEMMA SynSent ==
    ASSUME NEW s \in HandlerState, Good(s.c), s.c.state = "SYN_SENT", NEW m \in Packet,
           NEW n \in Nat
    PROVE  Turn(s, process_syn_sent(s, m, n))
  <1> DEFINE c == s.c
             acks == "ACK" \in m.flags
             b == SynAt(c, m.seq, Add(m.seq, 1), NS_TCP_RECV_CAPACITY)
             d == TakeWindow(b, m)
             e == [d EXCEPT !.una = m.ack]
             x == [s EXCEPT !.c = e]
             y == connection_established(x, n)
             f == [d EXCEPT !.state = "SYN_RECEIVED"]
             v == [s EXCEPT !.c = f]
             z == EmitSynAck(v)
             r == process_syn_sent(s, m, n)
  <1>1. /\ c \in Connection /\ c.state \in Opening /\ m.seq \in Seqno /\ m.ack \in Seqno
        /\ c.iss \in Seqno /\ NS_TCP_RECV_CAPACITY \in 0..NS_TCP_RECV_CAPACITY
        /\ Add(m.seq, 1) \in Seqno
    <2>1. c \in Connection /\ c.state \in Opening /\ m.seq \in Seqno /\ m.ack \in Seqno
      BY DEF Good, Packet, Opening
    <2> QED
      BY <2>1, NextOf, Sizes DEF Connection
  <1>2. /\ Settled(c) /\ c.tx = <<>> /\ c.tx_sent = 0 /\ ~c.want_fin /\ ~c.fin_sent
        /\ c.nxt = Add(c.iss, 1) /\ c.una = c.iss /\ c.nxt # c.una /\ c.rto
    BY <1>1, OpeningIs
  <1>3. \/ r \in {s, send_reset_for_segment(s, m), close_with_event(s, "RESET")}
        \/ /\ acks /\ sequence_after(m.ack, c.iss) /\ ~sequence_after(m.ack, c.nxt)
           /\ r = flush_send(emit_ack(y))
        \/ r = [z EXCEPT !.c.rto = TRUE]
    BY DEF process_syn_sent, SynAt, sequence_at_or_before
  <1>4. b \in Connection /\ Alike(c, b)
    BY <1>1, SynAtIs
  <1> HIDE DEF b
  <1>5. d \in Connection /\ Alike(c, d)
    BY <1>4, TakeWindowIs DEF Alike
  <1> HIDE DEF d
  <1>6. /\ Turn(s, s) /\ Turn(s, send_reset_for_segment(s, m))
        /\ Turn(s, close_with_event(s, "RESET"))
    <2>1. "RESET" \in Event
      BY DEF Event
    <2> QED
      BY <1>2, <2>1, Stays, SendReset, QuietTurn, CloseWithEvent DEF Turn
  <1>7. ASSUME sequence_after(m.ack, c.iss), ~sequence_after(m.ack, c.nxt)
        PROVE  Turn(s, flush_send(emit_ack(y)))
    <2>1. m.ack = c.nxt
      BY <1>1, <1>2, <1>7, JustAfter
    <2>2. e \in Connection /\ Alike([d EXCEPT !.una = c.nxt], e)
      <3>1. e \in Connection
        BY <1>1, <1>5, WithUna
      <3> QED
        BY <2>1, <3>1 DEF Alike
    <2>3. Acked(e) /\ Goes(c, e) /\ e.state = c.state
      BY <1>1, <1>5, <2>2, AckedIs
    <2> HIDE DEF e
    <2>4. x \in HandlerState /\ x.c = e
      BY <2>2, WithC
    <2> HIDE DEF x
    <2>5. Step(x, y) /\ y.c.state = "ESTABLISHED"
      BY <2>3, <2>4, Established DEF Turn
    <2> HIDE DEF y
    <2>6. y \in HandlerState /\ Good(y.c) /\ Goes(x.c, y.c)
      BY <2>5 DEF Step
    <2>7. Step(s, y)
      BY <2>3, <2>4, <2>6, GoesTransitive DEF Step
    <2>8. Step(y, emit_ack(y)) /\ emit_ack(y).c.state = "ESTABLISHED"
      BY <2>5, <2>6, EmitAck, QuietStep
    <2> DEFINE w == emit_ack(y)
    <2> HIDE DEF w
    <2>9. Step(s, w) /\ w.c.state = "ESTABLISHED"
      BY <2>5, <2>7, <2>8, StepTransitive DEF w
    <2>10. Step(w, flush_send(w)) /\ Settled(flush_send(w).c)
      BY <2>9, FlushSend DEF Step, Idle
    <2>11. Turn(s, flush_send(w))
      BY <2>9, <2>10, StepTransitive DEF Turn
    <2> QED
      BY <2>11 DEF w
  <1>8. Turn(s, [z EXCEPT !.c.rto = TRUE])
    <2>1. /\ f \in Connection /\ f.state = "SYN_RECEIVED" /\ f.generation = d.generation
          /\ f.parent = d.parent /\ f.accepted = d.accepted /\ f.want_fin = d.want_fin
          /\ f.fin_sent = d.fin_sent /\ f.iss = d.iss /\ f.una = d.una /\ f.nxt = d.nxt
          /\ f.tx = d.tx /\ f.tx_sent = d.tx_sent /\ f.fin_sequence = d.fin_sequence
          /\ f.rto = d.rto
      BY <1>5 DEF Connection, State
    <2> HIDE DEF f
    <2>2. Good(f) /\ Goes(c, f)
      <3>1. Sub(f.nxt, f.una) <= NS_TCP_RECV_CAPACITY
        <4>1. Sub(c.nxt, c.una) <= NS_TCP_RECV_CAPACITY
          BY <1>1 DEF Good, Sound, Opening, Idle
        <4> QED
          BY <1>5, <2>1, <4>1 DEF Alike
      <3>2. f.tx_sent <= Len(f.tx)
        BY <1>5, <2>1 DEF Alike, Good
      <3> QED
        BY <1>2, <1>5, <2>1, <3>1, <3>2 DEF Alike, Good, Sound, Opening, Finishing, Goes
    <2>3. v \in HandlerState /\ v.c = f
      BY <2>1, WithC
    <2> HIDE DEF v
    <2>4. Step(s, v) /\ v.c.state = "SYN_RECEIVED" /\ v.c.rto
      BY <1>2, <1>5, <2>1, <2>2, <2>3 DEF Step, Alike
    <2>5. Quiet(v, z)
      BY <2>3, EmitsSynAck
    <2> HIDE DEF z
    <2>6. z \in HandlerState /\ z.c.rto
      BY <2>4, <2>5 DEF Quiet, Alike
    <2> DEFINE w == [z EXCEPT !.c.rto = TRUE]
    <2>7. Quiet(z, w)
      BY <2>6, WithRto
    <2> HIDE DEF w
    <2>8. Quiet(v, w)
      BY <2>5, <2>7, QuietTransitive
    <2>9. Step(v, w) /\ w.c.state = "SYN_RECEIVED"
      BY <2>2, <2>3, <2>4, <2>8, QuietStep
    <2>10. Settled(w.c)
      BY <2>9, OpeningIs DEF Step, Opening
    <2>11. Turn(s, w)
      BY <2>4, <2>9, <2>10, StepTransitive DEF Turn
    <2> QED
      BY <2>11 DEF w
  <1> HIDE DEF r, y, z
  <1>9. Turn(s, r)
    BY <1>3, <1>6, <1>7, <1>8
  <1> QED
    BY <1>9 DEF r

LEMMA SynReceived ==
    ASSUME NEW s \in HandlerState, Good(s.c), s.c.state = "SYN_RECEIVED", NEW m \in Packet,
           NEW n \in Nat
    PROVE  Turn(s, process_syn_received(s, m, n))
  <1> DEFINE c == s.c
             e == [c EXCEPT !.una = m.ack]
             d == TakeWindow(e, m)
             x == [s EXCEPT !.c = d]
             y == connection_established(x, n)
             r == process_syn_received(s, m, n)
  <1>1. c \in Connection /\ c.state \in Opening /\ m.ack \in Seqno /\ c.nxt \in Seqno
    BY DEF Good, Connection, Packet, Opening
  <1>2. Settled(c) /\ "RESET" \in Event
    BY <1>1, OpeningIs DEF Event
  <1>3. \/ r \in {s, send_reset_for_segment(s, m), close_with_event(s, "RESET"), EmitSynAck(s)}
        \/ m.ack = c.nxt /\ r \in {y, emit_ack(y)}
    BY DEF process_syn_received
  <1>4. /\ Turn(s, s) /\ Turn(s, send_reset_for_segment(s, m)) /\ Turn(s, EmitSynAck(s))
        /\ Turn(s, close_with_event(s, "RESET"))
    BY <1>2, Stays, SendReset, EmitsSynAck, QuietTurn, CloseWithEvent DEF Turn
  <1>5. ASSUME m.ack = c.nxt
        PROVE  Turn(s, y) /\ Turn(s, emit_ack(y))
    <2>1. e \in Connection
      BY <1>1, WithUna
    <2>2. d \in Connection /\ Alike([c EXCEPT !.una = c.nxt], d)
      BY <1>5, <2>1, TakeWindowIs
    <2> HIDE DEF d
    <2>3. Acked(d) /\ Goes(c, d) /\ d.state = c.state
      <3>1. Alike(c, c)
        BY DEF Alike
      <3> QED
        BY <1>1, <2>2, <3>1, AckedIs
    <2>4. x \in HandlerState /\ x.c = d
      BY <2>2, WithC
    <2> HIDE DEF x
    <2>5. Turn(x, y) /\ y.c.state = "ESTABLISHED"
      BY <2>3, <2>4, Established
    <2> HIDE DEF y
    <2>6. y \in HandlerState /\ Good(y.c) /\ Goes(x.c, y.c) /\ Settled(y.c)
      BY <2>5 DEF Step, Turn
    <2>7. Turn(s, y)
      BY <2>3, <2>4, <2>6, GoesTransitive DEF Step, Turn
    <2>8. Turn(y, emit_ack(y))
      BY <2>6, EmitAck, QuietTurn
    <2>9. Step(s, y)
      BY <2>7 DEF Turn
    <2> QED
      BY <2>5, <2>7, <2>8, <2>9, TurnTransitive
  <1> HIDE DEF r, y
  <1>6. Turn(s, r)
    BY <1>3, <1>4, <1>5
  <1> QED
    BY <1>6 DEF r

\* What an arriving segment does to a connection.
LEMMA Receives ==
    ASSUME NEW s \in HandlerState, Good(s.c), Settled(s.c), s.c.state \notin Idle,
           NEW m \in Packet, NEW n \in Nat
    PROVE  Turn(s, Receive(s, m, n))
  <1>1. CASE s.c.state = "SYN_SENT"
    BY <1>1, SynSent DEF Receive
  <1>2. CASE s.c.state = "SYN_RECEIVED"
    <2> DEFINE t == process_syn_received(s, m, n)
    <2>1. Turn(s, t)
      BY <1>2, SynReceived
    <2>2. Receive(s, m, n) = IF t.c.state = "ESTABLISHED" /\ (m.data # <<>> \/ "FIN" \in m.flags)
                             THEN process_connected_segment(t, m) ELSE t
      BY <1>2 DEF Receive
    <2> HIDE DEF t
    <2>3. ASSUME t.c.state = "ESTABLISHED"
          PROVE  Turn(s, process_connected_segment(t, m))
      <3>1. Turn(t, process_connected_segment(t, m))
        BY <2>1, <2>3, ConnectedSegment DEF Turn, Step, Unsynchronized, Idle, Opening
      <3> QED
        BY <2>1, <2>3, <3>1, TurnTransitive DEF Turn
    <2> QED
      BY <2>1, <2>2, <2>3
  <1>3. CASE s.c.state \notin Unsynchronized
    <2>1. Receive(s, m, n) = process_connected_segment(s, m)
      BY <1>3 DEF Receive, Unsynchronized, Opening
    <2> QED
      BY <1>3, <2>1, ConnectedSegment
  <1> QED
    BY <1>1, <1>2, <1>3 DEF Unsynchronized, Opening

----------------------------------------------------------------------------
\* Timers and the user's calls.

LEMMA EmitAckCount ==
    ASSUME NEW s \in HandlerState
    PROVE  emit_ack(s).c.count = s.c.count
  <1> DEFINE t == emit_segment(s, s.c.nxt, s.c.rnxt, {"ACK"}, <<>>)
             u == [t EXCEPT !.c.ack_pending = FALSE]
             w == current_receive_window(s.c)
  <1>1. s.c \in Connection /\ s.c.nxt \in Seqno /\ s.c.rnxt \in Seqno
    BY DEF HandlerState, Connection
  <1>2. {"ACK"} \in SUBSET Flag /\ <<>> \in Bytes(NS_TCP_LOCAL_MSS)
    BY EmptyIs, Sizes DEF Flag
  <1>3. t \in HandlerState /\ t.c = [s.c EXCEPT !.rwnd = w]
    BY <1>1, <1>2, EmitSegment DEF Quiet
  <1>4. emit_ack(s) \in {t, u}
    BY DEF emit_ack
  <1> HIDE DEF t, w
  <1>5. t.c.count = s.c.count
    BY <1>1, <1>3 DEF Connection
  <1>6. u.c.count = t.c.count
    BY <1>3 DEF HandlerState, Connection
  <1> HIDE DEF u
  <1> QED
    BY <1>4, <1>5, <1>6

LEMMA WithCount ==
    ASSUME NEW s \in HandlerState, NEW k \in 0..NS_TCP_RETRY_LIMIT
    PROVE  Quiet(s, [s EXCEPT !.c.count = k])
  <1> DEFINE d == [s.c EXCEPT !.count = k]
  <1>1. s.c \in Connection
    BY DEF HandlerState
  <1>2. d \in Connection /\ Alike(s.c, d) /\ d.wnd = s.c.wnd /\ d.persist = s.c.persist
    BY <1>1 DEF Connection, Alike
  <1>3. [s EXCEPT !.c.count = k] = [s EXCEPT !.c = d]
    BY DEF HandlerState
  <1> HIDE DEF d
  <1>4. [s EXCEPT !.c = d] \in HandlerState /\ [s EXCEPT !.c = d].c = d
    BY <1>2, WithC
  <1> QED
    BY <1>2, <1>3, <1>4 DEF Quiet

LEMMA Probes ==
    ASSUME NEW s \in HandlerState, Good(s.c)
    PROVE  Step(s, Probe(s)) /\ Probe(s).c.state = s.c.state
  <1> DEFINE e == emit_segment(s, Sub(s.c.una, 1), s.c.rnxt, {"ACK"}, <<0>>)
             D(y) == [s.c EXCEPT !.persist = y]
             d == D(FALSE)
             t == [s EXCEPT !.c = d]
  <1>1. s.c \in Connection /\ s.c.una \in Seqno /\ s.c.rnxt \in Seqno
    BY DEF HandlerState, Connection
  <1>2. Sub(s.c.una, 1) \in Seqno
    <2>1. 1 \in Seqno
      BY Sizes DEF Seqno
    <2> QED
      BY <1>1, <2>1, SubIs
  <1>3. {"ACK"} \in SUBSET Flag /\ <<0>> \in Bytes(NS_TCP_LOCAL_MSS)
    BY Sizes DEF Flag, Bytes
  <1>4. Quiet(s, e)
    BY <1>1, <1>2, <1>3, EmitSegment
  <1>5. Probe(s) \in {e, t}
    BY DEF Probe, HandlerState
  <1> HIDE DEF e
  <1>6. Step(s, e) /\ e.c.state = s.c.state
    BY <1>4, QuietStep
  <1>7. \A y \in BOOLEAN : D(y) \in Connection /\ Alike(s.c, D(y))
    BY <1>1 DEF Connection, Alike
  <1> HIDE DEF D
  <1>8. d \in Connection /\ Alike(s.c, d)
    BY <1>7
  <1> HIDE DEF d
  <1>9. t \in HandlerState /\ t.c = d
    BY <1>8, WithC
  <1> HIDE DEF t
  <1>10. Step(s, t) /\ t.c.state = s.c.state
    BY <1>8, <1>9, AlikeGood DEF Step, Alike
  <1> QED
    BY <1>5, <1>6, <1>10

\* One connection's turn in a tick.
LEMMA Ticks ==
    ASSUME NEW s \in HandlerState, Good(s.c), Settled(s.c), s.c.state \notin Idle, NEW expired
    PROVE  Turn(s, Tick(s, expired))
  <1> DEFINE a == IF "delayed_ack" \in expired THEN emit_ack(s) ELSE s
             b == retransmit(a)
             r == IF "retransmit" \in expired THEN [b EXCEPT !.c.count = @ + 1] ELSE a
             p == IF "persist" \in expired THEN Probe(r) ELSE r
             t == Tick(s, expired)
  <1>1. \/ t = close_with_event(s, "CLOSED")
        \/ t = close_with_event(a, "TIMEOUT")
        \/ /\ "retransmit" \in expired => ~GivesUp(s.c)
           /\ \/ p.c.state = "TIME_WAIT" /\ t = p
              \/ t = flush_send(p)
    BY DEF Tick, Idle
  <1>2. "CLOSED" \in Event /\ "TIMEOUT" \in Event /\ s.c.count \in Nat
        /\ s.c.count <= NS_TCP_RETRY_LIMIT
    BY DEF Event, HandlerState, Connection
  <1>3. Step(s, s)
    BY Stays DEF Turn
  <1>4. Step(s, a) /\ a.c.state = s.c.state /\ a.c.count = s.c.count
    BY <1>3, EmitAck, QuietStep, EmitAckCount
  <1> HIDE DEF a
  <1>5. a \in HandlerState /\ Good(a.c) /\ a.c.state # "CLOSED"
    BY <1>4 DEF Step, Idle
  <1>6. Turn(s, close_with_event(s, "CLOSED"))
    BY <1>2, CloseWithEvent DEF Turn
  <1>7. Turn(s, close_with_event(a, "TIMEOUT"))
    <2>1. Turn(a, close_with_event(a, "TIMEOUT"))
      BY <1>2, <1>5, CloseWithEvent DEF Turn
    <2> QED
      BY <1>4, <1>5, <2>1, TurnTransitive
  <1>8. ASSUME "retransmit" \in expired => ~GivesUp(s.c)
        PROVE  Step(s, r) /\ r.c.state = s.c.state
    <2>1. CASE "retransmit" \notin expired
      BY <1>4, <2>1
    <2>2. CASE "retransmit" \in expired
      <3>1. Quiet(a, b) /\ b.c.count = s.c.count
        BY <1>4, <1>5, Retransmit
      <3> HIDE DEF b
      <3>2. b.c.count + 1 \in 0..NS_TCP_RETRY_LIMIT
        BY <1>2, <1>8, <2>2, <3>1, Sizes DEF GivesUp
      <3> DEFINE k == b.c.count + 1
                 x == [b EXCEPT !.c.count = k]
      <3>3. r = x
        BY <2>2
      <3> HIDE DEF k, r
      <3>4. Quiet(b, x)
        BY <3>1, <3>2, WithCount DEF Quiet, k
      <3> HIDE DEF x
      <3>5. Quiet(a, x)
        BY <3>1, <3>4, QuietTransitive
      <3>6. Step(a, x) /\ x.c.state = a.c.state
        BY <1>5, <3>5, QuietStep
      <3> QED
        BY <1>4, <1>5, <3>3, <3>6, StepTransitive
    <2> QED
      BY <2>1, <2>2
  <1> HIDE DEF r
  <1>9. ASSUME "retransmit" \in expired => ~GivesUp(s.c)
        PROVE  Step(s, p) /\ p.c.state = s.c.state
    <2>1. r \in HandlerState /\ Good(r.c) /\ r.c.state # "CLOSED"
      BY <1>8, <1>9 DEF Step, Idle
    <2>2. Step(r, Probe(r)) /\ Probe(r).c.state = r.c.state
      BY <2>1, Probes
    <2> QED
      BY <1>8, <1>9, <2>1, <2>2, StepTransitive
  <1> HIDE DEF p
  <1>10. ASSUME "retransmit" \in expired => ~GivesUp(s.c)
         PROVE  /\ p.c.state = "TIME_WAIT" => Turn(s, p)
                /\ Turn(s, flush_send(p))
    <2>1. p \in HandlerState /\ Good(p.c) /\ p.c.state \notin Idle /\ p.c.state # "CLOSED"
      BY <1>9, <1>10 DEF Step, Idle
    <2>2. Turn(p, flush_send(p))
      BY <2>1, FlushSend DEF Turn
    <2> QED
      BY <1>9, <1>10, <2>1, <2>2, TurnTransitive, FinishedSettled DEF Turn
  <1> HIDE DEF t
  <1>11. Turn(s, t)
    BY <1>1, <1>6, <1>7, <1>10
  <1> QED
    BY <1>11 DEF t

QueuedAt(c, q, x) == [c EXCEPT !.tx_sequence = q, !.tx = x]

LEMMA Queues ==
    ASSUME NEW s \in HandlerState, Good(s.c), s.c.state = "ESTABLISHED", NEW data \in Seq(Nat)
    PROVE  Turn(s, Queue(s, data))
  <1> DEFINE c == s.c
             left == NS_TCP_SEND_CAPACITY - Len(c.tx)
             k == Least(Len(data), left)
             more == SubSeq(data, 1, k)
             x == c.tx \o more
             q == IF c.tx = <<>> THEN c.nxt ELSE c.tx_sequence
             d == QueuedAt(c, q, x)
             t == [s EXCEPT !.c = d]
  <1>1. c \in Connection /\ Sound(c) /\ c.tx_sent <= Len(c.tx)
    BY DEF Good, Idle
  <1>2. /\ c.tx \in Seq(Nat) /\ Len(c.tx) \in Nat /\ Len(c.tx) <= NS_TCP_SEND_CAPACITY
        /\ Len(data) \in Nat /\ c.tx_sent \in Nat /\ c.nxt \in Seqno /\ c.tx_sequence \in Seqno
    BY <1>1 DEF Connection, Bytes
  <1>3. Queue(s, data) = flush_send(t)
    <2>1. Queue(s, data) = flush_send([s EXCEPT !.c.tx_sequence = q, !.c.tx = @ \o more])
      BY <1>1 DEF Queue, HandlerState, Connection
    <2> HIDE DEF q, more
    <2>2. [s EXCEPT !.c.tx_sequence = q, !.c.tx = @ \o more] = t
      BY <1>1 DEF HandlerState, Connection, QueuedAt
    <2> QED
      BY <2>1, <2>2
  <1>4. left \in Nat
    BY <1>2, Sizes
  <1>5. more \in Seq(Nat) /\ Len(more) \in Nat /\ Len(more) <= left
    <2> HIDE DEF left
    <2>1. k \in Nat /\ k <= Len(data) /\ k <= left
      BY <1>2, <1>4 DEF Least
    <2> HIDE DEF k
    <2>2. more \in Seq(Nat) /\ Len(more) = IF 1 <= k THEN k - 1 + 1 ELSE 0
      <3>1. 1 \in Nat \ {0} /\ k \in Int /\ k <= Len(data)
        BY <1>2, <2>1
      <3> QED
        BY <3>1, Cut
    <2> HIDE DEF more
    <2>3. Len(more) = k
      BY <2>1, <2>2
    <2> QED
      BY <1>4, <2>1, <2>2, <2>3
  <1> HIDE DEF more
  <1>6. x \in Seq(Nat) /\ Len(x) = Len(c.tx) + Len(more)
    BY <1>2, <1>5
  <1> HIDE DEF x
  <1>7. x \in Bytes(NS_TCP_SEND_CAPACITY) /\ c.tx_sent <= Len(x)
    BY <1>1, <1>2, <1>5, <1>6, Sizes DEF Bytes
  <1>8. q \in Seqno
    BY <1>2
  <1> HIDE DEF q
  <1>9. /\ d \in Connection /\ d.state = c.state /\ d.generation = c.generation
        /\ d.parent = c.parent /\ d.accepted = c.accepted /\ d.want_fin = c.want_fin
        /\ d.fin_sent = c.fin_sent /\ d.iss = c.iss /\ d.una = c.una /\ d.nxt = c.nxt
        /\ d.tx = x /\ d.tx_sent = c.tx_sent /\ d.rto = c.rto
    BY <1>1, <1>7, <1>8 DEF QueuedAt, Connection
  <1> HIDE DEF d
  <1>10. Good(d) /\ Goes(c, d)
    BY <1>1, <1>7, <1>9 DEF Good, Sound, Goes, Opening, Finishing
  <1>11. t \in HandlerState /\ t.c = d
    BY <1>9, WithC
  <1> HIDE DEF t
  <1>12. Step(s, t) /\ t.c.state \notin Idle /\ t.c.state # "CLOSED"
    BY <1>9, <1>10, <1>11 DEF Step, Idle
  <1>13. Turn(t, flush_send(t))
    BY <1>10, <1>11, <1>12, FlushSend DEF Turn
  <1> QED
    BY <1>3, <1>12, <1>13, TurnTransitive

LEMMA Takes ==
    ASSUME NEW s \in HandlerState, Good(s.c), Settled(s.c), NEW n \in Nat
    PROVE  Turn(s, Take(s, n)) /\ Take(s, n).c.state = s.c.state
  <1> DEFINE c == s.c
             x == SubSeq(c.rx, n + 1, Len(c.rx))
             d == ReceivedAt(c, x, c.rnxt, c.reorder)
             t == [s EXCEPT !.c = d]
  <1>1. /\ c \in Connection /\ c.rx \in Seq(Nat) /\ Len(c.rx) \in Nat
        /\ Len(c.rx) <= NS_TCP_RECV_CAPACITY /\ c.rnxt \in Seqno /\ c.reorder \in Reordered
    BY Received DEF HandlerState
  <1>2. x \in Bytes(NS_TCP_RECV_CAPACITY)
    <2>1. /\ x \in Seq(Nat)
          /\ Len(x) = IF n + 1 <= Len(c.rx) THEN Len(c.rx) - (n + 1) + 1 ELSE 0
      <3>1. n + 1 \in Nat \ {0} /\ Len(c.rx) \in Int /\ Len(c.rx) <= Len(c.rx)
        BY <1>1
      <3> QED
        BY <1>1, <3>1, Cut
    <2> HIDE DEF x
    <2> QED
      BY <1>1, <2>1, Sizes DEF Bytes
  <1>3. [s EXCEPT !.c.rx = SubSeq(@, n + 1, Len(@))] = t
    <2>1. [s EXCEPT !.c.rx = SubSeq(@, n + 1, Len(@))] = [s EXCEPT !.c.rx = x]
      BY DEF HandlerState, Connection
    <2> HIDE DEF x
    <2>2. [s EXCEPT !.c.rx = x] = t
      BY <1>1 DEF ReceivedAt, HandlerState, Connection
    <2> QED
      BY <2>1, <2>2
  <1> HIDE DEF x
  <1>4. Quiet(s, t)
    BY <1>1, <1>2, ReceivedQuiet
  <1>5. Take(s, n) \in {t, emit_ack(t)}
    BY <1>3 DEF Take
  <1> HIDE DEF t
  <1>6. Quiet(t, emit_ack(t))
    BY <1>4, EmitAck DEF Quiet
  <1>7. Quiet(s, emit_ack(t))
    BY <1>4, <1>6, QuietTransitive
  <1> QED
    BY <1>4, <1>5, <1>7, QuietTurn DEF Quiet, Alike

LEMMA Aborts ==
    ASSUME NEW s \in HandlerState
    PROVE  Turn(s, Abort(s)) /\ Abort(s).c = Closed(s.c.generation)
  <1> DEFINE t == emit_segment(s, s.c.nxt, s.c.rnxt, {"RST", "ACK"}, <<>>)
             u == IF s.c.state \in {"LISTEN", "SYN_SENT"} THEN s ELSE t
             v == close_with_event(u, "CLOSED")
  <1>1. s.c \in Connection /\ s.c.nxt \in Seqno /\ s.c.rnxt \in Seqno /\ s.c.generation \in Nat
    BY DEF HandlerState, Connection
  <1>2. {"RST", "ACK"} \in SUBSET Flag /\ <<>> \in Bytes(NS_TCP_LOCAL_MSS)
    BY EmptyIs, Sizes DEF Flag
  <1>3. Quiet(s, t)
    BY <1>1, <1>2, EmitSegment
  <1>4. Abort(s) = v
    BY DEF Abort
  <1> HIDE DEF t
  <1>5. u \in HandlerState /\ u.c.generation = s.c.generation
    BY <1>3 DEF Quiet, Alike
  <1> HIDE DEF u
  <1>6. Step(u, v) /\ Settled(v.c) /\ v.c = Closed(s.c.generation) /\ "CLOSED" \in Event
    <2>1. "CLOSED" \in Event
      BY DEF Event
    <2> QED
      BY <1>5, <2>1, CloseWithEvent
  <1> HIDE DEF v
  <1>7. Goes(s.c, v.c)
    BY <1>1, <1>6, ClosedIs DEF Goes
  <1> QED
    BY <1>4, <1>6, <1>7 DEF Turn, Step

LEMMA Closes ==
    ASSUME NEW s \in HandlerState, Good(s.c), s.c.state \notin Idle
    PROVE  /\ Turn(s, CloseConnection(s))
           /\ CloseConnection(s).c.state = "CLOSED" \/ CloseConnection(s).c.want_fin
  <1>1. CASE s.c.state \in Opening
    <2>1. CloseConnection(s) = Abort(s)
      BY <1>1 DEF CloseConnection, Opening
    <2>2. s.c.generation \in Nat
      BY DEF HandlerState, Connection
    <2> QED
      BY <2>1, <2>2, Aborts, ClosedIs
  <1>2. CASE s.c.state \notin Opening
    <2> DEFINE D(y) == [s.c EXCEPT !.want_fin = y]
               d == D(TRUE)
               t == [s EXCEPT !.c = d]
               f == flush_send(t)
    <2>1. CloseConnection(s) = f
      BY <1>2 DEF CloseConnection, Opening, HandlerState
    <2>2. s.c \in Connection /\ Sound(s.c) /\ s.c.tx_sent <= Len(s.c.tx)
      BY DEF Good
    <2>3. \A y \in BOOLEAN :
            /\ D(y) \in Connection /\ D(y).want_fin = y
            /\ D(y).state = s.c.state /\ D(y).generation = s.c.generation
            /\ D(y).parent = s.c.parent /\ D(y).accepted = s.c.accepted
            /\ D(y).fin_sent = s.c.fin_sent
            /\ D(y).una = s.c.una /\ D(y).nxt = s.c.nxt /\ D(y).tx = s.c.tx
            /\ D(y).tx_sent = s.c.tx_sent /\ D(y).fin_sequence = s.c.fin_sequence
            /\ D(y).rto = s.c.rto
      BY <2>2 DEF Connection
    <2> HIDE DEF D
    <2>4. /\ d \in Connection /\ d.want_fin
          /\ d.state = s.c.state /\ d.generation = s.c.generation
          /\ d.parent = s.c.parent /\ d.accepted = s.c.accepted /\ d.fin_sent = s.c.fin_sent
          /\ d.una = s.c.una /\ d.nxt = s.c.nxt /\ d.tx = s.c.tx
          /\ d.tx_sent = s.c.tx_sent /\ d.fin_sequence = s.c.fin_sequence /\ d.rto = s.c.rto
      BY <2>3
    <2> HIDE DEF d
    <2>5. Good(d) /\ Goes(s.c, d)
      BY <1>2, <2>2, <2>4 DEF Good, Sound, Goes
    <2>6. t \in HandlerState /\ t.c = d
      BY <2>4, WithC
    <2> HIDE DEF t
    <2>7. Step(s, t) /\ t.c.state \notin Idle /\ t.c.state # "CLOSED"
      BY <2>4, <2>5, <2>6 DEF Step, Idle
    <2>8. Turn(t, f) /\ f.c.state \notin Idle
      BY <2>5, <2>6, <2>7, FlushSend DEF Turn
    <2> HIDE DEF f
    <2>9. f.c.want_fin
      BY <2>4, <2>6, <2>8 DEF Turn, Step, Goes, Idle
    <2> QED
      BY <2>1, <2>7, <2>8, <2>9, TurnTransitive
  <1> QED
    BY <1>1, <1>2

----------------------------------------------------------------------------
\* New connections.

LEMMA HandlingIs ==
    ASSUME NEW c \in Connection, NEW room \in Nat
    PROVE  Handling(c, room) \in HandlerState /\ Handling(c, room).c = c
  BY DEF Handling, HandlerState

LEMMA RoomIs ==
    ASSUME NEW room \in Room
    PROVE  room \in Nat
  BY Sizes DEF Room

\* A connection that has sent, or is about to send, its SYN.
Half(c) ==
    /\ c \in Connection /\ c.state \in Opening /\ c.nxt = Add(c.iss, 1) /\ c.una = c.iss
    /\ c.tx = <<>> /\ c.tx_sent = 0 /\ ~c.want_fin /\ ~c.fin_sent

LEMMA HalfGood ==
    ASSUME NEW c, Half(c)
    PROVE  LET d == start_retransmit_timer(c)
           IN  /\ Good(d) /\ Settled(d) /\ d.state = c.state /\ d.parent = c.parent
               /\ d.accepted = c.accepted /\ d.generation = c.generation
  <1> DEFINE d == start_retransmit_timer(c)
  <1>1. c \in Connection /\ c.iss \in Seqno
    BY DEF Half, Connection
  <1>2. Sub(c.nxt, c.una) = 1
    BY <1>1, NextOf DEF Half
  <1>3. /\ d \in Connection /\ d.rto /\ d.state = c.state /\ d.generation = c.generation
        /\ d.parent = c.parent /\ d.accepted = c.accepted /\ d.want_fin = c.want_fin
        /\ d.fin_sent = c.fin_sent /\ d.iss = c.iss /\ d.una = c.una /\ d.nxt = c.nxt
        /\ d.tx = c.tx /\ d.tx_sent = c.tx_sent
    BY <1>1, StartTimer
  <1> HIDE DEF d
  <1>4. Good(d)
    BY <1>2, <1>3, Sizes DEF Good, Sound, Half, Opening, Finishing
  <1>5. Settled(d)
    BY <1>3, <1>4, OpeningIs DEF Half
  <1> QED
    BY <1>3, <1>4, <1>5 DEF d

LEMMA HalfQuiet ==
    ASSUME NEW s, NEW t, Half(s.c), Quiet(s, t)
    PROVE  Half(t.c)
  BY DEF Half, Quiet, Alike, HandlerState

----------------------------------------------------------------------------
\* The tables.

Socket == [open : BOOLEAN, bound : BOOLEAN, listening : BOOLEAN, connected : BOOLEAN,
           port : Nat, handle : {NoHandle} \cup (Slot \X Nat), last : Event \cup {"none"}]

TablesInv ==
    /\ conn \in [Host -> [Slot -> Connection]] /\ sock \in [Host -> [Fd -> Socket]]
    /\ order \in [Host -> Nat] /\ iss \in [Host -> Seqno]
    /\ ephemeral \in [Host -> Nat] /\ sent \in [Host -> Nat]
    /\ net \in SUBSET [to : Host, seg : Packet]

\* Every connection is as the handlers need it.
GoodInv == \A h \in Host, x \in Slot : Good(conn[h][x]) /\ Settled(conn[h][x])

\* A handle names a generation its slot has reached, no two sockets hold the same
\* one, a child has a listener and no socket, and every other connection that
\* nobody holds is closing or was overwritten (A).
Tidy(C, S, A) ==
    /\ \A f \in Fd : S[f].handle # NoHandle =>
          S[f].handle[2] <= C[S[f].handle[1]].generation
    /\ \A f, g \in Fd :
          S[f].open /\ S[g].open /\ S[f].handle # NoHandle /\ S[f].handle = S[g].handle => f = g
    /\ \A x \in Slot : C[x].state # "CLOSED" /\ C[x].parent # NO_PARENT =>
          /\ C[x].state # "LISTEN" /\ C[C[x].parent].state = "LISTEN"
          /\ \A f \in Fd : S[f].open => S[f].handle # <<x, C[x].generation>>
    /\ \A x \in Slot : C[x].state # "CLOSED" =>
          \/ C[x].want_fin \/ C[x].parent # NO_PARENT \/ <<x, C[x].generation>> \in A
          \/ \E f \in Fd : S[f].open /\ S[f].handle = <<x, C[x].generation>>

Left(h) == {k \in Slot \X Nat : <<h, k>> \in abandoned}

TidyInv == \A h \in Host : Tidy(conn[h], sock[h], Left(h))

TcpInv == TablesInv /\ GoodInv /\ TidyInv

\* Two socket tables that hold the same handles.
SameHolders(S, T) ==
    T \in [Fd -> Socket] /\ \A f \in Fd : T[f].open = S[f].open /\ T[f].handle = S[f].handle

LEMMA SocketIs ==
    ASSUME NEW k \in Socket
    PROVE  /\ k.handle # NoHandle => k.handle[1] \in Slot /\ k.handle[2] \in Nat
           /\ k.handle = NoHandle \/ k.handle \in Slot \X Nat
           /\ k.open \in BOOLEAN
  BY DEF Socket

LEMMA HandleIs ==
    ASSUME NEW x \in Slot, NEW g \in Nat
    PROVE  <<x, g>> # NoHandle /\ <<x, g>> \in Slot \X Nat
  BY DEF NoHandle, Slot

\* A handler that goes on with a connection.
LEMMA TidyTurn ==
    ASSUME NEW C \in [Slot -> Connection], NEW S \in [Fd -> Socket], NEW A, Tidy(C, S, A),
           NEW T, SameHolders(S, T), NEW x \in Slot, C[x].state # "CLOSED",
           NEW d \in Connection, Goes(C[x], d), C[x].state = "LISTEN" => d.state = "LISTEN"
    PROVE  Tidy([C EXCEPT ![x] = d], T, A)
  <1> DEFINE E == [C EXCEPT ![x] = d]
  <1>1. /\ E[x] = d /\ \A y \in Slot : y # x => E[y] = C[y]
        /\ \A y \in Slot : E[y].generation = C[y].generation
    BY DEF Goes
  <1>2. \A y \in Slot : C[y].state = "LISTEN" => E[y].state = "LISTEN"
    BY <1>1
  <1>3. \A y \in Slot : C[y].parent # NO_PARENT => C[y].parent \in Slot
    BY DEF Connection
  <1> HIDE DEF E
  <1>4. \A f \in Fd : T[f].handle # NoHandle => T[f].handle[2] <= E[T[f].handle[1]].generation
    BY <1>1, SocketIs DEF Tidy, SameHolders
  <1>5. \A f, g \in Fd :
          T[f].open /\ T[g].open /\ T[f].handle # NoHandle /\ T[f].handle = T[g].handle => f = g
    BY DEF Tidy, SameHolders
  <1>6. ASSUME NEW y \in Slot, E[y].state # "CLOSED", E[y].parent # NO_PARENT
        PROVE  /\ E[y].state # "LISTEN" /\ E[E[y].parent].state = "LISTEN"
               /\ \A f \in Fd : T[f].open => T[f].handle # <<y, E[y].generation>>
    <2>1. /\ C[y].state # "CLOSED" /\ C[y].parent = E[y].parent
          /\ E[y].state = "LISTEN" <=> C[y].state = "LISTEN"
      BY <1>1, <1>6 DEF Goes
    <2>2. /\ C[y].state # "LISTEN" /\ C[C[y].parent].state = "LISTEN"
          /\ \A f \in Fd : S[f].open => S[f].handle # <<y, C[y].generation>>
      BY <1>6, <2>1 DEF Tidy
    <2>3. E[C[y].parent].state = "LISTEN"
      BY <1>2, <1>3, <1>6, <2>1, <2>2
    <2> QED
      BY <1>1, <2>1, <2>2, <2>3 DEF SameHolders
  <1>7. ASSUME NEW y \in Slot, E[y].state # "CLOSED"
        PROVE  \/ E[y].want_fin \/ E[y].parent # NO_PARENT \/ <<y, E[y].generation>> \in A
               \/ \E f \in Fd : T[f].open /\ T[f].handle = <<y, E[y].generation>>
    <2>1. /\ C[y].state # "CLOSED" /\ C[y].parent = E[y].parent
          /\ C[y].want_fin => E[y].want_fin
      BY <1>1, <1>7 DEF Goes
    <2>2. \/ C[y].want_fin \/ C[y].parent # NO_PARENT \/ <<y, C[y].generation>> \in A
          \/ \E f \in Fd : S[f].open /\ S[f].handle = <<y, C[y].generation>>
      BY <2>1 DEF Tidy
    <2> QED
      BY <1>1, <2>1, <2>2 DEF SameHolders
  <1>8. Tidy(E, T, A)
    BY <1>4, <1>5, <1>6, <1>7 DEF Tidy
  <1> QED
    BY <1>8 DEF E

\* A free slot that was taken and given back.
LEMMA TidyFree ==
    ASSUME NEW C \in [Slot -> Connection], NEW S \in [Fd -> Socket], NEW A, Tidy(C, S, A),
           NEW x \in Slot, C[x].state = "CLOSED",
           NEW d \in Connection, d.state = "CLOSED", d.generation = C[x].generation + 1
    PROVE  Tidy([C EXCEPT ![x] = d], S, A)
  <1> DEFINE E == [C EXCEPT ![x] = d]
  <1>1. E[x] = d /\ \A y \in Slot : y # x => E[y] = C[y]
    OBVIOUS
  <1>2. \A y \in Slot : /\ C[y].parent # NO_PARENT => C[y].parent \in Slot
                        /\ C[y].generation \in Nat
    BY DEF Connection
  <1> HIDE DEF E
  <1>3. \A f \in Fd : S[f].handle # NoHandle => S[f].handle[2] <= E[S[f].handle[1]].generation
    <2> SUFFICES ASSUME NEW f \in Fd, S[f].handle # NoHandle
                 PROVE  S[f].handle[2] <= E[S[f].handle[1]].generation
      OBVIOUS
    <2>1. /\ S[f].handle[1] \in Slot /\ S[f].handle[2] \in Nat
          /\ S[f].handle[2] <= C[S[f].handle[1]].generation
      BY SocketIs DEF Tidy
    <2>2. CASE S[f].handle[1] = x
      <3>1. C[x].generation \in Nat /\ S[f].handle[2] <= C[x].generation
        BY <1>2, <2>1, <2>2
      <3> QED
        BY <1>1, <2>1, <2>2, <3>1
    <2>3. CASE S[f].handle[1] # x
      BY <1>1, <2>1, <2>3
    <2> QED
      BY <2>2, <2>3
  <1>4. ASSUME NEW y \in Slot, E[y].state # "CLOSED"
        PROVE  /\ E[y] = C[y]
               /\ E[y].parent # NO_PARENT => E[E[y].parent] = C[C[y].parent]
    BY <1>1, <1>2, <1>4 DEF Tidy
  <1>5. ASSUME NEW y \in Slot, E[y].state # "CLOSED", E[y].parent # NO_PARENT
        PROVE  /\ E[y].state # "LISTEN" /\ E[E[y].parent].state = "LISTEN"
               /\ \A f \in Fd : S[f].open => S[f].handle # <<y, E[y].generation>>
    BY <1>4, <1>5 DEF Tidy
  <1>6. ASSUME NEW y \in Slot, E[y].state # "CLOSED"
        PROVE  \/ E[y].want_fin \/ E[y].parent # NO_PARENT \/ <<y, E[y].generation>> \in A
               \/ \E f \in Fd : S[f].open /\ S[f].handle = <<y, E[y].generation>>
    <2>1. E[y] = C[y]
      BY <1>4, <1>6
    <2>2. \/ C[y].want_fin \/ C[y].parent # NO_PARENT \/ <<y, C[y].generation>> \in A
          \/ \E f \in Fd : S[f].open /\ S[f].handle = <<y, C[y].generation>>
      BY <1>6, <2>1 DEF Tidy
    <2> QED
      BY <2>1, <2>2
  <1>7. \A f, g \in Fd :
          S[f].open /\ S[g].open /\ S[f].handle # NoHandle /\ S[f].handle = S[g].handle => f = g
    BY DEF Tidy
  <1>8. Tidy(E, S, A)
    BY <1>3, <1>5, <1>6, <1>7 DEF Tidy
  <1> QED
    BY <1>8 DEF E

\* A listener's new child.
LEMMA TidyChild ==
    ASSUME NEW C \in [Slot -> Connection], NEW S \in [Fd -> Socket], NEW A, Tidy(C, S, A),
           NEW T, SameHolders(S, T), NEW x \in Slot, C[x].state = "CLOSED",
           NEW d \in Connection, d.generation = C[x].generation + 1, d.state # "LISTEN",
           d.parent # NO_PARENT, C[d.parent].state = "LISTEN"
    PROVE  Tidy([C EXCEPT ![x] = d], T, A)
  <1> DEFINE E == [C EXCEPT ![x] = d]
  <1>1. E[x] = d /\ \A y \in Slot : y # x => E[y] = C[y]
    OBVIOUS
  <1>2. \A y \in Slot : /\ C[y].parent # NO_PARENT => C[y].parent \in Slot
                        /\ C[y].generation \in Nat
    BY DEF Connection
  <1>3. d.parent \in Slot
    BY DEF Connection
  <1> HIDE DEF E
  <1>4. ASSUME NEW f \in Fd, T[f].handle # NoHandle
        PROVE  /\ T[f].handle[2] <= E[T[f].handle[1]].generation
               /\ T[f].handle # <<x, d.generation>>
    <2>1. /\ T[f].handle[1] \in Slot /\ T[f].handle[2] \in Nat
          /\ T[f].handle[2] <= C[T[f].handle[1]].generation
      BY <1>4, SocketIs DEF Tidy, SameHolders
    <2>2. CASE T[f].handle[1] = x
      <3>1. C[x].generation \in Nat /\ T[f].handle[2] <= C[x].generation
        BY <1>2, <2>1, <2>2
      <3>2. T[f].handle[2] # d.generation /\ T[f].handle[2] <= d.generation
        BY <2>1, <3>1
      <3> QED
        BY <1>1, <2>2, <3>2
    <2>3. CASE T[f].handle[1] # x
      BY <1>1, <2>1, <2>3
    <2> QED
      BY <2>2, <2>3
  <1>5. \A f \in Fd : T[f].handle # <<x, d.generation>>
    BY <1>4, HandleIs DEF Connection
  <1>6. ASSUME NEW y \in Slot, y # x, E[y].state # "CLOSED"
        PROVE  /\ E[y] = C[y]
               /\ E[y].parent # NO_PARENT => E[E[y].parent] = C[C[y].parent]
    BY <1>1, <1>2, <1>6 DEF Tidy
  <1>7. ASSUME NEW y \in Slot, E[y].state # "CLOSED", E[y].parent # NO_PARENT
        PROVE  /\ E[y].state # "LISTEN" /\ E[E[y].parent].state = "LISTEN"
               /\ \A f \in Fd : T[f].open => T[f].handle # <<y, E[y].generation>>
    <2>1. CASE y = x
      BY <1>1, <1>3, <1>5, <2>1
    <2>2. CASE y # x
      BY <1>6, <1>7, <2>2 DEF Tidy, SameHolders
    <2> QED
      BY <2>1, <2>2
  <1>8. ASSUME NEW y \in Slot, E[y].state # "CLOSED"
        PROVE  \/ E[y].want_fin \/ E[y].parent # NO_PARENT \/ <<y, E[y].generation>> \in A
               \/ \E f \in Fd : T[f].open /\ T[f].handle = <<y, E[y].generation>>
    <2>1. CASE y = x
      BY <1>1, <2>1
    <2>2. CASE y # x
      <3>1. E[y] = C[y]
        BY <1>6, <1>8, <2>2
      <3>2. \/ C[y].want_fin \/ C[y].parent # NO_PARENT \/ <<y, C[y].generation>> \in A
            \/ \E f \in Fd : S[f].open /\ S[f].handle = <<y, C[y].generation>>
        BY <1>8, <3>1 DEF Tidy
      <3> QED
        BY <3>1, <3>2 DEF SameHolders
    <2> QED
      BY <2>1, <2>2
  <1>9. \A f, g \in Fd :
          T[f].open /\ T[g].open /\ T[f].handle # NoHandle /\ T[f].handle = T[g].handle => f = g
    BY DEF Tidy, SameHolders
  <1>10. Tidy(E, T, A)
    BY <1>4, <1>7, <1>8, <1>9 DEF Tidy
  <1> QED
    BY <1>10 DEF E

\* A new connection that socket f holds; what f held before is dead or in B.
LEMMA TidyHeld ==
    ASSUME NEW C \in [Slot -> Connection], NEW S \in [Fd -> Socket], NEW A, Tidy(C, S, A),
           NEW x \in Slot, C[x].state = "CLOSED",
           NEW d \in Connection, d.generation = C[x].generation + 1, d.parent = NO_PARENT,
           NEW T \in [Fd -> Socket], NEW f \in Fd, T[f].open,
           T[f].handle = <<x, d.generation>>,
           \A g \in Fd : g # f => T[g].open = S[g].open /\ T[g].handle = S[g].handle,
           NEW B, A \subseteq B,
           \A y \in Slot : /\ C[y].state # "CLOSED" /\ S[f].open
                           /\ S[f].handle = <<y, C[y].generation>>
                           => <<y, C[y].generation>> \in B
    PROVE  Tidy([C EXCEPT ![x] = d], T, B)
  <1> DEFINE E == [C EXCEPT ![x] = d]
  <1>1. E[x] = d /\ \A y \in Slot : y # x => E[y] = C[y]
    OBVIOUS
  <1>2. \A y \in Slot : /\ C[y].parent # NO_PARENT => C[y].parent \in Slot
                        /\ C[y].generation \in Nat
    BY DEF Connection
  <1>3. d.generation \in Nat /\ T[f].handle # NoHandle
    BY HandleIs DEF Connection
  <1> HIDE DEF E
  <1>4. ASSUME NEW g \in Fd, g # f, T[g].handle # NoHandle
        PROVE  /\ T[g].handle[2] <= E[T[g].handle[1]].generation
               /\ T[g].handle # <<x, d.generation>>
    <2>1. /\ T[g].handle[1] \in Slot /\ T[g].handle[2] \in Nat
          /\ T[g].handle[2] <= C[T[g].handle[1]].generation
      BY <1>4, SocketIs DEF Tidy
    <2>2. CASE T[g].handle[1] = x
      <3>1. C[x].generation \in Nat /\ T[g].handle[2] <= C[x].generation
        BY <1>2, <2>1, <2>2
      <3>2. T[g].handle[2] # d.generation /\ T[g].handle[2] <= d.generation
        BY <2>1, <3>1
      <3> QED
        BY <1>1, <2>2, <3>2
    <2>3. CASE T[g].handle[1] # x
      BY <1>1, <2>1, <2>3
    <2> QED
      BY <2>2, <2>3
  <1>5. \A g \in Fd : T[g].handle # NoHandle => T[g].handle[2] <= E[T[g].handle[1]].generation
    <2>1. T[f].handle[1] = x /\ T[f].handle[2] = d.generation
      OBVIOUS
    <2> QED
      BY <1>1, <1>3, <1>4, <2>1
  <1>6. ASSUME NEW i \in Fd, NEW j \in Fd,
               T[i].open /\ T[j].open /\ T[i].handle # NoHandle /\ T[i].handle = T[j].handle
        PROVE  i = j
    <2>1. CASE i = f \/ j = f
      BY <1>4, <1>6, <2>1
    <2>2. CASE i # f /\ j # f
      BY <1>6, <2>2 DEF Tidy
    <2> QED
      BY <2>1, <2>2
  <1>7. ASSUME NEW y \in Slot, E[y].state # "CLOSED", E[y].parent # NO_PARENT
        PROVE  /\ E[y].state # "LISTEN" /\ E[E[y].parent].state = "LISTEN"
               /\ \A g \in Fd : T[g].open => T[g].handle # <<y, E[y].generation>>
    <2>1. y # x /\ E[y] = C[y]
      BY <1>1, <1>7
    <2>2. /\ C[y].state # "LISTEN" /\ C[C[y].parent].state = "LISTEN"
          /\ \A g \in Fd : S[g].open => S[g].handle # <<y, C[y].generation>>
      BY <1>7, <2>1 DEF Tidy
    <2>3. E[C[y].parent] = C[C[y].parent]
      BY <1>1, <1>2, <1>7, <2>1, <2>2
    <2> QED
      BY <2>1, <2>2, <2>3
  <1>8. ASSUME NEW y \in Slot, E[y].state # "CLOSED"
        PROVE  \/ E[y].want_fin \/ E[y].parent # NO_PARENT \/ <<y, E[y].generation>> \in B
               \/ \E g \in Fd : T[g].open /\ T[g].handle = <<y, E[y].generation>>
    <2>1. CASE y = x
      BY <1>1, <2>1
    <2>2. CASE y # x
      <3>1. E[y] = C[y]
        BY <1>1, <2>2
      <3>2. \/ C[y].want_fin \/ C[y].parent # NO_PARENT \/ <<y, C[y].generation>> \in A
            \/ \E g \in Fd : S[g].open /\ S[g].handle = <<y, C[y].generation>>
        BY <1>8, <3>1 DEF Tidy
      <3> QED
        BY <1>8, <3>1, <3>2
    <2> QED
      BY <2>1, <2>2
  <1>9. Tidy(E, T, B)
    BY <1>5, <1>6, <1>7, <1>8 DEF Tidy
  <1> QED
    BY <1>9 DEF E

\* Socket f lets go of what it held.
LEMMA TidyDrop ==
    ASSUME NEW C \in [Slot -> Connection], NEW S \in [Fd -> Socket], NEW A, Tidy(C, S, A),
           NEW E \in [Slot -> Connection],
           \A y \in Slot : E[y] = C[y] \/ (C[y].state # "CLOSED" /\ Goes(C[y], E[y])),
           \A y \in Slot : E[y].state # "CLOSED" /\ E[y].parent # NO_PARENT =>
                              E[E[y].parent].state = C[E[y].parent].state,
           NEW T \in [Fd -> Socket], NEW f \in Fd, T[f].handle = NoHandle,
           \A g \in Fd : g # f => T[g].open = S[g].open /\ T[g].handle = S[g].handle,
           \A y \in Slot : S[f].open /\ S[f].handle = <<y, C[y].generation>>
                           => E[y].state = "CLOSED" \/ E[y].want_fin
    PROVE  Tidy(E, T, A)
  <1>1. ASSUME NEW y \in Slot
        PROVE  /\ E[y].generation = C[y].generation /\ C[y].generation \in Nat
               /\ E[y].state # "CLOSED" =>
                    /\ C[y].state # "CLOSED" /\ E[y].parent = C[y].parent
                    /\ E[y].state = "LISTEN" <=> C[y].state = "LISTEN"
                    /\ C[y].want_fin => E[y].want_fin
    <2>1. C[y].generation \in Nat
      BY DEF Connection
    <2>2. CASE E[y] = C[y]
      BY <2>1, <2>2
    <2>3. CASE C[y].state # "CLOSED" /\ Goes(C[y], E[y])
      BY <2>1, <2>3 DEF Goes
    <2> QED
      BY <2>2, <2>3
  <1>2. \A g \in Fd : T[g].handle # NoHandle =>
          /\ g # f /\ T[g].handle[2] <= E[T[g].handle[1]].generation
    BY <1>1, SocketIs DEF Tidy
  <1>3. \A i, j \in Fd :
          T[i].open /\ T[j].open /\ T[i].handle # NoHandle /\ T[i].handle = T[j].handle => i = j
    BY <1>2 DEF Tidy
  <1>4. ASSUME NEW y \in Slot, E[y].state # "CLOSED", E[y].parent # NO_PARENT
        PROVE  /\ E[y].state # "LISTEN" /\ E[E[y].parent].state = "LISTEN"
               /\ \A g \in Fd : T[g].open => T[g].handle # <<y, E[y].generation>>
    <2>1. /\ C[y].state # "CLOSED" /\ E[y].parent = C[y].parent
          /\ E[y].state = "LISTEN" <=> C[y].state = "LISTEN"
          /\ E[y].generation = C[y].generation /\ C[y].generation \in Nat
      BY <1>1, <1>4
    <2>2. /\ C[y].state # "LISTEN" /\ C[C[y].parent].state = "LISTEN"
          /\ \A g \in Fd : S[g].open => S[g].handle # <<y, C[y].generation>>
      BY <1>4, <2>1 DEF Tidy
    <2>3. E[E[y].parent].state = "LISTEN"
      BY <1>4, <2>1, <2>2
    <2> QED
      BY <2>1, <2>2, <2>3, HandleIs, ZenonT(30)
  <1>5. ASSUME NEW y \in Slot, E[y].state # "CLOSED"
        PROVE  \/ E[y].want_fin \/ E[y].parent # NO_PARENT \/ <<y, E[y].generation>> \in A
               \/ \E g \in Fd : T[g].open /\ T[g].handle = <<y, E[y].generation>>
    <2>1. /\ C[y].state # "CLOSED" /\ E[y].parent = C[y].parent
          /\ C[y].want_fin => E[y].want_fin
          /\ E[y].generation = C[y].generation
      BY <1>1, <1>5
    <2>2. \/ C[y].want_fin \/ C[y].parent # NO_PARENT \/ <<y, C[y].generation>> \in A
          \/ \E g \in Fd : S[g].open /\ S[g].handle = <<y, C[y].generation>>
      BY <2>1 DEF Tidy
    <2>3. ASSUME NEW g \in Fd, S[g].open, S[g].handle = <<y, C[y].generation>>
          PROVE  E[y].want_fin \/ (T[g].open /\ T[g].handle = <<y, E[y].generation>>)
      BY <1>5, <2>1, <2>3
    <2> QED
      BY <2>1, <2>2, <2>3
  <1> QED
    BY <1>2, <1>3, <1>4, <1>5 DEF Tidy

\* A child that goes to socket g.
LEMMA TidyAccept ==
    ASSUME NEW C \in [Slot -> Connection], NEW S \in [Fd -> Socket], NEW A, Tidy(C, S, A),
           NEW x \in Slot, C[x].state \notin Idle, C[x].parent # NO_PARENT,
           NEW d \in Connection, d.state = C[x].state, d.generation = C[x].generation,
           d.parent = NO_PARENT,
           NEW T \in [Fd -> Socket], NEW f \in Fd, ~S[f].open, T[f].open,
           T[f].handle = <<x, C[x].generation>>,
           \A g \in Fd : g # f => T[g] = S[g]
    PROVE  Tidy([C EXCEPT ![x] = d], T, A)
  <1> DEFINE E == [C EXCEPT ![x] = d]
  <1>1. E[x] = d /\ \A y \in Slot : y # x => E[y] = C[y]
    OBVIOUS
  <1>2. \A y \in Slot : /\ C[y].parent # NO_PARENT => C[y].parent \in Slot
                        /\ C[y].generation \in Nat
                        /\ C[y].state = "LISTEN" => y # x
    BY DEF Connection, Idle
  <1>3. \A g \in Fd : S[g].open => S[g].handle # <<x, C[x].generation>>
    BY DEF Tidy, Idle
  <1> HIDE DEF E
  <1>4. \A g \in Fd : T[g].handle # NoHandle => T[g].handle[2] <= E[T[g].handle[1]].generation
    <2>1. T[f].handle[1] = x /\ T[f].handle[2] = C[x].generation
      OBVIOUS
    <2>2. T[f].handle[2] <= E[T[f].handle[1]].generation
      BY <1>1, <1>2, <2>1
    <2>3. ASSUME NEW g \in Fd, g # f, T[g].handle # NoHandle
          PROVE  T[g].handle[2] <= E[T[g].handle[1]].generation
      <3>1. T[g].handle[1] \in Slot /\ T[g].handle[2] <= C[T[g].handle[1]].generation
        BY <2>3, SocketIs DEF Tidy
      <3>2. E[T[g].handle[1]].generation = C[T[g].handle[1]].generation
        BY <1>1, <3>1
      <3> QED
        BY <3>1, <3>2
    <2> QED
      BY <2>2, <2>3
  <1>5. ASSUME NEW i \in Fd, NEW j \in Fd,
               T[i].open /\ T[j].open /\ T[i].handle # NoHandle /\ T[i].handle = T[j].handle
        PROVE  i = j
    <2>1. CASE i = f \/ j = f
      BY <1>3, <1>5, <2>1
    <2>2. CASE i # f /\ j # f
      BY <1>5, <2>2 DEF Tidy
    <2> QED
      BY <2>1, <2>2
  <1>6. ASSUME NEW y \in Slot, E[y].state # "CLOSED", E[y].parent # NO_PARENT
        PROVE  /\ E[y].state # "LISTEN" /\ E[E[y].parent].state = "LISTEN"
               /\ \A g \in Fd : T[g].open => T[g].handle # <<y, E[y].generation>>
    <2>1. y # x /\ E[y] = C[y]
      BY <1>1, <1>6
    <2>2. /\ C[y].state # "LISTEN" /\ C[C[y].parent].state = "LISTEN"
          /\ \A g \in Fd : S[g].open => S[g].handle # <<y, C[y].generation>>
      BY <1>6, <2>1 DEF Tidy
    <2>3. E[C[y].parent] = C[C[y].parent]
      BY <1>1, <1>2, <1>6, <2>1, <2>2
    <2> QED
      BY <2>1, <2>2, <2>3
  <1>7. ASSUME NEW y \in Slot, E[y].state # "CLOSED"
        PROVE  \/ E[y].want_fin \/ E[y].parent # NO_PARENT \/ <<y, E[y].generation>> \in A
               \/ \E g \in Fd : T[g].open /\ T[g].handle = <<y, E[y].generation>>
    <2>1. CASE y = x
      BY <1>1, <2>1
    <2>2. CASE y # x
      <3>1. E[y] = C[y]
        BY <1>1, <2>2
      <3>2. \/ C[y].want_fin \/ C[y].parent # NO_PARENT \/ <<y, C[y].generation>> \in A
            \/ \E g \in Fd : S[g].open /\ S[g].handle = <<y, C[y].generation>>
        BY <1>7, <3>1 DEF Tidy
      <3>3. ASSUME NEW g \in Fd, S[g].open PROVE T[g] = S[g]
        BY <3>3
      <3> QED
        BY <3>1, <3>2, <3>3
    <2> QED
      BY <2>1, <2>2
  <1>8. Tidy(E, T, A)
    BY <1>4, <1>5, <1>6, <1>7 DEF Tidy
  <1> QED
    BY <1>8 DEF E

\* A child that nobody takes.
LEMMA TidyEnds ==
    ASSUME NEW C \in [Slot -> Connection], NEW S \in [Fd -> Socket], NEW A, Tidy(C, S, A),
           NEW x \in Slot, C[x].state \notin Idle,
           NEW d \in Connection, d.generation = C[x].generation,
           d.state = "CLOSED" \/ (d.want_fin /\ d.parent = NO_PARENT)
    PROVE  Tidy([C EXCEPT ![x] = d], S, A)
  <1> DEFINE E == [C EXCEPT ![x] = d]
  <1>1. E[x] = d /\ \A y \in Slot : y # x => E[y] = C[y]
    OBVIOUS
  <1>2. \A y \in Slot : /\ C[y].parent # NO_PARENT => C[y].parent \in Slot
                        /\ C[y].state = "LISTEN" => y # x
                        /\ E[y].generation = C[y].generation
    BY DEF Connection, Idle
  <1> HIDE DEF E
  <1>3. \A f \in Fd : S[f].handle # NoHandle => S[f].handle[2] <= E[S[f].handle[1]].generation
    BY <1>2, SocketIs DEF Tidy
  <1>4. \A f, g \in Fd :
          S[f].open /\ S[g].open /\ S[f].handle # NoHandle /\ S[f].handle = S[g].handle => f = g
    BY DEF Tidy
  <1>5. ASSUME NEW y \in Slot, E[y].state # "CLOSED", E[y].parent # NO_PARENT
        PROVE  /\ E[y].state # "LISTEN" /\ E[E[y].parent].state = "LISTEN"
               /\ \A g \in Fd : S[g].open => S[g].handle # <<y, E[y].generation>>
    <2>1. y # x /\ E[y] = C[y]
      BY <1>1, <1>5
    <2>2. /\ C[y].state # "LISTEN" /\ C[C[y].parent].state = "LISTEN"
          /\ \A g \in Fd : S[g].open => S[g].handle # <<y, C[y].generation>>
      BY <1>5, <2>1 DEF Tidy
    <2>3. E[C[y].parent] = C[C[y].parent]
      BY <1>1, <1>2, <1>5, <2>1, <2>2
    <2> QED
      BY <2>1, <2>2, <2>3
  <1>6. ASSUME NEW y \in Slot, E[y].state # "CLOSED"
        PROVE  \/ E[y].want_fin \/ E[y].parent # NO_PARENT \/ <<y, E[y].generation>> \in A
               \/ \E g \in Fd : S[g].open /\ S[g].handle = <<y, E[y].generation>>
    <2>1. CASE y = x
      BY <1>1, <1>6, <2>1
    <2>2. CASE y # x
      <3>1. E[y] = C[y]
        BY <1>1, <2>2
      <3>2. \/ C[y].want_fin \/ C[y].parent # NO_PARENT \/ <<y, C[y].generation>> \in A
            \/ \E g \in Fd : S[g].open /\ S[g].handle = <<y, C[y].generation>>
        BY <1>6, <3>1 DEF Tidy
      <3> QED
        BY <3>1, <3>2
    <2> QED
      BY <2>1, <2>2
  <1>7. Tidy(E, S, A)
    BY <1>3, <1>4, <1>5, <1>6 DEF Tidy
  <1> QED
    BY <1>7 DEF E

----------------------------------------------------------------------------
\* One host's step.

LEMMA NotifiedIs ==
    ASSUME NEW S \in [Fd -> Socket], NEW k, NEW events \in Seq(Event)
    PROVE  SameHolders(S, Notified(S, k, events))
  <1>1. CASE events = <<>>
    BY <1>1 DEF Notified, SameHolders
  <1>2. CASE events # <<>>
    <2> DEFINE e == events[Len(events)]
               T == [f \in Fd |-> IF S[f].open /\ S[f].handle = k
                                  THEN [S[f] EXCEPT !.last = e] ELSE S[f]]
    <2>1. e \in Event
      BY <1>2
    <2>2. Notified(S, k, events) = T
      BY <1>2 DEF Notified
    <2> HIDE DEF e
    <2>3. ASSUME NEW f \in Fd
          PROVE  LET n == [S[f] EXCEPT !.last = e]
                 IN  n \in Socket /\ n.open = S[f].open /\ n.handle = S[f].handle
      BY <2>1 DEF Socket
    <2>4. SameHolders(S, T)
      BY <2>3 DEF SameHolders
    <2> QED
      BY <2>2, <2>4
  <1> QED
    BY <1>1, <1>2

LEMMA PeerIs == \A h \in Host : Peer[h] \in Host
  BY SocketsAssumption

LEMMA SentIs ==
    ASSUME TablesInv, NEW h \in Host, NEW s, s.out \in SUBSET Packet, NEW inflight,
           inflight \subseteq net, NEW cost, Sent(h, s, inflight, cost)
    PROVE  net' \in SUBSET [to : Host, seg : Packet]
  <1>1. {[to |-> Peer[h], seg |-> m] : m \in s.out} \subseteq [to : Host, seg : Packet]
    BY PeerIs
  <1> QED
    BY <1>1 DEF Sent, TablesInv

LEMMA TableUpdate ==
    ASSUME TablesInv, GoodInv, NEW h \in Host, NEW x \in Slot, NEW d, Good(d), Settled(d),
           conn' = [conn EXCEPT ![h][x] = d]
    PROVE  /\ conn' \in [Host -> [Slot -> Connection]] /\ GoodInv'
           /\ conn'[h] = [conn[h] EXCEPT ![x] = d]
           /\ \A j \in Host \ {h} : conn'[j] = conn[j]
  <1>1. d \in Connection /\ conn \in [Host -> [Slot -> Connection]]
    BY DEF Good, TablesInv
  <1>2. conn' \in [Host -> [Slot -> Connection]]
    BY <1>1
  <1>3. \A j \in Host, y \in Slot :
          conn'[j][y] = IF j = h /\ y = x THEN d ELSE conn[j][y]
    BY <1>1
  <1>4. GoodInv'
    <2> SUFFICES ASSUME NEW j \in Host, NEW y \in Slot
                 PROVE  Good(conn'[j][y]) /\ Settled(conn'[j][y])
      BY DEF GoodInv
    <2> QED
      BY <1>3 DEF GoodInv
  <1> QED
    BY <1>1, <1>2, <1>4

LEMMA TidyRest ==
    ASSUME TidyInv, NEW h \in Host, Tidy(conn'[h], sock'[h], Left(h)'),
           \A j \in Host \ {h} : conn'[j] = conn[j] /\ sock'[j] = sock[j] /\ Left(j)' = Left(j)
    PROVE  TidyInv'
  <1> SUFFICES ASSUME NEW j \in Host
               PROVE  Tidy(conn'[j], sock'[j], Left(j)')
    BY DEF TidyInv
  <1>1. CASE j = h
    BY <1>1
  <1>2. CASE j # h
    BY <1>2 DEF TidyInv
  <1> QED
    BY <1>1, <1>2

\* What Finish leaves of the tables.
Kept ==
    /\ conn' \in [Host -> [Slot -> Connection]] /\ sock' \in [Host -> [Fd -> Socket]]
    /\ net' \in SUBSET [to : Host, seg : Packet]
    /\ GoodInv' /\ TidyInv'

LEMMA KeptIs ==
    ASSUME Kept, order' \in [Host -> Nat], iss' \in [Host -> Seqno],
           ephemeral' \in [Host -> Nat], sent' \in [Host -> Nat]
    PROVE  TcpInv'
  BY DEF Kept, TcpInv, TablesInv

LEMMA LeftSame ==
    ASSUME abandoned' = abandoned
    PROVE  \A j \in Host : Left(j)' = Left(j)
  BY DEF Left

LEMMA SockUpdate ==
    ASSUME TablesInv, NEW h \in Host, NEW T \in [Fd -> Socket], sock' = [sock EXCEPT ![h] = T]
    PROVE  /\ sock' \in [Host -> [Fd -> Socket]] /\ sock'[h] = T
           /\ \A j \in Host \ {h} : sock'[j] = sock[j]
  BY DEF TablesInv

LEMMA Finishes ==
    ASSUME TcpInv, NEW h \in Host, NEW x \in Slot, conn[h][x].state # "CLOSED",
           NEW room \in Nat, NEW s, Turn(Handling(conn[h][x], room), s),
           conn[h][x].state = "LISTEN" => s.c.state = "LISTEN",
           NEW inflight, inflight \subseteq net, NEW cost, Finish(h, x, s, inflight, cost),
           abandoned' = abandoned
    PROVE  Kept
  <1> DEFINE c == conn[h][x]
             T == Notified(sock[h], Handle(h, x), s.events)
  <1>1. TablesInv /\ GoodInv /\ TidyInv
    BY DEF TcpInv
  <1>2. c \in Connection /\ conn[h] \in [Slot -> Connection] /\ sock[h] \in [Fd -> Socket]
    BY <1>1 DEF TablesInv
  <1>3. Handling(c, room) \in HandlerState /\ Handling(c, room).c = c
    BY <1>2, HandlingIs
  <1>4. s \in HandlerState /\ Good(s.c) /\ Settled(s.c) /\ Goes(c, s.c)
    BY <1>3 DEF Turn, Step
  <1>5. s.c \in Connection /\ s.out \in SUBSET Packet /\ s.events \in Seq(Event)
    BY <1>4 DEF HandlerState
  <1>6. /\ conn' = [conn EXCEPT ![h][x] = s.c] /\ sock' = [sock EXCEPT ![h] = T]
        /\ Sent(h, s, inflight, cost)
    BY <1>1 DEF Finish, TablesInv
  <1>7. SameHolders(sock[h], T)
    BY <1>2, <1>5, NotifiedIs
  <1> HIDE DEF T
  <1>8. /\ sock' \in [Host -> [Fd -> Socket]] /\ sock'[h] = T
        /\ \A j \in Host \ {h} : sock'[j] = sock[j]
    BY <1>1, <1>6, <1>7, SockUpdate DEF SameHolders
  <1>9. /\ conn' \in [Host -> [Slot -> Connection]] /\ GoodInv'
        /\ conn'[h] = [conn[h] EXCEPT ![x] = s.c]
        /\ \A j \in Host \ {h} : conn'[j] = conn[j]
    BY <1>1, <1>4, <1>6, TableUpdate
  <1>10. net' \in SUBSET [to : Host, seg : Packet]
    BY <1>1, <1>5, <1>6, SentIs
  <1>11. Tidy(conn'[h], sock'[h], Left(h)')
    <2>1. Tidy(conn[h], sock[h], Left(h))
      BY <1>1 DEF TidyInv
    <2>2. Tidy([conn[h] EXCEPT ![x] = s.c], T, Left(h))
      BY <1>2, <1>4, <1>5, <1>7, <2>1, TidyTurn
    <2> QED
      BY <1>8, <1>9, <2>2, LeftSame
  <1>12. TidyInv'
    BY <1>1, <1>8, <1>9, <1>11, LeftSame, TidyRest
  <1> QED
    BY <1>8, <1>9, <1>10, <1>12 DEF Kept

----------------------------------------------------------------------------
\* Arriving segments and time.

LEMMA AllocateIs ==
    ASSUME NEW c \in Connection
    PROVE  LET d == allocate_connection(c)
           IN  /\ d \in Connection /\ d.generation = c.generation + 1
               /\ d.state = "CLOSED" /\ d.parent = NO_PARENT /\ d.tx = <<>> /\ d.tx_sent = 0
               /\ ~d.want_fin /\ ~d.fin_sent
  <1> DEFINE g == c.generation + 1
             e == Closed(g)
             w == NS_TCP_RECV_CAPACITY
             d == [e EXCEPT !.rwnd = w]
  <1>1. g \in Nat
    BY DEF Connection
  <1> HIDE DEF g
  <1>2. w \in 0..NS_TCP_RECV_CAPACITY
    BY Sizes
  <1>3. e \in Connection
    BY <1>1, ClosedIs
  <1>4. /\ e.state = "CLOSED" /\ e.parent = NO_PARENT /\ e.tx = <<>> /\ e.tx_sent = 0
        /\ ~e.want_fin /\ ~e.fin_sent /\ e.generation = g
    BY DEF Closed
  <1> HIDE DEF e, w
  <1>5. d \in Connection /\ d.state = e.state /\ d.parent = e.parent /\ d.tx = e.tx
        /\ d.tx_sent = e.tx_sent /\ d.want_fin = e.want_fin /\ d.fin_sent = e.fin_sent
        /\ d.generation = e.generation
    BY <1>2, <1>3 DEF Connection
  <1>6. allocate_connection(c) = d
    BY DEF allocate_connection, e, g, w
  <1> HIDE DEF d
  <1> QED
    BY <1>4, <1>5, <1>6 DEF g

\* The fields in which a connection starts.
ChildAt(c, x, l, r, i, n, j, q, w) ==
    [c EXCEPT !.state = "SYN_RECEIVED", !.parent = x, !.lport = l, !.rport = r,
              !.irs = i, !.rnxt = n, !.iss = j, !.una = j,
              !.nxt = q, !.tx_sequence = q, !.wnd = w, !.wl1 = i]

StartsAs(c, d, z, x, j, q) ==
    /\ d \in Connection /\ d.state = z /\ d.parent = x
    /\ d.generation = c.generation /\ d.iss = j /\ d.una = j /\ d.nxt = q
    /\ d.tx = c.tx /\ d.tx_sent = c.tx_sent /\ d.want_fin = c.want_fin
    /\ d.fin_sent = c.fin_sent

LEMMA ChildAtIs ==
    ASSUME NEW c \in Connection, NEW x \in Slot, NEW l \in Nat, NEW r \in Nat,
           NEW i \in Seqno, NEW n \in Seqno, NEW j \in Seqno, NEW q \in Seqno,
           NEW w \in 0..NS_TCP_RECV_CAPACITY
    PROVE  StartsAs(c, ChildAt(c, x, l, r, i, n, j, q, w), "SYN_RECEIVED", x, j, q)
  <1> DEFINE d == ChildAt(c, x, l, r, i, n, j, q, w)
  <1>1. /\ d.state = "SYN_RECEIVED" /\ d.parent = x
        /\ d.generation = c.generation /\ d.iss = j /\ d.una = j /\ d.nxt = q
        /\ d.tx = c.tx /\ d.tx_sent = c.tx_sent /\ d.want_fin = c.want_fin
        /\ d.fin_sent = c.fin_sent
    BY DEF ChildAt, Connection
  <1>2. d \in Connection
    BY DEF ChildAt, Connection, State
  <1> QED
    BY <1>1, <1>2 DEF StartsAs

LEMMA PacketIs ==
    ASSUME NEW m \in Packet
    PROVE  /\ m.sport \in Nat /\ m.dport \in Nat /\ m.seq \in Seqno /\ m.ack \in Seqno
           /\ m.win \in 0..NS_TCP_RECV_CAPACITY
  BY DEF Packet

LEMMA FreeIs ==
    ASSUME NEW h, FreeSlots(h) # {}
    PROVE  Min(FreeSlots(h)) \in Slot /\ conn[h][Min(FreeSlots(h))].state = "CLOSED"
  <1>1. FreeSlots(h) \in SUBSET Nat
    BY DEF FreeSlots, Slot
  <1>2. Min(FreeSlots(h)) \in FreeSlots(h)
    BY <1>1, MinIn
  <1> QED
    BY <1>2 DEF FreeSlots

\* A segment that changes no connection.
LEMMA OnlySent ==
    ASSUME TcpInv, NEW h \in Host, NEW c \in Connection, NEW room \in Nat, NEW m \in Packet,
           NEW inflight, inflight \subseteq net, NEW cost,
           Sent(h, send_reset_for_segment(Handling(c, room), m), inflight, cost),
           UNCHANGED <<conn, sock>>, abandoned' = abandoned
    PROVE  Kept
  <1> DEFINE s == send_reset_for_segment(Handling(c, room), m)
  <1>1. TablesInv /\ GoodInv /\ TidyInv
    BY DEF TcpInv
  <1>2. s.out \in SUBSET Packet
    <2>1. Handling(c, room) \in HandlerState
      BY HandlingIs
    <2>2. s \in HandlerState
      BY <2>1, SendReset DEF Quiet
    <2> HIDE DEF s
    <2> QED
      BY <2>2 DEF HandlerState
  <1>3. net' \in SUBSET [to : Host, seg : Packet]
    BY <1>1, <1>2, SentIs
  <1>4. GoodInv' /\ TidyInv'
    BY <1>1 DEF GoodInv, TidyInv, Left
  <1> QED
    BY <1>1, <1>3, <1>4 DEF Kept, TablesInv

LEMMA ListenSyn ==
    ASSUME TcpInv, NEW h \in Host, NEW x \in Slot, conn[h][x].state = "LISTEN",
           NEW m \in Packet, NEW room \in Nat, NEW inflight, inflight \subseteq net, NEW cost,
           handle_listen_syn(h, x, m, room, inflight, cost), abandoned' = abandoned
    PROVE  Kept /\ iss' \in [Host -> Seqno]
  <1> DEFINE y == Min(FreeSlots(h))
             b == allocate_connection(conn[h][y])
             q == Add(iss[h], 1)
             n == Add(m.seq, 1)
             c == ChildAt(b, x, m.dport, m.sport, m.seq, n, iss[h], q, m.win)
             s == EmitSynAck(Handling(c, room))
             e == start_retransmit_timer(s.c)
             t == [s EXCEPT !.c = e]
             T == Notified(sock[h], Handle(h, y), t.events)
  <1>1. TablesInv /\ GoodInv /\ TidyInv
    BY DEF TcpInv
  <1>2. /\ conn[h] \in [Slot -> Connection] /\ sock[h] \in [Fd -> Socket] /\ iss[h] \in Seqno
        /\ iss \in [Host -> Seqno]
    BY <1>1 DEF TablesInv
  <1>3. CASE /\ Sent(h, send_reset_for_segment(Handling(conn[h][x], room), m), inflight, cost)
             /\ UNCHANGED <<conn, sock, iss>>
    BY <1>2, <1>3, OnlySent
  <1>4. CASE /\ FreeSlots(h) # {} /\ Finish(h, y, t, inflight, cost)
             /\ iss' = [iss EXCEPT ![h] = Add(@, IssStep)]
    <2>1. y \in Slot /\ conn[h][y].state = "CLOSED"
      BY <1>4, FreeIs
    <2> HIDE DEF y
    <2>2. conn[h][y] \in Connection
      BY <1>2, <2>1
    <2>3. /\ b \in Connection /\ b.generation = conn[h][y].generation + 1
          /\ b.tx = <<>> /\ b.tx_sent = 0 /\ ~b.want_fin /\ ~b.fin_sent
      BY <2>2, AllocateIs
    <2> HIDE DEF b
    <2>4. /\ m.sport \in Nat /\ m.dport \in Nat /\ m.seq \in Seqno /\ n \in Seqno
          /\ m.win \in 0..NS_TCP_RECV_CAPACITY /\ q \in Seqno
      BY <1>2, PacketIs, NextOf
    <2> HIDE DEF n, q
    <2>5. /\ c \in Connection /\ c.state = "SYN_RECEIVED" /\ c.parent = x
          /\ c.generation = b.generation /\ c.iss = iss[h] /\ c.una = iss[h] /\ c.nxt = q
          /\ c.tx = b.tx /\ c.tx_sent = b.tx_sent /\ c.want_fin = b.want_fin
          /\ c.fin_sent = b.fin_sent
      <3>1. StartsAs(b, c, "SYN_RECEIVED", x, iss[h], q)
        BY <1>2, <2>3, <2>4, ChildAtIs
      <3> HIDE DEF c
      <3> QED
        BY <3>1 DEF StartsAs
    <2> HIDE DEF c
    <2>6. Half(c)
      BY <2>3, <2>5 DEF Half, Opening, q
    <2>7. Handling(c, room) \in HandlerState /\ Handling(c, room).c = c
      BY <2>5, HandlingIs
    <2>8. Quiet(Handling(c, room), s)
      BY <2>7, EmitsSynAck
    <2> HIDE DEF s
    <2>9. s \in HandlerState /\ Half(s.c) /\ Alike(c, s.c)
      BY <2>6, <2>7, <2>8, HalfQuiet DEF Quiet
    <2>10. /\ Good(e) /\ Settled(e) /\ e.state = s.c.state /\ e.parent = s.c.parent
           /\ e.generation = s.c.generation
      BY <2>9, HalfGood
    <2> HIDE DEF e
    <2>11. e \in Connection /\ e.state = "SYN_RECEIVED" /\ e.parent = x
           /\ e.generation = conn[h][y].generation + 1
      BY <2>3, <2>5, <2>9, <2>10 DEF Good, Alike
    <2>12. t \in HandlerState /\ t.c = e
      BY <2>9, <2>11, WithC
    <2> HIDE DEF t
    <2>13. t.out \in SUBSET Packet /\ t.events \in Seq(Event)
      BY <2>12 DEF HandlerState
    <2>14. /\ conn' = [conn EXCEPT ![h][y] = e] /\ sock' = [sock EXCEPT ![h] = T]
           /\ Sent(h, t, inflight, cost)
      BY <1>1, <1>4, <2>12 DEF Finish, TablesInv
    <2>15. SameHolders(sock[h], T)
      BY <1>2, <2>13, NotifiedIs
    <2> HIDE DEF T
    <2>16. /\ sock' \in [Host -> [Fd -> Socket]] /\ sock'[h] = T
           /\ \A j \in Host \ {h} : sock'[j] = sock[j]
      BY <1>1, <2>14, <2>15, SockUpdate DEF SameHolders
    <2>17. /\ conn' \in [Host -> [Slot -> Connection]] /\ GoodInv'
           /\ conn'[h] = [conn[h] EXCEPT ![y] = e]
           /\ \A j \in Host \ {h} : conn'[j] = conn[j]
      BY <1>1, <2>1, <2>10, <2>14, TableUpdate
    <2>18. net' \in SUBSET [to : Host, seg : Packet]
      BY <1>1, <2>13, <2>14, SentIs
    <2>19. Tidy(conn'[h], sock'[h], Left(h)')
      <3>1. Tidy(conn[h], sock[h], Left(h))
        BY <1>1 DEF TidyInv
      <3>2. x # NO_PARENT
        BY DEF NO_PARENT, Slot
      <3>3. Tidy([conn[h] EXCEPT ![y] = e], T, Left(h))
        BY <1>2, <2>1, <2>11, <2>15, <3>1, <3>2, TidyChild
      <3> QED
        BY <2>16, <2>17, <3>3, LeftSame
    <2>20. TidyInv'
      BY <1>1, <2>16, <2>17, <2>19, LeftSame, TidyRest
    <2>21. iss' \in [Host -> Seqno]
      <3>1. Add(iss[h], IssStep) \in Seqno
        BY <1>2, AddIn, SocketsAssumption
      <3> QED
        BY <1>2, <1>4, <3>1
    <2> QED
      BY <2>16, <2>17, <2>18, <2>20, <2>21 DEF Kept
  <1>5. \/ /\ Sent(h, send_reset_for_segment(Handling(conn[h][x], room), m), inflight, cost)
           /\ UNCHANGED <<conn, sock, iss>>
        \/ /\ FreeSlots(h) # {} /\ Finish(h, y, t, inflight, cost)
           /\ iss' = [iss EXCEPT ![h] = Add(@, IssStep)]
    BY DEF handle_listen_syn, ChildAt
  <1> QED
    BY <1>3, <1>4, <1>5

LEMMA InputKeeps ==
    ASSUME TcpInv, NEW h \in Host, ns_tcp_input(h)
    PROVE  TcpInv'
  <1>1. PICK p \in net, room \in Room, again \in BOOLEAN :
          LET m == p.seg
              inflight == IF again THEN net ELSE net \ {p}
              cost == IF again THEN 1 ELSE 0
          IN  /\ \/ /\ Found(h, m) # {}
                    /\ LET x == Min(Found(h, m))
                           s == Receive(Handling(conn[h][x], room), m, order[h])
                       IN  /\ Finish(h, x, s, inflight, cost)
                           /\ order' = [order EXCEPT ![h] =
                                  @ + (IF s.c.order # conn[h][x].order THEN 1 ELSE 0)]
                    /\ UNCHANGED iss
                 \/ /\ Listener(h, m) # {}
                    /\ handle_listen_syn(h, Min(Listener(h, m)), m, room, inflight, cost)
                    /\ UNCHANGED order
                 \/ /\ Sent(h, send_reset_for_segment(Handling(Closed(0), room), m),
                            inflight, cost)
                    /\ UNCHANGED <<conn, sock, iss, order>>
              /\ UNCHANGED <<ephemeral, sent, abandoned>>
    BY ZenonT(30) DEF ns_tcp_input
  <1> DEFINE m == p.seg
             inflight == IF again THEN net ELSE net \ {p}
             cost == IF again THEN 1 ELSE 0
  <1>2. TablesInv /\ GoodInv /\ TidyInv
    BY DEF TcpInv
  <1>3. /\ conn[h] \in [Slot -> Connection] /\ order \in [Host -> Nat] /\ order[h] \in Nat
        /\ iss \in [Host -> Seqno] /\ ephemeral \in [Host -> Nat] /\ sent \in [Host -> Nat]
    BY <1>2 DEF TablesInv
  <1>4. m \in Packet /\ room \in Nat /\ inflight \subseteq net
    BY <1>2, RoomIs DEF TablesInv
  <1>5. /\ ephemeral' \in [Host -> Nat] /\ sent' \in [Host -> Nat] /\ abandoned' = abandoned
    BY <1>1, <1>3
  <1>6. CASE /\ Found(h, m) # {}
             /\ LET x == Min(Found(h, m))
                    s == Receive(Handling(conn[h][x], room), m, order[h])
                IN  /\ Finish(h, x, s, inflight, cost)
                    /\ order' = [order EXCEPT ![h] =
                           @ + (IF s.c.order # conn[h][x].order THEN 1 ELSE 0)]
             /\ UNCHANGED iss
    <2> DEFINE x == Min(Found(h, m))
               k == Handling(conn[h][x], room)
               s == Receive(k, m, order[h])
    <2>1. x \in Slot /\ conn[h][x].state \notin Idle
      <3>1. Found(h, m) \in SUBSET Nat
        BY DEF Found, Slot
      <3>2. x \in Found(h, m)
        BY <1>6, <3>1, MinIn
      <3> QED
        BY <3>2 DEF Found, Idle
    <2>2. Finish(h, x, s, inflight, cost)
      BY <1>6
    <2>3. order' \in [Host -> Nat]
      <3> DEFINE n == IF s.c.order # conn[h][x].order THEN 1 ELSE 0
      <3>1. n \in Nat
        OBVIOUS
      <3>2. order' = [order EXCEPT ![h] = @ + n]
        BY <1>6
      <3> HIDE DEF n
      <3> QED
        BY <1>3, <3>1, <3>2
    <2> HIDE DEF x
    <2>3a. /\ conn[h][x] \in Connection /\ Good(conn[h][x]) /\ Settled(conn[h][x])
      BY <1>2, <1>3, <2>1 DEF GoodInv
    <2>4. k \in HandlerState /\ k.c = conn[h][x]
      BY <1>4, <2>3a, HandlingIs
    <2>5. Turn(k, s)
      <3> HIDE DEF k
      <3> QED
        BY <1>3, <1>4, <2>1, <2>3a, <2>4, Receives
    <2> HIDE DEF s, inflight, cost, m
    <2>6. Kept
      BY <1>4, <1>5, <2>1, <2>2, <2>5, Finishes DEF Idle
    <2> QED
      BY <1>3, <1>5, <1>6, <2>3, <2>6, KeptIs
  <1>7. CASE /\ Listener(h, m) # {}
             /\ handle_listen_syn(h, Min(Listener(h, m)), m, room, inflight, cost)
             /\ UNCHANGED order
    <2> DEFINE x == Min(Listener(h, m))
    <2>1. x \in Slot /\ conn[h][x].state = "LISTEN"
      <3>1. Listener(h, m) \in SUBSET Nat
        BY DEF Listener, Slot
      <3>2. x \in Listener(h, m)
        BY <1>7, <3>1, MinIn
      <3> QED
        BY <3>2 DEF Listener
    <2>2. handle_listen_syn(h, x, m, room, inflight, cost)
      BY <1>7
    <2> HIDE DEF x, inflight, cost, m
    <2>3. Kept /\ iss' \in [Host -> Seqno]
      BY <1>4, <1>5, <2>1, <2>2, ListenSyn
    <2> QED
      BY <1>3, <1>5, <1>7, <2>3, KeptIs
  <1>8. CASE /\ Sent(h, send_reset_for_segment(Handling(Closed(0), room), m), inflight, cost)
             /\ UNCHANGED <<conn, sock, iss, order>>
    <2>1. Closed(0) \in Connection
      BY ClosedIs
    <2> HIDE DEF inflight, cost, m
    <2>2. Kept
      BY <1>4, <1>5, <1>8, <2>1, OnlySent
    <2> QED
      BY <1>3, <1>5, <1>8, <2>2, KeptIs
  <1> QED
    BY <1>1, <1>6, <1>7, <1>8

LEMMA TickKeeps ==
    ASSUME TcpInv, NEW h \in Host, ns_tcp_tick(h)
    PROVE  TcpInv'
  <1>1. PICK x \in Slot \ FreeSlots(h), room \in Room :
          \E expired \in SUBSET Armed(conn[h][x]) :
            /\ Finish(h, x, Tick(Handling(conn[h][x], room), expired), net,
                      IF expired # {} /\ net # {} THEN 1 ELSE 0)
            /\ UNCHANGED <<tables, sent, rcvd>>
    BY DEF ns_tcp_tick
  <1>2. PICK expired \in SUBSET Armed(conn[h][x]) :
            /\ Finish(h, x, Tick(Handling(conn[h][x], room), expired), net,
                      IF expired # {} /\ net # {} THEN 1 ELSE 0)
            /\ UNCHANGED <<tables, sent, rcvd>>
    BY <1>1
  <1> DEFINE c == conn[h][x]
             k == Handling(c, room)
             s == Tick(k, expired)
             cost == IF expired # {} /\ net # {} THEN 1 ELSE 0
  <1>3. TablesInv /\ GoodInv /\ TidyInv
    BY DEF TcpInv
  <1>4. c \in Connection /\ Good(c) /\ Settled(c) /\ c.state # "CLOSED" /\ room \in Nat
    BY <1>3, RoomIs DEF TablesInv, GoodInv, FreeSlots
  <1>5. /\ order' = order /\ iss' = iss /\ ephemeral' = ephemeral /\ abandoned' = abandoned
        /\ sent' = sent
    BY <1>2 DEF tables
  <1>6. k \in HandlerState /\ k.c = c
    BY <1>4, HandlingIs
  <1>7. Finish(h, x, s, net, cost)
    BY <1>2
  <1> HIDE DEF cost
  <1>8. CASE c.state \notin Idle
    <2>1. Turn(k, s)
      <3> HIDE DEF k
      <3> QED
        BY <1>4, <1>6, <1>8, Ticks
    <2> HIDE DEF s
    <2>2. Kept
      BY <1>4, <1>5, <1>7, <1>8, <2>1, Finishes DEF Idle
    <2> QED
      BY <1>3, <1>5, <2>2, KeptIs DEF TablesInv
  <1>9. CASE c.state = "LISTEN"
    <2>1. s = k
      BY <1>6, <1>9 DEF Tick
    <2>2. k.out = {} /\ k.events = <<>>
      BY DEF Handling
    <2> HIDE DEF s, k
    <2>3. conn' = conn /\ sock' = sock
      <3>1. conn' = [conn EXCEPT ![h][x] = c] /\ Sent(h, s, net, cost)
        BY <1>6, <1>7, <2>1 DEF Finish
      <3>2. conn' = conn
        BY <1>3, <3>1 DEF TablesInv
      <3>3. sock' = [sock EXCEPT ![h] = sock[h]]
        BY <1>3, <1>7, <2>1, <2>2 DEF Finish, Notified, TablesInv
      <3> QED
        BY <1>3, <3>2, <3>3 DEF TablesInv
    <2>4. net' \in SUBSET [to : Host, seg : Packet]
      BY <1>3, <1>7, <2>1, <2>2, SentIs DEF Finish
    <2>5. GoodInv' /\ TidyInv'
      BY <1>3, <1>5, <2>3 DEF GoodInv, TidyInv, Left
    <2>6. Kept
      BY <1>3, <2>3, <2>4, <2>5 DEF Kept, TablesInv
    <2> QED
      BY <1>3, <1>5, <2>6, KeptIs DEF TablesInv
  <1> QED
    BY <1>4, <1>8, <1>9 DEF Idle

LEMMA LoseKeeps ==
    ASSUME TcpInv, Lose
    PROVE  TcpInv'
  <1>1. /\ net' \subseteq net
        /\ UNCHANGED <<conn, order, iss, ephemeral, sock, sent, abandoned>>
    BY DEF Lose
  <1> QED
    BY <1>1 DEF TcpInv, TablesInv, GoodInv, TidyInv, Left

----------------------------------------------------------------------------
\* The user's calls.

LEMMA TidySame ==
    ASSUME NEW C, NEW S, NEW A, Tidy(C, S, A), NEW T, SameHolders(S, T)
    PROVE  Tidy(C, T, A)
  <1>1. \A f \in Fd : T[f].handle # NoHandle => T[f].handle[2] <= C[T[f].handle[1]].generation
    BY DEF Tidy, SameHolders
  <1>2. \A f, g \in Fd :
          T[f].open /\ T[g].open /\ T[f].handle # NoHandle /\ T[f].handle = T[g].handle => f = g
    BY DEF Tidy, SameHolders
  <1>3. \A x \in Slot : C[x].state # "CLOSED" /\ C[x].parent # NO_PARENT =>
          /\ C[x].state # "LISTEN" /\ C[C[x].parent].state = "LISTEN"
          /\ \A f \in Fd : T[f].open => T[f].handle # <<x, C[x].generation>>
    BY DEF Tidy, SameHolders
  <1>4. ASSUME NEW x \in Slot, C[x].state # "CLOSED"
        PROVE  \/ C[x].want_fin \/ C[x].parent # NO_PARENT \/ <<x, C[x].generation>> \in A
               \/ \E f \in Fd : T[f].open /\ T[f].handle = <<x, C[x].generation>>
    <2>1. \/ C[x].want_fin \/ C[x].parent # NO_PARENT \/ <<x, C[x].generation>> \in A
          \/ \E f \in Fd : S[f].open /\ S[f].handle = <<x, C[x].generation>>
      BY <1>4 DEF Tidy
    <2> QED
      BY <2>1 DEF SameHolders
  <1> QED
    BY <1>1, <1>2, <1>3, <1>4 DEF Tidy

\* A call that changes neither connections nor who holds them.
LEMMA SocksOnly ==
    ASSUME TcpInv, NEW h \in Host, NEW T, SameHolders(sock[h], T),
           sock' = [sock EXCEPT ![h] = T],
           UNCHANGED <<conn, net, order, iss, ephemeral, sent, abandoned>>
    PROVE  TcpInv'
  <1>1. TablesInv /\ GoodInv /\ TidyInv
    BY DEF TcpInv
  <1>2. /\ sock' \in [Host -> [Fd -> Socket]] /\ sock'[h] = T
        /\ \A j \in Host \ {h} : sock'[j] = sock[j]
    BY <1>1, SockUpdate DEF SameHolders
  <1>3. TablesInv' /\ GoodInv'
    BY <1>1, <1>2 DEF TablesInv, GoodInv
  <1>4. Tidy(conn'[h], sock'[h], Left(h)')
    BY <1>1, <1>2, TidySame, LeftSame DEF TidyInv
  <1>5. TidyInv'
    BY <1>1, <1>2, <1>4, TidyRest, LeftSame
  <1> QED
    BY <1>3, <1>5 DEF TcpInv

LEMMA FreeSocketIs == FreeSocket \in Socket /\ FreeSocket.handle = NoHandle
  BY DEF FreeSocket, Socket

LEMMA OpenKeeps ==
    ASSUME TcpInv, NEW h \in Host, ns_socket_open(h)
    PROVE  TcpInv'
  <1> DEFINE f == Min({g \in Fd : ~sock[h][g].open})
             D(y) == [FreeSocket EXCEPT !.open = y]
             k == D(TRUE)
             T == [sock[h] EXCEPT ![f] = k]
  <1>1. TablesInv /\ GoodInv /\ TidyInv
    BY DEF TcpInv
  <1>2. sock[h] \in [Fd -> Socket] /\ conn[h] \in [Slot -> Connection]
    BY <1>1 DEF TablesInv
  <1>3. f \in Fd /\ ~sock[h][f].open
    <2> DEFINE F == {g \in Fd : ~sock[h][g].open}
    <2>1. F # {} /\ F \in SUBSET Nat
      BY DEF ns_socket_open, Fd
    <2>2. Min(F) \in F
      <3> HIDE DEF F
      <3> QED
        BY <2>1, MinIn
    <2> QED
      BY <2>2
  <1>4. k \in Socket /\ k.handle = NoHandle
    <2>1. \A y \in BOOLEAN : D(y) \in Socket /\ D(y).handle = NoHandle
      BY DEF FreeSocket, Socket
    <2> HIDE DEF D
    <2> QED
      BY <2>1
  <1>5. /\ sock' = [sock EXCEPT ![h] = T]
        /\ UNCHANGED <<conn, net, order, iss, ephemeral, sent, abandoned>>
    BY <1>1 DEF ns_socket_open, TablesInv
  <1> HIDE DEF f, k
  <1>6. T \in [Fd -> Socket] /\ T[f].handle = NoHandle /\ \A g \in Fd : g # f => T[g] = sock[h][g]
    BY <1>2, <1>3, <1>4
  <1> HIDE DEF T
  <1>7. /\ sock' \in [Host -> [Fd -> Socket]] /\ sock'[h] = T
        /\ \A j \in Host \ {h} : sock'[j] = sock[j]
    BY <1>1, <1>5, <1>6, SockUpdate
  <1>8. TablesInv' /\ GoodInv'
    BY <1>1, <1>5, <1>7 DEF TablesInv, GoodInv
  <1>9. Tidy(conn[h], T, Left(h))
    <2>1. Tidy(conn[h], sock[h], Left(h))
      BY <1>1 DEF TidyInv
    <2> QED
      BY <1>2, <1>3, <1>6, <2>1, TidyDrop
  <1>10. TidyInv'
    BY <1>1, <1>5, <1>7, <1>9, TidyRest, LeftSame
  <1> QED
    BY <1>8, <1>10 DEF TcpInv

BoundAt(k, y, p) == [k EXCEPT !.bound = y, !.port = p]

LEMMA PortIs == \A h \in Host : Port[h] \in Nat
  BY SocketsAssumption

LEMMA BindKeeps ==
    ASSUME TcpInv, NEW h \in Host, NEW f \in Fd, ns_socket_bind(h, f)
    PROVE  TcpInv'
  <1> DEFINE D(y) == BoundAt(sock[h][f], y, Port[h])
             k == D(TRUE)
             T == [sock[h] EXCEPT ![f] = k]
  <1>1. sock \in [Host -> [Fd -> Socket]] /\ sock[h] \in [Fd -> Socket]
    BY DEF TcpInv, TablesInv
  <1>2. sock' = [sock EXCEPT ![h] = T]
    BY <1>1 DEF ns_socket_bind, BoundAt
  <1>3. UNCHANGED <<conn, net, order, iss, ephemeral, sent, abandoned>>
    BY DEF ns_socket_bind, tables
  <1>4. k \in Socket /\ k.open = sock[h][f].open /\ k.handle = sock[h][f].handle
    <2>1. \A y \in BOOLEAN : D(y) \in Socket /\ D(y).open = sock[h][f].open
                             /\ D(y).handle = sock[h][f].handle
      <3> DEFINE o == sock[h][f]
                 p == Port[h]
      <3>1. o \in Socket /\ p \in Nat
        BY <1>1, PortIs
      <3> HIDE DEF o, p
      <3>2. \A y \in BOOLEAN : /\ BoundAt(o, y, p) \in Socket
                               /\ BoundAt(o, y, p).open = o.open
                               /\ BoundAt(o, y, p).handle = o.handle
        BY ONLY <3>1 DEF BoundAt, Socket
      <3> QED
        BY <3>2 DEF o, p
    <2> HIDE DEF D
    <2> QED
      BY <2>1
  <1> HIDE DEF k
  <1>5. SameHolders(sock[h], T)
    BY <1>1, <1>4 DEF SameHolders
  <1> HIDE DEF T
  <1> QED
    BY <1>2, <1>3, <1>5, SocksOnly

LEMMA ConnectedKeeps ==
    ASSUME TcpInv, NEW h \in Host, NEW f \in Fd, ns_socket_connect(h, f)
    PROVE  TcpInv'
  <1> DEFINE D(y) == [sock[h][f] EXCEPT !.connected = y]
             k == D(TRUE)
             T == [sock[h] EXCEPT ![f] = k]
  <1>1. sock \in [Host -> [Fd -> Socket]] /\ sock[h] \in [Fd -> Socket]
    BY DEF TcpInv, TablesInv
  <1>2. sock' = [sock EXCEPT ![h] = T]
    BY <1>1 DEF ns_socket_connect
  <1>3. UNCHANGED <<conn, net, order, iss, ephemeral, sent, abandoned>>
    BY DEF ns_socket_connect, tables
  <1>4. k \in Socket /\ k.open = sock[h][f].open /\ k.handle = sock[h][f].handle
    <2>1. \A y \in BOOLEAN : D(y) \in Socket /\ D(y).open = sock[h][f].open
                             /\ D(y).handle = sock[h][f].handle
      BY <1>1 DEF Socket
    <2> HIDE DEF D
    <2> QED
      BY <2>1
  <1> HIDE DEF k
  <1>5. SameHolders(sock[h], T)
    BY <1>1, <1>4 DEF SameHolders
  <1> HIDE DEF T
  <1> QED
    BY <1>2, <1>3, <1>5, SocksOnly

\* The slot of a handle that is live.
LEMMA LiveIs ==
    ASSUME TcpInv, NEW h \in Host, NEW f \in Fd, Live(h, sock[h][f].handle)
    PROVE  /\ sock[h][f].handle[1] \in Slot
           /\ conn[h][sock[h][f].handle[1]].state # "CLOSED"
           /\ sock[h][f].handle = Handle(h, sock[h][f].handle[1])
           /\ conn[h][sock[h][f].handle[1]] \in Connection
           /\ Good(conn[h][sock[h][f].handle[1]]) /\ Settled(conn[h][sock[h][f].handle[1]])
  <1> DEFINE k == sock[h][f].handle
  <1>1. sock[h][f] \in Socket /\ conn[h] \in [Slot -> Connection]
    BY DEF TcpInv, TablesInv
  <1>2. k # NoHandle /\ conn[h][k[1]].generation = k[2] /\ conn[h][k[1]].state # "CLOSED"
    BY DEF Live
  <1>3. k \in Slot \X Nat /\ k[1] \in Slot
    BY <1>1, <1>2, SocketIs
  <1> HIDE DEF k
  <1>4. k = <<k[1], k[2]>>
    BY <1>3
  <1>5. k = Handle(h, k[1])
    BY <1>2, <1>4 DEF Handle
  <1>6. Good(conn[h][k[1]]) /\ Settled(conn[h][k[1]]) /\ conn[h][k[1]] \in Connection
    BY <1>3 DEF TcpInv, GoodInv, Good
  <1> QED
    BY <1>2, <1>3, <1>5, <1>6 DEF k

LEMMA SendKeeps ==
    ASSUME TcpInv, NEW h \in Host, NEW f \in Fd, NEW n \in Nat, ns_socket_send(h, f, n)
    PROVE  TcpInv'
  <1> DEFINE x == sock[h][f].handle[1]
             c == conn[h][x]
             data == [i \in 1..n |-> sent[h] + i]
  <1>1. TablesInv
    BY DEF TcpInv
  <1>2. /\ order \in [Host -> Nat] /\ iss \in [Host -> Seqno] /\ ephemeral \in [Host -> Nat]
        /\ sent \in [Host -> Nat] /\ sent[h] \in Nat
    BY <1>1 DEF TablesInv
  <1>3. /\ Live(h, sock[h][f].handle) /\ c.state = "ESTABLISHED"
        /\ \E room \in Room : Finish(h, x, Queue(Handling(c, room), data), net, 0)
        /\ sent' = [sent EXCEPT ![h] = @ + Least(n, NS_TCP_SEND_CAPACITY - Len(c.tx))]
        /\ UNCHANGED <<order, iss, ephemeral, abandoned>>
    BY DEF ns_socket_send, tables
  <1>4. x \in Slot /\ c \in Connection /\ Good(c) /\ Settled(c)
    BY <1>3, LiveIs
  <1> HIDE DEF x
  <1>5. PICK room \in Room : Finish(h, x, Queue(Handling(c, room), data), net, 0)
    BY <1>3
  <1>6. data \in Seq(Nat) /\ room \in Nat
    BY <1>2, RoomIs
  <1> DEFINE k == Handling(c, room)
             s == Queue(k, data)
  <1>7. k \in HandlerState /\ k.c = c
    BY <1>4, <1>6, HandlingIs
  <1>8. Turn(k, s)
    <2> HIDE DEF k, data
    <2> QED
      BY <1>3, <1>4, <1>6, <1>7, Queues
  <1>9. Finish(h, x, s, net, 0)
    BY <1>5
  <1> HIDE DEF s, data
  <1>10. Kept
    BY <1>3, <1>4, <1>6, <1>8, <1>9, Finishes
  <1>11. sent' \in [Host -> Nat]
    <2> DEFINE left == NS_TCP_SEND_CAPACITY - Len(c.tx)
               a == Least(n, left)
    <2>1. Len(c.tx) \in Nat /\ Len(c.tx) <= NS_TCP_SEND_CAPACITY
      <3>1. c.tx \in Bytes(NS_TCP_SEND_CAPACITY)
        BY <1>4 DEF Connection
      <3> QED
        BY <3>1 DEF Bytes
    <2>2. left \in Nat
      BY <2>1, Sizes
    <2> HIDE DEF left
    <2>3. a \in Nat
      BY <2>2 DEF Least
    <2>4. sent' = [sent EXCEPT ![h] = @ + a]
      BY <1>3 DEF left
    <2> HIDE DEF a
    <2> QED
      BY <1>2, <2>3, <2>4
  <1> QED
    BY <1>2, <1>3, <1>10, <1>11, KeptIs

LEMMA RecvKeeps ==
    ASSUME TcpInv, NEW h \in Host, NEW f \in Fd, ns_socket_recv(h, f)
    PROVE  TcpInv'
  <1> DEFINE x == sock[h][f].handle[1]
             c == conn[h][x]
             n == Least(ReadSize, Len(c.rx))
  <1>1. TablesInv
    BY DEF TcpInv
  <1>2. /\ order \in [Host -> Nat] /\ iss \in [Host -> Seqno] /\ ephemeral \in [Host -> Nat]
        /\ sent \in [Host -> Nat]
    BY <1>1 DEF TablesInv
  <1>3. /\ Live(h, sock[h][f].handle)
        /\ \E room \in Room : Finish(h, x, Take(Handling(c, room), n), net, 0)
        /\ UNCHANGED <<order, iss, ephemeral, abandoned, sent>>
    BY DEF ns_socket_recv, tables
  <1>4. x \in Slot /\ c \in Connection /\ Good(c) /\ Settled(c) /\ c.state # "CLOSED"
    BY <1>3, LiveIs
  <1> HIDE DEF x
  <1>5. PICK room \in Room : Finish(h, x, Take(Handling(c, room), n), net, 0)
    BY <1>3
  <1>6. n \in Nat /\ room \in Nat
    <2>1. Len(c.rx) \in Nat /\ ReadSize \in Nat
      BY <1>4, Received, SocketsAssumption
    <2> QED
      BY <2>1, RoomIs DEF Least
  <1> HIDE DEF n
  <1> DEFINE k == Handling(c, room)
             s == Take(k, n)
  <1>7. k \in HandlerState /\ k.c = c
    BY <1>4, <1>6, HandlingIs
  <1>8. Turn(k, s) /\ s.c.state = c.state
    <2> HIDE DEF k
    <2> QED
      BY <1>4, <1>6, <1>7, Takes
  <1>9. Finish(h, x, s, net, 0)
    BY <1>5
  <1> HIDE DEF s
  <1>10. Kept
    BY <1>3, <1>4, <1>6, <1>8, <1>9, Finishes
  <1> QED
    BY <1>2, <1>3, <1>10, KeptIs

LEMMA ListenerIs ==
    ASSUME NEW c \in Connection, NEW l \in Nat
    PROVE  [c EXCEPT !.state = "LISTEN", !.lport = l] \in Connection
  <1>1. "LISTEN" \in State
    BY DEF State
  <1> QED
    BY <1>1 DEF Connection

ListeningAt(k, y, p) == [k EXCEPT !.listening = y, !.handle = p]

LEMMA ListenKeeps ==
    ASSUME TcpInv, NEW h \in Host, NEW f \in Fd, ns_socket_listen(h, f)
    PROVE  TcpInv'
  <1> DEFINE x == Min(FreeSlots(h))
             b == allocate_connection(conn[h][x])
             o == sock[h][f]
             v == o.port
             c == [b EXCEPT !.state = "LISTEN", !.lport = v]
             p == <<x, c.generation>>
             D(y) == ListeningAt(o, y, p)
             k == D(TRUE)
             T == [sock[h] EXCEPT ![f] = k]
  <1>1. TablesInv /\ GoodInv /\ TidyInv
    BY DEF TcpInv
  <1>2. /\ sock[h] \in [Fd -> Socket] /\ conn[h] \in [Slot -> Connection] /\ o \in Socket
        /\ order \in [Host -> Nat] /\ iss \in [Host -> Seqno] /\ ephemeral \in [Host -> Nat]
        /\ sent \in [Host -> Nat] /\ net \in SUBSET [to : Host, seg : Packet]
    BY <1>1 DEF TablesInv
  <1>3. /\ o.open /\ FreeSlots(h) # {}
        /\ conn' = [conn EXCEPT ![h][x] = c]
        /\ sock' = [sock EXCEPT ![h][f].listening = TRUE, ![h][f].handle = <<x, c.generation>>]
        /\ abandoned' = IF Live(h, o.handle) THEN abandoned \cup {<<h, o.handle>>}
                        ELSE abandoned
        /\ UNCHANGED <<order, iss, ephemeral, net, sent>>
    BY DEF ns_socket_listen
  <1>3a. sock' = [sock EXCEPT ![h] = T]
    <2> HIDE DEF c, x
    <2> QED
      BY <1>1, <1>3 DEF TablesInv, ListeningAt
  <1>4. x \in Slot /\ conn[h][x].state = "CLOSED" /\ conn[h][x] \in Connection
    BY <1>2, <1>3, FreeIs
  <1> HIDE DEF x
  <1>5. /\ b \in Connection /\ b.generation = conn[h][x].generation + 1 /\ b.parent = NO_PARENT
        /\ b.tx = <<>> /\ b.tx_sent = 0 /\ ~b.want_fin
    BY <1>4, AllocateIs
  <1> HIDE DEF b
  <1>6. v \in Nat
    BY <1>2 DEF Socket
  <1> HIDE DEF v
  <1>7. /\ c \in Connection /\ c.state = "LISTEN" /\ c.generation = b.generation
        /\ c.parent = b.parent /\ c.tx = b.tx /\ c.tx_sent = b.tx_sent
        /\ c.want_fin = b.want_fin
    <2>1. /\ c.state = "LISTEN" /\ c.generation = b.generation
          /\ c.parent = b.parent /\ c.tx = b.tx /\ c.tx_sent = b.tx_sent
          /\ c.want_fin = b.want_fin
      BY <1>5 DEF Connection
    <2>2. c \in Connection
      BY <1>5, <1>6, ListenerIs
    <2> QED
      BY <2>1, <2>2
  <1> HIDE DEF c
  <1>8. Good(c) /\ Settled(c)
    BY <1>5, <1>7 DEF Good, Settled, Unsent, Idle
  <1>9. p \in Slot \X Nat
    BY <1>4, <1>7, HandleIs DEF Connection
  <1>10. k \in Socket /\ k.open = o.open /\ k.handle = p
    <2> HIDE DEF p
    <2>1. \A y \in BOOLEAN : D(y) \in Socket /\ D(y).open = o.open /\ D(y).handle = p
      BY <1>2, <1>9 DEF ListeningAt, Socket
    <2> HIDE DEF D
    <2> QED
      BY <2>1
  <1> HIDE DEF k
  <1>11. /\ T \in [Fd -> Socket] /\ T[f].open /\ T[f].handle = p
         /\ \A g \in Fd : g # f => T[g] = sock[h][g]
    BY <1>2, <1>3, <1>10
  <1> HIDE DEF T
  <1>12. /\ sock' \in [Host -> [Fd -> Socket]] /\ sock'[h] = T
         /\ \A j \in Host \ {h} : sock'[j] = sock[j]
    BY <1>1, <1>3a, <1>11, SockUpdate
  <1>13. /\ conn' \in [Host -> [Slot -> Connection]] /\ GoodInv'
         /\ conn'[h] = [conn[h] EXCEPT ![x] = c]
         /\ \A j \in Host \ {h} : conn'[j] = conn[j]
    BY <1>1, <1>3, <1>4, <1>8, TableUpdate
  <1>14. Left(h) \subseteq Left(h)' /\ \A j \in Host \ {h} : Left(j)' = Left(j)
    BY <1>3 DEF Left
  <1>15. ASSUME NEW y \in Slot, conn[h][y].state # "CLOSED",
                o.handle = <<y, conn[h][y].generation>>
         PROVE  <<y, conn[h][y].generation>> \in Left(h)'
    <2>1. conn[h][y].generation \in Nat
      BY <1>2 DEF Connection
    <2>2. o.handle # NoHandle /\ o.handle \in Slot \X Nat /\ o.handle[1] = y
          /\ o.handle[2] = conn[h][y].generation
      BY <1>15, <2>1, HandleIs
    <2>3. Live(h, o.handle)
      BY <1>15, <2>2 DEF Live
    <2>4. <<h, o.handle>> \in abandoned'
      BY <1>3, <2>3
    <2> QED
      BY <1>15, <2>2, <2>4 DEF Left
  <1>16. Tidy(conn'[h], sock'[h], Left(h)')
    <2> DEFINE A == Left(h)
               B == Left(h)'
               C == conn[h]
               S == sock[h]
    <2>1. Tidy(C, S, A)
      BY <1>1 DEF TidyInv
    <2>2. /\ \A y \in Slot : /\ C[y].state # "CLOSED" /\ S[f].open
                             /\ S[f].handle = <<y, C[y].generation>>
                             => <<y, C[y].generation>> \in B
          /\ A \subseteq B
      BY <1>14, <1>15
    <2>3. /\ C \in [Slot -> Connection] /\ S \in [Fd -> Socket] /\ C[x].state = "CLOSED"
          /\ c.generation = C[x].generation + 1 /\ c.parent = NO_PARENT
          /\ T[f].handle = <<x, c.generation>>
          /\ \A g \in Fd : g # f => T[g].open = S[g].open /\ T[g].handle = S[g].handle
      BY <1>2, <1>4, <1>5, <1>7, <1>11
    <2> HIDE DEF A, B, C, S
    <2>4. Tidy([C EXCEPT ![x] = c], T, B)
      <3>1. c \in Connection /\ x \in Slot /\ T \in [Fd -> Socket] /\ T[f].open
        BY <1>4, <1>7, <1>11
      <3> QED
        BY ONLY <2>1, <2>2, <2>3, <3>1, TidyHeld, f \in Fd
    <2> QED
      BY <1>12, <1>13, <2>4 DEF B, C
  <1>17. TidyInv'
    BY <1>1, <1>12, <1>13, <1>14, <1>16, TidyRest
  <1>18. Kept
    BY <1>2, <1>3, <1>12, <1>13, <1>17 DEF Kept
  <1> QED
    BY <1>2, <1>3, <1>18, KeptIs

\* The fields in which a connecting socket's connection starts.
ClientAt(c, l, r, j, q) ==
    [c EXCEPT !.state = "SYN_SENT", !.lport = l, !.rport = r,
              !.iss = j, !.una = j, !.nxt = q, !.tx_sequence = q, !.wnd = 1]

LEMMA ClientAtIs ==
    ASSUME NEW c \in Connection, NEW l \in Nat, NEW r \in Nat, NEW j \in Seqno, NEW q \in Seqno
    PROVE  StartsAs(c, ClientAt(c, l, r, j, q), "SYN_SENT", c.parent, j, q)
  <1> DEFINE d == ClientAt(c, l, r, j, q)
  <1>1. 1 \in 0..NS_TCP_RECV_CAPACITY
    BY Sizes
  <1>2. d \in Connection
    BY <1>1 DEF ClientAt, Connection, State
  <1>3. /\ d.state = "SYN_SENT" /\ d.parent = c.parent
        /\ d.generation = c.generation /\ d.iss = j /\ d.una = j /\ d.nxt = q
        /\ d.tx = c.tx /\ d.tx_sent = c.tx_sent /\ d.want_fin = c.want_fin
        /\ d.fin_sent = c.fin_sent
    BY DEF ClientAt, Connection
  <1> QED
    BY <1>2, <1>3 DEF StartsAs

LEMMA EphemeralPortIs ==
    ASSUME NEW h \in Host, Ephemeral \ PortsInUse(h) # {}
    PROVE  EphemeralPort(h) \in Nat
  <1> DEFINE free == Ephemeral \ PortsInUse(h)
             later == {p \in free : p >= ephemeral[h]}
  <1>1. free \in SUBSET Nat /\ later \in SUBSET Nat /\ free # {}
    BY SocketsAssumption DEF Ephemeral
  <1>2. EphemeralPort(h) = IF later # {} THEN Min(later) ELSE Min(free)
    BY DEF EphemeralPort
  <1> HIDE DEF free, later
  <1>3. Min(free) \in free
    BY <1>1, MinIn
  <1>4. later # {} => Min(later) \in later
    BY <1>1, MinIn
  <1> QED
    BY <1>1, <1>2, <1>3, <1>4

ConnectingAt(k, p, y, l) == [k EXCEPT !.handle = p, !.bound = y, !.port = l]

LEMMA ConnectKeeps ==
    ASSUME TcpInv, NEW h \in Host, NEW f \in Fd, ns_tcp_connect(h, f)
    PROVE  TcpInv'
  <1> DEFINE o == sock[h][f]
             l == IF o.bound THEN o.port ELSE EphemeralPort(h)
             r == Port[Peer[h]]
             x == Min(FreeSlots(h))
             b == allocate_connection(conn[h][x])
             j == iss[h]
             q == Add(iss[h], 1)
             c == ClientAt(b, l, r, j, q)
             n == IF l = TCP_EPHEMERAL_LAST THEN TCP_EPHEMERAL_FIRST ELSE l + 1
             S(room) == emit_segment(Handling(c, room), iss[h], 0, {"SYN"}, <<>>)
             p == <<x, c.generation>>
             D(y) == ConnectingAt(o, p, y, l)
             k == D(TRUE)
             T == [sock[h] EXCEPT ![f] = k]
  <1>1. TablesInv /\ GoodInv /\ TidyInv
    BY DEF TcpInv
  <1>2. /\ sock[h] \in [Fd -> Socket] /\ conn[h] \in [Slot -> Connection] /\ o \in Socket
        /\ order \in [Host -> Nat] /\ iss \in [Host -> Seqno] /\ ephemeral \in [Host -> Nat]
        /\ sent \in [Host -> Nat] /\ net \in SUBSET [to : Host, seg : Packet] /\ j \in Seqno
        /\ sock \in [Host -> [Fd -> Socket]]
    BY <1>1 DEF TablesInv
  <1>3. PICK room \in Room :
          /\ o.open /\ o.handle = NoHandle /\ FreeSlots(h) # {}
          /\ o.bound \/ Ephemeral \ PortsInUse(h) # {}
          /\ conn' = [conn EXCEPT ![h][x] = IF S(room).failed THEN release_connection(S(room).c)
                                            ELSE start_retransmit_timer(S(room).c)]
          /\ sock' = IF S(room).failed THEN sock
                     ELSE [sock EXCEPT ![h][f].handle = <<x, c.generation>>,
                                       ![h][f].bound = TRUE, ![h][f].port = l]
          /\ Sent(h, S(room), net, 0)
          /\ iss' = [iss EXCEPT ![h] = Add(@, IssStep)]
          /\ ephemeral' = IF o.bound THEN ephemeral ELSE [ephemeral EXCEPT ![h] = n]
          /\ UNCHANGED <<order, sent, abandoned>>
    BY DEF ns_tcp_connect, ClientAt
  <1> DEFINE s == S(room)
  <1>4. x \in Slot /\ conn[h][x].state = "CLOSED" /\ conn[h][x] \in Connection /\ room \in Nat
    BY <1>2, <1>3, FreeIs, RoomIs
  <1>5. l \in Nat /\ r \in Nat /\ q \in Seqno /\ n \in Nat
    <2>1. l \in Nat
      BY <1>2, <1>3, EphemeralPortIs DEF Socket
    <2> HIDE DEF l
    <2>2. n \in Nat
      BY <2>1, SocketsAssumption
    <2> QED
      BY <1>2, <2>1, <2>2, PortIs, PeerIs, NextOf
  <1>6. iss' \in [Host -> Seqno] /\ ephemeral' \in [Host -> Nat]
    <2>1. Add(iss[h], IssStep) \in Seqno
      BY <1>2, AddIn, SocketsAssumption
    <2> HIDE DEF n
    <2> QED
      BY <1>2, <1>3, <1>5, <2>1
  <1>6a. /\ sock' = IF s.failed THEN sock ELSE [sock EXCEPT ![h] = T]
    BY <1>2, <1>3, ZenonT(30) DEF ConnectingAt
  <1> HIDE DEF x, l, r, n
  <1>7. /\ b \in Connection /\ b.generation = conn[h][x].generation + 1 /\ b.parent = NO_PARENT
        /\ b.tx = <<>> /\ b.tx_sent = 0 /\ ~b.want_fin /\ ~b.fin_sent
    BY <1>4, AllocateIs
  <1> HIDE DEF b
  <1>8. /\ c \in Connection /\ c.state = "SYN_SENT" /\ c.parent = b.parent
        /\ c.generation = b.generation /\ c.iss = j /\ c.una = j /\ c.nxt = q
        /\ c.tx = b.tx /\ c.tx_sent = b.tx_sent /\ c.want_fin = b.want_fin
        /\ c.fin_sent = b.fin_sent
    <2>1. StartsAs(b, c, "SYN_SENT", b.parent, j, q)
      <3> HIDE DEF j, q
      <3> QED
        BY <1>2, <1>5, <1>7, ClientAtIs
    <2> HIDE DEF c
    <2> QED
      BY <2>1 DEF StartsAs
  <1> HIDE DEF c
  <1>9. Half(c)
    BY <1>7, <1>8 DEF Half, Opening
  <1>10. Handling(c, room) \in HandlerState /\ Handling(c, room).c = c
    BY <1>4, <1>8, HandlingIs
  <1>11. Quiet(Handling(c, room), s)
    <2>1. 0 \in Seqno /\ {"SYN"} \in SUBSET Flag /\ <<>> \in Bytes(NS_TCP_LOCAL_MSS)
      BY Sizes, EmptyIs DEF Flag, Seqno
    <2> QED
      BY <1>2, <1>10, <2>1, EmitSegment
  <1> HIDE DEF S
  <1>12. s \in HandlerState /\ Half(s.c) /\ Alike(c, s.c)
    BY <1>9, <1>10, <1>11, HalfQuiet DEF Quiet
  <1>13. /\ s.out \in SUBSET Packet /\ s.c.generation = conn[h][x].generation + 1
         /\ s.c.parent = NO_PARENT /\ s.c.generation \in Nat
    BY <1>4, <1>7, <1>8, <1>12 DEF HandlerState, Alike, Connection
  <1>14. net' \in SUBSET [to : Host, seg : Packet]
    BY <1>1, <1>3, <1>13, SentIs
  <1>15. Tidy(conn[h], sock[h], Left(h))
    BY <1>1 DEF TidyInv
  <1>16. CASE s.failed
    <2> DEFINE d == release_connection(s.c)
    <2>1. /\ d \in Connection /\ Good(d) /\ Settled(d) /\ d.state = "CLOSED"
          /\ d.generation = conn[h][x].generation + 1
      BY <1>13, ClosedIs DEF release_connection
    <2>2. conn' = [conn EXCEPT ![h][x] = d] /\ sock' = sock
      BY <1>3, <1>6a, <1>16
    <2> HIDE DEF d
    <2>3. /\ conn' \in [Host -> [Slot -> Connection]] /\ GoodInv'
          /\ conn'[h] = [conn[h] EXCEPT ![x] = d]
          /\ \A i \in Host \ {h} : conn'[i] = conn[i]
      BY <1>1, <1>4, <2>1, <2>2, TableUpdate
    <2>4. Tidy([conn[h] EXCEPT ![x] = d], sock[h], Left(h))
      BY <1>2, <1>4, <1>15, <2>1, TidyFree
    <2>5. TidyInv'
      BY <1>1, <1>3, <2>2, <2>3, <2>4, TidyRest, LeftSame
    <2>6. Kept
      BY <1>2, <1>14, <2>2, <2>3, <2>5 DEF Kept
    <2> QED
      BY <1>2, <1>3, <1>6, <2>6, KeptIs
  <1>17. CASE ~s.failed
    <2> DEFINE d == start_retransmit_timer(s.c)
    <2>1. /\ Good(d) /\ Settled(d) /\ d.parent = s.c.parent /\ d.generation = s.c.generation
      BY <1>12, HalfGood
    <2>2. conn' = [conn EXCEPT ![h][x] = d] /\ sock' = [sock EXCEPT ![h] = T]
      BY <1>3, <1>6a, <1>17
    <2> HIDE DEF d
    <2>3. /\ conn' \in [Host -> [Slot -> Connection]] /\ GoodInv'
          /\ conn'[h] = [conn[h] EXCEPT ![x] = d]
          /\ \A i \in Host \ {h} : conn'[i] = conn[i]
      BY <1>1, <1>4, <2>1, <2>2, TableUpdate
    <2>4. d \in Connection /\ d.parent = NO_PARENT /\ d.generation = conn[h][x].generation + 1
      BY <1>13, <2>1 DEF Good
    <2>5. p \in Slot \X Nat /\ p = <<x, d.generation>>
      BY <1>4, <1>7, <1>8, <1>13, <2>1, HandleIs
    <2> HIDE DEF p
    <2>6. k \in Socket /\ k.open = o.open /\ k.handle = p
      <3>1. \A y \in BOOLEAN : D(y) \in Socket /\ D(y).open = o.open /\ D(y).handle = p
        BY <1>2, <1>5, <2>5 DEF ConnectingAt, Socket
      <3> HIDE DEF D
      <3> QED
        BY <3>1
    <2> HIDE DEF k
    <2>7. /\ T \in [Fd -> Socket] /\ T[f].open /\ T[f].handle = p
          /\ \A g \in Fd : g # f => T[g] = sock[h][g]
      BY <1>2, <1>3, <2>6
    <2> HIDE DEF T
    <2>8. /\ sock' \in [Host -> [Fd -> Socket]] /\ sock'[h] = T
          /\ \A i \in Host \ {h} : sock'[i] = sock[i]
      BY <1>1, <2>2, <2>7, SockUpdate
    <2>9. Tidy([conn[h] EXCEPT ![x] = d], T, Left(h))
      <3> DEFINE C == conn[h]
                 Z == sock[h]
                 A == Left(h)
      <3>1. /\ C \in [Slot -> Connection] /\ Z \in [Fd -> Socket] /\ C[x].state = "CLOSED"
            /\ d.generation = C[x].generation + 1 /\ Tidy(C, Z, A)
            /\ T[f].handle = <<x, d.generation>>
            /\ \A g \in Fd : g # f => T[g].open = Z[g].open /\ T[g].handle = Z[g].handle
        BY <1>2, <1>4, <1>15, <2>4, <2>5, <2>7
      <3>2. \A y \in Slot : Z[f].handle # <<y, C[y].generation>>
        BY <1>2, <1>3, HandleIs DEF Connection
      <3> HIDE DEF C, Z, A
      <3>3. Tidy([C EXCEPT ![x] = d], T, A)
        <4>1. \A y \in Slot : /\ C[y].state # "CLOSED" /\ Z[f].open
                              /\ Z[f].handle = <<y, C[y].generation>>
                              => <<y, C[y].generation>> \in A
          BY <3>2
        <4>2. A \subseteq A /\ d \in Connection /\ d.parent = NO_PARENT /\ x \in Slot
              /\ T \in [Fd -> Socket] /\ T[f].open
          BY <1>4, <2>4, <2>7
        <4> QED
          BY ONLY <3>1, <4>1, <4>2, TidyHeld, f \in Fd
      <3> QED
        BY <3>3 DEF C, A
    <2>10. TidyInv'
      <3>1. \A i \in Host : Left(i)' = Left(i)
        BY <1>3, LeftSame
      <3>2. Tidy(conn'[h], sock'[h], Left(h)')
        BY <2>3, <2>8, <2>9, <3>1
      <3> QED
        BY <1>1, <2>3, <2>8, <3>1, <3>2, TidyRest
    <2>11. Kept
      BY <1>14, <2>3, <2>8, <2>10 DEF Kept
    <2> QED
      BY <1>2, <1>3, <1>6, <2>11, KeptIs
  <1> QED
    BY <1>16, <1>17

LEMMA LeastOrder ==
    ASSUME TcpInv, NEW h \in Host, NEW Y \in SUBSET Slot, Y # {}
    PROVE  (CHOOSE z \in Y : \A w \in Y : conn[h][z].order <= conn[h][w].order) \in Y
  <1> DEFINE N == {conn[h][z].order : z \in Y}
  <1>1. \A z \in Y : conn[h][z].order \in Nat
    BY DEF TcpInv, TablesInv, Connection
  <1>2. N \in SUBSET Nat /\ N # {}
    BY <1>1
  <1>3. PICK n \in N : \A k \in N : n <= k
    <2> DEFINE R == {p \in Nat \X Nat : p[1] < p[2]}
    <2>1. IsWellFoundedOn(R, Nat)
      BY NatLessThanWellFounded DEF OpToRel
    <2>2. \A x, n \in Nat : x < n => <<x, n>> \in R
      OBVIOUS
    <2> HIDE DEF R, N
    <2>3. PICK n \in N : \A x \in N : ~(<<x, n>> \in R)
      BY <1>2, <2>1, WFMin
    <2>4. ASSUME NEW k \in N PROVE n <= k
      <3>1. n \in Nat /\ k \in Nat /\ ~(k < n)
        BY <1>2, <2>2, <2>3
      <3> QED
        BY <3>1
    <2> QED
      BY <2>3, <2>4
  <1>4. PICK z \in Y : conn[h][z].order = n
    BY <1>3
  <1>5. \A w \in Y : conn[h][z].order <= conn[h][w].order
    BY <1>3, <1>4
  <1> QED
    BY <1>4, <1>5

AcceptedAt(c, y) == [c EXCEPT !.accepted = y, !.parent = NO_PARENT]

\* The socket that takes a child.
TakerAt(y, p, k) ==
    [FreeSocket EXCEPT !.open = y, !.bound = y, !.connected = y, !.port = p, !.handle = k]

LEMMA AcceptedIs ==
    ASSUME NEW b, Good(b), Settled(b)
    PROVE  LET c == [b EXCEPT !.accepted = TRUE, !.parent = NO_PARENT]
           IN  /\ c \in Connection /\ Good(c) /\ Settled(c) /\ c.state = b.state
               /\ c.generation = b.generation /\ c.parent = NO_PARENT /\ c.lport = b.lport
  <1> DEFINE D(y) == AcceptedAt(b, y)
             c == D(TRUE)
  <1>1. b \in Connection
    BY DEF Good
  <1>a. \A y \in BOOLEAN : D(y) \in Connection /\ D(y).parent = NO_PARENT
    BY <1>1 DEF AcceptedAt, Connection
  <1>2. \A y \in BOOLEAN :
          /\ D(y).state = b.state /\ D(y).generation = b.generation /\ D(y).lport = b.lport
          /\ D(y).want_fin = b.want_fin /\ D(y).fin_sent = b.fin_sent
          /\ D(y).iss = b.iss /\ D(y).una = b.una /\ D(y).nxt = b.nxt /\ D(y).tx = b.tx
          /\ D(y).tx_sent = b.tx_sent /\ D(y).fin_sequence = b.fin_sequence
          /\ D(y).rto = b.rto /\ D(y).wnd = b.wnd /\ D(y).persist = b.persist
    BY <1>1 DEF AcceptedAt, Connection
  <1>3. [b EXCEPT !.accepted = TRUE, !.parent = NO_PARENT] = c
    BY DEF AcceptedAt
  <1> HIDE DEF D
  <1>4. /\ c \in Connection /\ c.parent = NO_PARENT
        /\ c.state = b.state /\ c.generation = b.generation /\ c.lport = b.lport
        /\ c.want_fin = b.want_fin /\ c.fin_sent = b.fin_sent
        /\ c.iss = b.iss /\ c.una = b.una /\ c.nxt = b.nxt /\ c.tx = b.tx
        /\ c.tx_sent = b.tx_sent /\ c.fin_sequence = b.fin_sequence
        /\ c.rto = b.rto /\ c.wnd = b.wnd /\ c.persist = b.persist
    BY <1>a, <1>2
  <1> HIDE DEF c
  <1>5. Good(c)
    BY <1>4 DEF Good, Sound
  <1>6. Settled(c)
    BY <1>4 DEF Settled, Unsent
  <1> QED
    BY <1>3, <1>4, <1>5, <1>6

LEMMA AcceptKeeps ==
    ASSUME TcpInv, NEW h \in Host, NEW f \in Fd, ns_socket_accept(h, f)
    PROVE  TcpInv'
  <1> DEFINE x == sock[h][f].handle[1]
             Y == Acceptable(h, x)
             y == CHOOSE z \in Y : \A w \in Y : conn[h][z].order <= conn[h][w].order
             b == conn[h][y]
             c == [b EXCEPT !.accepted = TRUE, !.parent = NO_PARENT]
             free == {g \in Fd : ~sock[h][g].open}
             k == [FreeSocket EXCEPT !.open = TRUE, !.bound = TRUE, !.connected = TRUE,
                                     !.port = c.lport, !.handle = Handle(h, y)]
             T == [sock[h] EXCEPT ![Min(free)] = k]
  <1>1. TablesInv /\ GoodInv /\ TidyInv
    BY DEF TcpInv
  <1>2. /\ sock[h] \in [Fd -> Socket] /\ conn[h] \in [Slot -> Connection]
        /\ order \in [Host -> Nat] /\ iss \in [Host -> Seqno] /\ ephemeral \in [Host -> Nat]
        /\ sent \in [Host -> Nat] /\ net \in SUBSET [to : Host, seg : Packet]
        /\ sock \in [Host -> [Fd -> Socket]]
    BY <1>1 DEF TablesInv
  <1>3. /\ Live(h, sock[h][f].handle) /\ Y # {}
        /\ UNCHANGED <<order, iss, ephemeral, sent, abandoned>>
    BY DEF ns_socket_accept, tables
  <1>4. \/ /\ free # {} /\ conn' = [conn EXCEPT ![h][y] = c] /\ UNCHANGED net
           /\ sock' = [sock EXCEPT ![h][Min(free)] = k]
        \/ /\ \E room \in Room :
              \E t \in {Abort(Handling(c, room)), CloseConnection(Handling(c, room))} :
                  conn' = [conn EXCEPT ![h][y] = t.c] /\ Sent(h, t, net, 1)
           /\ UNCHANGED sock
    BY DEF ns_socket_accept
  <1>5. x \in Slot
    BY <1>3, LiveIs
  <1>6. y \in Slot /\ b.state \notin Idle /\ b.parent # NO_PARENT
    <2>1. Y \in SUBSET Slot
      BY DEF Acceptable, Children
    <2>2. y \in Y
      <3> HIDE DEF Y
      <3> QED
        BY <1>3, <2>1, LeastOrder
    <2> HIDE DEF y
    <2>3. y \in Slot /\ b.parent = x /\ b.state \in {"ESTABLISHED", "CLOSE_WAIT"}
      BY <2>2 DEF Acceptable, Children
    <2>4. x # NO_PARENT
      BY <1>5 DEF NO_PARENT, Slot
    <2> QED
      BY <2>3, <2>4 DEF Idle
  <1> HIDE DEF y
  <1>7. Good(b) /\ Settled(b) /\ b \in Connection
    BY <1>1, <1>6 DEF GoodInv, Good
  <1>8. /\ c \in Connection /\ Good(c) /\ Settled(c) /\ c.state = b.state
        /\ c.generation = b.generation /\ c.parent = NO_PARENT /\ c.lport = b.lport
    BY <1>7, AcceptedIs
  <1> HIDE DEF c
  <1>9. Tidy(conn[h], sock[h], Left(h)) /\ \A i \in Host : Left(i)' = Left(i)
    BY <1>1, <1>3, LeftSame DEF TidyInv
  <1>10. CASE /\ free # {} /\ conn' = [conn EXCEPT ![h][y] = c] /\ UNCHANGED net
              /\ sock' = [sock EXCEPT ![h][Min(free)] = k]
    <2>1. Min(free) \in Fd /\ ~sock[h][Min(free)].open
      <3>1. free \in SUBSET Nat
        BY DEF Fd
      <3>2. Min(free) \in free
        <4> HIDE DEF free
        <4> QED
          BY <1>10, <3>1, MinIn
      <3> QED
        BY <3>2
    <2> DEFINE g == Min(free)
               p == Handle(h, y)
               v == c.lport
               D(z) == TakerAt(z, v, p)
    <2>2. p = <<y, b.generation>> /\ p \in Slot \X Nat /\ v \in Nat
      BY <1>6, <1>7, <1>8, HandleIs DEF Handle, Connection
    <2> HIDE DEF g, p, v
    <2>3. k \in Socket /\ k.open /\ k.handle = p
      <3>1. \A z \in BOOLEAN : D(z) \in Socket /\ D(z).open = z /\ D(z).handle = p
        BY <2>2 DEF TakerAt, FreeSocket, Socket
      <3>2. k = D(TRUE)
        BY DEF TakerAt, p, v
      <3> HIDE DEF D, k
      <3> QED
        BY <3>1, <3>2
    <2> HIDE DEF k
    <2>4. sock' = [sock EXCEPT ![h] = T]
      BY <1>2, <1>10
    <2>5. /\ T \in [Fd -> Socket] /\ T[g] = k /\ g \in Fd /\ ~sock[h][g].open
          /\ \A i \in Fd : i # g => T[i] = sock[h][i]
      BY <1>2, <2>1, <2>3 DEF g
    <2> HIDE DEF T
    <2>6. /\ sock' \in [Host -> [Fd -> Socket]] /\ sock'[h] = T
          /\ \A i \in Host \ {h} : sock'[i] = sock[i]
      BY <1>1, <2>4, <2>5, SockUpdate
    <2>7. /\ conn' \in [Host -> [Slot -> Connection]] /\ GoodInv'
          /\ conn'[h] = [conn[h] EXCEPT ![y] = c]
          /\ \A i \in Host \ {h} : conn'[i] = conn[i]
      BY <1>1, <1>6, <1>8, <1>10, TableUpdate
    <2>8. Tidy([conn[h] EXCEPT ![y] = c], T, Left(h))
      <3> DEFINE C == conn[h]
                 S == sock[h]
                 A == Left(h)
      <3>1. /\ C \in [Slot -> Connection] /\ S \in [Fd -> Socket] /\ Tidy(C, S, A)
            /\ C[y].state \notin Idle /\ C[y].parent # NO_PARENT /\ c.state = C[y].state
            /\ c.generation = C[y].generation /\ ~S[g].open /\ T[g].open
            /\ T[g].handle = <<y, C[y].generation>> /\ \A i \in Fd : i # g => T[i] = S[i]
        BY <1>2, <1>6, <1>8, <1>9, <2>2, <2>3, <2>5
      <3> HIDE DEF C, S, A
      <3>2. Tidy([C EXCEPT ![y] = c], T, A)
        BY <1>6, <1>8, <2>5, <3>1, TidyAccept
      <3> QED
        BY <3>2 DEF C, A
    <2>9. TidyInv'
      <3>1. Tidy(conn'[h], sock'[h], Left(h)')
        BY <1>9, <2>6, <2>7, <2>8
      <3> QED
        BY <1>1, <1>9, <2>6, <2>7, <3>1, TidyRest
    <2>10. Kept
      BY <1>2, <1>10, <2>6, <2>7, <2>9 DEF Kept
    <2> QED
      BY <1>2, <1>3, <2>10, KeptIs
  <1>11. CASE /\ \E room \in Room :
                 \E t \in {Abort(Handling(c, room)), CloseConnection(Handling(c, room))} :
                     conn' = [conn EXCEPT ![h][y] = t.c] /\ Sent(h, t, net, 1)
              /\ UNCHANGED sock
    <2>1. PICK room \in Room :
             \E t \in {Abort(Handling(c, room)), CloseConnection(Handling(c, room))} :
                     conn' = [conn EXCEPT ![h][y] = t.c] /\ Sent(h, t, net, 1)
      BY <1>11
    <2> DEFINE s == Handling(c, room)
    <2>2. PICK t \in {Abort(s), CloseConnection(s)} :
                     conn' = [conn EXCEPT ![h][y] = t.c] /\ Sent(h, t, net, 1)
      BY <2>1
    <2>3. s \in HandlerState /\ s.c = c
      BY <1>8, HandlingIs, RoomIs
    <2> HIDE DEF s
    <2>4. Turn(s, t) /\ (t.c.state = "CLOSED" \/ t.c.want_fin)
      <3>1. Turn(s, Abort(s)) /\ Abort(s).c.state = "CLOSED"
        <4>1. c.generation \in Nat
          BY <1>8 DEF Connection
        <4>2. Turn(s, Abort(s)) /\ Abort(s).c = Closed(c.generation)
          BY <2>3, Aborts
        <4> QED
          BY <4>1, <4>2, ClosedIs
      <3>2. /\ Turn(s, CloseConnection(s))
            /\ CloseConnection(s).c.state = "CLOSED" \/ CloseConnection(s).c.want_fin
        BY <1>6, <1>8, <2>3, Closes
      <3> QED
        BY <3>1, <3>2
    <2>5. t \in HandlerState /\ Good(t.c) /\ Settled(t.c) /\ Goes(c, t.c)
      BY <2>3, <2>4 DEF Turn, Step
    <2>6. /\ t.c \in Connection /\ t.out \in SUBSET Packet /\ t.c.generation = b.generation
          /\ t.c.state = "CLOSED" \/ (t.c.want_fin /\ t.c.parent = NO_PARENT)
      BY <1>8, <2>4, <2>5 DEF HandlerState, Goes
    <2>7. /\ conn' \in [Host -> [Slot -> Connection]] /\ GoodInv'
          /\ conn'[h] = [conn[h] EXCEPT ![y] = t.c]
          /\ \A i \in Host \ {h} : conn'[i] = conn[i]
      BY <1>1, <1>6, <2>2, <2>5, TableUpdate
    <2>8. net' \in SUBSET [to : Host, seg : Packet]
      BY <1>1, <2>2, <2>6, SentIs
    <2>9. Tidy([conn[h] EXCEPT ![y] = t.c], sock[h], Left(h))
      BY <1>2, <1>6, <1>9, <2>6, TidyEnds
    <2>10. TidyInv'
      <3>1. Tidy(conn'[h], sock'[h], Left(h)')
        BY <1>9, <1>11, <2>7, <2>9
      <3> QED
        BY <1>1, <1>9, <1>11, <2>7, <3>1, TidyRest
    <2>11. Kept
      BY <1>2, <1>11, <2>7, <2>8, <2>10 DEF Kept
    <2> QED
      BY <1>2, <1>3, <2>11, KeptIs
  <1> QED
    BY <1>4, <1>10, <1>11

\* What a call of backend_close makes of a host's connections.
LEMMA BackendClose ==
    ASSUME TcpInv, NEW h \in Host, NEW f \in Fd, NEW room \in Room,
           backend_close(h, sock[h][f].handle, room)
    PROVE  /\ conn' \in [Host -> [Slot -> Connection]] /\ GoodInv'
           /\ net' \in SUBSET [to : Host, seg : Packet]
           /\ \A j \in Host \ {h} : conn'[j] = conn[j]
           /\ \A y \in Slot : \/ conn'[h][y] = conn[h][y]
                              \/ conn[h][y].state # "CLOSED" /\ Goes(conn[h][y], conn'[h][y])
           /\ \A y \in Slot : conn'[h][y].state # "CLOSED" /\ conn'[h][y].parent # NO_PARENT =>
                 conn'[h][conn'[h][y].parent].state = conn[h][conn'[h][y].parent].state
           /\ \A y \in Slot : sock[h][f].handle = <<y, conn[h][y].generation>>
                              => conn'[h][y].state = "CLOSED" \/ conn'[h][y].want_fin
  <1> DEFINE k == sock[h][f].handle
             x == k[1]
             C == conn[h]
             s == Handling(C[x], room)
             t == IF s.c.state \in {"SYN_SENT", "SYN_RECEIVED", "ESTABLISHED", "CLOSE_WAIT"}
                  THEN CloseConnection(s) ELSE Abort(s)
  <1>1. TablesInv /\ GoodInv /\ TidyInv
    BY DEF TcpInv
  <1>2. /\ C \in [Slot -> Connection] /\ net \in SUBSET [to : Host, seg : Packet]
        /\ conn \in [Host -> [Slot -> Connection]] /\ Tidy(C, sock[h], Left(h))
    BY <1>1 DEF TablesInv, TidyInv
  <1>3. \A y \in Slot : /\ C[y].generation \in Nat
                        /\ C[y].parent # NO_PARENT => C[y].parent \in Slot
    BY <1>2 DEF Connection
  <1>4. room \in Nat
    BY RoomIs
  <1>5. CASE ~Live(h, k)
    <2>1. conn' = conn /\ net' = net
      BY <1>5 DEF backend_close
    <2>2. ASSUME NEW y \in Slot, k = <<y, C[y].generation>>
          PROVE  C[y].state = "CLOSED"
      <3>1. k # NoHandle /\ k[1] = y /\ k[2] = C[y].generation
        BY <1>3, <2>2, HandleIs
      <3> QED
        BY <1>5, <3>1 DEF Live
    <2>3. GoodInv'
      BY <1>1, <2>1 DEF GoodInv
    <2> QED
      BY <1>2, <2>1, <2>2, <2>3
  <1>6. CASE Live(h, k)
    <2>1. /\ x \in Slot /\ C[x].state # "CLOSED" /\ C[x] \in Connection /\ Good(C[x])
      BY <1>6, LiveIs
    <2>2. s \in HandlerState /\ s.c = C[x]
      BY <1>4, <2>1, HandlingIs
    <2>3. \A y \in Slot : k = <<y, C[y].generation>> => y = x
      OBVIOUS
    <2>4. CASE C[x].state # "LISTEN"
      <3>1. conn' = [conn EXCEPT ![h][x] = t.c] /\ Sent(h, t, net, 0)
        BY <1>6, <2>2, <2>4 DEF backend_close
      <3> HIDE DEF s
      <3>2. Turn(s, t) /\ (t.c.state = "CLOSED" \/ t.c.want_fin)
        <4>1. s.c.generation \in Nat /\ s.c.state \notin Idle
          BY <2>1, <2>2, <2>4 DEF Connection, Idle
        <4>2. Turn(s, Abort(s)) /\ Abort(s).c.state = "CLOSED"
          BY <2>2, <4>1, Aborts, ClosedIs
        <4>3. /\ Turn(s, CloseConnection(s))
              /\ CloseConnection(s).c.state = "CLOSED" \/ CloseConnection(s).c.want_fin
          BY <2>1, <2>2, <4>1, Closes
        <4> QED
          BY <4>2, <4>3
      <3> HIDE DEF t
      <3>3. t \in HandlerState /\ Good(t.c) /\ Settled(t.c) /\ Goes(C[x], t.c)
        BY <2>2, <3>2 DEF Turn, Step
      <3>4. t.out \in SUBSET Packet
        BY <3>3 DEF HandlerState
      <3>5. /\ conn' \in [Host -> [Slot -> Connection]] /\ GoodInv'
            /\ conn'[h] = [C EXCEPT ![x] = t.c]
            /\ \A i \in Host \ {h} : conn'[i] = conn[i]
        BY <1>1, <2>1, <3>1, <3>3, TableUpdate
      <3>6. net' \in SUBSET [to : Host, seg : Packet]
        BY <1>1, <3>1, <3>4, SentIs
      <3> DEFINE E == conn'[h]
      <3>7. E[x] = t.c /\ \A y \in Slot : y # x => E[y] = C[y]
        BY <1>2, <2>1, <3>5
      <3> HIDE DEF E, C, x
      <3>8. \A y \in Slot : E[y] = C[y] \/ (C[y].state # "CLOSED" /\ Goes(C[y], E[y]))
        BY <2>1, <3>3, <3>7
      <3>9. ASSUME NEW y \in Slot, E[y].state # "CLOSED", E[y].parent # NO_PARENT
            PROVE  E[E[y].parent].state = C[E[y].parent].state
        <4>1. C[y].state # "CLOSED" /\ E[y].parent = C[y].parent
          BY <3>8, <3>9 DEF Goes
        <4>2. C[y].parent \in Slot /\ C[C[y].parent].state = "LISTEN"
          BY <1>2, <1>3, <3>9, <4>1 DEF Tidy
        <4>3. C[y].parent # x
          BY <2>4, <4>2
        <4> QED
          BY <3>7, <4>1, <4>2, <4>3
      <3>10. \A y \in Slot : k = <<y, C[y].generation>> => E[y].state = "CLOSED" \/ E[y].want_fin
        BY <2>3, <3>2, <3>7
      <3> QED
        BY <3>5, <3>6, <3>8, <3>9, <3>10 DEF E, C
    <2>5. CASE C[x].state = "LISTEN"
      <3> DEFINE ended == {y \in Slot : C[y].state # "CLOSED" /\ C[y].parent = x}
                 turn(y) == Abort(Handling(C[y], room))
                 a == [out |-> UNION {turn(y).out : y \in ended},
                       failed |-> \E y \in ended : turn(y).failed]
                 E == [y \in Slot |-> IF y = x \/ y \in ended THEN release_connection(C[y])
                                      ELSE C[y]]
      <3>1. conn' = [conn EXCEPT ![h] = E] /\ Sent(h, a, net, 0)
        BY <1>6, <2>2, <2>5 DEF backend_close, CloseListener
      <3>2. a.out \in SUBSET Packet
        <4>1. ASSUME NEW y \in ended PROVE turn(y).out \in SUBSET Packet
          <5>1. C[y] \in Connection
            BY <1>2
          <5>2. Handling(C[y], room) \in HandlerState
            BY <1>4, <5>1, HandlingIs
          <5>3. turn(y) \in HandlerState
            BY <5>2, Aborts DEF Turn, Step
          <5> QED
            BY <5>3 DEF HandlerState
        <4> HIDE DEF turn, ended
        <4> QED
          BY <4>1
      <3>3. net' \in SUBSET [to : Host, seg : Packet]
        <4> HIDE DEF a
        <4> QED
          BY <1>1, <3>1, <3>2, SentIs
      <3> HIDE DEF a
      <3>4. \A y \in ended \cup {x} : y \in Slot /\ C[y].state # "CLOSED"
        BY <2>1
      <3>5. ASSUME NEW y \in Slot
            PROVE  LET d == release_connection(C[y])
                   IN  /\ d \in Connection /\ Good(d) /\ Settled(d) /\ d.state = "CLOSED"
                       /\ Goes(C[y], d)
        BY <1>3, ClosedIs DEF release_connection, Goes
      <3>6. ASSUME NEW y \in Slot
            PROVE  /\ E[y] \in Connection /\ Good(E[y]) /\ Settled(E[y])
                   /\ E[y] = C[y] \/ (C[y].state # "CLOSED" /\ Goes(C[y], E[y]))
                   /\ (y = x \/ y \in ended) => E[y].state = "CLOSED"
                   /\ ~(y = x \/ y \in ended) => E[y] = C[y]
        <4>1. C[y] \in Connection /\ Good(C[y]) /\ Settled(C[y])
          BY <1>1, <1>2 DEF GoodInv
        <4>2. E[y] = IF y = x \/ y \in ended THEN release_connection(C[y]) ELSE C[y]
          OBVIOUS
        <4> DEFINE d == release_connection(C[y])
        <4>3. /\ d \in Connection /\ Good(d) /\ Settled(d) /\ d.state = "CLOSED"
              /\ Goes(C[y], d)
          BY <3>5
        <4> HIDE DEF E, d, ended
        <4> QED
          BY <3>4, <4>1, <4>2, <4>3 DEF d
      <3>7. E \in [Slot -> Connection]
        BY <3>6
      <3> HIDE DEF E
      <3>8. /\ conn' \in [Host -> [Slot -> Connection]] /\ conn'[h] = E
            /\ \A i \in Host \ {h} : conn'[i] = conn[i]
        BY <1>2, <3>1, <3>7
      <3>9. GoodInv'
        <4> SUFFICES ASSUME NEW j \in Host, NEW y \in Slot
                     PROVE  Good(conn'[j][y]) /\ Settled(conn'[j][y])
          BY DEF GoodInv
        <4>1. CASE j = h
          BY <3>6, <3>8, <4>1
        <4>2. CASE j # h
          BY <1>1, <3>8, <4>2 DEF GoodInv
        <4> QED
          BY <4>1, <4>2
      <3>10. ASSUME NEW y \in Slot, E[y].state # "CLOSED", E[y].parent # NO_PARENT
             PROVE  E[E[y].parent].state = C[E[y].parent].state
        <4> DEFINE p == C[y].parent
        <4>1. y # x /\ y \notin ended /\ E[y] = C[y]
          BY <3>6, <3>10
        <4>2. p \in Slot /\ C[p].state = "LISTEN" /\ p # x
          BY <1>2, <1>3, <3>10, <4>1 DEF Tidy
        <4>3. C[p].parent = NO_PARENT
          BY <1>2, <4>2 DEF Tidy
        <4>4. x # NO_PARENT
          <5> HIDE DEF x
          <5> QED
            BY <2>1 DEF NO_PARENT, Slot
        <4>5. p \notin ended
          BY <4>3, <4>4
        <4> QED
          BY <3>6, <4>1, <4>2, <4>5
      <3>11. \A y \in Slot : k = <<y, C[y].generation>> => E[y].state = "CLOSED"
        BY <2>3, <3>6
      <3> QED
        BY <3>3, <3>6, <3>8, <3>9, <3>10, <3>11
    <2> QED
      BY <2>4, <2>5
  <1> QED
    BY <1>5, <1>6

LEMMA CloseKeeps ==
    ASSUME TcpInv, NEW h \in Host, NEW f \in Fd, ns_socket_close(h, f)
    PROVE  TcpInv'
  <1> DEFINE T == [sock[h] EXCEPT ![f] = FreeSocket]
  <1>1. TablesInv /\ GoodInv /\ TidyInv
    BY DEF TcpInv
  <1>2. /\ sock[h] \in [Fd -> Socket] /\ conn[h] \in [Slot -> Connection]
        /\ order \in [Host -> Nat] /\ iss \in [Host -> Seqno] /\ ephemeral \in [Host -> Nat]
        /\ sent \in [Host -> Nat]
    BY <1>1 DEF TablesInv
  <1>3. PICK room \in Room : backend_close(h, sock[h][f].handle, room)
    BY DEF ns_socket_close
  <1>4. /\ sock' = [sock EXCEPT ![h] = T]
        /\ UNCHANGED <<order, iss, ephemeral, sent, abandoned>>
    BY <1>1 DEF ns_socket_close, tables, TablesInv
  <1>5. /\ conn' \in [Host -> [Slot -> Connection]] /\ GoodInv'
        /\ net' \in SUBSET [to : Host, seg : Packet]
        /\ \A j \in Host \ {h} : conn'[j] = conn[j]
    BY <1>3, BackendClose
  <1>6. T \in [Fd -> Socket] /\ T[f].handle = NoHandle /\ \A g \in Fd : g # f => T[g] = sock[h][g]
    BY <1>2, FreeSocketIs
  <1> HIDE DEF T
  <1>7. /\ sock' \in [Host -> [Fd -> Socket]] /\ sock'[h] = T
        /\ \A j \in Host \ {h} : sock'[j] = sock[j]
    BY <1>1, <1>4, <1>6, SockUpdate
  <1>8. Tidy(conn'[h], T, Left(h))
    <2> DEFINE C == conn[h]
               S == sock[h]
               E == conn'[h]
               A == Left(h)
    <2>1. /\ C \in [Slot -> Connection] /\ S \in [Fd -> Socket] /\ Tidy(C, S, A)
          /\ E \in [Slot -> Connection]
          /\ \A g \in Fd : g # f => T[g].open = S[g].open /\ T[g].handle = S[g].handle
      BY <1>1, <1>2, <1>5, <1>6 DEF TidyInv
    <2>2. \A y \in Slot : E[y] = C[y] \/ (C[y].state # "CLOSED" /\ Goes(C[y], E[y]))
      BY <1>3, BackendClose
    <2>3. \A y \in Slot : E[y].state # "CLOSED" /\ E[y].parent # NO_PARENT =>
                            E[E[y].parent].state = C[E[y].parent].state
      BY <1>3, BackendClose
    <2>4. \A y \in Slot : S[f].handle = <<y, C[y].generation>>
                            => E[y].state = "CLOSED" \/ E[y].want_fin
      BY <1>3, BackendClose
    <2> HIDE DEF C, S, E, A
    <2>5. Tidy(E, T, A)
      BY <1>6, <2>1, <2>2, <2>3, <2>4, TidyDrop
    <2> QED
      BY <2>5 DEF E, A
  <1>9. TidyInv'
    <2>1. \A j \in Host : Left(j)' = Left(j)
      BY <1>4, LeftSame
    <2>2. Tidy(conn'[h], sock'[h], Left(h)')
      BY <1>7, <1>8, <2>1
    <2> QED
      BY <1>1, <1>5, <1>7, <2>1, <2>2, TidyRest
  <1>10. Kept
    BY <1>5, <1>7, <1>9 DEF Kept
  <1> QED
    BY <1>2, <1>4, <1>10, KeptIs

----------------------------------------------------------------------------
\* The invariant and what follows from it.

LEMMA InitHolds == Init => TcpInv
  <1> SUFFICES ASSUME Init PROVE TcpInv
    OBVIOUS
  <1>1. /\ Closed(0) \in Connection /\ Good(Closed(0)) /\ Settled(Closed(0))
        /\ Closed(0).state = "CLOSED"
    BY ClosedIs
  <1>2. FreeSocket \in Socket /\ FreeSocket.handle = NoHandle
    BY FreeSocketIs
  <1>3. /\ \A h \in Host, x \in Slot : conn[h][x] = Closed(0)
        /\ \A h \in Host, f \in Fd : sock[h][f] = FreeSocket
    BY DEF Init
  <1>4. /\ conn \in [Host -> [Slot -> Connection]] /\ sock \in [Host -> [Fd -> Socket]]
    BY <1>1, <1>2 DEF Init
  <1>5. /\ order \in [Host -> Nat] /\ iss \in [Host -> Seqno]
        /\ ephemeral \in [Host -> Nat] /\ sent \in [Host -> Nat]
        /\ net \in SUBSET [to : Host, seg : Packet]
    BY SocketsAssumption DEF Init, Seqno
  <1>6. GoodInv
    BY <1>1, <1>3 DEF GoodInv
  <1>7. TidyInv
    BY <1>1, <1>2, <1>3 DEF TidyInv, Tidy
  <1> QED
    BY <1>4, <1>5, <1>6, <1>7 DEF TcpInv, TablesInv

LEMMA NextKeeps == TcpInv /\ [Next]_vars => TcpInv'
  <1> SUFFICES ASSUME TcpInv, [Next]_vars PROVE TcpInv'
    OBVIOUS
  <1>1. CASE Lose
    BY <1>1, LoseKeeps
  <1>2. ASSUME NEW h \in Host, ns_tcp_input(h) PROVE TcpInv'
    BY <1>2, InputKeeps
  <1>3. ASSUME NEW h \in Host, ns_tcp_tick(h) PROVE TcpInv'
    BY <1>3, TickKeeps
  <1>4. ASSUME NEW h \in Host, User(h) PROVE TcpInv'
    <2>1. CASE ns_socket_open(h)
      BY <2>1, OpenKeeps
    <2>2. ASSUME NEW f \in Fd, ns_socket_bind(h, f) PROVE TcpInv'
      BY <2>2, BindKeeps
    <2>3. ASSUME NEW f \in Fd, ns_socket_listen(h, f) PROVE TcpInv'
      BY <2>3, ListenKeeps
    <2>4. ASSUME NEW f \in Fd, ns_tcp_connect(h, f) PROVE TcpInv'
      BY <2>4, ConnectKeeps
    <2>5. ASSUME NEW f \in Fd, ns_socket_connect(h, f) PROVE TcpInv'
      BY <2>5, ConnectedKeeps
    <2>6. ASSUME NEW f \in Fd, ns_socket_accept(h, f) PROVE TcpInv'
      BY <2>6, AcceptKeeps
    <2>7. ASSUME NEW f \in Fd, NEW n \in 1..(Load[h] - sent[h]), ns_socket_send(h, f, n)
          PROVE  TcpInv'
      <3>1. Load[h] \in Nat /\ sent[h] \in Nat
        BY SocketsAssumption DEF TcpInv, TablesInv
      <3>2. n \in Nat
        BY <3>1
      <3> QED
        BY <2>7, <3>2, SendKeeps
    <2>8. ASSUME NEW f \in Fd, ns_socket_recv(h, f) PROVE TcpInv'
      BY <2>8, RecvKeeps
    <2>9. ASSUME NEW f \in Fd, ns_socket_close(h, f) PROVE TcpInv'
      BY <2>9, CloseKeeps
    <2> QED
      BY <1>4, <2>1, <2>2, <2>3, <2>4, <2>5, <2>6, <2>7, <2>8, <2>9 DEF User
  <1>5. CASE UNCHANGED vars
    <2>1. UNCHANGED <<conn, order, iss, ephemeral, sock, net, sent, abandoned>>
      BY <1>5 DEF vars
    <2> QED
      BY <2>1 DEF TcpInv, TablesInv, GoodInv, TidyInv, Left
  <1> QED
    BY <1>1, <1>2, <1>3, <1>4, <1>5 DEF Next

LEMMA TcpTyped == TcpInv => TypeOK
  <1> SUFFICES ASSUME TcpInv PROVE TypeOK
    OBVIOUS
  <1>1. ASSUME NEW h \in Host, NEW x \in Slot, NEW c, c = conn[h][x]
        PROVE  /\ c.state \in State /\ c.parent \in Slot \cup {NO_PARENT}
               /\ {c.iss, c.irs, c.una, c.nxt, c.wl1, c.wl2, c.rnxt, c.tx_sequence,
                   c.fin_sequence, c.reorder.seq} \subseteq 0..(SeqMod - 1)
               /\ c.wnd \in 0..NS_TCP_RECV_CAPACITY /\ c.rwnd \in 0..NS_TCP_RECV_CAPACITY
               /\ Len(c.tx) <= NS_TCP_SEND_CAPACITY /\ c.tx_sent \in 0..Len(c.tx)
               /\ Len(c.rx) <= NS_TCP_RECV_CAPACITY /\ Len(c.reorder.data) <= NS_TCP_LOCAL_MSS
               /\ c.count \in 0..NS_TCP_RETRY_LIMIT
    <2>1. c \in Connection /\ c.tx_sent <= Len(c.tx)
      BY <1>1 DEF TcpInv, GoodInv, Good
    <2>2. c.reorder \in Reordered
      BY <2>1 DEF Connection
    <2>3. c.reorder.seq \in Seqno /\ Len(c.reorder.data) <= NS_TCP_LOCAL_MSS
      BY <2>2 DEF Reordered, Bytes
    <2>4. /\ c.state \in State /\ c.parent \in Slot \cup {NO_PARENT}
          /\ c.wnd \in 0..NS_TCP_RECV_CAPACITY /\ c.rwnd \in 0..NS_TCP_RECV_CAPACITY
          /\ c.count \in 0..NS_TCP_RETRY_LIMIT
      BY <2>1 DEF Connection
    <2>5. /\ c.tx \in Bytes(NS_TCP_SEND_CAPACITY) /\ c.tx_sent \in Nat
          /\ c.rx \in Bytes(NS_TCP_RECV_CAPACITY)
      BY <2>1 DEF Connection
    <2>6. /\ Len(c.tx) \in Nat /\ Len(c.tx) <= NS_TCP_SEND_CAPACITY
          /\ Len(c.rx) <= NS_TCP_RECV_CAPACITY /\ c.tx_sent \in 0..Len(c.tx)
      BY <2>1, <2>5 DEF Bytes
    <2>7. /\ c.iss \in Seqno /\ c.irs \in Seqno /\ c.una \in Seqno /\ c.nxt \in Seqno
          /\ c.wl1 \in Seqno /\ c.wl2 \in Seqno /\ c.rnxt \in Seqno
          /\ c.tx_sequence \in Seqno /\ c.fin_sequence \in Seqno
      BY <2>1 DEF Connection
    <2> QED
      BY <2>3, <2>4, <2>6, <2>7 DEF Seqno
  <1>2. \A h \in Host, f \in Fd : sock[h][f].handle \in {NoHandle} \cup (Slot \X Nat)
    BY DEF TcpInv, TablesInv, Socket
  <1>3. \A p \in net : p.to \in Host /\ p.seg.flags \subseteq Flag
    BY DEF TcpInv, TablesInv, Packet
  <1> QED
    BY <1>1, <1>2, <1>3 DEF TypeOK

LEMMA TcpArmed == TcpInv => NoStall
  <1> SUFFICES ASSUME TcpInv, NEW h \in Host, NEW x \in Slot,
                      conn[h][x].state \notin {"CLOSED", "LISTEN"}
               PROVE  /\ conn[h][x].una # conn[h][x].nxt => conn[h][x].rto
                      /\ Unsent(conn[h][x]) /\ conn[h][x].una = conn[h][x].nxt
                            /\ conn[h][x].wnd = 0 => conn[h][x].persist
    BY DEF NoStall
  <1>1. Good(conn[h][x]) /\ Settled(conn[h][x])
    BY DEF TcpInv, GoodInv
  <1>2. Sound(conn[h][x])
    BY <1>1 DEF Good, Idle
  <1> QED
    BY <1>1, <1>2 DEF Sound, Settled

LEMMA TcpOwned == TcpInv => ConnectionsOwned
  <1> SUFFICES ASSUME TcpInv, NEW h \in Host, NEW x \in Slot, conn[h][x].state # "CLOSED",
                      NEW owners,
                      owners = {f \in Fd : sock[h][f].open /\ sock[h][f].handle = Handle(h, x)}
               PROVE  /\ Cardinality(owners) <= 1
                      /\ \/ owners # {}
                         \/ conn[h][x].want_fin
                         \/ /\ conn[h][x].parent # NO_PARENT
                            /\ conn[h][conn[h][x].parent].state = "LISTEN"
                         \/ <<h, Handle(h, x)>> \in abandoned
    BY DEF ConnectionsOwned
  <1>1. Tidy(conn[h], sock[h], Left(h))
    BY DEF TcpInv, TidyInv
  <1>2. conn[h][x].generation \in Nat
    BY DEF TcpInv, TablesInv, Connection
  <1>3. Handle(h, x) # NoHandle /\ Handle(h, x) = <<x, conn[h][x].generation>>
    BY <1>2, HandleIs DEF Handle
  <1>4. \A f, g \in owners : f = g
    BY <1>1, <1>3 DEF Tidy
  <1>5. Cardinality(owners) <= 1
    <2>1. CASE owners = {}
      <3>1. Cardinality({}) = 0
        BY FS_EmptySet
      <3> QED
        BY <2>1, <3>1
    <2>2. CASE owners # {}
      <3>1. PICK f : f \in owners
        BY <2>2
      <3>2. owners = {f}
        BY <1>4, <3>1
      <3> QED
        BY <3>2, FS_Singleton
    <2> QED
      BY <2>1, <2>2
  <1>6. \/ conn[h][x].want_fin
        \/ conn[h][x].parent # NO_PARENT
        \/ Handle(h, x) \in Left(h)
        \/ \E f \in Fd : sock[h][f].open /\ sock[h][f].handle = Handle(h, x)
    BY <1>1, <1>3 DEF Tidy
  <1>7. Handle(h, x) \in Left(h) => <<h, Handle(h, x)>> \in abandoned
    BY DEF Left
  <1>8. conn[h][x].parent # NO_PARENT => conn[h][conn[h][x].parent].state = "LISTEN"
    BY <1>1 DEF Tidy
  <1> QED
    BY <1>5, <1>6, <1>7, <1>8

\* The connection and socket tables of every host, and the segments in flight,
\* keep their types and their bounds: no handler fills a buffer beyond its size
\* or counts a retry beyond the limit (net_tcp.c).
THEOREM TcpTypeCorrect == Spec => []TypeOK
  <1>1. Init => TcpInv
    BY InitHolds
  <1>2. TcpInv /\ [Next]_vars => TcpInv'
    BY NextKeeps
  <1>3. TcpInv => TypeOK
    BY TcpTyped
  <1> QED
    BY <1>1, <1>2, <1>3, PTL DEF Spec

\* Whatever the network loses, repeats or delays and whichever segments the
\* interface refuses, a connection with bytes in flight has a retransmission
\* deadline and one that a closed window holds back has a persist deadline
\* (start_retransmit_timer, reset_retransmit_after_progress, flush_send).
THEOREM NothingStalls == Spec => []NoStall
  <1>1. Init => TcpInv
    BY InitHolds
  <1>2. TcpInv /\ [Next]_vars => TcpInv'
    BY NextKeeps
  <1>3. TcpInv => NoStall
    BY TcpArmed
  <1> QED
    BY <1>1, <1>2, <1>3, PTL DEF Spec

\* No connection is left behind in the table: each has one open socket, waits
\* for a live listener, is closing, or is the one that a second listen
\* overwrote (backend_close, ns_tcp_close, ns_tcp_accept, backend_listen).
THEOREM ConnectionsStayOwned == Spec => []ConnectionsOwned
  <1>1. Init => TcpInv
    BY InitHolds
  <1>2. TcpInv /\ [Next]_vars => TcpInv'
    BY NextKeeps
  <1>3. TcpInv => ConnectionsOwned
    BY TcpOwned
  <1> QED
    BY <1>1, <1>2, <1>3, PTL DEF Spec
====
