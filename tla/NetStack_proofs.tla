--------------------------- MODULE NetStack_proofs ---------------------------
(***************************************************************************)
(* Proofs about NetStack for every size of the ARP cache, of the queue of  *)
(* waiting datagrams and of the tables of UDP, DHCP and DNS, every set of  *)
(* hosts and configurations and every behaviour of the network.            *)
(***************************************************************************)
EXTENDS NetStack, SequenceTheorems, FiniteSetTheorems, WellFoundedInduction, TLAPS

\* A function, or a record, with the domain D.
Whole(f, D) == DOMAIN f = D /\ f = [x \in D |-> f[x]]

LinkFields == {"address", "gateway", "routes", "arp", "pending", "tx", "out", "refused"}
EntryFields == {"state", "ip", "mac", "age", "req"}
PacketFields == {"used", "hop", "packet", "age"}

----------------------------------------------------------------------------
\* Numbers, functions and sequences.

LEMMA MinIs ==
    ASSUME NEW S \in SUBSET Nat, S # {}
    PROVE  Min(S) \in S /\ \A y \in S : Min(S) <= y
  <1> DEFINE R == {p \in Nat \X Nat : p[1] < p[2]}
  <1>1. IsWellFoundedOn(R, Nat)
    BY NatLessThanWellFounded DEF OpToRel
  <1>2. \A x, n \in Nat : x < n => <<x, n>> \in R
    OBVIOUS
  <1> HIDE DEF R
  <1>3. PICK n \in S : \A x \in S : ~(<<x, n>> \in R)
    BY <1>1, WFMin
  <1>4. ASSUME NEW y \in S PROVE n <= y
    <2>1. n \in Nat /\ y \in Nat /\ ~(y < n)
      BY <1>2, <1>3
    <2> QED
      BY <2>1
  <1> QED
    BY <1>3, <1>4 DEF Min

\* A set of numbers up to N that is left downwards and does not hold 0 is empty.
LEMMA Downwards ==
    ASSUME NEW N \in Nat, NEW B, B \subseteq 0..N, 0 \notin B,
           \A n \in 1..N : n \in B => n - 1 \in B
    PROVE  B = {}
  <1>1. SUFFICES ASSUME B # {} PROVE FALSE
    OBVIOUS
  <1>2. B \in SUBSET Nat
    OBVIOUS
  <1>3. Min(B) \in B /\ \A y \in B : Min(B) <= y
    BY <1>1, <1>2, MinIs
  <1> DEFINE m == Min(B)
  <1> HIDE DEF m
  <1>4. m \in B /\ \A y \in B : m <= y
    BY <1>3 DEF m
  <1>5. m \in 1..N /\ m \in Nat
    BY <1>4
  <1>6. m - 1 \in B /\ m - 1 \in Nat
    BY <1>4, <1>5
  <1> QED
    BY <1>4, <1>5, <1>6

LEMMA MaxTwo ==
    ASSUME NEW a \in Int, NEW b \in Int
    PROVE  Max({a, b}) = IF a >= b THEN a ELSE b
  <1>1. \A x \in {a, b} : (\A y \in {a, b} : x >= y) => x = IF a >= b THEN a ELSE b
    OBVIOUS
  <1>2. \E x \in {a, b} : \A y \in {a, b} : x >= y
    OBVIOUS
  <1> QED
    BY <1>1, <1>2 DEF Max

LEMMA MinTwo ==
    ASSUME NEW a \in Int, NEW b \in Int
    PROVE  Min({a, b}) = IF a <= b THEN a ELSE b
  <1>1. \A x \in {a, b} : (\A y \in {a, b} : x <= y) => x = IF a <= b THEN a ELSE b
    OBVIOUS
  <1>2. \E x \in {a, b} : \A y \in {a, b} : x <= y
    OBVIOUS
  <1> QED
    BY <1>1, <1>2 DEF Min

\* A sequence, of whatever it holds.
IsSeq(q) == q \in Seq(Range(q))

LEMMA AppendIs ==
    ASSUME NEW q, IsSeq(q), NEW v
    PROVE  /\ IsSeq(Append(q, v)) /\ Len(Append(q, v)) = Len(q) + 1 /\ Len(q) \in Nat
           /\ DOMAIN q = 1..Len(q) /\ DOMAIN Append(q, v) = 1..(Len(q) + 1)
           /\ \A x \in 1..Len(q) : Append(q, v)[x] = q[x]
           /\ Append(q, v)[Len(q) + 1] = v
  <1> DEFINE S == Range(q) \cup {v}
             r == Append(q, v)
  <1>1. q \in Seq(S) /\ v \in S /\ Len(q) \in Nat /\ DOMAIN q = 1..Len(q)
    BY DEF IsSeq
  <1> HIDE DEF S
  <1>2. /\ r \in Seq(S) /\ Len(r) = Len(q) + 1 /\ r[Len(q) + 1] = v
        /\ \A x \in 1..Len(q) : r[x] = q[x]
    BY <1>1
  <1>3. DOMAIN r = 1..(Len(q) + 1)
    BY <1>2
  <1>4. IsSeq(r)
    <2>1. \A x \in 1..Len(r) : r[x] \in Range(r)
      BY <1>2, <1>3 DEF Range
    <2>2. r \in [1..Len(r) -> S] /\ Len(r) \in Nat
      <3> HIDE DEF r
      <3> QED
        BY <1>2, LenProperties
    <2>3. r = [x \in 1..Len(r) |-> r[x]]
      <3> HIDE DEF r
      <3> QED
        BY <2>2
    <2> HIDE DEF r
    <2> QED
      BY <2>1, <2>2, <2>3 DEF IsSeq
  <1> QED
    BY <1>1, <1>2, <1>3, <1>4

LEMMA EmptySeqIs == IsSeq(<<>>) /\ Len(<<>>) = 0 /\ DOMAIN <<>> = {}
  BY DEF IsSeq

LEMMA TailIs ==
    ASSUME NEW q, IsSeq(q), q # <<>>
    PROVE  IsSeq(Tail(q)) /\ Len(Tail(q)) = Len(q) - 1 /\ Len(q) \in Nat /\ Len(q) > 0
  <1> DEFINE r == Tail(q)
  <1>1. q \in Seq(Range(q)) /\ Len(q) \in Nat
    BY DEF IsSeq
  <1>2. r \in Seq(Range(q)) /\ Len(r) = Len(q) - 1 /\ Len(q) > 0
    BY <1>1
  <1> HIDE DEF r
  <1>3. Len(r) \in Nat /\ r \in [1..Len(r) -> Range(q)]
    BY <1>2, LenProperties
  <1>4a. DOMAIN r = 1..Len(r) /\ r = [x \in 1..Len(r) |-> r[x]]
    BY <1>3
  <1>4. \A x \in 1..Len(r) : r[x] \in Range(r)
    BY <1>3, <1>4a DEF Range
  <1>5. IsSeq(r)
    BY <1>3, <1>4, <1>4a DEF IsSeq
  <1> QED
    BY <1>1, <1>2, <1>5 DEF r

----------------------------------------------------------------------------
\* The states between the steps of a loop over a table.
IsArpTick(k, t, f) ==
    f = [n \in 0..NET_ARP_CACHE_CAPACITY |-> IF n = 0 THEN k ELSE TickEntry(f[n - 1], n, t)]

LEMMA ArpTickExist ==
    ASSUME NEW k, NEW t
    PROVE  \E f : IsArpTick(k, t, f)
  <1> DEFINE Upto(m, f) == f = [n \in 0..m |-> IF n = 0 THEN k ELSE TickEntry(f[n - 1], n, t)]
             Bad == {m \in 0..NET_ARP_CACHE_CAPACITY : ~\E f : Upto(m, f)}
  <1>1. NET_ARP_CACHE_CAPACITY \in Nat
    BY LinkAssumption
  <1>2. 0 \notin Bad
    <2> DEFINE f == [n \in 0..0 |-> k]
    <2>1. f = [n \in 0..0 |-> IF n = 0 THEN k ELSE TickEntry(f[n - 1], n, t)]
      OBVIOUS
    <2>2. Upto(0, f)
      BY <2>1
    <2> HIDE DEF f, Upto
    <2> QED
      BY <2>2
  <1>3. ASSUME NEW m \in 1..NET_ARP_CACHE_CAPACITY, m - 1 \notin Bad PROVE m \notin Bad
    <2>1. m \in Nat /\ m # 0 /\ m - 1 \in 0..NET_ARP_CACHE_CAPACITY /\ m - 1 \in Nat
      BY <1>1
    <2>2. PICK g : Upto(m - 1, g)
      <3> HIDE DEF Upto
      <3> QED
        BY <1>3, <2>1
    <2> DEFINE f == [n \in 0..m |-> IF n = m THEN TickEntry(g[m - 1], m, t) ELSE g[n]]
    <2>3. \A n \in 0..m : n # m => n \in 0..(m - 1)
      BY <2>1
    <2>4. \A n \in 0..m : f[n] = IF n = 0 THEN k ELSE TickEntry(f[n - 1], n, t)
      <3> TAKE n \in 0..m
      <3>1. CASE n = m
        <4>1. f[m] = TickEntry(g[m - 1], m, t) /\ f[m - 1] = g[m - 1]
          BY <2>1
        <4> QED
          BY <2>1, <3>1, <4>1
      <3>2. CASE n # m
        <4>1. n \in 0..(m - 1) /\ f[n] = g[n]
          BY <2>3, <3>2
        <4>2. g[n] = IF n = 0 THEN k ELSE TickEntry(g[n - 1], n, t)
          BY <2>2, <4>1
        <4>3. n # 0 => n - 1 \in 0..m /\ n - 1 # m
          BY <2>1, <4>1
        <4>4. n # 0 => f[n - 1] = g[n - 1]
          BY <4>3
        <4> QED
          BY <4>1, <4>2, <4>4
      <3> QED
        BY <3>1, <3>2
    <2>5. Upto(m, f)
      <3>1. f = [n \in 0..m |-> f[n]]
        OBVIOUS
      <3> HIDE DEF f
      <3> QED
        BY <2>4, <3>1
    <2> HIDE DEF f, Upto
    <2> QED
      BY <2>5
  <1>4. Bad = {}
    <2>1. Bad \subseteq 0..NET_ARP_CACHE_CAPACITY
      OBVIOUS
    <2> HIDE DEF Bad
    <2> QED
      BY <1>1, <1>2, <1>3, <2>1, Downwards
  <1>5. \E f : Upto(NET_ARP_CACHE_CAPACITY, f)
    <2>1. NET_ARP_CACHE_CAPACITY \in 0..NET_ARP_CACHE_CAPACITY
      BY <1>1
    <2>2. NET_ARP_CACHE_CAPACITY \notin Bad
      <3> HIDE DEF Bad
      <3> QED
        BY <1>4
    <2> HIDE DEF Upto
    <2> QED
      BY <2>1, <2>2
  <1> QED
    BY <1>5 DEF IsArpTick

LEMMA ArpTickStates ==
    ASSUME NEW k, NEW t
    PROVE  \E f : /\ net_arp_tick(k, t) = f[NET_ARP_CACHE_CAPACITY] /\ f[0] = k
                  /\ \A n \in 1..NET_ARP_CACHE_CAPACITY : f[n] = TickEntry(f[n - 1], n, t)
  <1> DEFINE f == CHOOSE f : IsArpTick(k, t, f)
  <1>1. IsArpTick(k, t, f)
    BY ArpTickExist
  <1>2. net_arp_tick(k, t) = f[NET_ARP_CACHE_CAPACITY]
    BY DEF net_arp_tick, IsArpTick
  <1> HIDE DEF f
  <1>3. \A n \in 0..NET_ARP_CACHE_CAPACITY : f[n] = IF n = 0 THEN k ELSE TickEntry(f[n - 1], n, t)
    BY <1>1 DEF IsArpTick
  <1>4. 0 \in 0..NET_ARP_CACHE_CAPACITY /\ \A n \in 1..NET_ARP_CACHE_CAPACITY : n \in 0..NET_ARP_CACHE_CAPACITY /\ n # 0
    BY LinkAssumption
  <1> QED
    BY <1>2, <1>3, <1>4

IsNotify(k, a, f) ==
    f = [n \in 0..NET_IPV4_PENDING_CAPACITY |-> IF n = 0 THEN k ELSE NotifyPending(f[n - 1], n, a, net_arp_lookup(k, a))]

LEMMA NotifyExist ==
    ASSUME NEW k, NEW a
    PROVE  \E f : IsNotify(k, a, f)
  <1> DEFINE Upto(m, f) == f = [n \in 0..m |-> IF n = 0 THEN k ELSE NotifyPending(f[n - 1], n, a, net_arp_lookup(k, a))]
             Bad == {m \in 0..NET_IPV4_PENDING_CAPACITY : ~\E f : Upto(m, f)}
  <1>1. NET_IPV4_PENDING_CAPACITY \in Nat
    BY LinkAssumption
  <1>2. 0 \notin Bad
    <2> DEFINE f == [n \in 0..0 |-> k]
    <2>1. f = [n \in 0..0 |-> IF n = 0 THEN k ELSE NotifyPending(f[n - 1], n, a, net_arp_lookup(k, a))]
      OBVIOUS
    <2>2. Upto(0, f)
      BY <2>1
    <2> HIDE DEF f, Upto
    <2> QED
      BY <2>2
  <1>3. ASSUME NEW m \in 1..NET_IPV4_PENDING_CAPACITY, m - 1 \notin Bad PROVE m \notin Bad
    <2>1. m \in Nat /\ m # 0 /\ m - 1 \in 0..NET_IPV4_PENDING_CAPACITY /\ m - 1 \in Nat
      BY <1>1
    <2>2. PICK g : Upto(m - 1, g)
      <3> HIDE DEF Upto
      <3> QED
        BY <1>3, <2>1
    <2> DEFINE f == [n \in 0..m |-> IF n = m THEN NotifyPending(g[m - 1], m, a, net_arp_lookup(k, a)) ELSE g[n]]
    <2>3. \A n \in 0..m : n # m => n \in 0..(m - 1)
      BY <2>1
    <2>4. \A n \in 0..m : f[n] = IF n = 0 THEN k ELSE NotifyPending(f[n - 1], n, a, net_arp_lookup(k, a))
      <3> TAKE n \in 0..m
      <3>1. CASE n = m
        <4>1. f[m] = NotifyPending(g[m - 1], m, a, net_arp_lookup(k, a)) /\ f[m - 1] = g[m - 1]
          BY <2>1
        <4> QED
          BY <2>1, <3>1, <4>1
      <3>2. CASE n # m
        <4>1. n \in 0..(m - 1) /\ f[n] = g[n]
          BY <2>3, <3>2
        <4>2. g[n] = IF n = 0 THEN k ELSE NotifyPending(g[n - 1], n, a, net_arp_lookup(k, a))
          BY <2>2, <4>1
        <4>3. n # 0 => n - 1 \in 0..m /\ n - 1 # m
          BY <2>1, <4>1
        <4>4. n # 0 => f[n - 1] = g[n - 1]
          BY <4>3
        <4> QED
          BY <4>1, <4>2, <4>4
      <3> QED
        BY <3>1, <3>2
    <2>5. Upto(m, f)
      <3>1. f = [n \in 0..m |-> f[n]]
        OBVIOUS
      <3> HIDE DEF f
      <3> QED
        BY <2>4, <3>1
    <2> HIDE DEF f, Upto
    <2> QED
      BY <2>5
  <1>4. Bad = {}
    <2>1. Bad \subseteq 0..NET_IPV4_PENDING_CAPACITY
      OBVIOUS
    <2> HIDE DEF Bad
    <2> QED
      BY <1>1, <1>2, <1>3, <2>1, Downwards
  <1>5. \E f : Upto(NET_IPV4_PENDING_CAPACITY, f)
    <2>1. NET_IPV4_PENDING_CAPACITY \in 0..NET_IPV4_PENDING_CAPACITY
      BY <1>1
    <2>2. NET_IPV4_PENDING_CAPACITY \notin Bad
      <3> HIDE DEF Bad
      <3> QED
        BY <1>4
    <2> HIDE DEF Upto
    <2> QED
      BY <2>1, <2>2
  <1> QED
    BY <1>5 DEF IsNotify

LEMMA NotifyStates ==
    ASSUME NEW k, NEW a
    PROVE  \E f : /\ net_ipv4_notify_arp_resolved(k, a) = f[NET_IPV4_PENDING_CAPACITY] /\ f[0] = k
                  /\ \A n \in 1..NET_IPV4_PENDING_CAPACITY : f[n] = NotifyPending(f[n - 1], n, a, net_arp_lookup(k, a))
  <1> DEFINE f == CHOOSE f : IsNotify(k, a, f)
  <1>1. IsNotify(k, a, f)
    BY NotifyExist
  <1>2. net_ipv4_notify_arp_resolved(k, a) = f[NET_IPV4_PENDING_CAPACITY]
    BY DEF net_ipv4_notify_arp_resolved, IsNotify
  <1> HIDE DEF f
  <1>3. \A n \in 0..NET_IPV4_PENDING_CAPACITY : f[n] = IF n = 0 THEN k ELSE NotifyPending(f[n - 1], n, a, net_arp_lookup(k, a))
    BY <1>1 DEF IsNotify
  <1>4. 0 \in 0..NET_IPV4_PENDING_CAPACITY /\ \A n \in 1..NET_IPV4_PENDING_CAPACITY : n \in 0..NET_IPV4_PENDING_CAPACITY /\ n # 0
    BY LinkAssumption
  <1> QED
    BY <1>2, <1>3, <1>4

IsQueueTick(k, t, f) ==
    f = [n \in 0..NET_IPV4_PENDING_CAPACITY |-> IF n = 0 THEN k ELSE TickPending(f[n - 1], n, t)]

LEMMA QueueTickExist ==
    ASSUME NEW k, NEW t
    PROVE  \E f : IsQueueTick(k, t, f)
  <1> DEFINE Upto(m, f) == f = [n \in 0..m |-> IF n = 0 THEN k ELSE TickPending(f[n - 1], n, t)]
             Bad == {m \in 0..NET_IPV4_PENDING_CAPACITY : ~\E f : Upto(m, f)}
  <1>1. NET_IPV4_PENDING_CAPACITY \in Nat
    BY LinkAssumption
  <1>2. 0 \notin Bad
    <2> DEFINE f == [n \in 0..0 |-> k]
    <2>1. f = [n \in 0..0 |-> IF n = 0 THEN k ELSE TickPending(f[n - 1], n, t)]
      OBVIOUS
    <2>2. Upto(0, f)
      BY <2>1
    <2> HIDE DEF f, Upto
    <2> QED
      BY <2>2
  <1>3. ASSUME NEW m \in 1..NET_IPV4_PENDING_CAPACITY, m - 1 \notin Bad PROVE m \notin Bad
    <2>1. m \in Nat /\ m # 0 /\ m - 1 \in 0..NET_IPV4_PENDING_CAPACITY /\ m - 1 \in Nat
      BY <1>1
    <2>2. PICK g : Upto(m - 1, g)
      <3> HIDE DEF Upto
      <3> QED
        BY <1>3, <2>1
    <2> DEFINE f == [n \in 0..m |-> IF n = m THEN TickPending(g[m - 1], m, t) ELSE g[n]]
    <2>3. \A n \in 0..m : n # m => n \in 0..(m - 1)
      BY <2>1
    <2>4. \A n \in 0..m : f[n] = IF n = 0 THEN k ELSE TickPending(f[n - 1], n, t)
      <3> TAKE n \in 0..m
      <3>1. CASE n = m
        <4>1. f[m] = TickPending(g[m - 1], m, t) /\ f[m - 1] = g[m - 1]
          BY <2>1
        <4> QED
          BY <2>1, <3>1, <4>1
      <3>2. CASE n # m
        <4>1. n \in 0..(m - 1) /\ f[n] = g[n]
          BY <2>3, <3>2
        <4>2. g[n] = IF n = 0 THEN k ELSE TickPending(g[n - 1], n, t)
          BY <2>2, <4>1
        <4>3. n # 0 => n - 1 \in 0..m /\ n - 1 # m
          BY <2>1, <4>1
        <4>4. n # 0 => f[n - 1] = g[n - 1]
          BY <4>3
        <4> QED
          BY <4>1, <4>2, <4>4
      <3> QED
        BY <3>1, <3>2
    <2>5. Upto(m, f)
      <3>1. f = [n \in 0..m |-> f[n]]
        OBVIOUS
      <3> HIDE DEF f
      <3> QED
        BY <2>4, <3>1
    <2> HIDE DEF f, Upto
    <2> QED
      BY <2>5
  <1>4. Bad = {}
    <2>1. Bad \subseteq 0..NET_IPV4_PENDING_CAPACITY
      OBVIOUS
    <2> HIDE DEF Bad
    <2> QED
      BY <1>1, <1>2, <1>3, <2>1, Downwards
  <1>5. \E f : Upto(NET_IPV4_PENDING_CAPACITY, f)
    <2>1. NET_IPV4_PENDING_CAPACITY \in 0..NET_IPV4_PENDING_CAPACITY
      BY <1>1
    <2>2. NET_IPV4_PENDING_CAPACITY \notin Bad
      <3> HIDE DEF Bad
      <3> QED
        BY <1>4
    <2> HIDE DEF Upto
    <2> QED
      BY <2>1, <2>2
  <1> QED
    BY <1>5 DEF IsQueueTick

LEMMA QueueTickStates ==
    ASSUME NEW k, NEW t
    PROVE  \E f : /\ net_ipv4_tick(k, t) = f[NET_IPV4_PENDING_CAPACITY] /\ f[0] = k
                  /\ \A n \in 1..NET_IPV4_PENDING_CAPACITY : f[n] = TickPending(f[n - 1], n, t)
  <1> DEFINE f == CHOOSE f : IsQueueTick(k, t, f)
  <1>1. IsQueueTick(k, t, f)
    BY QueueTickExist
  <1>2. net_ipv4_tick(k, t) = f[NET_IPV4_PENDING_CAPACITY]
    BY DEF net_ipv4_tick, IsQueueTick
  <1> HIDE DEF f
  <1>3. \A n \in 0..NET_IPV4_PENDING_CAPACITY : f[n] = IF n = 0 THEN k ELSE TickPending(f[n - 1], n, t)
    BY <1>1 DEF IsQueueTick
  <1>4. 0 \in 0..NET_IPV4_PENDING_CAPACITY /\ \A n \in 1..NET_IPV4_PENDING_CAPACITY : n \in 0..NET_IPV4_PENDING_CAPACITY /\ n # 0
    BY LinkAssumption
  <1> QED
    BY <1>2, <1>3, <1>4

IsDnsPoll(s, f) ==
    f = [n \in 0..NET_DNS_MAX_TRANSACTIONS |-> IF n = 0 THEN [s EXCEPT !.dns = DropExpired(@)] ELSE PollTransaction(f[n - 1], n)]

LEMMA DnsPollExist ==
    ASSUME NEW s
    PROVE  \E f : IsDnsPoll(s, f)
  <1> DEFINE Upto(m, f) == f = [n \in 0..m |-> IF n = 0 THEN [s EXCEPT !.dns = DropExpired(@)] ELSE PollTransaction(f[n - 1], n)]
             Bad == {m \in 0..NET_DNS_MAX_TRANSACTIONS : ~\E f : Upto(m, f)}
  <1>1. NET_DNS_MAX_TRANSACTIONS \in Nat
    BY ServicesAssumption
  <1>2. 0 \notin Bad
    <2> DEFINE f == [n \in 0..0 |-> [s EXCEPT !.dns = DropExpired(@)]]
    <2>1. f = [n \in 0..0 |-> IF n = 0 THEN [s EXCEPT !.dns = DropExpired(@)] ELSE PollTransaction(f[n - 1], n)]
      OBVIOUS
    <2>2. Upto(0, f)
      BY <2>1
    <2> HIDE DEF f, Upto
    <2> QED
      BY <2>2
  <1>3. ASSUME NEW m \in 1..NET_DNS_MAX_TRANSACTIONS, m - 1 \notin Bad PROVE m \notin Bad
    <2>1. m \in Nat /\ m # 0 /\ m - 1 \in 0..NET_DNS_MAX_TRANSACTIONS /\ m - 1 \in Nat
      BY <1>1
    <2>2. PICK g : Upto(m - 1, g)
      <3> HIDE DEF Upto
      <3> QED
        BY <1>3, <2>1
    <2> DEFINE f == [n \in 0..m |-> IF n = m THEN PollTransaction(g[m - 1], m) ELSE g[n]]
    <2>3. \A n \in 0..m : n # m => n \in 0..(m - 1)
      BY <2>1
    <2>4. \A n \in 0..m : f[n] = IF n = 0 THEN [s EXCEPT !.dns = DropExpired(@)] ELSE PollTransaction(f[n - 1], n)
      <3> TAKE n \in 0..m
      <3>1. CASE n = m
        <4>1. f[m] = PollTransaction(g[m - 1], m) /\ f[m - 1] = g[m - 1]
          BY <2>1
        <4> QED
          BY <2>1, <3>1, <4>1
      <3>2. CASE n # m
        <4>1. n \in 0..(m - 1) /\ f[n] = g[n]
          BY <2>3, <3>2
        <4>2. g[n] = IF n = 0 THEN [s EXCEPT !.dns = DropExpired(@)] ELSE PollTransaction(g[n - 1], n)
          BY <2>2, <4>1
        <4>3. n # 0 => n - 1 \in 0..m /\ n - 1 # m
          BY <2>1, <4>1
        <4>4. n # 0 => f[n - 1] = g[n - 1]
          BY <4>3
        <4> QED
          BY <4>1, <4>2, <4>4
      <3> QED
        BY <3>1, <3>2
    <2>5. Upto(m, f)
      <3>1. f = [n \in 0..m |-> f[n]]
        OBVIOUS
      <3> HIDE DEF f
      <3> QED
        BY <2>4, <3>1
    <2> HIDE DEF f, Upto
    <2> QED
      BY <2>5
  <1>4. Bad = {}
    <2>1. Bad \subseteq 0..NET_DNS_MAX_TRANSACTIONS
      OBVIOUS
    <2> HIDE DEF Bad
    <2> QED
      BY <1>1, <1>2, <1>3, <2>1, Downwards
  <1>5. \E f : Upto(NET_DNS_MAX_TRANSACTIONS, f)
    <2>1. NET_DNS_MAX_TRANSACTIONS \in 0..NET_DNS_MAX_TRANSACTIONS
      BY <1>1
    <2>2. NET_DNS_MAX_TRANSACTIONS \notin Bad
      <3> HIDE DEF Bad
      <3> QED
        BY <1>4
    <2> HIDE DEF Upto
    <2> QED
      BY <2>1, <2>2
  <1> QED
    BY <1>5 DEF IsDnsPoll

LEMMA DnsPollStates ==
    ASSUME NEW s
    PROVE  \E f : /\ net_dns_poll(s) = f[NET_DNS_MAX_TRANSACTIONS] /\ f[0] = [s EXCEPT !.dns = DropExpired(@)]
                  /\ \A n \in 1..NET_DNS_MAX_TRANSACTIONS : f[n] = PollTransaction(f[n - 1], n)
  <1> DEFINE f == CHOOSE f : IsDnsPoll(s, f)
  <1>1. IsDnsPoll(s, f)
    BY DnsPollExist
  <1>2. net_dns_poll(s) = f[NET_DNS_MAX_TRANSACTIONS]
    BY DEF net_dns_poll, IsDnsPoll
  <1> HIDE DEF f
  <1>3. \A n \in 0..NET_DNS_MAX_TRANSACTIONS : f[n] = IF n = 0 THEN [s EXCEPT !.dns = DropExpired(@)] ELSE PollTransaction(f[n - 1], n)
    BY <1>1 DEF IsDnsPoll
  <1>4. 0 \in 0..NET_DNS_MAX_TRANSACTIONS /\ \A n \in 1..NET_DNS_MAX_TRANSACTIONS : n \in 0..NET_DNS_MAX_TRANSACTIONS /\ n # 0
    BY ServicesAssumption
  <1> QED
    BY <1>2, <1>3, <1>4
----------------------------------------------------------------------------
\* The lower half of the stack.

EntryOK(e) ==
    /\ Whole(e, EntryFields)
    /\ e.state \in {"EMPTY", "PENDING", "VALID"} /\ e.mac \in Mac
    /\ e.age \in Nat /\ e.req \in Nat /\ e.req <= e.age
    /\ e.age < NET_ARP_CACHE_TTL_TICKS
    /\ e.state = "PENDING" => e.age < NET_ARP_PENDING_TTL_TICKS

CacheOK(k) == Whole(k.arp, ArpSlot) /\ \A x \in ArpSlot : EntryOK(k.arp[x])

ResolvesOn(k) == \A x \in ArpSlot : k.arp[x].state = "PENDING" => OnLink(k.arp[x].ip, k.address)

WaitOK(p) ==
    /\ Whole(p, PacketFields)
    /\ p.used \in BOOLEAN /\ p.age \in Nat /\ p.age < NET_IPV4_PENDING_TTL_TICKS

QueueOK(k) == Whole(k.pending, PendingSlot) /\ \A x \in PendingSlot : WaitOK(k.pending[x])

\* The routes of one configuration: the connected network and, with a gateway on it,
\* everything else.
RoutesOK(k) ==
    IF k.address = Zero THEN k.gateway = Zero /\ k.routes = {}
    ELSE /\ Network(k.address) \in Nat \ {Zero}
         /\ \E c \in Offers \cup StaticConfigs : c.address = k.address
         /\ k.gateway # Zero => \E c \in Offers \cup StaticConfigs : c.gateway = k.gateway
         /\ k.gateway # Zero => OnLink(k.gateway, k.address)
         /\ \A r \in k.routes :
               \/ r.network = Network(k.address) /\ r.gateway = Zero
               \/ r.network = Zero /\ r.gateway = k.gateway /\ k.gateway # Zero
         /\ \E r \in k.routes : r.network = Network(k.address)
         /\ k.gateway # Zero => \E r \in k.routes : r.network = Zero

LinkOK(k) ==
    /\ Whole(k, LinkFields) /\ k.tx \in Nat
    /\ CacheOK(k) /\ ResolvesOn(k) /\ QueueOK(k) /\ RoutesOK(k)

SameConfig(k, r) == r.address = k.address /\ r.gateway = k.gateway /\ r.routes = k.routes

\* A call of the lower half that leaves the configuration alone.
LinkStep(k, r) == LinkOK(r) /\ SameConfig(k, r)

LEMMA LinkAlike ==
    ASSUME NEW k, LinkOK(k), NEW r, Whole(r, LinkFields), r.tx \in Nat,
           r.arp = k.arp, r.pending = k.pending, SameConfig(k, r)
    PROVE  LinkStep(k, r)
  <1>1. CacheOK(r) /\ ResolvesOn(r)
    BY DEF LinkOK, CacheOK, ResolvesOn, SameConfig
  <1>2. QueueOK(r)
    BY DEF LinkOK, QueueOK
  <1>3. RoutesOK(r)
    BY DEF LinkOK, RoutesOK, SameConfig
  <1> QED
    BY <1>1, <1>2, <1>3 DEF LinkStep, LinkOK

LEMMA LinkStepTrans ==
    ASSUME NEW k, NEW l, NEW r, LinkStep(k, l), LinkStep(l, r)
    PROVE  LinkStep(k, r)
  BY DEF LinkStep, SameConfig

Frame(mac, type, body) == [mac |-> mac, type |-> type, body |-> body]

LEMMA SendIs ==
    ASSUME NEW k, LinkOK(k), NEW mac, NEW type, NEW body
    PROVE  LET r == net_ethernet_send(k, mac, type, body)
           IN  /\ LinkStep(k, r) /\ r.arp = k.arp /\ r.pending = k.pending
               /\ r.out = IF k.tx = 0 THEN k.out ELSE Append(k.out, Frame(mac, type, body))
  <1> DEFINE r == net_ethernet_send(k, mac, type, body)
  <1>1. Whole(k, LinkFields) /\ k.tx \in Nat
    BY DEF LinkOK
  <1>2. /\ Whole(r, LinkFields) /\ r.tx \in Nat /\ r.arp = k.arp /\ r.pending = k.pending
        /\ SameConfig(k, r)
        /\ r.out = IF k.tx = 0 THEN k.out ELSE Append(k.out, Frame(mac, type, body))
    <2>1. CASE k.tx = 0
      BY <1>1, <2>1 DEF Whole, LinkFields, SameConfig, net_ethernet_send
    <2>2. CASE k.tx # 0
      <3>1. r = [k EXCEPT !.tx = @ - 1, !.out = Append(@, Frame(mac, type, body))]
        BY <2>2 DEF net_ethernet_send, Frame
      <3>2. k.tx - 1 \in Nat
        BY <1>1, <2>2
      <3> HIDE DEF r
      <3> QED
        BY <1>1, <2>2, <3>1, <3>2 DEF Whole, LinkFields, SameConfig
    <2> QED
      BY <2>1, <2>2
  <1> HIDE DEF r
  <1>3. LinkStep(k, r)
    BY <1>2, LinkAlike
  <1> QED
    BY <1>2, <1>3 DEF r

LEMMA SetEntry ==
    ASSUME NEW k, LinkOK(k), NEW x \in ArpSlot, NEW e, EntryOK(e),
           e.state = "PENDING" => OnLink(e.ip, k.address)
    PROVE  LET r == [k EXCEPT !.arp[x] = e]
           IN  /\ LinkStep(k, r) /\ r.pending = k.pending /\ r.tx = k.tx /\ r.out = k.out
               /\ r.arp[x] = e /\ \A y \in ArpSlot : y # x => r.arp[y] = k.arp[y]
  <1> DEFINE r == [k EXCEPT !.arp[x] = e]
  <1>1. Whole(k, LinkFields) /\ k.tx \in Nat /\ Whole(k.arp, ArpSlot)
    BY DEF LinkOK, CacheOK
  <1>2. /\ Whole(r, LinkFields) /\ r.tx = k.tx /\ r.pending = k.pending /\ r.out = k.out
        /\ SameConfig(k, r) /\ Whole(r.arp, ArpSlot)
        /\ r.arp[x] = e /\ \A y \in ArpSlot : y # x => r.arp[y] = k.arp[y]
    BY <1>1 DEF Whole, LinkFields, SameConfig
  <1> HIDE DEF r
  <1>3. CacheOK(r)
    BY <1>2 DEF LinkOK, CacheOK
  <1>4. ResolvesOn(r)
    BY <1>2 DEF LinkOK, ResolvesOn, SameConfig
  <1>5. QueueOK(r) /\ RoutesOK(r)
    BY <1>2 DEF LinkOK, QueueOK, RoutesOK, SameConfig
  <1>6. LinkStep(k, r)
    BY <1>1, <1>2, <1>3, <1>4, <1>5 DEF LinkStep, LinkOK
  <1> QED
    BY <1>2, <1>6 DEF r

LEMMA SetPacket ==
    ASSUME NEW k, LinkOK(k), NEW x \in PendingSlot, NEW p, WaitOK(p)
    PROVE  LET r == [k EXCEPT !.pending[x] = p]
           IN  /\ LinkStep(k, r) /\ r.arp = k.arp /\ r.tx = k.tx /\ r.out = k.out
               /\ r.pending[x] = p /\ \A y \in PendingSlot : y # x => r.pending[y] = k.pending[y]
  <1> DEFINE r == [k EXCEPT !.pending[x] = p]
  <1>1. Whole(k, LinkFields) /\ k.tx \in Nat /\ Whole(k.pending, PendingSlot)
    BY DEF LinkOK, QueueOK
  <1>2. /\ Whole(r, LinkFields) /\ r.tx = k.tx /\ r.arp = k.arp /\ r.out = k.out
        /\ SameConfig(k, r) /\ Whole(r.pending, PendingSlot)
        /\ r.pending[x] = p /\ \A y \in PendingSlot : y # x => r.pending[y] = k.pending[y]
    BY <1>1 DEF Whole, LinkFields, SameConfig
  <1> HIDE DEF r
  <1>3. QueueOK(r)
    BY <1>2 DEF LinkOK, QueueOK
  <1>4. CacheOK(r) /\ ResolvesOn(r)
    BY <1>2 DEF LinkOK, CacheOK, ResolvesOn, SameConfig
  <1>5. RoutesOK(r)
    BY <1>2 DEF LinkOK, RoutesOK, SameConfig
  <1>6. LinkStep(k, r)
    BY <1>1, <1>2, <1>3, <1>4, <1>5 DEF LinkStep, LinkOK
  <1> QED
    BY <1>2, <1>6 DEF r

LEMMA NoEntryOK == EntryOK(EmptyEntry)
  <1>1. NoMac \in Mac
    BY DEF Mac
  <1> QED
    BY <1>1, LinkAssumption DEF EntryOK, EmptyEntry, Whole, EntryFields

LEMMA NoPacketOK == WaitOK(NoPacket)
  BY LinkAssumption DEF WaitOK, NoPacket, Whole, PacketFields

\* Some entry is the oldest.
LEMMA OldestIs ==
    ASSUME NEW k, CacheOK(k)
    PROVE  {x \in ArpSlot : \A y \in ArpSlot : k.arp[x].age >= k.arp[y].age} # {}
  <1> DEFINE T == NET_ARP_CACHE_TTL_TICKS
             S == {T - k.arp[x].age : x \in ArpSlot}
  <1>1. \A x \in ArpSlot : k.arp[x].age \in Nat /\ k.arp[x].age < T /\ T - k.arp[x].age \in Nat
    BY LinkAssumption DEF CacheOK, EntryOK
  <1>2. S \in SUBSET Nat /\ 1 \in ArpSlot
    BY <1>1, LinkAssumption DEF ArpSlot
  <1>3. S # {}
    BY <1>2
  <1> HIDE DEF S
  <1>4. Min(S) \in S /\ \A y \in S : Min(S) <= y
    BY <1>2, <1>3, MinIs
  <1>5. PICK x \in ArpSlot : Min(S) = T - k.arp[x].age
    BY <1>4 DEF S
  <1>6. ASSUME NEW y \in ArpSlot PROVE k.arp[x].age >= k.arp[y].age
    <2>1. T - k.arp[y].age \in S
      BY DEF S
    <2>2. T - k.arp[x].age <= T - k.arp[y].age
      BY <1>4, <1>5, <2>1
    <2> QED
      BY <1>1, <2>2, LinkAssumption
  <1> QED
    BY <1>6

LEMMA EntryForIs ==
    ASSUME NEW k, CacheOK(k), NEW a
    PROVE  /\ EntryFor(k, a) \in ArpSlot
           /\ find_entry(k, a) # {} => EntryFor(k, a) \in find_entry(k, a)
  <1>1. ArpSlot \subseteq Nat
    BY DEF ArpSlot
  <1>2. \A S \in SUBSET ArpSlot : S # {} => FirstOf(S) \in S
    BY <1>1, MinIs DEF FirstOf
  <1>3. allocate_entry(k) \in ArpSlot
    BY <1>2, OldestIs DEF allocate_entry
  <1>4. find_entry(k, a) \in SUBSET ArpSlot
    BY DEF find_entry
  <1> QED
    BY <1>2, <1>3, <1>4 DEF EntryFor
LEMMA RequestIs ==
    ASSUME NEW k, LinkOK(k), NEW a
    PROVE  LET r == net_arp_request(k, a)
           IN  LinkStep(k, r) /\ r.arp = k.arp /\ r.pending = k.pending
  BY SendIs DEF net_arp_request

PendingEntry(a) == [EmptyEntry EXCEPT !.state = "PENDING", !.ip = a]
ValidEntry(a, mac) == [EmptyEntry EXCEPT !.state = "VALID", !.ip = a, !.mac = mac]

LEMMA NewEntriesOK ==
    ASSUME NEW a, NEW mac \in Mac
    PROVE  /\ EntryOK(PendingEntry(a)) /\ PendingEntry(a).state = "PENDING" /\ PendingEntry(a).ip = a
           /\ EntryOK(ValidEntry(a, mac)) /\ ValidEntry(a, mac).state = "VALID"
           /\ ValidEntry(a, mac).ip = a /\ ValidEntry(a, mac).mac = mac
  <1> DEFINE p == PendingEntry(a)
             v == ValidEntry(a, mac)
  <1>1. Whole(EmptyEntry, EntryFields) /\ EmptyEntry.mac \in Mac
    BY NoEntryOK DEF EntryOK
  <1>2. EmptyEntry.age = 0 /\ EmptyEntry.req = 0
    BY DEF EmptyEntry
  <1>3. /\ Whole(p, EntryFields) /\ p.state = "PENDING" /\ p.ip = a
        /\ p.mac = EmptyEntry.mac /\ p.age = EmptyEntry.age /\ p.req = EmptyEntry.req
    BY <1>1 DEF PendingEntry, Whole, EntryFields
  <1>4. /\ Whole(v, EntryFields) /\ v.state = "VALID" /\ v.ip = a
        /\ v.mac = mac /\ v.age = EmptyEntry.age /\ v.req = EmptyEntry.req
    BY <1>1 DEF ValidEntry, Whole, EntryFields
  <1> HIDE DEF p, v
  <1>5. EntryOK(p)
    BY <1>1, <1>2, <1>3, LinkAssumption DEF EntryOK
  <1>6. EntryOK(v)
    BY <1>1, <1>2, <1>4, LinkAssumption DEF EntryOK
  <1> QED
    BY <1>3, <1>4, <1>5, <1>6 DEF p, v

\* The cache after net_arp_resolve: a new entry, or the one there was.
LEMMA ResolveIs ==
    ASSUME NEW k, LinkOK(k), NEW a, OnLink(a, k.address)
    PROVE  LET r == net_arp_resolve(k, a)
           IN  LinkStep(k, r) /\ r.pending = k.pending
  <1> DEFINE x == EntryFor(k, a)
             l == [k EXCEPT !.arp[x] = PendingEntry(a)]
  <1>1. x \in ArpSlot
    BY EntryForIs DEF LinkOK
  <1>2. NoMac \in Mac
    BY DEF Mac
  <1>3. LinkStep(k, l) /\ l.pending = k.pending
    <2> HIDE DEF x
    <2> QED
      BY <1>1, <1>2, NewEntriesOK, SetEntry
  <1>4. LinkStep(k, net_arp_request(l, a)) /\ net_arp_request(l, a).pending = k.pending
    <2> HIDE DEF l
    <2> QED
      BY <1>3, RequestIs, LinkStepTrans DEF LinkStep
  <1>5. LinkStep(k, k)
    BY DEF LinkStep, SameConfig
  <1>6. net_arp_resolve(k, a) \in {k, net_arp_request(l, a)}
    BY DEF net_arp_resolve, PendingEntry
  <1> QED
    BY <1>4, <1>5, <1>6

LEMMA AgedEntry ==
    ASSUME NEW e, EntryOK(e), NEW t \in Nat
    PROVE  LET f == [e EXCEPT !.age = @ + t]
           IN  /\ Whole(f, EntryFields) /\ f.state = e.state /\ f.ip = e.ip /\ f.mac = e.mac
               /\ f.req = e.req /\ f.age = e.age + t
  BY DEF EntryOK, Whole, EntryFields

LEMMA TickEntryIs ==
    ASSUME NEW k, LinkOK(k), NEW x \in ArpSlot, NEW t \in Nat
    PROVE  LET r == TickEntry(k, x, t)
           IN  LinkStep(k, r) /\ r.pending = k.pending
  <1> DEFINE d == k.arp[x]
             e == [d EXCEPT !.age = @ + t]
             f == [e EXCEPT !.req = e.age]
             old == [k EXCEPT !.arp[x] = EmptyEntry]
             aged == [k EXCEPT !.arp[x] = e]
             asked == [k EXCEPT !.arp[x] = f]
             over == e.age >= (IF e.state = "VALID" THEN NET_ARP_CACHE_TTL_TICKS
                                                    ELSE NET_ARP_PENDING_TTL_TICKS)
  <1>1. EntryOK(d) /\ (d.state = "PENDING" => OnLink(d.ip, k.address))
    BY DEF LinkOK, CacheOK, ResolvesOn
  <1>2. /\ Whole(e, EntryFields) /\ e.state = d.state /\ e.ip = d.ip /\ e.mac = d.mac
        /\ e.req = d.req /\ e.age = d.age + t
    <2> HIDE DEF d
    <2> QED
      BY <1>1, AgedEntry
  <1>3. TickEntry(k, x, t) = IF e.state = "EMPTY" THEN k ELSE IF over THEN old
          ELSE IF e.state = "PENDING" /\ e.age - e.req >= NET_ARP_REQUEST_RETRY_TICKS
               THEN net_arp_request(asked, e.ip) ELSE aged
    BY DEF TickEntry
  <1> HIDE DEF e, d
  <1>4. /\ Whole(f, EntryFields) /\ f.state = e.state /\ f.ip = e.ip /\ f.mac = e.mac
        /\ f.req = e.age /\ f.age = e.age
    BY <1>2 DEF Whole, EntryFields
  <1> HIDE DEF f
  <1>5. ASSUME e.state # "EMPTY", ~over PROVE EntryOK(e) /\ EntryOK(f)
    <2>1. d.age + t \in Nat /\ d.age + t >= d.age /\ d.age \in Nat /\ d.req \in Nat /\ d.req <= d.age
      BY <1>1 DEF EntryOK
    <2>2. e.age \in Nat /\ e.req \in Nat /\ e.req <= e.age
      BY <1>2, <2>1
    <2>3. e.state \in {"EMPTY", "PENDING", "VALID"} /\ e.mac \in Mac
      BY <1>1, <1>2 DEF EntryOK
    <2>4. e.age < NET_ARP_CACHE_TTL_TICKS /\ (e.state = "PENDING" => e.age < NET_ARP_PENDING_TTL_TICKS)
      BY <1>5, <2>2, <2>3, LinkAssumption
    <2> QED
      BY <1>2, <1>4, <2>2, <2>3, <2>4 DEF EntryOK
  <1>6. LinkStep(k, k)
    BY DEF LinkStep, SameConfig
  <1>7. LinkStep(k, old) /\ old.pending = k.pending
    <2>1. EmptyEntry.state # "PENDING"
      BY DEF EmptyEntry
    <2> QED
      BY <2>1, NoEntryOK, SetEntry
  <1>8. ASSUME e.state # "EMPTY", ~over PROVE LinkStep(k, aged) /\ aged.pending = k.pending
    BY <1>1, <1>2, <1>5, <1>8, SetEntry
  <1>9. ASSUME e.state # "EMPTY", ~over
        PROVE  LET r == net_arp_request(asked, e.ip) IN LinkStep(k, r) /\ r.pending = k.pending
    <2>1. LinkStep(k, asked) /\ asked.pending = k.pending
      BY <1>1, <1>2, <1>4, <1>5, <1>9, SetEntry
    <2> HIDE DEF asked
    <2> QED
      BY <2>1, RequestIs, LinkStepTrans DEF LinkStep
  <1> HIDE DEF over, old, aged, asked
  <1> QED
    BY <1>3, <1>6, <1>7, <1>8, <1>9

LEMMA ArpTickIs ==
    ASSUME NEW k, LinkOK(k), NEW t \in Nat
    PROVE  LET r == net_arp_tick(k, t) IN LinkStep(k, r) /\ r.pending = k.pending
  <1> DEFINE N == NET_ARP_CACHE_CAPACITY
  <1>1. PICK f : /\ net_arp_tick(k, t) = f[N] /\ f[0] = k
                 /\ \A n \in 1..N : f[n] = TickEntry(f[n - 1], n, t)
    BY ArpTickStates
  <1> DEFINE G(r) == LinkStep(k, r) /\ r.pending = k.pending
             B == {n \in 0..N : ~G(f[n])}
  <1>2. N \in Nat
    BY LinkAssumption
  <1>3. G(f[0])
    BY <1>1 DEF LinkStep, SameConfig
  <1>4. ASSUME NEW n \in 1..N, G(f[n - 1]) PROVE G(f[n])
    <2>1. n \in ArpSlot
      BY DEF ArpSlot
    <2>2. f[n] = TickEntry(f[n - 1], n, t)
      BY <1>1
    <2>3. LinkOK(f[n - 1])
      BY <1>4 DEF LinkStep
    <2>4. LinkStep(f[n - 1], f[n]) /\ f[n].pending = f[n - 1].pending
      BY <2>1, <2>2, <2>3, TickEntryIs
    <2> QED
      BY <1>4, <2>4, LinkStepTrans
  <1> HIDE DEF G
  <1>5. \A n \in 1..N : n \in B => n - 1 \in B
    BY <1>2, <1>4
  <1>6. B \subseteq 0..N /\ 0 \notin B
    BY <1>3
  <1> HIDE DEF B
  <1>7. B = {}
    BY <1>2, <1>5, <1>6, Downwards
  <1>8. G(f[N])
    BY <1>2, <1>7 DEF B
  <1> QED
    BY <1>1, <1>8 DEF G
\* Datagrams.

LEMMA SendPendingIs ==
    ASSUME NEW k, LinkOK(k), NEW x \in PendingSlot, NEW mac
    PROVE  LET r == SendPending(k, x, mac)
           IN  /\ LinkStep(k, r) /\ r.arp = k.arp
               /\ r.out = IF k.tx = 0 THEN k.out
                          ELSE Append(k.out, Frame(mac, "IPv4", k.pending[x].packet))
               /\ r.pending[x] = NoPacket
               /\ \A y \in PendingSlot : y # x => r.pending[y] = k.pending[y]
  <1> DEFINE l == net_ethernet_send(k, mac, "IPv4", k.pending[x].packet)
             r == [l EXCEPT !.pending[x] = NoPacket]
  <1>1. /\ LinkStep(k, l) /\ l.arp = k.arp /\ l.pending = k.pending
        /\ l.out = IF k.tx = 0 THEN k.out ELSE Append(k.out, Frame(mac, "IPv4", k.pending[x].packet))
    BY SendIs
  <1> HIDE DEF l
  <1>2. /\ LinkStep(l, r) /\ r.arp = l.arp /\ r.out = l.out /\ r.pending[x] = NoPacket
        /\ \A y \in PendingSlot : y # x => r.pending[y] = l.pending[y]
    BY <1>1, NoPacketOK, SetPacket DEF LinkStep
  <1> HIDE DEF r
  <1>3. LinkStep(k, r)
    BY <1>1, <1>2, LinkStepTrans
  <1>4. SendPending(k, x, mac) = r
    BY DEF SendPending, r, l
  <1> QED
    BY <1>1, <1>2, <1>3, <1>4

LEMMA NotifyIs ==
    ASSUME NEW k, LinkOK(k), NEW a
    PROVE  LET r == net_ipv4_notify_arp_resolved(k, a) IN LinkStep(k, r) /\ r.arp = k.arp
  <1> DEFINE N == NET_IPV4_PENDING_CAPACITY
             mac == net_arp_lookup(k, a)
  <1>1. PICK f : /\ net_ipv4_notify_arp_resolved(k, a) = f[N] /\ f[0] = k
                 /\ \A n \in 1..N : f[n] = NotifyPending(f[n - 1], n, a, mac)
    BY NotifyStates
  <1> DEFINE G(r) == LinkStep(k, r) /\ r.arp = k.arp
             B == {n \in 0..N : ~G(f[n])}
  <1> HIDE DEF mac
  <1>2. N \in Nat
    BY LinkAssumption
  <1>3. G(f[0])
    BY <1>1 DEF LinkStep, SameConfig
  <1>4. ASSUME NEW n \in 1..N, G(f[n - 1]) PROVE G(f[n])
    <2>1. n \in PendingSlot
      BY DEF PendingSlot
    <2>2. f[n] \in {f[n - 1], SendPending(f[n - 1], n, mac)}
      BY <1>1 DEF NotifyPending
    <2>3. LET r == SendPending(f[n - 1], n, mac) IN LinkStep(f[n - 1], r) /\ r.arp = f[n - 1].arp
      BY <1>4, <2>1, SendPendingIs DEF LinkStep
    <2> QED
      BY <1>4, <2>2, <2>3, LinkStepTrans
  <1> HIDE DEF G
  <1>5. \A n \in 1..N : n \in B => n - 1 \in B
    BY <1>2, <1>4
  <1>6. B \subseteq 0..N /\ 0 \notin B
    BY <1>3
  <1> HIDE DEF B
  <1>7. B = {}
    BY <1>2, <1>5, <1>6, Downwards
  <1>8. G(f[N])
    BY <1>2, <1>7 DEF B
  <1> QED
    BY <1>1, <1>8 DEF G

Aged(p, t) == [p EXCEPT !.age = @ + t]

LEMMA TickPendingCases ==
    ASSUME NEW k, LinkOK(k), NEW x \in PendingSlot, NEW t \in Nat
    PROVE  LET p == k.pending[x]
               mac == net_arp_lookup(k, p.hop)
           IN  \/ TickPending(k, x, t) = k
               \/ p.used /\ mac # NoMac /\ TickPending(k, x, t) = SendPending(k, x, mac)
               \/ TickPending(k, x, t) = [k EXCEPT !.pending[x] = NoPacket]
               \/ /\ p.age + t < NET_IPV4_PENDING_TTL_TICKS
                  /\ TickPending(k, x, t) = [k EXCEPT !.pending[x] = Aged(p, t)]
  <1> DEFINE p == k.pending[x]
             mac == net_arp_lookup(k, p.hop)
  <1>1. [k EXCEPT !.pending[x].age = @ + t] = [k EXCEPT !.pending[x] = Aged(p, t)]
    BY DEF LinkOK, QueueOK, Whole, LinkFields, Aged
  <1>2. p.age \in Nat
    BY DEF LinkOK, QueueOK, WaitOK
  <1>3. p.age + t >= NET_IPV4_PENDING_TTL_TICKS \/ p.age + t < NET_IPV4_PENDING_TTL_TICKS
    BY <1>2, LinkAssumption
  <1>4. TickPending(k, x, t) = IF ~p.used THEN k ELSE IF mac # NoMac THEN SendPending(k, x, mac)
          ELSE IF p.age + t >= NET_IPV4_PENDING_TTL_TICKS THEN [k EXCEPT !.pending[x] = NoPacket]
          ELSE [k EXCEPT !.pending[x].age = @ + t]
    BY DEF TickPending
  <1> HIDE DEF p, mac
  <1> QED
    BY <1>1, <1>3, <1>4 DEF p, mac

LEMMA TickPendingIs ==
    ASSUME NEW k, LinkOK(k), NEW x \in PendingSlot, NEW t \in Nat
    PROVE  LET r == TickPending(k, x, t) IN LinkStep(k, r) /\ r.arp = k.arp
  <1> DEFINE p == k.pending[x]
  <1>1. LinkStep(k, k)
    BY DEF LinkStep, SameConfig
  <1>2. \A m : LET r == SendPending(k, x, m) IN LinkStep(k, r) /\ r.arp = k.arp
    BY SendPendingIs
  <1>3. LET r == [k EXCEPT !.pending[x] = NoPacket] IN LinkStep(k, r) /\ r.arp = k.arp
    BY SetPacket, NoPacketOK
  <1>4. ASSUME p.age + t < NET_IPV4_PENDING_TTL_TICKS PROVE WaitOK(Aged(p, t))
    <2>1. WaitOK(p)
      BY DEF LinkOK, QueueOK
    <2> HIDE DEF p
    <2>2. /\ Whole(Aged(p, t), PacketFields) /\ Aged(p, t).used = p.used
          /\ Aged(p, t).age = p.age + t
      BY <2>1 DEF WaitOK, Whole, PacketFields, Aged
    <2>3. p.age + t \in Nat
      BY <2>1 DEF WaitOK
    <2> QED
      BY <1>4, <2>1, <2>2, <2>3 DEF WaitOK
  <1>5. ASSUME p.age + t < NET_IPV4_PENDING_TTL_TICKS
        PROVE  LET r == [k EXCEPT !.pending[x] = Aged(p, t)] IN LinkStep(k, r) /\ r.arp = k.arp
    BY <1>4, <1>5, SetPacket
  <1>6. \/ TickPending(k, x, t) = k
        \/ \E m : TickPending(k, x, t) = SendPending(k, x, m)
        \/ TickPending(k, x, t) = [k EXCEPT !.pending[x] = NoPacket]
        \/ /\ p.age + t < NET_IPV4_PENDING_TTL_TICKS
           /\ TickPending(k, x, t) = [k EXCEPT !.pending[x] = Aged(p, t)]
    BY TickPendingCases
  <1> HIDE DEF p
  <1> QED
    BY <1>1, <1>2, <1>3, <1>5, <1>6

LEMMA QueueTickIs ==
    ASSUME NEW k, LinkOK(k), NEW t \in Nat
    PROVE  LET r == net_ipv4_tick(k, t) IN LinkStep(k, r) /\ r.arp = k.arp
  <1> DEFINE N == NET_IPV4_PENDING_CAPACITY
  <1>1. PICK f : /\ net_ipv4_tick(k, t) = f[N] /\ f[0] = k
                 /\ \A n \in 1..N : f[n] = TickPending(f[n - 1], n, t)
    BY QueueTickStates
  <1> DEFINE G(r) == LinkStep(k, r) /\ r.arp = k.arp
             B == {n \in 0..N : ~G(f[n])}
  <1>2. N \in Nat
    BY LinkAssumption
  <1>3. G(f[0])
    BY <1>1 DEF LinkStep, SameConfig
  <1>4. ASSUME NEW n \in 1..N, G(f[n - 1]) PROVE G(f[n])
    <2>1. n \in PendingSlot
      BY DEF PendingSlot
    <2>2. f[n] = TickPending(f[n - 1], n, t)
      BY <1>1
    <2>3. LinkStep(f[n - 1], f[n]) /\ f[n].arp = f[n - 1].arp
      BY <1>4, <2>1, <2>2, TickPendingIs DEF LinkStep
    <2> QED
      BY <1>4, <2>3, LinkStepTrans
  <1> HIDE DEF G
  <1>5. \A n \in 1..N : n \in B => n - 1 \in B
    BY <1>2, <1>4
  <1>6. B \subseteq 0..N /\ 0 \notin B
    BY <1>3
  <1> HIDE DEF B
  <1>7. B = {}
    BY <1>2, <1>5, <1>6, Downwards
  <1>8. G(f[N])
    BY <1>2, <1>7 DEF B
  <1> QED
    BY <1>1, <1>8 DEF G
\* With the routes of one configuration, whatever is sent goes to the broadcast
\* address or to a host on the link.
LEMMA NextHopIs ==
    ASSUME NEW k, RoutesOK(k), NEW a, next_hop_for_device(k, a) # Zero
    PROVE  /\ \/ a = Broadcast /\ next_hop_for_device(k, a) = Broadcast
              \/ OnLink(a, k.address) /\ next_hop_for_device(k, a) = a
              \/ ~OnLink(a, k.address) /\ next_hop_for_device(k, a) = k.gateway
           /\ OnLink(next_hop_for_device(k, a), k.address) \/ next_hop_for_device(k, a) = Broadcast
  <1> DEFINE via == {r \in k.routes : route_matches(r, a)}
             best == CHOOSE r \in via : \A q \in via : r.network >= q.network
             hop == next_hop_for_device(k, a)
  <1>1. hop = IF a = Broadcast \/ OnLink(a, k.address) THEN a
              ELSE IF via # {} THEN IF best.gateway = Zero THEN a ELSE best.gateway
              ELSE IF k.address # Zero THEN k.gateway ELSE Zero
    BY DEF next_hop_for_device
  <1>2. CASE a = Broadcast \/ OnLink(a, k.address)
    BY <1>1, <1>2
  <1>3. CASE ~(a = Broadcast \/ OnLink(a, k.address)) /\ via # {}
    <2>1. k.address # Zero
      BY <1>3 DEF RoutesOK
    <2>2. \A r \in via : r.network = Zero /\ r.gateway = k.gateway /\ k.gateway # Zero
      <3> TAKE r \in via
      <3>1. r.network \in {Zero, Network(a)}
        BY DEF route_matches
      <3>2. Network(a) # Network(k.address) /\ Network(k.address) # Zero
        BY <1>3, <2>1 DEF OnLink, RoutesOK
      <3> QED
        BY <2>1, <3>1, <3>2 DEF RoutesOK
    <2>3. \E r \in via : \A q \in via : r.network >= q.network
      BY <1>3, <2>2 DEF Zero
    <2>4. best \in via
      BY <2>3
    <2> HIDE DEF via, best
    <2>5. best.gateway = k.gateway /\ k.gateway # Zero
      BY <2>2, <2>4
    <2> QED
      BY <1>1, <1>3, <2>1, <2>5 DEF RoutesOK
  <1>4. CASE ~(a = Broadcast \/ OnLink(a, k.address)) /\ via = {}
    BY <1>1, <1>4 DEF RoutesOK
  <1> QED
    BY <1>2, <1>3, <1>4

LEMMA BroadcastKnown ==
    ASSUME NEW k
    PROVE  net_arp_lookup(k, Broadcast) # NoMac
  BY LinkAssumption DEF net_arp_lookup

Waits(hop, packet) == [used |-> TRUE, hop |-> hop, packet |-> packet, age |-> 0]

LEMMA QueueIs ==
    ASSUME NEW k, LinkOK(k), NEW hop, NEW packet
    PROVE  LET r == queue_pending_packet(k, hop, packet)
           IN  /\ LinkStep(k, r) /\ r.arp = k.arp /\ r.out = k.out
               /\ \/ r = k
                  \/ \E x \in PendingSlot :
                        /\ ~k.pending[x].used /\ r.pending[x] = Waits(hop, packet)
                        /\ \A y \in PendingSlot : y # x => r.pending[y] = k.pending[y]
  <1> DEFINE x == FirstOf(FreePending(k))
             r == [k EXCEPT !.pending[x] = Waits(hop, packet)]
  <1>1. WaitOK(Waits(hop, packet))
    BY LinkAssumption DEF WaitOK, Waits, Whole, PacketFields
  <1>2. FreePending(k) # {} => x \in PendingSlot /\ ~k.pending[x].used
    <2>1. FreePending(k) \in SUBSET Nat
      BY DEF FreePending, PendingSlot
    <2>2. FreePending(k) # {} => x \in FreePending(k)
      BY <2>1, MinIs DEF FirstOf
    <2> QED
      BY <2>2 DEF FreePending
  <1>3. queue_pending_packet(k, hop, packet) = IF FreePending(k) = {} THEN k ELSE r
    BY DEF queue_pending_packet, Waits
  <1>4. LinkStep(k, k)
    BY DEF LinkStep, SameConfig
  <1> HIDE DEF x
  <1>5. x \in PendingSlot =>
          /\ LinkStep(k, r) /\ r.arp = k.arp /\ r.out = k.out /\ r.pending[x] = Waits(hop, packet)
          /\ \A y \in PendingSlot : y # x => r.pending[y] = k.pending[y]
    BY <1>1, SetPacket
  <1> HIDE DEF r
  <1> QED
    BY <1>2, <1>3, <1>4, <1>5

LEMMA SendViaIs ==
    ASSUME NEW k, LinkOK(k), NEW hop, OnLink(hop, k.address) \/ hop = Broadcast, NEW packet
    PROVE  LinkStep(k, SendVia(k, hop, packet))
  <1>1. CASE net_arp_lookup(k, hop) # NoMac
    BY <1>1, SendIs DEF SendVia
  <1>2. CASE net_arp_lookup(k, hop) = NoMac
    <2> DEFINE l == net_arp_resolve(k, hop)
    <2>1. OnLink(hop, k.address)
      BY <1>2, BroadcastKnown
    <2>2. LinkStep(k, l)
      BY <2>1, ResolveIs
    <2>3. SendVia(k, hop, packet) = queue_pending_packet(l, hop, packet)
      BY <1>2 DEF SendVia
    <2> HIDE DEF l
    <2> QED
      BY <2>2, <2>3, QueueIs, LinkStepTrans DEF LinkStep
  <1> QED
    BY <1>1, <1>2

Ipv4(k, src, dst, proto, data) ==
    [src |-> SourceAddress(k, src, dst), dst |-> dst, proto |-> proto, data |-> data]

LEMMA Ipv4SendCases ==
    ASSUME NEW k, LinkOK(k), NEW src, NEW dst, NEW proto, NEW data
    PROVE  LET hop == next_hop_for_device(k, dst)
               r == net_ipv4_send(k, src, dst, proto, data)
           IN  r = k \/ /\ dst # Zero /\ hop # Zero
                        /\ OnLink(hop, k.address) \/ hop = Broadcast
                        /\ r = SendVia(k, hop, Ipv4(k, src, dst, proto, data))
  <1> DEFINE hop == next_hop_for_device(k, dst)
             r == net_ipv4_send(k, src, dst, proto, data)
  <1>1. r = k \/ (dst # Zero /\ hop # Zero /\ r = SendVia(k, hop, Ipv4(k, src, dst, proto, data)))
    BY DEF net_ipv4_send, Ipv4
  <1>2. hop # Zero => OnLink(hop, k.address) \/ hop = Broadcast
    BY NextHopIs DEF LinkOK
  <1> HIDE DEF r, hop
  <1> QED
    BY <1>1, <1>2 DEF r, hop

LEMMA Ipv4SendIs ==
    ASSUME NEW k, LinkOK(k), NEW src, NEW dst, NEW proto, NEW data
    PROVE  LinkStep(k, net_ipv4_send(k, src, dst, proto, data))
  <1> DEFINE hop == next_hop_for_device(k, dst)
             r == net_ipv4_send(k, src, dst, proto, data)
             packet == Ipv4(k, src, dst, proto, data)
  <1>1. r = k \/ ((OnLink(hop, k.address) \/ hop = Broadcast) /\ r = SendVia(k, hop, packet))
    BY Ipv4SendCases
  <1>2. LinkStep(k, k)
    BY DEF LinkStep, SameConfig
  <1> HIDE DEF r, hop, packet
  <1>3. LinkStep(k, r)
    BY <1>1, <1>2, SendViaIs
  <1> QED
    BY <1>3 DEF r

\* Packets that come in.

LEMMA CacheAddressIs ==
    ASSUME NEW k, LinkOK(k), NEW a, NEW mac \in Mac
    PROVE  LinkStep(k, cache_protocol_address(k, a, mac))
  <1> DEFINE x == EntryFor(k, a)
             l == [k EXCEPT !.arp[x] = ValidEntry(a, mac)]
  <1>1. x \in ArpSlot
    BY EntryForIs DEF LinkOK
  <1>2. EntryOK(ValidEntry(a, mac)) /\ ValidEntry(a, mac).state # "PENDING"
    BY NewEntriesOK
  <1>3. LinkStep(k, l)
    <2> HIDE DEF x
    <2> QED
      BY <1>1, <1>2, SetEntry
  <1>4. cache_protocol_address(k, a, mac) \in {k, net_ipv4_notify_arp_resolved(l, a)}
    BY DEF cache_protocol_address, ValidEntry
  <1> HIDE DEF l
  <1>5. LinkStep(k, net_ipv4_notify_arp_resolved(l, a))
    BY <1>3, NotifyIs, LinkStepTrans DEF LinkStep
  <1>6. LinkStep(k, k)
    BY DEF LinkStep, SameConfig
  <1> QED
    BY <1>4, <1>5, <1>6

LEMMA ArpInputIs ==
    ASSUME NEW k, LinkOK(k), NEW p, p.smac \in Mac
    PROVE  LinkStep(k, net_arp_input(k, p))
  <1> DEFINE l == cache_protocol_address(k, p.sip, p.smac)
             b == [op |-> "reply", smac |-> OwnMac, sip |-> k.address, tip |-> p.sip]
  <1>1. LinkStep(k, l)
    BY CacheAddressIs
  <1>2. net_arp_input(k, p) \in {k, l, net_ethernet_send(l, p.smac, "ARP", b)}
    BY DEF net_arp_input
  <1> HIDE DEF l, b
  <1>3. LinkStep(k, net_ethernet_send(l, p.smac, "ARP", b))
    BY <1>1, SendIs, LinkStepTrans DEF LinkStep
  <1>4. LinkStep(k, k)
    BY DEF LinkStep, SameConfig
  <1> QED
    BY <1>1, <1>2, <1>3, <1>4

LEMMA IcmpInputIs ==
    ASSUME NEW k, LinkOK(k), NEW p
    PROVE  LinkStep(k, net_icmp_input(k, p))
  <1> DEFINE data == [p.data EXCEPT !.type = "echo_reply"]
  <1>1. net_icmp_input(k, p) \in {k, net_ipv4_send(k, p.dst, p.src, "ICMP", data)}
    BY DEF net_icmp_input
  <1> HIDE DEF data
  <1>2. LinkStep(k, net_ipv4_send(k, p.dst, p.src, "ICMP", data))
    BY Ipv4SendIs
  <1>3. LinkStep(k, k)
    BY DEF LinkStep, SameConfig
  <1> QED
    BY <1>1, <1>2, <1>3
----------------------------------------------------------------------------
\* Datagrams and hardware addresses.

\* The datagram of a program that a packet holds, as the number n.
PacketCarries(p, n) ==
    p.proto = "UDP" /\ p.data.message.service = "program" /\ p.data.message.n = n

Holds(k, x, n) == k.pending[x].used /\ PacketCarries(k.pending[x].packet, n)

\* Datagram n has not been transmitted and is not on its way.
Free(k, c, n) ==
    /\ c[n] = 0
    /\ \A x \in DOMAIN k.out : ~Carries(k.out[x], n)
    /\ \A x \in PendingSlot : ~Holds(k, x, n)

\* No two entries of the cache are for one address, and one with a hardware address
\* has the one that its host told last.
CacheTold(k, told) ==
    /\ \A x, y \in ArpSlot :
          k.arp[x].state # "EMPTY" /\ k.arp[y].state # "EMPTY" /\ k.arp[x].ip = k.arp[y].ip => x = y
    /\ \A x \in ArpSlot : k.arp[x].state = "VALID" =>
          k.arp[x].ip \in Neighbour /\ Unicast(k.arp[x].ip) /\ k.arp[x].mac = told[k.arp[x].ip]

HopOK(hop, dst) == hop \in Peers /\ (dst \in Neighbour => hop = dst)

QueueHops(k) == \A x \in PendingSlot : k.pending[x].used => HopOK(k.pending[x].hop, k.pending[x].packet.dst)

OutOK(k, told) == IsSeq(k.out) /\ \A x \in DOMAIN k.out : ~Strays(k.out[x], told)

\* Datagram n is transmitted or waits once at most.
OnceOK(k, c, n) ==
    /\ c[n] \in {0, 1}
    /\ c[n] = 1 => /\ \A x \in DOMAIN k.out : ~Carries(k.out[x], n)
                   /\ \A x \in PendingSlot : ~Holds(k, x, n)
    /\ \A x, y \in DOMAIN k.out : Carries(k.out[x], n) /\ Carries(k.out[y], n) => x = y
    /\ \A x, y \in PendingSlot : Holds(k, x, n) /\ Holds(k, y, n) => x = y
    /\ \A x \in DOMAIN k.out, y \in PendingSlot : ~(Carries(k.out[x], n) /\ Holds(k, y, n))

FlightOK(k, told, c) ==
    /\ CacheTold(k, told) /\ QueueHops(k) /\ OutOK(k, told)
    /\ \A n \in Datagram : OnceOK(k, c, n)

\* A call that puts the datagrams D on their way, and no other.
FineBut(k, r, D) ==
    \A told, c :
        FlightOK(k, told, c) /\ (\A n \in D : Free(k, c, n)) =>
            /\ FlightOK(r, told, c)
            /\ \A n \in Datagram \ D : Free(k, c, n) => Free(r, c, n)
Fine(k, r) == FineBut(k, r, {})

LEMMA FineSelf ==
    ASSUME NEW k
    PROVE  Fine(k, k)
  BY DEF Fine, FineBut

LEMMA FineThen ==
    ASSUME NEW k, NEW l, NEW r, NEW D \in SUBSET Datagram, Fine(k, l), FineBut(l, r, D)
    PROVE  FineBut(k, r, D)
  <1> SUFFICES ASSUME NEW told, NEW c, FlightOK(k, told, c), \A n \in D : Free(k, c, n)
               PROVE  /\ FlightOK(r, told, c)
                      /\ \A n \in Datagram \ D : Free(k, c, n) => Free(r, c, n)
    BY DEF FineBut
  <1>1. FlightOK(l, told, c) /\ \A n \in Datagram : Free(k, c, n) => Free(l, c, n)
    BY DEF Fine, FineBut
  <1>2. \A n \in D : Free(l, c, n)
    BY <1>1
  <1>3. FlightOK(r, told, c) /\ \A n \in Datagram \ D : Free(l, c, n) => Free(r, c, n)
    BY <1>1, <1>2 DEF FineBut
  <1> QED
    BY <1>1, <1>3

LEMMA FineTrans ==
    ASSUME NEW k, NEW l, NEW r, Fine(k, l), Fine(l, r)
    PROVE  Fine(k, r)
  BY FineThen DEF Fine

\* A frame is handed to the driver, or not.
LEMMA EmitOK ==
    ASSUME NEW k, LinkOK(k), NEW mac, NEW type, NEW body, NEW told, NEW c,
           FlightOK(k, told, c), ~Strays(Frame(mac, type, body), told),
           \A n \in Datagram : Carries(Frame(mac, type, body), n) => Free(k, c, n)
    PROVE  LET r == net_ethernet_send(k, mac, type, body)
           IN  /\ FlightOK(r, told, c)
               /\ \A n \in Datagram : Free(k, c, n) /\ ~Carries(Frame(mac, type, body), n) => Free(r, c, n)
  <1> DEFINE r == net_ethernet_send(k, mac, type, body)
             f == Frame(mac, type, body)
             N == Len(k.out)
  <1>1. /\ r.arp = k.arp /\ r.pending = k.pending
        /\ r.out = IF k.tx = 0 THEN k.out ELSE Append(k.out, f)
    BY SendIs
  <1>2. IsSeq(k.out)
    BY DEF FlightOK, OutOK
  <1>3. /\ IsSeq(Append(k.out, f)) /\ N \in Nat
        /\ DOMAIN k.out = 1..N /\ DOMAIN Append(k.out, f) = 1..(N + 1)
        /\ \A x \in 1..N : Append(k.out, f)[x] = k.out[x]
        /\ Append(k.out, f)[N + 1] = f
    BY <1>2, AppendIs
  <1> HIDE DEF f, r, N
  <1>4. /\ IsSeq(r.out) /\ DOMAIN k.out \subseteq DOMAIN r.out
        /\ \A x \in DOMAIN k.out : r.out[x] = k.out[x]
        /\ \A x, y \in DOMAIN r.out : x \notin DOMAIN k.out => r.out[x] = f /\ (y \notin DOMAIN k.out => x = y)
    <2>1. CASE k.tx = 0
      BY <1>1, <1>2, <2>1
    <2>2. CASE k.tx # 0
      <3>1. r.out = Append(k.out, f) /\ DOMAIN r.out = 1..(N + 1)
        BY <1>1, <1>3, <2>2
      <3>2. \A x \in 1..(N + 1) : x \notin 1..N => x = N + 1
        BY <1>3
      <3>3. \A x \in 1..N : x \in 1..(N + 1)
        BY <1>3
      <3> HIDE DEF N
      <3> QED
        BY <1>3, <3>1, <3>2, <3>3
    <2> QED
      BY <2>1, <2>2
  <1>5. CacheTold(r, told) /\ QueueHops(r)
    BY <1>1 DEF FlightOK, CacheTold, QueueHops
  <1>6. OutOK(r, told)
    BY <1>4 DEF FlightOK, OutOK, f
  <1>7. \A n, x : Holds(r, x, n) <=> Holds(k, x, n)
    BY <1>1 DEF Holds
  <1>8. ASSUME NEW n \in Datagram PROVE OnceOK(r, c, n)
    <2>1. OnceOK(k, c, n) /\ (Carries(f, n) => Free(k, c, n))
      BY DEF FlightOK, f
    <2>2. CASE Carries(f, n)
      BY <1>4, <1>7, <2>1, <2>2 DEF OnceOK, Free
    <2>3. CASE ~Carries(f, n)
      <3>1. \A x \in DOMAIN r.out : Carries(r.out[x], n) => x \in DOMAIN k.out /\ Carries(k.out[x], n)
        BY <1>4, <2>3
      <3> QED
        BY <1>7, <2>1, <3>1 DEF OnceOK
    <2> QED
      BY <2>2, <2>3
  <1>9. ASSUME NEW n \in Datagram, Free(k, c, n), ~Carries(f, n) PROVE Free(r, c, n)
    BY <1>4, <1>7, <1>9 DEF Free
  <1> QED
    BY <1>5, <1>6, <1>8, <1>9 DEF FlightOK, f, r

LEMMA ArpFrameFine ==
    ASSUME NEW k, LinkOK(k), NEW mac, NEW body
    PROVE  Fine(k, net_ethernet_send(k, mac, "ARP", body))
  <1>1. \A told : ~Strays(Frame(mac, "ARP", body), told)
    BY DEF Strays, Frame
  <1>2. \A n : ~Carries(Frame(mac, "ARP", body), n)
    BY DEF Carries, Frame
  <1> DEFINE r == net_ethernet_send(k, mac, "ARP", body)
  <1>3. ASSUME NEW told, NEW c, FlightOK(k, told, c)
        PROVE  FlightOK(r, told, c) /\ \A n \in Datagram : Free(k, c, n) => Free(r, c, n)
    BY <1>1, <1>2, <1>3, EmitOK
  <1> HIDE DEF r
  <1> QED
    BY <1>3 DEF Fine, FineBut, r

\* The cache changes, and nothing is sent.
LEMMA CacheChangeFine ==
    ASSUME NEW k, NEW r, r.pending = k.pending, r.out = k.out,
           \A told : CacheTold(k, told) => CacheTold(r, told)
    PROVE  Fine(k, r)
  <1>1. \A n, x : Holds(r, x, n) <=> Holds(k, x, n)
    BY DEF Holds
  <1>2. \A c, n : OnceOK(k, c, n) => OnceOK(r, c, n)
    BY <1>1 DEF OnceOK
  <1>3. \A c, n : Free(k, c, n) => Free(r, c, n)
    BY <1>1 DEF Free
  <1>4. \A told : OutOK(k, told) => OutOK(r, told)
    BY DEF OutOK
  <1>5. QueueHops(k) => QueueHops(r)
    BY DEF QueueHops
  <1> QED
    BY <1>2, <1>3, <1>4, <1>5 DEF Fine, FineBut, FlightOK

LEMMA SetEntryFine ==
    ASSUME NEW k, LinkOK(k), NEW x \in ArpSlot, NEW e, EntryOK(e),
           e.state = "PENDING" => OnLink(e.ip, k.address),
           \/ e.state = "EMPTY"
           \/ e.state = k.arp[x].state /\ e.ip = k.arp[x].ip /\ e.mac = k.arp[x].mac
           \/ e.state = "PENDING" /\ find_entry(k, e.ip) \subseteq {x}
    PROVE  Fine(k, [k EXCEPT !.arp[x] = e])
  <1> DEFINE r == [k EXCEPT !.arp[x] = e]
  <1>1. /\ r.pending = k.pending /\ r.out = k.out /\ r.arp[x] = e
        /\ \A y \in ArpSlot : y # x => r.arp[y] = k.arp[y]
    BY DEF LinkOK, CacheOK, Whole, LinkFields
  <1> HIDE DEF r
  <1>2. ASSUME NEW told, CacheTold(k, told) PROVE CacheTold(r, told)
    <2>1. ASSUME NEW y \in ArpSlot, NEW z \in ArpSlot, r.arp[y].state # "EMPTY",
                 r.arp[z].state # "EMPTY", r.arp[y].ip = r.arp[z].ip
          PROVE  y = z
      BY <1>1, <1>2, <2>1 DEF CacheTold, find_entry
    <2>2. ASSUME NEW y \in ArpSlot, r.arp[y].state = "VALID"
          PROVE  r.arp[y].ip \in Neighbour /\ Unicast(r.arp[y].ip) /\ r.arp[y].mac = told[r.arp[y].ip]
      BY <1>1, <1>2, <2>2 DEF CacheTold
    <2> QED
      BY <2>1, <2>2 DEF CacheTold
  <1> QED
    BY <1>1, <1>2, CacheChangeFine DEF r

LEMMA ResolveFine ==
    ASSUME NEW k, LinkOK(k), NEW a, OnLink(a, k.address)
    PROVE  Fine(k, net_arp_resolve(k, a))
  <1> DEFINE x == EntryFor(k, a)
             l == [k EXCEPT !.arp[x] = PendingEntry(a)]
  <1>1. x \in ArpSlot /\ (find_entry(k, a) # {} => x \in find_entry(k, a))
    BY EntryForIs DEF LinkOK
  <1>2. NoMac \in Mac
    BY DEF Mac
  <1>3. EntryOK(PendingEntry(a)) /\ PendingEntry(a).state = "PENDING" /\ PendingEntry(a).ip = a
    BY <1>2, NewEntriesOK
  <1> HIDE DEF x
  <1>4. LinkOK(l)
    BY <1>1, <1>3, SetEntry DEF LinkStep
  <1>5. Fine(k, l)
    <2> SUFFICES ASSUME NEW told, NEW c, FlightOK(k, told, c)
                 PROVE  FlightOK(l, told, c) /\ \A n \in Datagram : Free(k, c, n) => Free(l, c, n)
      BY DEF Fine, FineBut
    <2>1. find_entry(k, a) \subseteq {x}
      BY <1>1 DEF find_entry, FlightOK, CacheTold
    <2>2. Fine(k, l)
      BY <1>1, <1>3, <2>1, SetEntryFine
    <2> HIDE DEF l
    <2> QED
      BY <2>2 DEF Fine, FineBut
  <1>6. net_arp_resolve(k, a) \in {k, net_arp_request(l, a)}
    BY DEF net_arp_resolve, PendingEntry, x
  <1> HIDE DEF l
  <1>7. Fine(l, net_arp_request(l, a))
    BY <1>4, ArpFrameFine DEF net_arp_request
  <1>8. Fine(k, net_arp_request(l, a))
    BY <1>5, <1>7, FineTrans
  <1> QED
    BY <1>6, <1>8, FineSelf

LEMMA TickEntryFine ==
    ASSUME NEW k, LinkOK(k), NEW x \in ArpSlot, NEW t \in Nat
    PROVE  Fine(k, TickEntry(k, x, t))
  <1> DEFINE d == k.arp[x]
             e == [d EXCEPT !.age = @ + t]
             f == [e EXCEPT !.req = e.age]
             old == [k EXCEPT !.arp[x] = EmptyEntry]
             aged == [k EXCEPT !.arp[x] = e]
             asked == [k EXCEPT !.arp[x] = f]
             over == e.age >= (IF e.state = "VALID" THEN NET_ARP_CACHE_TTL_TICKS
                                                    ELSE NET_ARP_PENDING_TTL_TICKS)
  <1>1. EntryOK(d)
    BY DEF LinkOK, CacheOK
  <1>2. /\ Whole(e, EntryFields) /\ e.state = d.state /\ e.ip = d.ip /\ e.mac = d.mac
    <2> HIDE DEF d
    <2> QED
      BY <1>1, AgedEntry
  <1>3. TickEntry(k, x, t) = IF e.state = "EMPTY" THEN k ELSE IF over THEN old
          ELSE IF e.state = "PENDING" /\ e.age - e.req >= NET_ARP_REQUEST_RETRY_TICKS
               THEN net_arp_request(asked, e.ip) ELSE aged
    BY DEF TickEntry
  <1>4. LinkOK(TickEntry(k, x, t))
    BY TickEntryIs DEF LinkStep
  <1>5. /\ old.pending = k.pending /\ old.out = k.out /\ old.arp[x] = EmptyEntry
        /\ \A y \in ArpSlot : y # x => old.arp[y] = k.arp[y]
    BY DEF LinkOK, CacheOK, Whole, LinkFields
  <1> HIDE DEF e, d
  <1>6. /\ aged.pending = k.pending /\ aged.out = k.out /\ aged.arp[x] = e
        /\ \A y \in ArpSlot : y # x => aged.arp[y] = k.arp[y]
    BY DEF LinkOK, CacheOK, Whole, LinkFields
  <1>7. f.state = e.state /\ f.ip = e.ip /\ f.mac = e.mac
    BY <1>2 DEF Whole, EntryFields
  <1> HIDE DEF f
  <1>8. /\ asked.pending = k.pending /\ asked.out = k.out /\ asked.arp[x] = f
        /\ \A y \in ArpSlot : y # x => asked.arp[y] = k.arp[y]
    BY DEF LinkOK, CacheOK, Whole, LinkFields
  <1> HIDE DEF old, aged, asked
  <1>9. Fine(k, old)
    <2>1. EmptyEntry.state = "EMPTY"
      BY DEF EmptyEntry
    <2>2. \A told : CacheTold(k, told) => CacheTold(old, told)
      BY <1>5, <2>1 DEF CacheTold
    <2> QED
      BY <1>5, <2>2, CacheChangeFine
  <1>10. Fine(k, aged)
    <2>1. \A y \in ArpSlot : aged.arp[y].state = k.arp[y].state /\ aged.arp[y].ip = k.arp[y].ip
                             /\ aged.arp[y].mac = k.arp[y].mac
      BY <1>2, <1>6 DEF d
    <2>2. \A told : CacheTold(k, told) => CacheTold(aged, told)
      BY <2>1 DEF CacheTold
    <2> QED
      BY <1>6, <2>2, CacheChangeFine
  <1>11. Fine(k, asked)
    <2>1. \A y \in ArpSlot : asked.arp[y].state = k.arp[y].state /\ asked.arp[y].ip = k.arp[y].ip
                             /\ asked.arp[y].mac = k.arp[y].mac
      BY <1>2, <1>7, <1>8 DEF d
    <2>2. \A told : CacheTold(k, told) => CacheTold(asked, told)
      BY <2>1 DEF CacheTold
    <2> QED
      BY <1>8, <2>2, CacheChangeFine
  <1>12. ASSUME e.state = "PENDING", ~over PROVE Fine(k, net_arp_request(asked, e.ip))
    <2>1. d.age + t \in Nat /\ d.age + t >= d.age /\ d.age \in Nat /\ d.req \in Nat /\ d.req <= d.age
      BY <1>1 DEF EntryOK
    <2>2. e.age = d.age + t /\ f.age = e.age /\ f.req = e.age /\ Whole(f, EntryFields)
      <3>1. e.age = d.age + t
        BY <1>1, AgedEntry DEF e
      <3> QED
        BY <1>2, <3>1 DEF Whole, EntryFields, f
    <2>3. e.mac \in Mac
      BY <1>1, <1>2 DEF EntryOK
    <2>4. e.age < NET_ARP_PENDING_TTL_TICKS
      BY <1>12, <2>1, <2>2, LinkAssumption
    <2>5. EntryOK(f)
      BY <1>7, <1>12, <2>1, <2>2, <2>3, <2>4, LinkAssumption DEF EntryOK
    <2>6. f.state = "PENDING" => OnLink(f.ip, k.address)
      BY <1>2, <1>7 DEF d, LinkOK, ResolvesOn
    <2>7. LinkOK(asked)
      BY <2>5, <2>6, SetEntry DEF asked, LinkStep
    <2>8. Fine(asked, net_arp_request(asked, e.ip))
      BY <2>7, ArpFrameFine DEF net_arp_request
    <2> QED
      BY <1>11, <2>8, FineTrans
  <1> HIDE DEF over
  <1> QED
    BY <1>3, <1>9, <1>10, <1>12, FineSelf

LEMMA ArpTickFine ==
    ASSUME NEW k, LinkOK(k), NEW t \in Nat
    PROVE  Fine(k, net_arp_tick(k, t))
  <1> DEFINE N == NET_ARP_CACHE_CAPACITY
  <1>1. PICK f : /\ net_arp_tick(k, t) = f[N] /\ f[0] = k
                 /\ \A n \in 1..N : f[n] = TickEntry(f[n - 1], n, t)
    BY ArpTickStates
  <1> DEFINE G(r) == LinkOK(r) /\ Fine(k, r)
             B == {n \in 0..N : ~G(f[n])}
  <1>2. N \in Nat
    BY LinkAssumption
  <1>3. G(f[0])
    BY <1>1, FineSelf
  <1>4. ASSUME NEW n \in 1..N, G(f[n - 1]) PROVE G(f[n])
    <2>1. n \in ArpSlot
      BY DEF ArpSlot
    <2>2. f[n] = TickEntry(f[n - 1], n, t)
      BY <1>1
    <2>3. LinkOK(f[n]) /\ Fine(f[n - 1], f[n])
      BY <1>4, <2>1, <2>2, TickEntryIs, TickEntryFine DEF LinkStep
    <2> QED
      BY <1>4, <2>3, FineTrans
  <1> HIDE DEF G
  <1>5. \A n \in 1..N : n \in B => n - 1 \in B
    BY <1>2, <1>4
  <1>6. B \subseteq 0..N /\ 0 \notin B
    BY <1>3
  <1> HIDE DEF B
  <1>7. B = {}
    BY <1>2, <1>5, <1>6, Downwards
  <1>8. G(f[N])
    BY <1>2, <1>7 DEF B
  <1> QED
    BY <1>1, <1>8 DEF G

\* Nobody on the network has the address of this host, or a broadcast address.
LEMMA PeerIs ==
    ASSUME NEW k, RoutesOK(k), NEW h \in Peers
    PROVE  /\ ~BroadcastHost(h) /\ h # Broadcast /\ (k.address # Zero => h # k.address)
           /\ h \in Neighbour => (k.address # Zero => OnLink(h, k.address))
           /\ k.gateway # Zero => k.gateway \in Peers
  <1>1. ~BroadcastHost(h)
    BY NumberingAssumption
  <1>2. BroadcastHost(Broadcast)
    BY DEF BroadcastHost, Broadcast
  <1>3. ASSUME k.address # Zero
        PROVE  h # k.address /\ (h \in Neighbour => OnLink(h, k.address))
    <2>1. PICK c \in Offers \cup StaticConfigs : c.address = k.address
      BY <1>3 DEF RoutesOK
    <2>2. c.address \notin Peers /\ \A a \in Neighbour : Network(a) = Network(c.address)
      BY <1>3, <2>1, NumberingAssumption
    <2> QED
      BY <1>3, <2>1, <2>2 DEF OnLink
  <1>4. k.gateway # Zero => k.gateway \in Peers
    <2>1. k.gateway # Zero => \E c \in Offers \cup StaticConfigs : c.gateway = k.gateway
      BY DEF RoutesOK
    <2> QED
      BY <2>1 DEF Peers
  <1> QED
    BY <1>1, <1>2, <1>3, <1>4

\* What net_arp_lookup finds for a host is what the host told last.
LEMMA LookupTold ==
    ASSUME NEW k, LinkOK(k), NEW told, CacheTold(k, told), NEW h \in Peers,
           net_arp_lookup(k, h) # NoMac
    PROVE  h \in Neighbour /\ net_arp_lookup(k, h) = told[h]
  <1>1. ~BroadcastHost(h) /\ h # Broadcast /\ (k.address # Zero => h # k.address)
    BY PeerIs DEF LinkOK
  <1>2. PICK x \in find_entry(k, h) : k.arp[x].state = "VALID"
    BY <1>1 DEF net_arp_lookup
  <1>3. net_arp_lookup(k, h) = k.arp[FirstOf(find_entry(k, h))].mac
    BY <1>1, <1>2 DEF net_arp_lookup
  <1>4. FirstOf(find_entry(k, h)) \in find_entry(k, h)
    <2>1. find_entry(k, h) \in SUBSET Nat /\ find_entry(k, h) # {}
      BY <1>2 DEF find_entry, ArpSlot
    <2> QED
      BY <2>1, MinIs DEF FirstOf
  <1>5. FirstOf(find_entry(k, h)) = x
    BY <1>2, <1>4 DEF find_entry, CacheTold
  <1> QED
    BY <1>2, <1>3, <1>5 DEF find_entry, CacheTold

\* A frame sent to what its next hop told does not stray.
LEMMA HopFrame ==
    ASSUME NEW told, NEW h \in Neighbour, NEW p, p.dst \in Neighbour => h = p.dst
    PROVE  ~Strays(Frame(told[h], "IPv4", p), told)
  <1>1. h \in NextHops(p.dst)
    BY DEF NextHops
  <1>2. Frame(told[h], "IPv4", p).mac = told[h] /\ Frame(told[h], "IPv4", p).body = p
    BY DEF Frame
  <1> QED
    BY <1>1, <1>2 DEF Strays

LEMMA FrameCarries ==
    ASSUME NEW mac, NEW p, NEW n
    PROVE  Carries(Frame(mac, "IPv4", p), n) <=> PacketCarries(p, n)
  BY DEF Carries, Frame, PacketCarries

LEMMA FlightAlike ==
    ASSUME NEW k, NEW r, r.arp = k.arp, r.out = k.out,
           \A x \in PendingSlot : r.pending[x] = k.pending[x]
    PROVE  /\ \A told, c : FlightOK(k, told, c) => FlightOK(r, told, c)
           /\ \A c, n : Free(k, c, n) => Free(r, c, n)
  <1>1. \A n : \A x \in PendingSlot : Holds(r, x, n) <=> Holds(k, x, n)
    BY DEF Holds
  <1>2. \A c, n : OnceOK(k, c, n) => OnceOK(r, c, n)
    BY <1>1 DEF OnceOK
  <1>3. \A told : CacheTold(k, told) /\ OutOK(k, told) => CacheTold(r, told) /\ OutOK(r, told)
    BY DEF CacheTold, OutOK
  <1>4. QueueHops(k) => QueueHops(r)
    BY DEF QueueHops
  <1>5. \A c, n : Free(k, c, n) => Free(r, c, n)
    BY <1>1 DEF Free
  <1> QED
    BY <1>2, <1>3, <1>4, <1>5 DEF FlightOK

\* A slot of the queue that changes and holds no other datagram than before, or none.
LEMMA SlotChange ==
    ASSUME NEW k, LinkOK(k), NEW x \in PendingSlot, NEW p,
           ~p.used \/ (k.pending[x].used /\ p.hop = k.pending[x].hop /\ p.packet = k.pending[x].packet)
    PROVE  LET r == [k EXCEPT !.pending[x] = p]
           IN  /\ Fine(k, r)
               /\ ~p.used => \A told, c : \A n \in Datagram :
                                FlightOK(k, told, c) /\ Holds(k, x, n) => Free(r, c, n)
  <1> DEFINE r == [k EXCEPT !.pending[x] = p]
  <1>1. /\ r.arp = k.arp /\ r.out = k.out /\ r.pending[x] = p
        /\ \A y \in PendingSlot : y # x => r.pending[y] = k.pending[y]
    BY DEF LinkOK, QueueOK, Whole, LinkFields
  <1> HIDE DEF r
  <1>2. \A n : \A y \in PendingSlot : Holds(r, y, n) => Holds(k, y, n)
    BY <1>1 DEF Holds
  <1>3. \A c, n : OnceOK(k, c, n) => OnceOK(r, c, n)
    BY <1>1, <1>2 DEF OnceOK
  <1>4. \A c, n : Free(k, c, n) => Free(r, c, n)
    BY <1>1, <1>2 DEF Free
  <1>5. \A told : CacheTold(k, told) /\ OutOK(k, told) => CacheTold(r, told) /\ OutOK(r, told)
    BY <1>1 DEF CacheTold, OutOK
  <1>6. QueueHops(k) => QueueHops(r)
    BY <1>1 DEF QueueHops
  <1>7. Fine(k, r)
    BY <1>3, <1>4, <1>5, <1>6 DEF Fine, FineBut, FlightOK
  <1>8. ASSUME ~p.used, NEW told, NEW c, NEW n \in Datagram, FlightOK(k, told, c), Holds(k, x, n)
        PROVE  Free(r, c, n)
    <2>1. OnceOK(k, c, n)
      BY <1>8 DEF FlightOK
    <2>2. c[n] = 0 /\ \A y \in DOMAIN r.out : ~Carries(r.out[y], n)
      BY <1>1, <1>8, <2>1 DEF OnceOK
    <2>3. \A y \in PendingSlot : Holds(r, y, n) => y = x
      BY <1>2, <1>8, <2>1 DEF OnceOK
    <2>4. ~Holds(r, x, n)
      BY <1>1, <1>8 DEF Holds
    <2> QED
      BY <2>2, <2>3, <2>4 DEF Free
  <1> QED
    BY <1>7, <1>8 DEF r

LEMMA SendPendingFine ==
    ASSUME NEW k, LinkOK(k), NEW x \in PendingSlot, NEW mac, k.pending[x].used,
           mac = net_arp_lookup(k, k.pending[x].hop), mac # NoMac
    PROVE  Fine(k, SendPending(k, x, mac))
  <1> DEFINE p == k.pending[x].packet
             l == [k EXCEPT !.pending[x] = NoPacket]
             e == net_ethernet_send(l, mac, "IPv4", p)
             r == SendPending(k, x, mac)
  <1> SUFFICES ASSUME NEW told, NEW c, FlightOK(k, told, c)
               PROVE  FlightOK(r, told, c) /\ \A n \in Datagram : Free(k, c, n) => Free(r, c, n)
    BY DEF Fine, FineBut
  <1>1. NoPacket.used = FALSE
    BY DEF NoPacket
  <1>2. /\ LinkStep(k, l) /\ l.tx = k.tx /\ l.out = k.out /\ l.arp = k.arp
        /\ l.pending[x] = NoPacket /\ \A y \in PendingSlot : y # x => l.pending[y] = k.pending[y]
    BY NoPacketOK, SetPacket
  <1>3. Fine(k, l) /\ \A n \in Datagram : Holds(k, x, n) => Free(l, c, n)
    BY <1>1, SlotChange
  <1>4. FlightOK(l, told, c) /\ \A n \in Datagram : Free(k, c, n) => Free(l, c, n)
    <2> HIDE DEF l
    <2> QED
      BY <1>3 DEF Fine, FineBut
  <1>5. ~Strays(Frame(mac, "IPv4", p), told)
    <2>1. k.pending[x].hop \in Peers /\ (p.dst \in Neighbour => k.pending[x].hop = p.dst)
      BY DEF FlightOK, QueueHops, HopOK
    <2>2. k.pending[x].hop \in Neighbour /\ mac = told[k.pending[x].hop]
      BY <2>1, LookupTold DEF FlightOK
    <2> QED
      BY <2>1, <2>2, HopFrame
  <1>6. \A n \in Datagram : Carries(Frame(mac, "IPv4", p), n) => Holds(k, x, n)
    BY FrameCarries DEF Holds
  <1>7. /\ r.arp = k.arp /\ r.pending[x] = NoPacket
        /\ r.out = IF k.tx = 0 THEN k.out ELSE Append(k.out, Frame(mac, "IPv4", p))
        /\ \A y \in PendingSlot : y # x => r.pending[y] = k.pending[y]
    BY SendPendingIs
  <1> HIDE DEF l, p, r
  <1>8. FlightOK(e, told, c) /\ \A n \in Datagram : Free(l, c, n) /\ ~Holds(k, x, n) => Free(e, c, n)
    <2>1. \A n \in Datagram : Carries(Frame(mac, "IPv4", p), n) => Free(l, c, n)
      BY <1>3, <1>6
    <2> QED
      BY <1>2, <1>4, <1>5, <1>6, <2>1, EmitOK DEF LinkStep
  <1>9. /\ e.arp = l.arp /\ e.pending = l.pending
        /\ e.out = IF l.tx = 0 THEN l.out ELSE Append(l.out, Frame(mac, "IPv4", p))
    BY <1>2, SendIs DEF LinkStep
  <1> HIDE DEF e
  <1>10. r.arp = e.arp /\ r.out = e.out /\ \A y \in PendingSlot : r.pending[y] = e.pending[y]
    BY <1>2, <1>7, <1>9
  <1>11. \A n \in Datagram : Free(k, c, n) => ~Holds(k, x, n)
    BY DEF Free
  <1> QED
    BY <1>4, <1>8, <1>10, <1>11, FlightAlike

LEMMA NotifyFine ==
    ASSUME NEW k, LinkOK(k), NEW a, net_arp_lookup(k, a) # NoMac
    PROVE  Fine(k, net_ipv4_notify_arp_resolved(k, a))
  <1> DEFINE N == NET_IPV4_PENDING_CAPACITY
             mac == net_arp_lookup(k, a)
  <1>1. PICK f : /\ net_ipv4_notify_arp_resolved(k, a) = f[N] /\ f[0] = k
                 /\ \A n \in 1..N : f[n] = NotifyPending(f[n - 1], n, a, mac)
    BY NotifyStates
  <1> DEFINE G(r) == LinkStep(k, r) /\ r.arp = k.arp /\ Fine(k, r)
             B == {n \in 0..N : ~G(f[n])}
  <1>2. N \in Nat
    BY LinkAssumption
  <1>3. G(f[0])
    BY <1>1, FineSelf DEF LinkStep, SameConfig
  <1>4. ASSUME NEW n \in 1..N, G(f[n - 1]) PROVE G(f[n])
    <2> DEFINE l == f[n - 1]
    <2>1. n \in PendingSlot
      BY DEF PendingSlot
    <2>2. net_arp_lookup(l, a) = mac
      BY <1>4 DEF net_arp_lookup, find_entry, LinkStep, SameConfig
    <2> HIDE DEF mac
    <2>3. \/ f[n] = l
          \/ l.pending[n].used /\ l.pending[n].hop = a /\ f[n] = SendPending(l, n, mac)
      BY <1>1 DEF NotifyPending
    <2>4. LinkOK(l)
      BY <1>4 DEF LinkStep
    <2>5. LinkStep(l, f[n]) /\ f[n].arp = l.arp
      <3>1. LinkStep(l, l)
        BY <2>4 DEF LinkStep, SameConfig
      <3> QED
        BY <2>1, <2>3, <2>4, <3>1, SendPendingIs
    <2>6. Fine(l, f[n])
      BY <2>1, <2>2, <2>3, <2>4, SendPendingFine, FineSelf DEF mac
    <2> QED
      BY <1>4, <2>5, <2>6, FineTrans, LinkStepTrans
  <1> HIDE DEF G
  <1>5. \A n \in 1..N : n \in B => n - 1 \in B
    BY <1>2, <1>4
  <1>6. B \subseteq 0..N /\ 0 \notin B
    BY <1>3
  <1> HIDE DEF B
  <1>7. B = {}
    BY <1>2, <1>5, <1>6, Downwards
  <1>8. G(f[N])
    BY <1>2, <1>7 DEF B
  <1> QED
    BY <1>1, <1>8 DEF G

LEMMA TickPendingFine ==
    ASSUME NEW k, LinkOK(k), NEW x \in PendingSlot, NEW t \in Nat
    PROVE  Fine(k, TickPending(k, x, t))
  <1> DEFINE p == k.pending[x]
             mac == net_arp_lookup(k, p.hop)
  <1>1. WaitOK(p)
    BY DEF LinkOK, QueueOK
  <1>2. p.used /\ mac # NoMac => Fine(k, SendPending(k, x, mac))
    BY SendPendingFine
  <1>3. Fine(k, [k EXCEPT !.pending[x] = NoPacket])
    <2>1. ~NoPacket.used
      BY DEF NoPacket
    <2> QED
      BY <2>1, SlotChange
  <1>4. Fine(k, [k EXCEPT !.pending[x] = Aged(p, t)])
    <2>1. /\ Aged(p, t).used = p.used /\ Aged(p, t).hop = p.hop /\ Aged(p, t).packet = p.packet
      <3> HIDE DEF p
      <3> QED
        BY <1>1 DEF WaitOK, Whole, PacketFields, Aged
    <2>2. p.used \in BOOLEAN
      BY <1>1 DEF WaitOK
    <2> QED
      BY <2>1, <2>2, SlotChange
  <1>5. \/ TickPending(k, x, t) = k
        \/ p.used /\ mac # NoMac /\ TickPending(k, x, t) = SendPending(k, x, mac)
        \/ TickPending(k, x, t) = [k EXCEPT !.pending[x] = NoPacket]
        \/ TickPending(k, x, t) = [k EXCEPT !.pending[x] = Aged(p, t)]
    BY TickPendingCases
  <1> HIDE DEF p, mac
  <1> QED
    BY <1>2, <1>3, <1>4, <1>5, FineSelf

LEMMA QueueTickFine ==
    ASSUME NEW k, LinkOK(k), NEW t \in Nat
    PROVE  Fine(k, net_ipv4_tick(k, t))
  <1> DEFINE N == NET_IPV4_PENDING_CAPACITY
  <1>1. PICK f : /\ net_ipv4_tick(k, t) = f[N] /\ f[0] = k
                 /\ \A n \in 1..N : f[n] = TickPending(f[n - 1], n, t)
    BY QueueTickStates
  <1> DEFINE G(r) == LinkOK(r) /\ Fine(k, r)
             B == {n \in 0..N : ~G(f[n])}
  <1>2. N \in Nat
    BY LinkAssumption
  <1>3. G(f[0])
    BY <1>1, FineSelf
  <1>4. ASSUME NEW n \in 1..N, G(f[n - 1]) PROVE G(f[n])
    <2>1. n \in PendingSlot
      BY DEF PendingSlot
    <2>2. f[n] = TickPending(f[n - 1], n, t)
      BY <1>1
    <2>3. LinkOK(f[n]) /\ Fine(f[n - 1], f[n])
      BY <1>4, <2>1, <2>2, TickPendingIs, TickPendingFine DEF LinkStep
    <2> QED
      BY <1>4, <2>3, FineTrans
  <1> HIDE DEF G
  <1>5. \A n \in 1..N : n \in B => n - 1 \in B
    BY <1>2, <1>4
  <1>6. B \subseteq 0..N /\ 0 \notin B
    BY <1>3
  <1> HIDE DEF B
  <1>7. B = {}
    BY <1>2, <1>5, <1>6, Downwards
  <1>8. G(f[N])
    BY <1>2, <1>7 DEF B
  <1> QED
    BY <1>1, <1>8 DEF G

\* The datagrams that a packet carries: one, or none.
Carried(p) == {n \in Datagram : PacketCarries(p, n)}

LEMMA QueueFine ==
    ASSUME NEW k, LinkOK(k), NEW hop, NEW packet, HopOK(hop, packet.dst)
    PROVE  FineBut(k, queue_pending_packet(k, hop, packet), Carried(packet))
  <1> DEFINE r == queue_pending_packet(k, hop, packet)
             D == Carried(packet)
  <1>1. /\ r.arp = k.arp /\ r.out = k.out
        /\ \/ r = k
           \/ \E x \in PendingSlot :
                 /\ ~k.pending[x].used /\ r.pending[x] = Waits(hop, packet)
                 /\ \A y \in PendingSlot : y # x => r.pending[y] = k.pending[y]
    BY QueueIs
  <1> HIDE DEF r
  <1>2. CASE r = k
    BY <1>2 DEF FineBut, r
  <1>3. ASSUME NEW x \in PendingSlot, ~k.pending[x].used, r.pending[x] = Waits(hop, packet),
               \A y \in PendingSlot : y # x => r.pending[y] = k.pending[y]
        PROVE  FineBut(k, r, D)
    <2>1. r.pending[x].used /\ r.pending[x].hop = hop /\ r.pending[x].packet = packet
      BY <1>3 DEF Waits
    <2>2. \A n \in Datagram : Holds(r, x, n) <=> n \in D
      BY <2>1 DEF Holds, Carried
    <2>3. \A n : ~Holds(k, x, n) /\ \A y \in PendingSlot : y # x => (Holds(r, y, n) <=> Holds(k, y, n))
      BY <1>3 DEF Holds
    <2> SUFFICES ASSUME NEW told, NEW c, FlightOK(k, told, c), \A n \in D : Free(k, c, n)
                 PROVE  /\ FlightOK(r, told, c)
                        /\ \A n \in Datagram \ D : Free(k, c, n) => Free(r, c, n)
      BY DEF FineBut
    <2> HIDE DEF D
    <2>4. CacheTold(r, told) /\ OutOK(r, told)
      BY <1>1 DEF FlightOK, CacheTold, OutOK
    <2>5. QueueHops(r)
      BY <1>3, <2>1 DEF FlightOK, QueueHops
    <2>6. ASSUME NEW n \in Datagram PROVE OnceOK(r, c, n)
      <3>1. OnceOK(k, c, n)
        BY DEF FlightOK
      <3>2. CASE n \in D
        <4>1. Free(k, c, n)
          BY <3>2
        <4>2. \A y \in PendingSlot : Holds(r, y, n) => y = x
          BY <2>3, <4>1 DEF Free
        <4>3. \A y \in DOMAIN r.out : ~Carries(r.out[y], n)
          BY <1>1, <4>1 DEF Free
        <4>4. c[n] = 0
          BY <4>1 DEF Free
        <4> QED
          BY <4>2, <4>3, <4>4 DEF OnceOK
      <3>3. CASE n \notin D
        <4>1. \A y \in PendingSlot : Holds(r, y, n) => Holds(k, y, n)
          BY <2>2, <2>3, <3>3
        <4> QED
          BY <1>1, <3>1, <4>1 DEF OnceOK
      <3> QED
        BY <3>2, <3>3
    <2>7. ASSUME NEW n \in Datagram \ D, Free(k, c, n) PROVE Free(r, c, n)
      BY <1>1, <2>2, <2>3, <2>7 DEF Free
    <2> QED
      BY <2>4, <2>5, <2>6, <2>7 DEF FlightOK
  <1> QED
    BY <1>1, <1>2, <1>3 DEF r

LEMMA SendViaFine ==
    ASSUME NEW k, LinkOK(k), NEW hop, OnLink(hop, k.address) \/ hop = Broadcast, NEW packet,
           (hop = Broadcast /\ packet.dst = Broadcast) \/ HopOK(hop, packet.dst)
    PROVE  FineBut(k, SendVia(k, hop, packet), Carried(packet))
  <1> DEFINE D == Carried(packet)
             mac == net_arp_lookup(k, hop)
             f == Frame(mac, "IPv4", packet)
  <1>1. ASSUME mac # NoMac, NEW told, NEW c, FlightOK(k, told, c)
        PROVE  ~Strays(f, told)
    <2>1. CASE packet.dst = Broadcast
      BY <2>1 DEF Strays, Frame
    <2>2. CASE HopOK(hop, packet.dst)
      <3>1. hop \in Neighbour /\ mac = told[hop]
        BY <1>1, <2>2, LookupTold DEF HopOK, FlightOK
      <3> QED
        BY <2>2, <3>1, HopFrame DEF HopOK
    <2> QED
      BY <2>1, <2>2
  <1>2. CASE mac # NoMac
    <2> DEFINE r == net_ethernet_send(k, mac, "IPv4", packet)
    <2>1. SendVia(k, hop, packet) = r
      BY <1>2 DEF SendVia
    <2>2. \A n \in Datagram : Carries(f, n) <=> n \in D
      BY FrameCarries DEF Carried
    <2> HIDE DEF D, mac
    <2>3. ASSUME NEW told, NEW c, FlightOK(k, told, c), \A n \in D : Free(k, c, n)
          PROVE  FlightOK(r, told, c) /\ \A n \in Datagram \ D : Free(k, c, n) => Free(r, c, n)
      BY <1>1, <1>2, <2>2, <2>3, EmitOK
    <2> HIDE DEF r
    <2>4. FineBut(k, r, D)
      BY <2>3 DEF FineBut
    <2> QED
      BY <2>1, <2>4 DEF D
  <1>3. CASE mac = NoMac
    <2> DEFINE l == net_arp_resolve(k, hop)
    <2>1. hop # Broadcast /\ OnLink(hop, k.address)
      BY <1>3, BroadcastKnown
    <2>2. LinkOK(l) /\ Fine(k, l)
      BY <2>1, ResolveIs, ResolveFine DEF LinkStep
    <2>3. SendVia(k, hop, packet) = queue_pending_packet(l, hop, packet)
      BY <1>3 DEF SendVia
    <2>4. D \in SUBSET Datagram
      BY DEF Carried
    <2>5. HopOK(hop, packet.dst)
      BY <2>1
    <2> HIDE DEF l
    <2>6. FineBut(l, queue_pending_packet(l, hop, packet), D)
      BY <2>2, <2>5, QueueFine
    <2> HIDE DEF D
    <2> QED
      BY <2>2, <2>3, <2>4, <2>6, FineThen DEF D
  <1> QED
    BY <1>2, <1>3

\* Where a datagram may be sent.
Destination(a) == a \in Peers \cup {Zero, Broadcast}

LEMMA Ipv4SendFine ==
    ASSUME NEW k, LinkOK(k), NEW src, NEW dst, Destination(dst), NEW proto, NEW data
    PROVE  FineBut(k, net_ipv4_send(k, src, dst, proto, data), Carried(Ipv4(k, src, dst, proto, data)))
  <1> DEFINE hop == next_hop_for_device(k, dst)
             p == Ipv4(k, src, dst, proto, data)
             r == net_ipv4_send(k, src, dst, proto, data)
  <1>1. r = k \/ (dst # Zero /\ hop # Zero /\ (OnLink(hop, k.address) \/ hop = Broadcast) /\ r = SendVia(k, hop, p))
    BY Ipv4SendCases
  <1>2. p.dst = dst
    BY DEF Ipv4
  <1>3. RoutesOK(k)
    BY DEF LinkOK
  <1>4. ASSUME hop # Zero, dst # Zero PROVE (hop = Broadcast /\ dst = Broadcast) \/ HopOK(hop, dst)
    <2>1. \/ dst = Broadcast /\ hop = Broadcast
          \/ OnLink(dst, k.address) /\ hop = dst
          \/ ~OnLink(dst, k.address) /\ hop = k.gateway
      BY <1>3, <1>4, NextHopIs
    <2> HIDE DEF hop
    <2>2. CASE dst = Broadcast
      BY <2>1, <2>2 DEF hop, next_hop_for_device
    <2>3. CASE dst # Broadcast
      <3>1. dst \in Peers
        BY <1>4, <2>3 DEF Destination
      <3>2. k.address # Zero => (dst \in Neighbour => OnLink(dst, k.address))
        BY <1>3, <3>1, PeerIs
      <3>3. k.gateway # Zero => k.gateway \in Peers /\ k.address # Zero
        BY <1>3, <3>1, PeerIs DEF RoutesOK
      <3> QED
        BY <1>4, <2>1, <2>3, <3>1, <3>2, <3>3 DEF HopOK
    <2> QED
      BY <2>2, <2>3
  <1> HIDE DEF hop, p, r
  <1>5. CASE r = k
    BY <1>5 DEF FineBut, r, p
  <1>6. CASE r # k
    BY <1>1, <1>2, <1>4, <1>6, SendViaFine DEF r, p
  <1> QED
    BY <1>5, <1>6

\* What is not a datagram of a program.
Plain(proto, data) == proto # "UDP" \/ data.message.service # "program"

LEMMA PlainSendFine ==
    ASSUME NEW k, LinkOK(k), NEW src, NEW dst, Destination(dst), NEW proto, NEW data, Plain(proto, data)
    PROVE  Fine(k, net_ipv4_send(k, src, dst, proto, data))
  <1> DEFINE p == Ipv4(k, src, dst, proto, data)
  <1>1. p.proto = proto /\ p.data = data
    BY DEF Ipv4
  <1>2. Carried(p) = {}
    BY <1>1 DEF Carried, PacketCarries, Plain
  <1>3. FineBut(k, net_ipv4_send(k, src, dst, proto, data), Carried(p))
    BY Ipv4SendFine
  <1> QED
    BY <1>2, <1>3 DEF Fine

\* A host tells its hardware address: the entry that is made is the one that was told
\* last, and what waited for it goes there.
LEMMA CacheAddressFine ==
    ASSUME NEW k, LinkOK(k), k.out = <<>>, NEW told, Whole(told, Neighbour), NEW c, FlightOK(k, told, c),
           NEW a \in Neighbour, NEW mac \in Mac, mac # NoMac
    PROVE  LET r == cache_protocol_address(k, a, mac)
           IN  FlightOK(r, [told EXCEPT ![a] = mac], c) /\ \A n \in Datagram : Free(k, c, n) => Free(r, c, n)
  <1> DEFINE x == EntryFor(k, a)
             l == [k EXCEPT !.arp[x] = ValidEntry(a, mac)]
             t == [told EXCEPT ![a] = mac]
  <1>1. t[a] = mac /\ \A h \in Neighbour : h # a => t[h] = told[h]
    BY DEF Whole
  <1> HIDE DEF t
  <1>2. CacheTold(k, told) /\ QueueHops(k) /\ \A n \in Datagram : OnceOK(k, c, n)
    BY DEF FlightOK
  <1>3. CASE ~Unicast(a)
    <2>1. cache_protocol_address(k, a, mac) = k
      BY <1>3 DEF cache_protocol_address
    <2>2. CacheTold(k, t)
      BY <1>1, <1>2, <1>3 DEF CacheTold
    <2>3. OutOK(k, t)
      BY EmptySeqIs DEF OutOK
    <2> QED
      BY <1>2, <2>1, <2>2, <2>3 DEF FlightOK, t
  <1>4. CASE Unicast(a)
    <2>1. x \in ArpSlot /\ (find_entry(k, a) # {} => x \in find_entry(k, a))
      BY EntryForIs DEF LinkOK
    <2>2. find_entry(k, a) \subseteq {x}
      BY <1>2, <2>1 DEF find_entry, CacheTold
    <2>3. cache_protocol_address(k, a, mac) = net_ipv4_notify_arp_resolved(l, a)
      BY <1>4 DEF cache_protocol_address, ValidEntry
    <2>4. /\ EntryOK(ValidEntry(a, mac)) /\ ValidEntry(a, mac).state = "VALID"
          /\ ValidEntry(a, mac).ip = a /\ ValidEntry(a, mac).mac = mac
      BY NewEntriesOK
    <2> HIDE DEF x
    <2>5. /\ l.pending = k.pending /\ l.out = k.out /\ l.arp[x] = ValidEntry(a, mac)
          /\ \A y \in ArpSlot : y # x => l.arp[y] = k.arp[y]
      BY <2>1 DEF LinkOK, CacheOK, Whole, LinkFields
    <2>6. LinkStep(k, l)
      BY <2>1, <2>4, SetEntry
    <2> HIDE DEF l
    <2>7. CacheTold(l, t)
      <3>1. ASSUME NEW y \in ArpSlot, NEW z \in ArpSlot, l.arp[y].state # "EMPTY",
                   l.arp[z].state # "EMPTY", l.arp[y].ip = l.arp[z].ip
            PROVE  y = z
        BY <1>2, <2>2, <2>4, <2>5, <3>1 DEF CacheTold, find_entry
      <3>2. ASSUME NEW y \in ArpSlot, l.arp[y].state = "VALID"
            PROVE  l.arp[y].ip \in Neighbour /\ Unicast(l.arp[y].ip) /\ l.arp[y].mac = t[l.arp[y].ip]
        <4>1. CASE y = x
          BY <1>1, <1>4, <2>4, <2>5, <4>1
        <4>2. CASE y # x
          BY <1>1, <1>2, <2>2, <2>5, <3>2, <4>2 DEF CacheTold, find_entry
        <4> QED
          BY <4>1, <4>2
      <3> QED
        BY <3>1, <3>2 DEF CacheTold
    <2>8. \A n, y : Holds(l, y, n) <=> Holds(k, y, n)
      BY <2>5 DEF Holds
    <2>9. \A n \in Datagram : OnceOK(l, c, n) /\ (Free(k, c, n) => Free(l, c, n))
      BY <1>2, <2>5, <2>8 DEF OnceOK, Free
    <2>10. OutOK(l, t) /\ QueueHops(l)
      BY <1>2, <2>5, EmptySeqIs DEF OutOK, QueueHops
    <2>11. FlightOK(l, t, c)
      BY <2>7, <2>9, <2>10 DEF FlightOK
    <2>12. net_arp_lookup(l, a) # NoMac
      <3>1. a \in Peers
        BY DEF Peers
      <3>2. ~BroadcastHost(a) /\ a # Broadcast /\ (l.address # Zero => a # l.address)
        BY <2>6, <3>1, PeerIs DEF LinkStep, LinkOK
      <3>3. x \in find_entry(l, a) /\ l.arp[x].state = "VALID"
        BY <2>1, <2>4, <2>5 DEF find_entry
      <3>4. find_entry(l, a) \in SUBSET Nat
        BY DEF find_entry, ArpSlot
      <3>5. FirstOf(find_entry(l, a)) \in find_entry(l, a)
        BY <3>3, <3>4, MinIs DEF FirstOf
      <3>6. FirstOf(find_entry(l, a)) = x
        BY <2>7, <3>3, <3>5 DEF find_entry, CacheTold
      <3> QED
        BY <2>4, <2>5, <3>2, <3>3, <3>6 DEF net_arp_lookup
    <2>13. Fine(l, net_ipv4_notify_arp_resolved(l, a))
      BY <2>6, <2>12, NotifyFine DEF LinkStep
    <2> QED
      BY <2>3, <2>9, <2>11, <2>13 DEF Fine, FineBut, t
  <1> QED
    BY <1>3, <1>4

ToldBy(k, p, told) == IF ArpAccepted(k, p) THEN [told EXCEPT ![p.sip] = p.smac] ELSE told

LEMMA ArpInputFine ==
    ASSUME NEW k, LinkOK(k), k.out = <<>>, NEW told, Whole(told, Neighbour), NEW c, FlightOK(k, told, c),
           NEW p, p.sip \in Neighbour, p.smac \in Mac, p.smac # NoMac
    PROVE  LET r == net_arp_input(k, p)
           IN  FlightOK(r, ToldBy(k, p, told), c) /\ \A n \in Datagram : Free(k, c, n) => Free(r, c, n)
  <1> DEFINE l == cache_protocol_address(k, p.sip, p.smac)
             b == [op |-> "reply", smac |-> OwnMac, sip |-> k.address, tip |-> p.sip]
             t == [told EXCEPT ![p.sip] = p.smac]
             r == net_ethernet_send(l, p.smac, "ARP", b)
  <1>1. FlightOK(l, t, c) /\ \A n \in Datagram : Free(k, c, n) => Free(l, c, n)
    BY CacheAddressFine
  <1>2. LinkOK(l)
    BY CacheAddressIs DEF LinkStep
  <1>3. net_arp_input(k, p) = IF ~ArpAccepted(k, p) THEN k ELSE IF p.op = "reply" THEN l ELSE r
    BY DEF net_arp_input
  <1> HIDE DEF l, b, t
  <1>4. Fine(l, r)
    BY <1>2, ArpFrameFine
  <1> HIDE DEF r
  <1>5. FlightOK(r, t, c) /\ \A n \in Datagram : Free(k, c, n) => Free(r, c, n)
    BY <1>1, <1>4 DEF Fine, FineBut
  <1> QED
    BY <1>1, <1>3, <1>5 DEF ToldBy, t

LEMMA IcmpInputFine ==
    ASSUME NEW k, LinkOK(k), NEW p, Destination(p.src)
    PROVE  Fine(k, net_icmp_input(k, p))
  <1> DEFINE data == [p.data EXCEPT !.type = "echo_reply"]
  <1>1. net_icmp_input(k, p) \in {k, net_ipv4_send(k, p.dst, p.src, "ICMP", data)}
    BY DEF net_icmp_input
  <1> HIDE DEF data
  <1>2. Plain("ICMP", data)
    BY DEF Plain
  <1>3. Fine(k, net_ipv4_send(k, p.dst, p.src, "ICMP", data))
    BY <1>2, PlainSendFine
  <1> QED
    BY <1>1, <1>3, FineSelf

----------------------------------------------------------------------------
\* UDP.

StackFields == {"link", "udp", "dhcp", "dns", "applied", "backend", "answers", "origin"}
UdpFields == {"local", "ephemeral", "endpoint"}
EndpointFields == {"active", "bound", "address", "port", "queue"}

EndpointOK(e) ==
    Whole(e, EndpointFields) /\ IsSeq(e.queue) /\ Len(e.queue) <= NET_UDP_QUEUE_DEPTH

UdpOK(u) ==
    /\ Whole(u, UdpFields) /\ Whole(u.endpoint, Endpoint)
    /\ \A x \in Endpoint : EndpointOK(u.endpoint[x])

LEMMA NewEndpointsOK ==
    /\ EndpointOK(Inactive) /\ EndpointOK([Inactive EXCEPT !.active = TRUE])
    /\ \A address, port : EndpointOK(BoundTo(address, port))
  <1>1. Whole(Inactive, EndpointFields) /\ Inactive.queue = <<>>
    BY DEF Inactive, Whole, EndpointFields
  <1>2. /\ Whole([Inactive EXCEPT !.active = TRUE], EndpointFields)
        /\ [Inactive EXCEPT !.active = TRUE].queue = <<>>
    BY <1>1 DEF Whole, EndpointFields
  <1>3. ASSUME NEW address, NEW port
        PROVE  Whole(BoundTo(address, port), EndpointFields) /\ BoundTo(address, port).queue = <<>>
    BY <1>1 DEF Whole, EndpointFields, BoundTo
  <1> QED
    BY <1>1, <1>2, <1>3, EmptySeqIs, ServicesAssumption DEF EndpointOK

LEMMA SetEndpoint ==
    ASSUME NEW u, UdpOK(u), NEW x \in Endpoint, NEW e, EndpointOK(e)
    PROVE  LET r == [u EXCEPT !.endpoint[x] = e]
           IN  /\ UdpOK(r) /\ r.local = u.local /\ r.endpoint[x] = e
               /\ \A y \in Endpoint : y # x => r.endpoint[y] = u.endpoint[y]
  <1> DEFINE r == [u EXCEPT !.endpoint[x] = e]
  <1>1. /\ Whole(r, UdpFields) /\ Whole(r.endpoint, Endpoint) /\ r.local = u.local /\ r.endpoint[x] = e
        /\ \A y \in Endpoint : y # x => r.endpoint[y] = u.endpoint[y]
    BY DEF UdpOK, Whole, UdpFields
  <1> HIDE DEF r
  <1>2. UdpOK(r)
    BY <1>1 DEF UdpOK
  <1> QED
    BY <1>1, <1>2 DEF r

LEMMA BindIs ==
    ASSUME NEW u, UdpOK(u), NEW x \in Endpoint, NEW address, NEW port
    PROVE  LET r == net_udp_bind(u, x, address, port) IN UdpOK(r) /\ r.local = u.local
  <1> DEFINE r == [u EXCEPT !.endpoint[x] = BoundTo(address, port)]
  <1>1. UdpOK(r) /\ r.local = u.local
    BY NewEndpointsOK, SetEndpoint
  <1>2. net_udp_bind(u, x, address, port) \in {u, r}
    BY DEF net_udp_bind
  <1> HIDE DEF r
  <1> QED
    BY <1>1, <1>2

LEMMA ForSendIs ==
    ASSUME NEW u, UdpOK(u), NEW x \in Endpoint
    PROVE  LET r == UdpForSend(u, x) IN UdpOK(r) /\ r.local = u.local
  <1> DEFINE port == choose_ephemeral(u, x, Zero)
             b == net_udp_bind(u, x, Zero, port)
             r == [b EXCEPT !.ephemeral = IF port = NET_UDP_EPHEMERAL_LAST
                                          THEN NET_UDP_EPHEMERAL_FIRST ELSE port + 1]
  <1>1. UdpOK(b) /\ b.local = u.local
    BY BindIs
  <1>2. UdpForSend(u, x) \in {u, r}
    BY DEF UdpForSend, BindEphemeral
  <1> HIDE DEF port, b
  <1>3. Whole(r, UdpFields) /\ r.local = b.local /\ r.endpoint = b.endpoint
    BY <1>1 DEF UdpOK, Whole, UdpFields
  <1> HIDE DEF r
  <1>4. UdpOK(r)
    BY <1>1, <1>3 DEF UdpOK
  <1> QED
    BY <1>1, <1>2, <1>3, <1>4
\* What every call of the upper half leaves alone, but for a new configuration.
Kept(s, r) ==
    /\ Whole(r, StackFields) /\ LinkStep(s.link, r.link)
    /\ UdpOK(r.udp) /\ r.udp.local = s.udp.local
    /\ r.applied = s.applied /\ r.backend = s.backend /\ r.origin = s.origin

LinkAndUdpOK(s) == Whole(s, StackFields) /\ LinkOK(s.link) /\ UdpOK(s.udp)

LEMMA KeptSelf ==
    ASSUME NEW s, LinkAndUdpOK(s)
    PROVE  Kept(s, s)
  BY DEF LinkAndUdpOK, Kept, LinkStep, SameConfig

LEMMA KeptTrans ==
    ASSUME NEW s, NEW t, NEW r, Kept(s, t), Kept(t, r)
    PROVE  Kept(s, r)
  <1>1. LinkStep(s.link, r.link)
    BY LinkStepTrans DEF Kept
  <1> QED
    BY <1>1 DEF Kept

LEMMA KeptOK ==
    ASSUME NEW s, NEW r, Kept(s, r)
    PROVE  LinkAndUdpOK(r)
  BY DEF Kept, LinkAndUdpOK, LinkStep

LEMMA SetLink ==
    ASSUME NEW s, LinkAndUdpOK(s), NEW k, LinkStep(s.link, k)
    PROVE  LET r == [s EXCEPT !.link = k]
           IN  /\ Kept(s, r) /\ r.link = k /\ r.udp = s.udp /\ r.dhcp = s.dhcp /\ r.dns = s.dns
               /\ r.answers = s.answers
  BY DEF LinkAndUdpOK, Kept, Whole, StackFields

LEMMA SetDhcp ==
    ASSUME NEW s, LinkAndUdpOK(s), NEW d
    PROVE  LET r == [s EXCEPT !.dhcp = d]
           IN  /\ Kept(s, r) /\ r.dhcp = d /\ r.link = s.link /\ r.udp = s.udp /\ r.dns = s.dns
               /\ r.answers = s.answers
  <1> DEFINE r == [s EXCEPT !.dhcp = d]
  <1>1. /\ Whole(r, StackFields) /\ r.dhcp = d /\ r.link = s.link /\ r.udp = s.udp /\ r.dns = s.dns
        /\ r.answers = s.answers /\ r.applied = s.applied /\ r.backend = s.backend /\ r.origin = s.origin
    BY DEF LinkAndUdpOK, Whole, StackFields
  <1> HIDE DEF r
  <1>2. Kept(s, r)
    BY <1>1, KeptSelf DEF Kept, LinkAndUdpOK
  <1> QED
    BY <1>1, <1>2 DEF r

LEMMA SetDns ==
    ASSUME NEW s, LinkAndUdpOK(s), NEW c
    PROVE  LET r == [s EXCEPT !.dns = c]
           IN  /\ Kept(s, r) /\ r.dns = c /\ r.link = s.link /\ r.udp = s.udp /\ r.dhcp = s.dhcp
               /\ r.answers = s.answers
  <1> DEFINE r == [s EXCEPT !.dns = c]
  <1>1. /\ Whole(r, StackFields) /\ r.dns = c /\ r.link = s.link /\ r.udp = s.udp /\ r.dhcp = s.dhcp
        /\ r.answers = s.answers /\ r.applied = s.applied /\ r.backend = s.backend /\ r.origin = s.origin
    BY DEF LinkAndUdpOK, Whole, StackFields
  <1> HIDE DEF r
  <1>2. Kept(s, r)
    BY <1>1, KeptSelf DEF Kept, LinkAndUdpOK
  <1> QED
    BY <1>1, <1>2 DEF r

UdpData(u, x, dport, message) ==
    [sport |-> u.endpoint[x].port, dport |-> dport, message |-> message]

\* The lower half, before and after a datagram goes out over UDP, or is refused.
SentOver(k, r, dst, dport, message) ==
    \/ r = k
    \/ \E src, sport : r = net_ipv4_send(k, src, dst, "UDP",
          [sport |-> sport, dport |-> dport, message |-> message])

LEMMA SendToIs ==
    ASSUME NEW s, LinkAndUdpOK(s), NEW x \in Endpoint, NEW dst, NEW dport, NEW message
    PROVE  LET r == net_udp_sendto(s, x, dst, dport, message)
           IN  /\ Kept(s, r) /\ r.dhcp = s.dhcp /\ r.dns = s.dns /\ r.answers = s.answers
               /\ SentOver(s.link, r.link, dst, dport, message)
  <1> DEFINE u == UdpForSend(s.udp, x)
             k == net_ipv4_send(s.link, UdpSource(u, x), dst, "UDP", UdpData(u, x, dport, message))
             q == [s EXCEPT !.udp = u]
             r == [s EXCEPT !.udp = u, !.link = k]
  <1>1. UdpOK(u) /\ u.local = s.udp.local
    BY ForSendIs DEF LinkAndUdpOK
  <1>2. LinkStep(s.link, k)
    BY Ipv4SendIs DEF LinkAndUdpOK
  <1>3. net_udp_sendto(s, x, dst, dport, message) \in {q, r}
    BY DEF net_udp_sendto, UdpData
  <1>4. SentOver(s.link, k, dst, dport, message) /\ SentOver(s.link, s.link, dst, dport, message)
    BY DEF UdpData, SentOver
  <1> HIDE DEF u, k
  <1>5. /\ Whole(q, StackFields) /\ q.udp = u /\ q.link = s.link /\ q.dhcp = s.dhcp /\ q.dns = s.dns
        /\ q.answers = s.answers /\ q.applied = s.applied /\ q.backend = s.backend /\ q.origin = s.origin
    BY DEF LinkAndUdpOK, Whole, StackFields
  <1>6. /\ Whole(r, StackFields) /\ r.udp = u /\ r.link = k /\ r.dhcp = s.dhcp /\ r.dns = s.dns
        /\ r.answers = s.answers /\ r.applied = s.applied /\ r.backend = s.backend /\ r.origin = s.origin
    BY DEF LinkAndUdpOK, Whole, StackFields
  <1> HIDE DEF q, r
  <1>7. LinkStep(s.link, s.link)
    BY DEF LinkAndUdpOK, LinkStep, SameConfig
  <1>8. Kept(s, q) /\ Kept(s, r)
    BY <1>1, <1>2, <1>5, <1>6, <1>7 DEF Kept
  <1> QED
    BY <1>3, <1>4, <1>5, <1>6, <1>8

----------------------------------------------------------------------------
\* The DHCP client.

DhcpFields == {"state", "xid", "config", "offer", "retry", "interval", "renew", "rebind", "expire"}
ConfigFields == {"address", "mask", "gateway", "dns", "server", "lease", "t1", "t2"}

\* What a server gave: each address is one of those that the servers hand out.
Given(c) ==
    /\ c \in Config
    /\ \A f \in {"address", "gateway", "dns", "server"} : c[f] = Zero \/ \E o \in Offers : c[f] = o[f]

LeaseOK(d) ==
    /\ 0 < d.config.t1 /\ d.config.t1 < d.config.t2 /\ d.config.t2 < d.config.lease
    /\ d.expire <= d.config.lease /\ d.config.address # Zero

DhcpOK(d) ==
    /\ Whole(d, DhcpFields)
    /\ d.state \in {"INIT", "SELECTING", "REQUESTING", "BOUND", "RENEWING", "REBINDING", "EXPIRED"}
    /\ Given(d.config) /\ Given(d.offer)
    /\ d.renew \in Nat /\ d.rebind \in Nat /\ d.expire \in Nat
    /\ d.interval \in 1..NET_DHCP_MAX_RETRY /\ d.retry \in 0..NET_DHCP_MAX_RETRY
    /\ net_dhcp_is_configured(d) => LeaseOK(d)

LEMMA ConfigIs ==
    ASSUME NEW c
    PROVE  c \in Config <=>
             /\ Whole(c, ConfigFields)
             /\ c.address \in Nat /\ c.mask \in BOOLEAN /\ c.gateway \in Nat /\ c.dns \in Nat
             /\ c.server \in Nat /\ c.lease \in Nat /\ c.t1 \in Nat /\ c.t2 \in Nat
  <1>1. c \in Config =>
             /\ Whole(c, ConfigFields)
             /\ c.address \in Nat /\ c.mask \in BOOLEAN /\ c.gateway \in Nat /\ c.dns \in Nat
             /\ c.server \in Nat /\ c.lease \in Nat /\ c.t1 \in Nat /\ c.t2 \in Nat
    BY DEF Config, Whole, ConfigFields
  <1>2. ASSUME Whole(c, ConfigFields),
               c.address \in Nat, c.mask \in BOOLEAN, c.gateway \in Nat, c.dns \in Nat,
               c.server \in Nat, c.lease \in Nat, c.t1 \in Nat, c.t2 \in Nat
        PROVE  c \in Config
    BY <1>2 DEF Config, Whole, ConfigFields
  <1> QED
    BY <1>1, <1>2

LEMMA NoConfigOK == Given(NoConfig)
  <1>1. NoConfig \in Config
    BY DEF NoConfig, Config, Zero
  <1> QED
    BY <1>1 DEF Given, NoConfig
LEMMA DefaultTimes ==
    ASSUME NEW lease \in Nat, lease >= 3
    PROVE  /\ DefaultRenewal(lease) \in Nat /\ DefaultRebinding(lease) \in Nat
           /\ 0 < DefaultRenewal(lease) /\ DefaultRenewal(lease) < DefaultRebinding(lease)
           /\ DefaultRebinding(lease) < lease
  <1> DEFINE h == lease \div 2
             e == lease \div 8
             m == Max({lease - e, h + 1})
  <1>1. h \in Nat /\ 0 < h /\ h < lease - 1
    OBVIOUS
  <1>2. e \in Nat /\ e <= lease
    OBVIOUS
  <1> HIDE DEF h, e
  <1>3. lease - e \in Int /\ h + 1 \in Int /\ lease - 1 \in Int
    BY <1>1, <1>2
  <1>4. m = IF lease - e >= h + 1 THEN lease - e ELSE h + 1
    BY <1>3, MaxTwo
  <1>5. m \in Nat /\ m >= h + 1
    BY <1>1, <1>2, <1>4
  <1> HIDE DEF m
  <1>6. Min({m, lease - 1}) = IF m <= lease - 1 THEN m ELSE lease - 1
    BY <1>3, <1>5, MinTwo
  <1>7. DefaultRenewal(lease) = h /\ DefaultRebinding(lease) = Min({m, lease - 1})
    BY DEF DefaultRenewal, DefaultRebinding, h, e, m
  <1> QED
    BY <1>1, <1>5, <1>6, <1>7

LEMMA CopyIs ==
    ASSUME NEW b, Given(b), NEW o \in Offers
    PROVE  LET c == copy_option_configuration(b, o)
           IN  Given(c) /\ (o.lease # 0 => c.lease = o.lease)
  <1> DEFINE c == copy_option_configuration(b, o)
  <1>1. b \in Config /\ o \in Config
    BY StackAssumption DEF Given
  <1>2. Whole(b, ConfigFields)
    BY <1>1, ConfigIs
  <1>3. c = [f \in ConfigFields |-> IF f # "address" /\ o[f] # NoConfig[f] THEN o[f] ELSE b[f]]
    BY <1>2 DEF copy_option_configuration, Whole
  <1> HIDE DEF c
  <1>4. Whole(c, ConfigFields) /\ \A f \in ConfigFields : c[f] \in {o[f], b[f]}
    BY <1>3 DEF Whole
  <1>5. o.lease # 0 => c.lease = o.lease
    <2>1. NoConfig.lease = 0
      BY DEF NoConfig
    <2> QED
      BY <1>3, <2>1 DEF ConfigFields
  <1>6. c \in Config
    <2>1. /\ c.address \in {o.address, b.address} /\ c.mask \in {o.mask, b.mask}
          /\ c.gateway \in {o.gateway, b.gateway} /\ c.dns \in {o.dns, b.dns}
          /\ c.server \in {o.server, b.server} /\ c.lease \in {o.lease, b.lease}
          /\ c.t1 \in {o.t1, b.t1} /\ c.t2 \in {o.t2, b.t2}
      BY <1>4 DEF ConfigFields
    <2>2. \A v \in {o, b} : /\ v.address \in Nat /\ v.mask \in BOOLEAN /\ v.gateway \in Nat /\ v.dns \in Nat
                            /\ v.server \in Nat /\ v.lease \in Nat /\ v.t1 \in Nat /\ v.t2 \in Nat
      BY <1>1, ConfigIs
    <2>3. /\ c.address \in Nat /\ c.mask \in BOOLEAN /\ c.gateway \in Nat /\ c.dns \in Nat
          /\ c.server \in Nat /\ c.lease \in Nat /\ c.t1 \in Nat /\ c.t2 \in Nat
      BY <2>1, <2>2
    <2> QED
      BY <1>4, <2>3, ConfigIs
  <1>7. Given(c)
    <2>1. ASSUME NEW f \in {"address", "gateway", "dns", "server"}
          PROVE  c[f] = Zero \/ \E p \in Offers : c[f] = p[f]
      <3>1. c[f] \in {o[f], b[f]}
        BY <1>4 DEF ConfigFields
      <3>2. b[f] = Zero \/ \E p \in Offers : b[f] = p[f]
        BY DEF Given
      <3> QED
        BY <3>1, <3>2
    <2> QED
      BY <1>6, <2>1 DEF Given
  <1> QED
    BY <1>5, <1>7 DEF c

\* Whatever T1 and T2 a server gives, the lease that is bound has T1 < T2 < expiry.
LEMMA BoundConfigIs ==
    ASSUME NEW d, DhcpOK(d), NEW o \in Offers, o.lease >= 3
    PROVE  LET c == BoundConfig(d, o)
           IN  Given(c) /\ 0 < c.t1 /\ c.t1 < c.t2 /\ c.t2 < c.lease
  <1> DEFINE b == IF d.state = "REQUESTING" THEN d.offer ELSE d.config
             a == copy_option_configuration(b, o)
             c == [a EXCEPT !.address = IF o.address # Zero THEN o.address ELSE @]
             r == [c EXCEPT !.t1 = DefaultRenewal(c.lease), !.t2 = DefaultRebinding(c.lease)]
  <1>1. o.lease \in Nat /\ o.address \in Nat
    BY StackAssumption DEF Config
  <1>2. Given(b)
    BY DEF DhcpOK
  <1>3. BoundConfig(d, o) = IF 0 < c.t1 /\ c.t1 < c.t2 /\ c.t2 < c.lease THEN c ELSE r
    BY DEF BoundConfig
  <1> HIDE DEF b
  <1>4. Given(a) /\ a.lease = o.lease
    BY <1>1, <1>2, CopyIs
  <1> HIDE DEF a
  <1>5. /\ Whole(a, ConfigFields)
        /\ a.address \in Nat /\ a.mask \in BOOLEAN /\ a.gateway \in Nat /\ a.dns \in Nat
        /\ a.server \in Nat /\ a.lease \in Nat /\ a.t1 \in Nat /\ a.t2 \in Nat
    BY <1>4, ConfigIs DEF Given
  <1>6. /\ Whole(c, ConfigFields) /\ c.address \in {o.address, a.address}
        /\ c.mask = a.mask /\ c.gateway = a.gateway /\ c.dns = a.dns /\ c.server = a.server
        /\ c.lease = a.lease /\ c.t1 = a.t1 /\ c.t2 = a.t2
    BY <1>5 DEF Whole, ConfigFields
  <1> HIDE DEF c
  <1>7. c \in Config
    BY <1>1, <1>5, <1>6, ConfigIs
  <1>8. Given(c)
    BY <1>4, <1>6, <1>7 DEF Given
  <1>9. c.lease \in Nat /\ c.lease >= 3
    BY <1>1, <1>4, <1>6
  <1>10. /\ Whole(r, ConfigFields) /\ r.address = c.address
         /\ r.mask = c.mask /\ r.gateway = c.gateway /\ r.dns = c.dns /\ r.server = c.server
         /\ r.lease = c.lease /\ r.t1 = DefaultRenewal(c.lease) /\ r.t2 = DefaultRebinding(c.lease)
    BY <1>6 DEF Whole, ConfigFields
  <1> HIDE DEF r
  <1>11. /\ r.t1 \in Nat /\ r.t2 \in Nat /\ 0 < r.t1 /\ r.t1 < r.t2 /\ r.t2 < r.lease
    BY <1>9, <1>10, DefaultTimes
  <1>12. r \in Config
    BY <1>1, <1>5, <1>6, <1>10, <1>11, ConfigIs
  <1>13. Given(r)
    BY <1>8, <1>10, <1>12 DEF Given
  <1> QED
    BY <1>3, <1>4, <1>6, <1>8, <1>10, <1>11, <1>13

LEMMA ResetRetryIs ==
    ASSUME NEW d, DhcpOK(d)
    PROVE  LET r == reset_retry(d)
           IN  /\ Whole(r, DhcpFields) /\ r.state = d.state /\ r.xid = d.xid /\ r.config = d.config
               /\ r.offer = d.offer /\ r.renew = d.renew /\ r.rebind = d.rebind /\ r.expire = d.expire
               /\ r.interval = NET_DHCP_INITIAL_RETRY /\ r.retry = 0
  BY DEF reset_retry, DhcpOK, Whole, DhcpFields

LEMMA BindConfigurationIs ==
    ASSUME NEW d, DhcpOK(d), NEW o \in Offers
    PROVE  DhcpOK(bind_configuration(d, o))
  <1> DEFINE c == BoundConfig(d, o)
             e == reset_retry(d)
             r == [e EXCEPT !.state = "BOUND", !.config = c,
                     !.renew = c.t1, !.rebind = c.t2, !.expire = c.lease]
  <1>1. bind_configuration(d, o) = IF c.address = Zero \/ c.server = Zero \/ o.lease < 3 THEN d ELSE r
    BY DEF bind_configuration
  <1>2. o.lease \in Nat
    BY StackAssumption DEF Config
  <1>3. ~(o.lease < 3) => Given(c) /\ 0 < c.t1 /\ c.t1 < c.t2 /\ c.t2 < c.lease
    BY <1>2, BoundConfigIs
  <1>4. /\ Whole(e, DhcpFields) /\ e.offer = d.offer
        /\ e.interval = NET_DHCP_INITIAL_RETRY /\ e.retry = 0
    BY ResetRetryIs
  <1> HIDE DEF c, e
  <1>5. /\ Whole(r, DhcpFields) /\ r.state = "BOUND" /\ r.config = c /\ r.offer = e.offer
        /\ r.renew = c.t1 /\ r.rebind = c.t2 /\ r.expire = c.lease
        /\ r.interval = e.interval /\ r.retry = e.retry
    BY <1>4 DEF Whole, DhcpFields
  <1> HIDE DEF r
  <1>6. ASSUME c.address # Zero, ~(o.lease < 3) PROVE DhcpOK(r)
    <2>1. c.lease \in Nat /\ c.t1 \in Nat /\ c.t2 \in Nat
      BY <1>3, <1>6 DEF Given, Config
    <2>2. r.interval \in 1..NET_DHCP_MAX_RETRY /\ r.retry \in 0..NET_DHCP_MAX_RETRY
      BY <1>4, <1>5, ServicesAssumption
    <2>3. LeaseOK(r)
      BY <1>3, <1>5, <1>6, <2>1 DEF LeaseOK
    <2> QED
      BY <1>3, <1>4, <1>5, <1>6, <2>1, <2>2, <2>3 DEF DhcpOK
  <1> QED
    BY <1>1, <1>6

LEMMA SendToFine ==
    ASSUME NEW s, LinkAndUdpOK(s), NEW x \in Endpoint, NEW dst, Destination(dst), NEW dport, NEW message,
           message.service # "program"
    PROVE  Fine(s.link, net_udp_sendto(s, x, dst, dport, message).link)
  <1> DEFINE r == net_udp_sendto(s, x, dst, dport, message)
  <1>1. SentOver(s.link, r.link, dst, dport, message)
    BY SendToIs
  <1>2. \A sport : Plain("UDP", [sport |-> sport, dport |-> dport, message |-> message])
    BY DEF Plain
  <1> HIDE DEF r
  <1>3. \A src, sport : Fine(s.link, net_ipv4_send(s.link, src, dst, "UDP",
                                [sport |-> sport, dport |-> dport, message |-> message]))
    BY <1>2, PlainSendFine DEF LinkAndUdpOK
  <1> QED
    BY <1>1, <1>3, FineSelf DEF r, SentOver

\* A call of the DHCP client: it may send, and nothing but its own state and the
\* lower half changes.
DhcpServed(s, r) ==
    /\ Kept(s, r) /\ Fine(s.link, r.link) /\ r.dns = s.dns /\ r.answers = s.answers
    /\ DhcpOK(r.dhcp)

LEMMA DhcpServedTrans ==
    ASSUME NEW s, NEW t, NEW r, DhcpServed(s, t), DhcpServed(t, r)
    PROVE  DhcpServed(s, r)
  <1>1. Kept(s, r)
    BY KeptTrans DEF DhcpServed
  <1>2. Fine(s.link, r.link)
    BY FineTrans DEF DhcpServed
  <1> QED
    BY <1>1, <1>2 DEF DhcpServed

LEMMA DhcpServedSelf ==
    ASSUME NEW s, LinkAndUdpOK(s), DhcpOK(s.dhcp)
    PROVE  DhcpServed(s, s)
  BY KeptSelf, FineSelf DEF DhcpServed

LEMMA SetDhcpServed ==
    ASSUME NEW s, LinkAndUdpOK(s), NEW d, DhcpOK(d)
    PROVE  DhcpServed(s, [s EXCEPT !.dhcp = d])
  <1> DEFINE r == [s EXCEPT !.dhcp = d]
  <1>1. /\ Kept(s, r) /\ r.dhcp = d /\ r.link = s.link /\ r.dns = s.dns /\ r.answers = s.answers
    BY SetDhcp
  <1> HIDE DEF r
  <1> QED
    BY <1>1, FineSelf DEF DhcpServed, r

LEMMA TransmitIs ==
    ASSUME NEW s, LinkAndUdpOK(s), DhcpOK(s.dhcp)
    PROVE  DhcpServed(s, transmit_for_state(s)) /\ transmit_for_state(s).dhcp.state = s.dhcp.state
  <1> DEFINE i == s.dhcp.interval
             m == Min({2 * i, NET_DHCP_MAX_RETRY})
             a == DhcpDestination(s.dhcp)
             q == net_udp_sendto(s, DhcpEndpoint, a, NET_DHCP_SERVER_PORT, DhcpMessage(s.dhcp))
             d == [s.dhcp EXCEPT !.retry = i, !.interval = m]
             r == [q EXCEPT !.dhcp = d]
  <1>1. i \in 1..NET_DHCP_MAX_RETRY /\ NET_DHCP_MAX_RETRY \in Nat
    BY ServicesAssumption DEF DhcpOK
  <1>2. m \in 1..NET_DHCP_MAX_RETRY
    <2>1. 2 * i \in Int /\ NET_DHCP_MAX_RETRY \in Int
      BY <1>1
    <2>2. m = IF 2 * i <= NET_DHCP_MAX_RETRY THEN 2 * i ELSE NET_DHCP_MAX_RETRY
      BY <2>1, MinTwo
    <2> HIDE DEF m
    <2> QED
      BY <1>1, <2>2
  <1> HIDE DEF m, i
  <1>3. /\ Whole(d, DhcpFields) /\ d.state = s.dhcp.state /\ d.config = s.dhcp.config
        /\ d.offer = s.dhcp.offer /\ d.renew = s.dhcp.renew /\ d.rebind = s.dhcp.rebind
        /\ d.expire = s.dhcp.expire /\ d.retry = i /\ d.interval = m
    BY DEF DhcpOK, Whole, DhcpFields
  <1> HIDE DEF d
  <1>4. DhcpOK(d)
    <2>1. i \in 0..NET_DHCP_MAX_RETRY
      BY <1>1
    <2> QED
      BY <1>2, <1>3, <2>1 DEF DhcpOK, net_dhcp_is_configured, LeaseOK
  <1>5. Destination(a)
    <2>1. s.dhcp.config.server = Zero \/ \E o \in Offers : s.dhcp.config.server = o.server
      BY DEF DhcpOK, Given
    <2> QED
      BY <2>1 DEF Destination, DhcpDestination, Peers
  <1>6. DhcpMessage(s.dhcp).service # "program"
    BY DEF DhcpMessage
  <1>7. DhcpEndpoint \in Endpoint
    BY ServicesAssumption DEF DhcpEndpoint, Endpoint
  <1>8. Kept(s, q) /\ q.dhcp = s.dhcp /\ q.dns = s.dns /\ q.answers = s.answers
    BY <1>7, SendToIs
  <1>9. Fine(s.link, q.link)
    BY <1>5, <1>6, <1>7, SendToFine
  <1>10. transmit_for_state(s) = [q EXCEPT !.dhcp.retry = i, !.dhcp.interval = m]
    BY DEF transmit_for_state, i, m
  <1> HIDE DEF q, a
  <1>11. LinkAndUdpOK(q)
    BY <1>8, KeptOK
  <1>12. transmit_for_state(s) = r
    BY <1>8, <1>10, <1>11 DEF LinkAndUdpOK, Whole, StackFields, d
  <1>13. DhcpServed(q, r) /\ r.dhcp = d
    BY <1>4, <1>11, SetDhcp, SetDhcpServed
  <1> HIDE DEF r
  <1>14. DhcpServed(s, r)
    <2>1. Kept(s, r) /\ Fine(s.link, r.link)
      BY <1>8, <1>9, <1>13, KeptTrans, FineTrans DEF DhcpServed
    <2> QED
      BY <1>8, <1>13, <2>1 DEF DhcpServed
  <1> QED
    BY <1>3, <1>12, <1>13, <1>14

\* The client enters a state and transmits.
LEMMA EnterIs ==
    ASSUME NEW s, LinkAndUdpOK(s), NEW d, DhcpOK(d)
    PROVE  LET r == transmit_for_state([s EXCEPT !.dhcp = d]) IN DhcpServed(s, r) /\ r.dhcp.state = d.state
  <1> DEFINE t == [s EXCEPT !.dhcp = d]
  <1>1. DhcpServed(s, t) /\ t.dhcp = d
    BY SetDhcp, SetDhcpServed
  <1> HIDE DEF t
  <1>2. LinkAndUdpOK(t) /\ DhcpOK(t.dhcp)
    BY <1>1, KeptOK DEF DhcpServed
  <1>3. DhcpServed(t, transmit_for_state(t)) /\ transmit_for_state(t).dhcp.state = d.state
    BY <1>1, <1>2, TransmitIs
  <1>4. DhcpServed(s, transmit_for_state(t))
    BY <1>1, <1>3, DhcpServedTrans
  <1> QED
    BY <1>3, <1>4 DEF t

LEMMA DhcpInitOK ==
    /\ DhcpOK(DhcpInit)
    /\ \A x : DhcpOK([DhcpInit EXCEPT !.state = "SELECTING", !.xid = x])
  <1>1. /\ Whole(DhcpInit, DhcpFields) /\ DhcpInit.state = "INIT"
        /\ DhcpInit.config = NoConfig /\ DhcpInit.offer = NoConfig
        /\ DhcpInit.retry = 0 /\ DhcpInit.interval = NET_DHCP_INITIAL_RETRY
        /\ DhcpInit.renew = 0 /\ DhcpInit.rebind = 0 /\ DhcpInit.expire = 0
    BY DEF DhcpInit, Whole, DhcpFields
  <1>2. 0 \in 0..NET_DHCP_MAX_RETRY /\ NET_DHCP_INITIAL_RETRY \in 1..NET_DHCP_MAX_RETRY
    BY ServicesAssumption
  <1>3. DhcpOK(DhcpInit)
    BY <1>1, <1>2, NoConfigOK DEF DhcpOK, net_dhcp_is_configured
  <1>4. ASSUME NEW x PROVE DhcpOK([DhcpInit EXCEPT !.state = "SELECTING", !.xid = x])
    <2> DEFINE d == [DhcpInit EXCEPT !.state = "SELECTING", !.xid = x]
    <2>1. /\ Whole(d, DhcpFields) /\ d.state = "SELECTING"
          /\ d.config = NoConfig /\ d.offer = NoConfig
          /\ d.retry = 0 /\ d.interval = NET_DHCP_INITIAL_RETRY
          /\ d.renew = 0 /\ d.rebind = 0 /\ d.expire = 0
      BY <1>1 DEF Whole, DhcpFields
    <2> HIDE DEF d
    <2>2. DhcpOK(d)
      BY <1>2, <2>1, NoConfigOK DEF DhcpOK, net_dhcp_is_configured
    <2> QED
      BY <2>2 DEF d
  <1> QED
    BY <1>3, <1>4

LEMMA DhcpStartIs ==
    ASSUME NEW s, LinkAndUdpOK(s)
    PROVE  DhcpServed(s, net_dhcp_start(s)) /\ net_dhcp_start(s).dhcp.state = "SELECTING"
  <1> DEFINE d == [DhcpInit EXCEPT !.state = "SELECTING", !.xid = (s.dhcp.xid + 1) % XidMod]
  <1>1. DhcpOK(d)
    BY DhcpInitOK
  <1>2. d.state = "SELECTING"
    BY DEF DhcpInit
  <1>3. net_dhcp_start(s) = transmit_for_state([s EXCEPT !.dhcp = d])
    BY DEF net_dhcp_start
  <1> HIDE DEF d
  <1> QED
    BY <1>1, <1>2, <1>3, EnterIs

\* What a server sends that the client uses.
DhcpMessageOK(m) == m.type = "NAK" \/ m.config \in Offers

LEMMA OfferTaken ==
    ASSUME NEW d, DhcpOK(d), NEW o \in Offers
    PROVE  DhcpOK([reset_retry(d) EXCEPT !.state = "REQUESTING", !.offer = o])
  <1> DEFINE e == reset_retry(d)
             r == [e EXCEPT !.state = "REQUESTING", !.offer = o]
  <1>1. /\ Whole(e, DhcpFields) /\ e.config = d.config /\ e.renew = d.renew /\ e.rebind = d.rebind
        /\ e.expire = d.expire /\ e.interval = NET_DHCP_INITIAL_RETRY /\ e.retry = 0
    BY ResetRetryIs
  <1> HIDE DEF e
  <1>2. /\ Whole(r, DhcpFields) /\ r.state = "REQUESTING" /\ r.config = d.config /\ r.offer = o
        /\ r.renew = d.renew /\ r.rebind = d.rebind /\ r.expire = d.expire
        /\ r.interval = NET_DHCP_INITIAL_RETRY /\ r.retry = 0
    BY <1>1 DEF Whole, DhcpFields
  <1> HIDE DEF r
  <1>3. 0 \in 0..NET_DHCP_MAX_RETRY /\ NET_DHCP_INITIAL_RETRY \in 1..NET_DHCP_MAX_RETRY
    BY ServicesAssumption
  <1>4. Given(o)
    BY StackAssumption DEF Given
  <1>5. DhcpOK(r)
    BY <1>2, <1>3, <1>4 DEF DhcpOK, net_dhcp_is_configured
  <1> QED
    BY <1>5 DEF r, e

LEMMA DhcpReceiveIs ==
    ASSUME NEW s, LinkAndUdpOK(s), DhcpOK(s.dhcp), NEW m, DhcpMessageOK(m)
    PROVE  DhcpServed(s, net_dhcp_receive(s, m))
  <1> DEFINE d == s.dhcp
             o == m.config
             q == transmit_for_state([s EXCEPT !.dhcp = [reset_retry(d) EXCEPT !.state = "REQUESTING", !.offer = o]])
             b == [s EXCEPT !.dhcp = bind_configuration(d, o)]
  <1>1. \/ net_dhcp_receive(s, m) = s
        \/ net_dhcp_receive(s, m) = net_dhcp_start(s)
        \/ m.type # "NAK" /\ net_dhcp_receive(s, m) \in {q, b}
    BY DEF net_dhcp_receive
  <1>2. m.type # "NAK" => o \in Offers
    BY DEF DhcpMessageOK
  <1>3. m.type # "NAK" => DhcpServed(s, q)
    BY <1>2, OfferTaken, EnterIs
  <1>4. m.type # "NAK" => DhcpServed(s, b)
    BY <1>2, BindConfigurationIs, SetDhcpServed
  <1> HIDE DEF q, b
  <1> QED
    BY <1>1, <1>3, <1>4, DhcpStartIs, DhcpServedSelf

\* A lease goes on in another state, or runs out.
LEMMA LeaseGoesOn ==
    ASSUME NEW d, DhcpOK(d), net_dhcp_is_configured(d), NEW state \in {"RENEWING", "REBINDING"}
    PROVE  DhcpOK([reset_retry(d) EXCEPT !.state = state])
  <1> DEFINE e == reset_retry(d)
             r == [e EXCEPT !.state = state]
  <1>1. /\ Whole(e, DhcpFields) /\ e.config = d.config /\ e.offer = d.offer /\ e.renew = d.renew
        /\ e.rebind = d.rebind /\ e.expire = d.expire
        /\ e.interval = NET_DHCP_INITIAL_RETRY /\ e.retry = 0
    BY ResetRetryIs
  <1> HIDE DEF e
  <1>2. /\ Whole(r, DhcpFields) /\ r.state = state /\ r.config = d.config /\ r.offer = d.offer
        /\ r.renew = d.renew /\ r.rebind = d.rebind /\ r.expire = d.expire
        /\ r.interval = NET_DHCP_INITIAL_RETRY /\ r.retry = 0
    BY <1>1 DEF Whole, DhcpFields
  <1> HIDE DEF r
  <1>3. 0 \in 0..NET_DHCP_MAX_RETRY /\ NET_DHCP_INITIAL_RETRY \in 1..NET_DHCP_MAX_RETRY
    BY ServicesAssumption
  <1>4. LeaseOK(d)
    BY DEF DhcpOK
  <1>5. LeaseOK(r)
    BY <1>2, <1>4 DEF LeaseOK
  <1>6. DhcpOK(r)
    BY <1>2, <1>3, <1>5 DEF DhcpOK
  <1> QED
    BY <1>6 DEF r, e

LEMMA LeaseExpires ==
    ASSUME NEW d, DhcpOK(d)
    PROVE  DhcpOK([d EXCEPT !.state = "EXPIRED", !.config = NoConfig, !.renew = 0, !.rebind = 0])
  <1> DEFINE r == [d EXCEPT !.state = "EXPIRED", !.config = NoConfig, !.renew = 0, !.rebind = 0]
  <1>1. /\ Whole(r, DhcpFields) /\ r.state = "EXPIRED" /\ r.config = NoConfig /\ r.offer = d.offer
        /\ r.renew = 0 /\ r.rebind = 0 /\ r.expire = d.expire
        /\ r.interval = d.interval /\ r.retry = d.retry
    BY DEF DhcpOK, Whole, DhcpFields
  <1> HIDE DEF r
  <1>2. DhcpOK(r)
    BY <1>1, NoConfigOK DEF DhcpOK, net_dhcp_is_configured
  <1> QED
    BY <1>2 DEF r

LEMMA DhcpPollIs ==
    ASSUME NEW s, LinkAndUdpOK(s), DhcpOK(s.dhcp)
    PROVE  DhcpServed(s, net_dhcp_poll(s))
  <1> DEFINE d == s.dhcp
             x == [s EXCEPT !.dhcp = [d EXCEPT !.state = "EXPIRED", !.config = NoConfig,
                                               !.renew = 0, !.rebind = 0]]
             n == transmit_for_state([s EXCEPT !.dhcp = [reset_retry(d) EXCEPT !.state = "RENEWING"]])
             b == transmit_for_state([s EXCEPT !.dhcp = [reset_retry(d) EXCEPT !.state = "REBINDING"]])
  <1>1. \/ net_dhcp_poll(s) \in {x, s, transmit_for_state(s)}
        \/ d.state \in {"BOUND", "RENEWING"} /\ net_dhcp_poll(s) \in {n, b}
    BY DEF net_dhcp_poll
  <1>2. d.state \in {"BOUND", "RENEWING"} => net_dhcp_is_configured(d)
    BY DEF net_dhcp_is_configured
  <1>3. d.state \in {"BOUND", "RENEWING"} => DhcpServed(s, n) /\ DhcpServed(s, b)
    BY <1>2, LeaseGoesOn, EnterIs
  <1>4. DhcpServed(s, x)
    BY LeaseExpires, SetDhcpServed
  <1> HIDE DEF n, b, x
  <1> QED
    BY <1>1, <1>3, <1>4, TransmitIs, DhcpServedSelf

LEMMA DownIs ==
    ASSUME NEW n \in Nat
    PROVE  Max({n - 1, 0}) \in Nat /\ Max({n - 1, 0}) <= n
  <1>1. Max({n - 1, 0}) = IF n - 1 >= 0 THEN n - 1 ELSE 0
    BY MaxTwo
  <1> QED
    BY <1>1

LEMMA DhcpTickIs ==
    ASSUME NEW d, DhcpOK(d)
    PROVE  DhcpOK(DhcpTick(d)) /\ DhcpTick(d).state = d.state /\ DhcpTick(d).config = d.config
  <1> DEFINE r == DhcpTick(d)
  <1>1. d.retry \in Nat /\ d.renew \in Nat /\ d.rebind \in Nat /\ d.expire \in Nat
    BY DEF DhcpOK
  <1>2. /\ Whole(r, DhcpFields) /\ r.state = d.state /\ r.config = d.config /\ r.offer = d.offer
        /\ r.interval = d.interval
        /\ r.retry = Max({d.retry - 1, 0}) /\ r.renew = Max({d.renew - 1, 0})
        /\ r.rebind = Max({d.rebind - 1, 0}) /\ r.expire = Max({d.expire - 1, 0})
    BY DEF DhcpOK, Whole, DhcpFields, DhcpTick
  <1> HIDE DEF r
  <1>3. /\ r.retry \in Nat /\ r.retry <= d.retry /\ r.renew \in Nat /\ r.rebind \in Nat
        /\ r.expire \in Nat /\ r.expire <= d.expire
    BY <1>1, <1>2, DownIs
  <1>4. r.retry \in 0..NET_DHCP_MAX_RETRY
    BY <1>3, ServicesAssumption DEF DhcpOK
  <1>5. net_dhcp_is_configured(r) => LeaseOK(r)
    <2> SUFFICES ASSUME net_dhcp_is_configured(d) PROVE LeaseOK(r)
      BY <1>2 DEF net_dhcp_is_configured
    <2>1. LeaseOK(d) /\ d.config.lease \in Nat
      BY DEF DhcpOK, Given, Config
    <2>2. r.expire <= d.config.lease
      BY <1>1, <1>3, <2>1 DEF LeaseOK
    <2> QED
      BY <1>2, <2>1, <2>2 DEF LeaseOK
  <1> QED
    BY <1>2, <1>3, <1>4, <1>5 DEF DhcpOK, r

----------------------------------------------------------------------------
\* The DNS client.

DnsFields == {"local", "server", "next", "sequence", "transaction", "cache"}
TransactionFields == {"in_use", "id", "name", "attempts", "retry", "deadline", "query"}

TransactionOK(t) ==
    /\ Whole(t, TransactionFields) /\ t.in_use \in BOOLEAN /\ t.attempts \in 0..NET_DNS_MAX_RETRIES
    /\ t.in_use => t.query \in Query

DnsOK(c) ==
    /\ Whole(c, DnsFields) /\ Whole(c.transaction, Transaction)
    /\ \A i \in Transaction : TransactionOK(c.transaction[i])
    /\ Destination(c.server)

AsksFor(c, i, q) == c.transaction[i].in_use /\ c.transaction[i].query = q
Asking(c, q) == \E i \in Transaction : AsksFor(c, i, q)

\* Of the first u queries each is asked by one transaction or has one result.
QueriesOK(c, a, u) ==
    /\ Whole(a, Query)
    /\ \A q \in Query : \A i, j \in Transaction : AsksFor(c, i, q) /\ AsksFor(c, j, q) => i = j
    /\ \A q \in Query :
          /\ IsSeq(a[q])
          /\ IF q <= u THEN (Asking(c, q) /\ Len(a[q]) = 0) \/ (~Asking(c, q) /\ Len(a[q]) = 1)
                       ELSE ~Asking(c, q) /\ Len(a[q]) = 0

\* A call of the DNS client that starts no query.
DnsServed(s, r) ==
    /\ Kept(s, r) /\ Fine(s.link, r.link) /\ r.dhcp = s.dhcp
    /\ DnsOK(r.dns) /\ r.dns.local = s.dns.local /\ r.dns.server = s.dns.server
    /\ \A u \in Nat : QueriesOK(s.dns, s.answers, u) => QueriesOK(r.dns, r.answers, u)

LEMMA DnsServedSelf ==
    ASSUME NEW s, LinkAndUdpOK(s), DnsOK(s.dns)
    PROVE  DnsServed(s, s)
  BY KeptSelf, FineSelf DEF DnsServed

LEMMA DnsServedTrans ==
    ASSUME NEW s, NEW t, NEW r, DnsServed(s, t), DnsServed(t, r)
    PROVE  DnsServed(s, r)
  <1>1. Kept(s, r)
    BY KeptTrans DEF DnsServed
  <1>2. Fine(s.link, r.link)
    BY FineTrans DEF DnsServed
  <1> QED
    BY <1>1, <1>2 DEF DnsServed

LEMMA FreeTransactionOK == TransactionOK(FreeTransaction) /\ ~FreeTransaction.in_use
  <1>1. /\ Whole(FreeTransaction, TransactionFields) /\ FreeTransaction.in_use = FALSE
        /\ FreeTransaction.attempts = 0
    BY DEF FreeTransaction, Whole, TransactionFields
  <1>2. 0 \in 0..NET_DNS_MAX_RETRIES
    BY ServicesAssumption
  <1> QED
    BY <1>1, <1>2 DEF TransactionOK

LEMMA SetTransaction ==
    ASSUME NEW c, DnsOK(c), NEW i \in Transaction, NEW t, TransactionOK(t)
    PROVE  LET r == [c EXCEPT !.transaction[i] = t]
           IN  /\ DnsOK(r) /\ r.local = c.local /\ r.server = c.server /\ r.transaction[i] = t
               /\ \A j \in Transaction : j # i => r.transaction[j] = c.transaction[j]
  <1> DEFINE r == [c EXCEPT !.transaction[i] = t]
  <1>1. /\ Whole(r, DnsFields) /\ Whole(r.transaction, Transaction) /\ r.local = c.local
        /\ r.server = c.server /\ r.transaction[i] = t
        /\ \A j \in Transaction : j # i => r.transaction[j] = c.transaction[j]
    BY DEF DnsOK, Whole, DnsFields
  <1> HIDE DEF r
  <1>2. DnsOK(r)
    BY <1>1 DEF DnsOK
  <1> QED
    BY <1>1, <1>2 DEF r

\* The queries depend only on which transaction asks for what.
LEMMA QueriesAlike ==
    ASSUME NEW c, NEW e, NEW a, NEW u,
           \A i \in Transaction : \A q \in Query : AsksFor(e, i, q) <=> AsksFor(c, i, q)
    PROVE  QueriesOK(c, a, u) => QueriesOK(e, a, u)
  <1>1. \A q \in Query : Asking(e, q) <=> Asking(c, q)
    BY DEF Asking
  <1> QED
    BY <1>1 DEF QueriesOK

\* A transaction ends and its query has its result.
LEMMA QueryEnds ==
    ASSUME NEW c, NEW e, NEW a, NEW b, NEW u \in Nat, NEW i \in Transaction, NEW q \in Query, NEW v,
           QueriesOK(c, a, u), AsksFor(c, i, q), ~e.transaction[i].in_use,
           \A j \in Transaction : j # i => e.transaction[j] = c.transaction[j],
           b = [a EXCEPT ![q] = Append(@, v)]
    PROVE  QueriesOK(e, b, u)
  <1>1. Whole(b, Query) /\ b[q] = Append(a[q], v) /\ \A p \in Query : p # q => b[p] = a[p]
    BY DEF QueriesOK, Whole
  <1>2. \A p \in Query : \A j \in Transaction : AsksFor(e, j, p) => AsksFor(c, j, p) /\ j # i
    BY DEF AsksFor
  <1>3. \A p \in Query : \A j \in Transaction : AsksFor(c, j, p) /\ j # i => AsksFor(e, j, p)
    BY DEF AsksFor
  <1>4. \A p \in Query : p # q => ~AsksFor(c, i, p)
    BY DEF AsksFor
  <1>5. \A j \in Transaction : j # i => ~AsksFor(c, j, q)
    BY DEF QueriesOK
  <1>6. ~Asking(e, q)
    BY <1>2, <1>5 DEF Asking
  <1>7. \A p \in Query : p # q => (Asking(e, p) <=> Asking(c, p))
    BY <1>2, <1>3, <1>4 DEF Asking
  <1>8. Asking(c, q)
    BY DEF Asking
  <1>9. IsSeq(a[q]) /\ q <= u /\ Len(a[q]) = 0
    BY <1>8 DEF QueriesOK
  <1>10. IsSeq(b[q]) /\ Len(b[q]) = 1
    BY <1>1, <1>9, AppendIs
  <1>11. \A p \in Query : \A j, k \in Transaction : AsksFor(e, j, p) /\ AsksFor(e, k, p) => j = k
    BY <1>2 DEF QueriesOK
  <1>12. ASSUME NEW p \in Query
         PROVE  /\ IsSeq(b[p])
                /\ IF p <= u THEN (Asking(e, p) /\ Len(b[p]) = 0) \/ (~Asking(e, p) /\ Len(b[p]) = 1)
                             ELSE ~Asking(e, p) /\ Len(b[p]) = 0
    BY <1>1, <1>6, <1>7, <1>9, <1>10 DEF QueriesOK
  <1> QED
    BY <1>1, <1>11, <1>12 DEF QueriesOK

LEMMA DeliverIs ==
    ASSUME NEW s, LinkAndUdpOK(s), DnsOK(s.dns), NEW i \in Transaction, s.dns.transaction[i].in_use,
           NEW result
    PROVE  DnsServed(s, deliver_result(s, i, result))
  <1> DEFINE q == s.dns.transaction[i].query
             c == [s.dns EXCEPT !.transaction[i] = FreeTransaction]
             b == [s.answers EXCEPT ![q] = Append(@, result.address)]
             r == [s EXCEPT !.dns = c, !.answers = b]
  <1>1. q \in Query
    BY DEF DnsOK, TransactionOK
  <1>2. /\ DnsOK(c) /\ c.local = s.dns.local /\ c.server = s.dns.server
        /\ ~c.transaction[i].in_use
        /\ \A j \in Transaction : j # i => c.transaction[j] = s.dns.transaction[j]
    BY FreeTransactionOK, SetTransaction
  <1>3. deliver_result(s, i, result) = r
    BY DEF deliver_result, LinkAndUdpOK, Whole, StackFields
  <1>4. ASSUME NEW u \in Nat, QueriesOK(s.dns, s.answers, u) PROVE QueriesOK(c, b, u)
    <2>1. AsksFor(s.dns, i, q)
      BY DEF AsksFor
    <2>2. b = [s.answers EXCEPT ![q] = Append(@, result.address)]
      OBVIOUS
    <2> HIDE DEF c, q, b
    <2> QED
      BY <1>1, <1>2, <1>4, <2>1, <2>2, QueryEnds
  <1> HIDE DEF c, b, q
  <1>5. /\ Whole(r, StackFields) /\ r.link = s.link /\ r.udp = s.udp /\ r.dhcp = s.dhcp /\ r.dns = c
        /\ r.answers = b /\ r.applied = s.applied /\ r.backend = s.backend /\ r.origin = s.origin
    BY DEF LinkAndUdpOK, Whole, StackFields
  <1> HIDE DEF r
  <1>6. Kept(s, r)
    BY <1>5, KeptSelf DEF Kept, LinkAndUdpOK
  <1>7. DnsServed(s, r)
    BY <1>2, <1>4, <1>5, <1>6, FineSelf DEF DnsServed
  <1> QED
    BY <1>3, <1>7

LEMMA SendQueryIs ==
    ASSUME NEW s, LinkAndUdpOK(s), DnsOK(s.dns), NEW i \in Transaction
    PROVE  LET r == send_query(s, i)
           IN  /\ Kept(s, r) /\ Fine(s.link, r.link) /\ r.dhcp = s.dhcp /\ r.dns = s.dns
               /\ r.answers = s.answers
  <1> DEFINE m == DnsQuery(s.dns.transaction[i])
  <1>1. DnsEndpoint(i) \in Endpoint
    BY ServicesAssumption DEF DnsEndpoint, Endpoint, Transaction
  <1>2. m.service # "program"
    BY DEF DnsQuery
  <1>3. Destination(s.dns.server)
    BY DEF DnsOK
  <1>4. send_query(s, i) = net_udp_sendto(s, DnsEndpoint(i), s.dns.server, NET_DNS_PORT, m)
    BY DEF send_query
  <1> HIDE DEF m
  <1> QED
    BY <1>1, <1>2, <1>3, <1>4, SendToIs, SendToFine

\* The next query is asked by a transaction that was free.
LEMMA QueryStarts ==
    ASSUME NEW c, NEW e, NEW a, NEW u \in Nat, NEW i \in Transaction, u + 1 \in Query,
           QueriesOK(c, a, u), ~c.transaction[i].in_use, AsksFor(e, i, u + 1),
           \A j \in Transaction : j # i => e.transaction[j] = c.transaction[j]
    PROVE  QueriesOK(e, a, u + 1)
  <1> DEFINE q == u + 1
  <1>1. \A p \in Query : p \in Nat /\ (p <= q <=> p <= u \/ p = q) /\ ~(q <= u)
    BY DEF Query
  <1> HIDE DEF q
  <1>2. \A p \in Query : \A j \in Transaction : j # i => (AsksFor(e, j, p) <=> AsksFor(c, j, p))
    BY DEF AsksFor
  <1>3. \A p \in Query : ~AsksFor(c, i, p) /\ (AsksFor(e, i, p) <=> p = q)
    BY DEF AsksFor, q
  <1>4. \A p \in Query : Asking(e, p) <=> Asking(c, p) \/ p = q
    BY <1>2, <1>3 DEF Asking
  <1>5. ~Asking(c, q) /\ q \in Query
    BY <1>1 DEF QueriesOK, q
  <1>6. \A p \in Query : \A j, k \in Transaction : AsksFor(e, j, p) /\ AsksFor(e, k, p) => j = k
    BY <1>2, <1>3, <1>5 DEF QueriesOK, Asking
  <1>7. ASSUME NEW p \in Query
        PROVE  /\ IsSeq(a[p])
               /\ IF p <= q THEN (Asking(e, p) /\ Len(a[p]) = 0) \/ (~Asking(e, p) /\ Len(a[p]) = 1)
                            ELSE ~Asking(e, p) /\ Len(a[p]) = 0
    BY <1>1, <1>4, <1>5 DEF QueriesOK
  <1> QED
    BY <1>6, <1>7 DEF QueriesOK, q

\* The next query is answered at once.
LEMMA QueryAnswered ==
    ASSUME NEW c, NEW a, NEW b, NEW u \in Nat, u + 1 \in Query, NEW v,
           QueriesOK(c, a, u), b = [a EXCEPT ![u + 1] = Append(@, v)]
    PROVE  QueriesOK(c, b, u + 1)
  <1> DEFINE q == u + 1
  <1>1. \A p \in Query : p \in Nat /\ (p <= q <=> p <= u \/ p = q) /\ ~(q <= u)
    BY DEF Query
  <1> HIDE DEF q
  <1>2. b = [a EXCEPT ![q] = Append(@, v)] /\ q \in Query
    BY DEF q
  <1>3. Whole(b, Query) /\ b[q] = Append(a[q], v) /\ \A p \in Query : p # q => b[p] = a[p]
    BY <1>2 DEF QueriesOK, Whole
  <1>4. IsSeq(a[q]) /\ Len(a[q]) = 0 /\ ~Asking(c, q)
    BY <1>1, <1>2 DEF QueriesOK
  <1>5. IsSeq(b[q]) /\ Len(b[q]) = 1
    BY <1>3, <1>4, AppendIs
  <1>6. ASSUME NEW p \in Query
        PROVE  /\ IsSeq(b[p])
               /\ IF p <= q THEN (Asking(c, p) /\ Len(b[p]) = 0) \/ (~Asking(c, p) /\ Len(b[p]) = 1)
                            ELSE ~Asking(c, p) /\ Len(b[p]) = 0
    BY <1>1, <1>3, <1>4, <1>5 DEF QueriesOK
  <1> QED
    BY <1>3, <1>6 DEF QueriesOK, q

\* A call of the DNS client that starts the query after the first u.
DnsAsked(s, r, u) ==
    /\ Kept(s, r) /\ Fine(s.link, r.link) /\ r.dhcp = s.dhcp
    /\ DnsOK(r.dns) /\ r.dns.local = s.dns.local /\ r.dns.server = s.dns.server
    /\ QueriesOK(s.dns, s.answers, u) => QueriesOK(r.dns, r.answers, u + 1)

Questioned(id, name, q) ==
    [in_use |-> TRUE, id |-> id, name |-> name, attempts |-> 1,
     retry |-> DNS_RETRY_BASE, deadline |-> DNS_TRANSACTION_TIMEOUT, query |-> q]

LEMMA StartQueryIs ==
    ASSUME NEW s, LinkAndUdpOK(s), DnsOK(s.dns), NEW i \in Transaction, ~s.dns.transaction[i].in_use,
           NEW name, NEW u \in Nat, u + 1 \in Query
    PROVE  DnsAsked(s, StartQuery(s, i, name, u + 1), u)
  <1> DEFINE id == allocate_identifier(s.dns)
             t == Questioned(id, name, u + 1)
             c == [s.dns EXCEPT !.next = (id + 1) % IdMod, !.transaction[i] = t]
             b == [s EXCEPT !.dns = c]
             e == send_query(b, i)
             r == deliver_result(e, i, Failure("SEND_FAILED"))
  <1>1. Whole(t, TransactionFields) /\ t.in_use = TRUE /\ t.attempts = 1 /\ t.query = u + 1
    BY DEF Questioned, Whole, TransactionFields
  <1>2. 1 \in 0..NET_DNS_MAX_RETRIES
    BY ServicesAssumption
  <1> HIDE DEF t, id
  <1>3. TransactionOK(t)
    BY <1>1, <1>2 DEF TransactionOK
  <1>4. /\ Whole(c, DnsFields) /\ Whole(c.transaction, Transaction) /\ c.local = s.dns.local
        /\ c.server = s.dns.server /\ c.transaction[i] = t
        /\ \A j \in Transaction : j # i => c.transaction[j] = s.dns.transaction[j]
    BY DEF DnsOK, Whole, DnsFields
  <1>5. StartQuery(s, i, name, u + 1) \in {e, r}
    <2>1. [s EXCEPT !.dns.next = (id + 1) % IdMod, !.dns.transaction[i] = t] = b
      BY DEF LinkAndUdpOK, Whole, StackFields
    <2> HIDE DEF b
    <2> QED
      BY <2>1 DEF StartQuery, Questioned, t, id
  <1> HIDE DEF c
  <1>6. DnsOK(c)
    BY <1>3, <1>4 DEF DnsOK
  <1>7. QueriesOK(s.dns, s.answers, u) => QueriesOK(c, s.answers, u + 1)
    <2>1. AsksFor(c, i, u + 1)
      BY <1>1, <1>4 DEF AsksFor
    <2> QED
      BY <1>4, <2>1, QueryStarts
  <1>8. /\ Kept(s, b) /\ b.dns = c /\ b.link = s.link /\ b.dhcp = s.dhcp /\ b.answers = s.answers
    BY SetDns
  <1> HIDE DEF b
  <1>9. LinkAndUdpOK(b)
    BY <1>8, KeptOK
  <1>10. /\ Kept(b, e) /\ Fine(b.link, e.link) /\ e.dhcp = b.dhcp /\ e.dns = b.dns
         /\ e.answers = b.answers
    BY <1>6, <1>8, <1>9, SendQueryIs
  <1> HIDE DEF e
  <1>11. Kept(s, e) /\ LinkAndUdpOK(e)
    BY <1>8, <1>10, KeptTrans, KeptOK
  <1>12. DnsAsked(s, e, u)
    BY <1>4, <1>6, <1>7, <1>8, <1>10, <1>11 DEF DnsAsked
  <1>13. DnsServed(e, r)
    <2>1. e.dns.transaction[i].in_use
      BY <1>1, <1>4, <1>8, <1>10
    <2> QED
      BY <1>6, <1>8, <1>10, <1>11, <2>1, DeliverIs
  <1> HIDE DEF r
  <1>14. DnsAsked(s, r, u)
    <2>1. Kept(s, r) /\ Fine(s.link, r.link)
      BY <1>11, <1>12, <1>13, KeptTrans, FineTrans DEF DnsAsked, DnsServed
    <2>2. u + 1 \in Nat
      OBVIOUS
    <2> QED
      BY <1>12, <1>13, <2>1, <2>2 DEF DnsAsked, DnsServed
  <1> QED
    BY <1>5, <1>12, <1>14

LEMMA ResolveNameIs ==
    ASSUME NEW s, LinkAndUdpOK(s), DnsOK(s.dns), NEW name, NEW u \in Nat, u + 1 \in Query,
           find_cache_entry(s.dns, name) # {} \/ FreeTransactions(s) # {}
    PROVE  DnsAsked(s, net_dns_resolve(s, name, u + 1), u)
  <1> DEFINE hit == find_cache_entry(s.dns, name)
             v == s.dns.cache[Min(hit)].address
             b == [s.answers EXCEPT ![u + 1] = Append(@, v)]
             r == [s EXCEPT !.answers = b]
             i == Min(FreeTransactions(s))
  <1>1. CASE hit # {}
    <2>1. net_dns_resolve(s, name, u + 1) = r
      BY <1>1 DEF net_dns_resolve, LinkAndUdpOK, Whole, StackFields
    <2>2. QueriesOK(s.dns, s.answers, u) => QueriesOK(s.dns, b, u + 1)
      <3> HIDE DEF v, b
      <3> QED
        BY QueryAnswered DEF b
    <2> HIDE DEF b
    <2>3. /\ Whole(r, StackFields) /\ r.link = s.link /\ r.udp = s.udp /\ r.dhcp = s.dhcp
          /\ r.dns = s.dns /\ r.answers = b /\ r.applied = s.applied /\ r.backend = s.backend
          /\ r.origin = s.origin
      BY DEF LinkAndUdpOK, Whole, StackFields
    <2> HIDE DEF r
    <2>4. Kept(s, r)
      BY <2>3, KeptSelf DEF Kept, LinkAndUdpOK
    <2> QED
      BY <2>1, <2>2, <2>3, <2>4, FineSelf DEF DnsAsked
  <1>2. CASE hit = {}
    <2>1. FreeTransactions(s) \in SUBSET Nat /\ FreeTransactions(s) # {}
      BY <1>2 DEF FreeTransactions, Transaction
    <2>2. i \in FreeTransactions(s)
      BY <2>1, MinIs
    <2>3. i \in Transaction /\ ~s.dns.transaction[i].in_use
      BY <2>2 DEF FreeTransactions
    <2>4. net_dns_resolve(s, name, u + 1) = StartQuery(s, i, name, u + 1)
      BY <1>2 DEF net_dns_resolve
    <2> HIDE DEF i
    <2> QED
      BY <2>3, <2>4, StartQueryIs
  <1> QED
    BY <1>1, <1>2

\* The client changes nothing but its cache and the time of its transactions.
LEMMA SetDnsServed ==
    ASSUME NEW s, LinkAndUdpOK(s), DnsOK(s.dns), NEW c, DnsOK(c),
           c.local = s.dns.local, c.server = s.dns.server,
           \A i \in Transaction : \A q \in Query : AsksFor(c, i, q) <=> AsksFor(s.dns, i, q)
    PROVE  DnsServed(s, [s EXCEPT !.dns = c])
  <1> DEFINE r == [s EXCEPT !.dns = c]
  <1>1. /\ Kept(s, r) /\ r.dns = c /\ r.link = s.link /\ r.dhcp = s.dhcp /\ r.answers = s.answers
    BY SetDns
  <1>2. \A u \in Nat : QueriesOK(s.dns, s.answers, u) => QueriesOK(c, s.answers, u)
    BY QueriesAlike
  <1> HIDE DEF r
  <1>3. DnsServed(s, r)
    BY <1>1, <1>2, FineSelf DEF DnsServed
  <1> QED
    BY <1>3 DEF r

\* The cache is no part of what is proved.
LEMMA CacheAlike ==
    ASSUME NEW c, DnsOK(c), NEW e, Whole(e, DnsFields), e.local = c.local, e.server = c.server,
           e.transaction = c.transaction
    PROVE  /\ DnsOK(e)
           /\ \A i \in Transaction : \A q \in Query : AsksFor(e, i, q) <=> AsksFor(c, i, q)
  BY DEF DnsOK, AsksFor

LEMMA CacheResultIs ==
    ASSUME NEW c, DnsOK(c), NEW name, NEW address, NEW ttl
    PROVE  LET e == cache_result(c, name, address, ttl)
           IN  /\ DnsOK(e) /\ e.local = c.local /\ e.server = c.server
               /\ e.transaction = c.transaction
  <1> DEFINE v == [in_use |-> TRUE, name |-> name, address |-> address, expires |-> ttl,
                   sequence |-> c.sequence + 1]
             x == CacheTarget(c, name)
             e == [c EXCEPT !.sequence = @ + 1, !.cache[x] = v]
  <1>1. cache_result(c, name, address, ttl) \in {c, e}
    BY DEF cache_result
  <1> HIDE DEF v, x
  <1>2. /\ Whole(e, DnsFields) /\ e.local = c.local /\ e.server = c.server
        /\ e.transaction = c.transaction
    BY DEF DnsOK, Whole, DnsFields
  <1> HIDE DEF e
  <1> QED
    BY <1>1, <1>2, CacheAlike

LEMMA AcceptReplyIs ==
    ASSUME NEW s, LinkAndUdpOK(s), DnsOK(s.dns), NEW i \in Transaction, s.dns.transaction[i].in_use, NEW m
    PROVE  DnsServed(s, AcceptReply(s, i, m))
  <1> DEFINE name == s.dns.transaction[i].name
             answer == AnswerOf(m.reply, name)
             c == cache_result(s.dns, name, answer.address, AnswerTtl(m.reply, name))
             b == [s EXCEPT !.dns = c]
  <1>1. \/ AcceptReply(s, i, m) = deliver_result(s, i, Failure("MALFORMED"))
        \/ AcceptReply(s, i, m) = deliver_result(s, i, answer)
        \/ AcceptReply(s, i, m) = deliver_result(b, i, answer)
    BY DEF AcceptReply
  <1>2. /\ DnsOK(c) /\ c.local = s.dns.local /\ c.server = s.dns.server
        /\ c.transaction = s.dns.transaction
    BY CacheResultIs
  <1> HIDE DEF c, answer
  <1>3. \A j \in Transaction : \A q \in Query : AsksFor(c, j, q) <=> AsksFor(s.dns, j, q)
    BY <1>2 DEF AsksFor
  <1>4. DnsServed(s, b) /\ b.dns = c
    BY <1>2, <1>3, SetDns, SetDnsServed
  <1> HIDE DEF b
  <1>5. LinkAndUdpOK(b)
    BY <1>4, KeptOK DEF DnsServed
  <1>6. DnsServed(b, deliver_result(b, i, answer))
    BY <1>2, <1>4, <1>5, DeliverIs
  <1>7. DnsServed(s, deliver_result(b, i, answer))
    BY <1>4, <1>6, DnsServedTrans
  <1> QED
    BY <1>1, <1>7, DeliverIs

LEMMA DnsReceiveIs ==
    ASSUME NEW s, LinkAndUdpOK(s), DnsOK(s.dns), NEW i \in Transaction, NEW src, NEW m
    PROVE  DnsServed(s, net_dns_receive(s, i, src, m))
  BY AcceptReplyIs, DnsServedSelf DEF net_dns_receive

LEMMA PollTransactionIs ==
    ASSUME NEW s, LinkAndUdpOK(s), DnsOK(s.dns), NEW i \in Transaction
    PROVE  DnsServed(s, PollTransaction(s, i))
  <1> DEFINE t == s.dns.transaction[i]
             e == send_query(s, i)
             v == [t EXCEPT !.attempts = @ + 1, !.retry = DNS_RETRY_BASE * 2^t.attempts]
             c == [s.dns EXCEPT !.transaction[i] = v]
             r == [e EXCEPT !.dns = c]
  <1>1. TransactionOK(t)
    BY DEF DnsOK
  <1>2. /\ Kept(s, e) /\ Fine(s.link, e.link) /\ e.dhcp = s.dhcp /\ e.dns = s.dns
        /\ e.answers = s.answers
    BY SendQueryIs
  <1>3. \/ PollTransaction(s, i) = s
        \/ t.in_use /\ PollTransaction(s, i) = deliver_result(s, i, Failure("TIMEOUT"))
        \/ t.in_use /\ ~(t.attempts >= NET_DNS_MAX_RETRIES)
           /\ PollTransaction(s, i) = [e EXCEPT !.dns.transaction[i] = v]
    BY DEF PollTransaction
  <1> HIDE DEF e
  <1>4. LinkAndUdpOK(e)
    BY <1>2, KeptOK
  <1>5. [e EXCEPT !.dns.transaction[i] = v] = r
    <2> HIDE DEF v
    <2> QED
      BY <1>2, <1>4 DEF LinkAndUdpOK, Whole, StackFields
  <1>6. ASSUME t.in_use, ~(t.attempts >= NET_DNS_MAX_RETRIES) PROVE DnsServed(s, r)
    <2>1. Whole(v, TransactionFields) /\ v.in_use = t.in_use /\ v.query = t.query /\ v.attempts = t.attempts + 1
      <3> HIDE DEF t
      <3> QED
        BY <1>1 DEF TransactionOK, Whole, TransactionFields
    <2>2. t.attempts + 1 \in 0..NET_DNS_MAX_RETRIES
      BY <1>1, <1>6, ServicesAssumption DEF TransactionOK
    <2> HIDE DEF v
    <2>3. TransactionOK(v)
      BY <1>1, <2>1, <2>2 DEF TransactionOK
    <2>4. /\ DnsOK(c) /\ c.local = s.dns.local /\ c.server = s.dns.server /\ c.transaction[i] = v
          /\ \A j \in Transaction : j # i => c.transaction[j] = s.dns.transaction[j]
      BY <2>3, SetTransaction, SMTT(30)
    <2> HIDE DEF c
    <2>5. \A j \in Transaction : \A q \in Query : AsksFor(c, j, q) <=> AsksFor(s.dns, j, q)
      BY <2>1, <2>4 DEF AsksFor
    <2>6. DnsServed(e, r)
      BY <1>2, <1>4, <2>4, <2>5, SetDnsServed
    <2>7. DnsServed(s, e)
      BY <1>2 DEF DnsServed
    <2> QED
      BY <2>6, <2>7, DnsServedTrans
  <1> HIDE DEF r
  <1> QED
    BY <1>3, <1>5, <1>6, DeliverIs, DnsServedSelf

LEMMA DnsPollIs ==
    ASSUME NEW s, LinkAndUdpOK(s), DnsOK(s.dns)
    PROVE  DnsServed(s, net_dns_poll(s))
  <1> DEFINE N == NET_DNS_MAX_TRANSACTIONS
             c == DropExpired(s.dns)
             b == [s EXCEPT !.dns = c]
  <1>1. PICK f : /\ net_dns_poll(s) = f[N] /\ f[0] = [s EXCEPT !.dns = DropExpired(@)]
                 /\ \A n \in 1..N : f[n] = PollTransaction(f[n - 1], n)
    BY DnsPollStates
  <1> DEFINE G(r) == LinkAndUdpOK(r) /\ DnsServed(s, r)
             B == {n \in 0..N : ~G(f[n])}
  <1>2. N \in Nat
    BY ServicesAssumption
  <1>3. G(f[0])
    <2>1. f[0] = b
      BY <1>1 DEF LinkAndUdpOK, Whole, StackFields
    <2>2. /\ Whole(c, DnsFields) /\ c.local = s.dns.local /\ c.server = s.dns.server
          /\ c.transaction = s.dns.transaction
      BY DEF DropExpired, DnsOK, Whole, DnsFields
    <2> HIDE DEF c
    <2>3. /\ DnsOK(c)
          /\ \A i \in Transaction : \A q \in Query : AsksFor(c, i, q) <=> AsksFor(s.dns, i, q)
      BY <2>2, CacheAlike
    <2>4. DnsServed(s, b)
      BY <2>2, <2>3, SetDnsServed
    <2> HIDE DEF b
    <2> QED
      BY <2>1, <2>4, KeptOK DEF DnsServed
  <1>4. ASSUME NEW n \in 1..N, G(f[n - 1]) PROVE G(f[n])
    <2>1. n \in Transaction
      BY DEF Transaction
    <2>2. f[n] = PollTransaction(f[n - 1], n)
      BY <1>1
    <2>3. DnsServed(f[n - 1], f[n])
      BY <1>4, <2>1, <2>2, PollTransactionIs DEF DnsServed
    <2> QED
      BY <1>4, <2>3, DnsServedTrans, KeptOK DEF DnsServed
  <1> HIDE DEF G
  <1>5. \A n \in 1..N : n \in B => n - 1 \in B
    BY <1>2, <1>4
  <1>6. B \subseteq 0..N /\ 0 \notin B
    BY <1>3
  <1> HIDE DEF B
  <1>7. B = {}
    BY <1>2, <1>5, <1>6, Downwards
  <1>8. G(f[N])
    BY <1>2, <1>7 DEF B
  <1> QED
    BY <1>1, <1>8 DEF G

LEMMA DnsTickIs ==
    ASSUME NEW c, DnsOK(c)
    PROVE  LET e == DnsTick(c)
           IN  /\ DnsOK(e) /\ e.local = c.local /\ e.server = c.server
               /\ \A i \in Transaction : \A q \in Query : AsksFor(e, i, q) <=> AsksFor(c, i, q)
  <1> DEFINE e == DnsTick(c)
             down(t) == [t EXCEPT !.retry = Max({@ - 1, 0}), !.deadline = Max({@ - 1, 0})]
             T == [i \in Transaction |-> down(c.transaction[i])]
             H == [x \in CacheSlot |-> [c.cache[x] EXCEPT !.expires = Max({@ - 1, 0})]]
  <1>1. /\ Whole(e, DnsFields) /\ e.local = c.local /\ e.server = c.server /\ e.transaction = T
    <2>1. e = [c EXCEPT !.transaction = T, !.cache = H]
      BY DEF DnsTick
    <2> HIDE DEF T, H, e
    <2> QED
      BY <2>1 DEF DnsOK, Whole, DnsFields
  <1> HIDE DEF e
  <1>2. ASSUME NEW t, TransactionOK(t)
        PROVE  TransactionOK(down(t)) /\ down(t).in_use = t.in_use /\ down(t).query = t.query
    <2> DEFINE v == down(t)
    <2>1. /\ Whole(v, TransactionFields) /\ v.in_use = t.in_use /\ v.query = t.query
          /\ v.attempts = t.attempts
      BY <1>2 DEF TransactionOK, Whole, TransactionFields
    <2> HIDE DEF v
    <2>2. TransactionOK(v)
      BY <1>2, <2>1 DEF TransactionOK
    <2> QED
      BY <2>1, <2>2 DEF v
  <1> HIDE DEF down
  <1>3. Whole(e.transaction, Transaction) /\ \A i \in Transaction : e.transaction[i] = down(c.transaction[i])
    BY <1>1 DEF Whole
  <1>4. \A i \in Transaction : TransactionOK(c.transaction[i])
    BY DEF DnsOK
  <1>5. DnsOK(e)
    BY <1>1, <1>2, <1>3, <1>4 DEF DnsOK
  <1>6. \A i \in Transaction : \A q \in Query : AsksFor(e, i, q) <=> AsksFor(c, i, q)
    BY <1>2, <1>3, <1>4 DEF AsksFor
  <1> QED
    BY <1>1, <1>5, <1>6 DEF e

----------------------------------------------------------------------------
\* The configuration.

\* UDP, DNS and the sockets have one address.  While a configuration is applied every
\* part has it; while none is, the device is without an address, and so are they, unless
\* the configuration that they have was given up for one that was refused.
AppliedOK(s) ==
    /\ s.udp.local = s.backend /\ s.dns.local = s.backend
    /\ s.applied.valid <=> s.origin \in {"dhcp", "program"}
    /\ s.origin = "none" => s.backend = Zero /\ s.dns.server = Zero
    /\ IF s.applied.valid
       THEN /\ s.link.address = s.applied.address /\ s.link.gateway = s.applied.gateway
            /\ s.backend = s.applied.address /\ s.dns.server = s.applied.dns
            /\ s.applied.address # Zero
       ELSE s.link.address = Zero

StackOK(s) == LinkAndUdpOK(s) /\ DhcpOK(s.dhcp) /\ DnsOK(s.dns) /\ AppliedOK(s)

LEMMA KeptApplied ==
    ASSUME NEW s, NEW r, AppliedOK(s), Kept(s, r), r.dns.local = s.dns.local, r.dns.server = s.dns.server
    PROVE  AppliedOK(r)
  BY DEF AppliedOK, Kept, LinkStep, SameConfig

\* An address from DHCP is the one of the lease, if that can be applied.
LeasedOK(s) ==
    s.applied.valid /\ s.origin = "dhcp" =>
        /\ s.dhcp.state # "EXPIRED"
        /\ net_dhcp_is_configured(s.dhcp) /\ s.dhcp.config.mask =>
               s.applied.address = s.dhcp.config.address

\* A call that leaves the stack in order: what is on its way is as it should be, and
\* no query is lost or answered twice.
Orderly(s, r) ==
    /\ StackOK(r) /\ Fine(s.link, r.link)
    /\ \A u \in Nat : QueriesOK(s.dns, s.answers, u) => QueriesOK(r.dns, r.answers, u)

LEMMA OrderlySelf ==
    ASSUME NEW s, StackOK(s)
    PROVE  Orderly(s, s)
  BY FineSelf DEF Orderly

LEMMA OrderlyTrans ==
    ASSUME NEW s, NEW t, NEW r, Orderly(s, t), Orderly(t, r)
    PROVE  Orderly(s, r)
  <1>1. Fine(s.link, r.link)
    BY FineTrans DEF Orderly
  <1> QED
    BY <1>1 DEF Orderly

LEMMA DhcpOrderly ==
    ASSUME NEW s, StackOK(s), NEW r, DhcpServed(s, r)
    PROVE  Orderly(s, r)
  <1>1. AppliedOK(r)
    BY KeptApplied DEF DhcpServed, StackOK
  <1>2. StackOK(r)
    BY <1>1, KeptOK DEF DhcpServed, StackOK
  <1> QED
    BY <1>2 DEF DhcpServed, Orderly

LEMMA DnsOrderly ==
    ASSUME NEW s, StackOK(s), NEW r, DnsServed(s, r)
    PROVE  Orderly(s, r)
  <1>1. AppliedOK(r)
    BY KeptApplied DEF DnsServed, StackOK
  <1>2. StackOK(r)
    BY <1>1, KeptOK DEF DnsServed, StackOK
  <1> QED
    BY <1>2 DEF DnsServed, Orderly

\* The device without a configuration.
Bare(k) == k.address = Zero /\ k.gateway = Zero /\ k.routes = {}

LEMMA WithdrawnIs ==
    ASSUME NEW s, StackOK(s)
    PROVE  LET k == Withdrawn(s) IN LinkOK(k) /\ Bare(k) /\ Fine(s.link, k)
  <1> DEFINE b == s.link
             A == [x \in ArpSlot |-> EmptyEntry]
             R == {r \in {r \in b.routes : r.network # Network(s.applied.address)} : r.network # Zero}
             k == Withdrawn(s)
  <1>1. LinkOK(b)
    BY DEF StackOK, LinkAndUdpOK
  <1>2. RoutesOK(b)
    BY <1>1 DEF LinkOK
  <1>3. CASE ~s.applied.valid
    <2>1. k = b /\ b.address = Zero
      BY <1>3 DEF Withdrawn, StackOK, AppliedOK
    <2> QED
      BY <1>1, <1>2, <2>1, FineSelf DEF Bare, RoutesOK
  <1>4. CASE s.applied.valid
    <2>1. b.address = s.applied.address /\ b.address # Zero
      BY <1>4 DEF StackOK, AppliedOK
    <2>2. R = {}
      BY <1>2, <2>1 DEF RoutesOK
    <2>3. /\ Whole(k, LinkFields) /\ k.address = Zero /\ k.gateway = Zero /\ k.routes = R
          /\ k.arp = A /\ k.pending = b.pending /\ k.tx = b.tx /\ k.out = b.out
      <3> HIDE DEF A
      <3>1. Whole(b, LinkFields)
        BY <1>1 DEF LinkOK
      <3> DEFINE l == net_ipv4_route_remove(net_ipv4_route_remove(b, Network(s.applied.address)), Zero)
      <3>2. /\ Whole(l, LinkFields) /\ l.routes = R /\ l.pending = b.pending /\ l.tx = b.tx /\ l.out = b.out
        BY <3>1 DEF net_ipv4_route_remove, Whole, LinkFields
      <3>3. k = net_arp_reset(net_device_clear_ipv4(l))
        BY <1>4 DEF Withdrawn
      <3> HIDE DEF l, k, R, b
      <3>4. k = [[l EXCEPT !.address = Zero, !.gateway = Zero] EXCEPT !.arp = A]
        BY <3>3 DEF net_arp_reset, net_device_clear_ipv4, A
      <3> QED
        BY <3>2, <3>4 DEF Whole, LinkFields
    <2> HIDE DEF k, b
    <2>4. Whole(A, ArpSlot) /\ \A x \in ArpSlot : A[x] = EmptyEntry
      BY DEF Whole
    <2>5. EmptyEntry.state = "EMPTY"
      BY DEF EmptyEntry
    <2> HIDE DEF A, R
    <2>6. CacheOK(k) /\ ResolvesOn(k)
      BY <2>3, <2>4, <2>5, NoEntryOK DEF CacheOK, ResolvesOn
    <2>7. QueueOK(k)
      BY <1>1, <2>3 DEF LinkOK, QueueOK
    <2>8. RoutesOK(k) /\ Bare(k)
      BY <2>2, <2>3 DEF RoutesOK, Bare
    <2>9. LinkOK(k)
      BY <1>1, <2>3, <2>6, <2>7, <2>8 DEF LinkOK
    <2>10. \A told : CacheTold(k, told)
      BY <2>3, <2>4, <2>5 DEF CacheTold
    <2>11. Fine(b, k)
      BY <2>3, <2>10, CacheChangeFine
    <2> QED
      BY <2>8, <2>9, <2>11 DEF k, b
  <1> QED
    BY <1>3, <1>4

\* A configuration from a server or from a program.
ConfigFor(c) ==
    /\ c.address # Zero => /\ \E o \in Offers \cup StaticConfigs : o.address = c.address
                           /\ Network(c.address) \in Nat \ {Zero}
    /\ c.gateway # Zero => \E o \in Offers \cup StaticConfigs : o.gateway = c.gateway
    /\ Destination(c.dns)

LEMMA ConfiguredIs ==
    ASSUME NEW k, LinkOK(k), Bare(k), NEW c, ConfigFor(c), Configurable(c)
    PROVE  LET r == WithRoutes(net_device_configure_ipv4(k, c), c)
           IN  /\ LinkOK(r) /\ r.address = c.address /\ r.gateway = c.gateway /\ Fine(k, r)
  <1> DEFINE d == net_device_configure_ipv4(k, c)
             n == Network(c.address)
             R1 == [network |-> n, gateway |-> Zero, metric |-> 0]
             R2 == [network |-> Zero, gateway |-> c.gateway, metric |-> 100]
             e == net_ipv4_route_add(d, n, Zero, 0)
             r == WithRoutes(d, c)
  <1>1. /\ Whole(d, LinkFields) /\ d.address = c.address /\ d.gateway = c.gateway /\ d.routes = {}
        /\ d.arp = k.arp /\ d.pending = k.pending /\ d.tx = k.tx /\ d.out = k.out
    BY DEF net_device_configure_ipv4, LinkOK, Bare, Whole, LinkFields
  <1>2. c.address # Zero /\ n \in Nat \ {Zero}
    BY DEF Configurable, Unicast, ConfigFor
  <1>3. c.gateway # Zero => OnLink(c.gateway, c.address)
    BY <1>2 DEF Configurable, OnLink
  <1>4. R1.network = n /\ R1.gateway = Zero /\ R2.network = Zero /\ R2.gateway = c.gateway
    OBVIOUS
  <1> HIDE DEF d, n
  <1>5. e = [d EXCEPT !.routes = @ \cup {R1}]
    BY <1>1 DEF net_ipv4_route_add
  <1>6. /\ Whole(e, LinkFields) /\ e.address = c.address /\ e.gateway = c.gateway /\ e.routes = {R1}
        /\ e.arp = k.arp /\ e.pending = k.pending /\ e.tx = k.tx /\ e.out = k.out
    <2> HIDE DEF e, R1
    <2> QED
      BY <1>1, <1>5 DEF Whole, LinkFields
  <1>7. r = IF c.gateway = Zero THEN e ELSE net_ipv4_route_add(e, Zero, c.gateway, 100)
    BY DEF WithRoutes, n
  <1> HIDE DEF e, R1, r
  <1>8. c.gateway # Zero => r = [e EXCEPT !.routes = @ \cup {R2}]
    BY <1>2, <1>3, <1>4, <1>6, <1>7 DEF net_ipv4_route_add
  <1> HIDE DEF R2
  <1>9. /\ Whole(r, LinkFields) /\ r.address = c.address /\ r.gateway = c.gateway
        /\ r.routes = IF c.gateway = Zero THEN {R1} ELSE {R1, R2}
        /\ r.arp = k.arp /\ r.pending = k.pending /\ r.tx = k.tx /\ r.out = k.out
    <2>1. CASE c.gateway = Zero
      BY <1>6, <1>7, <2>1
    <2>2. CASE c.gateway # Zero
      BY <1>6, <1>8, <2>2 DEF Whole, LinkFields
    <2> QED
      BY <2>1, <2>2
  <1>10. RoutesOK(r)
    BY <1>2, <1>3, <1>4, <1>9 DEF RoutesOK, ConfigFor, n
  <1>11. CacheOK(r) /\ ResolvesOn(r)
    <2>1. \A x \in ArpSlot : k.arp[x].state # "PENDING"
      BY DEF LinkOK, ResolvesOn, Bare, OnLink
    <2> QED
      BY <1>9, <2>1 DEF LinkOK, CacheOK, ResolvesOn
  <1>12. QueueOK(r)
    BY <1>9 DEF LinkOK, QueueOK
  <1>13. LinkOK(r)
    BY <1>9, <1>10, <1>11, <1>12 DEF LinkOK
  <1>14. Fine(k, r)
    <2>1. \A told : CacheTold(k, told) => CacheTold(r, told)
      BY <1>9 DEF CacheTold
    <2> QED
      BY <1>9, <2>1, CacheChangeFine
  <1> QED
    BY <1>9, <1>13, <1>14 DEF r, d

AppliedConfig(c) ==
    [valid |-> TRUE, address |-> c.address, gateway |-> c.gateway, dns |-> c.dns, mask |-> c.mask]

\* The parts of the DNS client that a configuration does not touch.
LEMMA DnsNetworkIs ==
    ASSUME NEW c, DnsOK(c), NEW address, NEW server, Destination(server)
    PROVE  LET e == net_dns_set_network(c, address, server)
               f == net_dns_flush_cache(e)
           IN  /\ DnsOK(e) /\ e.local = address /\ e.server = server /\ e.transaction = c.transaction
               /\ DnsOK(f) /\ f.local = address /\ f.server = server /\ f.transaction = c.transaction
  <1> DEFINE e == net_dns_set_network(c, address, server)
             H == [x \in CacheSlot |-> FreeCache]
             f == net_dns_flush_cache(e)
  <1>1. /\ Whole(e, DnsFields) /\ e.local = address /\ e.server = server /\ e.transaction = c.transaction
    BY DEF net_dns_set_network, DnsOK, Whole, DnsFields
  <1> HIDE DEF e
  <1>2. DnsOK(e)
    BY <1>1 DEF DnsOK
  <1>3. f = [e EXCEPT !.cache = H]
    BY DEF net_dns_flush_cache
  <1> HIDE DEF f, H
  <1>4. /\ Whole(f, DnsFields) /\ f.local = address /\ f.server = server /\ f.transaction = c.transaction
    BY <1>1, <1>3 DEF Whole, DnsFields
  <1>5. DnsOK(f)
    BY <1>2, <1>1, <1>4 DEF DnsOK
  <1> QED
    BY <1>1, <1>2, <1>4, <1>5 DEF e, f

LEMMA ApplyIs ==
    ASSUME NEW s, StackOK(s), NEW c, ConfigFor(c), NEW by \in {"dhcp", "program"}
    PROVE  LET r == apply_ipv4_config(s, c, by)
           IN  /\ Orderly(s, r) /\ r.dhcp = s.dhcp
               /\ r = s \/ ~r.applied.valid \/ r.origin = by
               /\ c.address # Zero /\ c.mask /\ r.applied.valid => r.applied.address = c.address
  <1> DEFINE w == Withdrawn(s)
             k == WithRoutes(net_device_configure_ipv4(w, c), c)
             o == IF s.origin = "none" THEN s.origin ELSE "refused"
             q == [s EXCEPT !.link = w, !.applied = NoApplied, !.origin = o]
             e == net_dns_set_network(s.dns, c.address, c.dns)
             u == [s.udp EXCEPT !.local = c.address]
             a == AppliedConfig(c)
             r == [s EXCEPT !.link = k, !.applied = a, !.udp = u, !.dns = e, !.backend = c.address,
                            !.origin = by]
  <1>1. LinkAndUdpOK(s) /\ DhcpOK(s.dhcp) /\ DnsOK(s.dns)
    BY DEF StackOK
  <1>2. LinkOK(w) /\ Bare(w) /\ Fine(s.link, w)
    BY WithdrawnIs
  <1>3. apply_ipv4_config(s, c, by) =
            IF c.address = Zero \/ ~c.mask THEN s
            ELSE IF ~Configurable(c) \/ ~RoutesFree(w, c) THEN q ELSE r
    BY <1>1 DEF apply_ipv4_config, AppliedConfig, LinkAndUdpOK, Whole, StackFields
  <1> HIDE DEF w
  <1>4. Orderly(s, q) /\ q.dhcp = s.dhcp /\ ~q.applied.valid
    <2>1. ~NoApplied.valid
      BY DEF NoApplied
    <2>2. /\ Whole(q, StackFields) /\ q.link = w /\ q.udp = s.udp /\ q.dhcp = s.dhcp /\ q.dns = s.dns
          /\ q.answers = s.answers /\ q.applied = NoApplied /\ q.backend = s.backend /\ q.origin = o
      <3> HIDE DEF o
      <3> QED
        BY <1>1 DEF LinkAndUdpOK, Whole, StackFields
    <2>3. o \notin {"dhcp", "program"} /\ (o = "none" => s.origin = "none")
      OBVIOUS
    <2> HIDE DEF q, o
    <2>4. AppliedOK(q)
      BY <1>2, <2>1, <2>2, <2>3 DEF StackOK, AppliedOK, Bare
    <2>5. StackOK(q)
      BY <1>1, <1>2, <2>2, <2>4 DEF StackOK, LinkAndUdpOK
    <2> QED
      BY <1>2, <2>1, <2>2, <2>5 DEF Orderly
  <1>5. ASSUME Configurable(c)
        PROVE  Orderly(s, r) /\ r.dhcp = s.dhcp /\ r.origin = by /\ r.applied.address = c.address
    <2>1. LinkOK(k) /\ k.address = c.address /\ k.gateway = c.gateway /\ Fine(w, k)
      BY <1>2, <1>5, ConfiguredIs
    <2>2. c.address # Zero
      BY <1>5 DEF Configurable, Unicast
    <2>3. DnsOK(e) /\ e.local = c.address /\ e.server = c.dns /\ e.transaction = s.dns.transaction
      BY <1>1, DnsNetworkIs DEF ConfigFor
    <2>4. Whole(u, UdpFields) /\ u.endpoint = s.udp.endpoint /\ u.local = c.address
      BY <1>1 DEF LinkAndUdpOK, UdpOK, Whole, UdpFields
    <2>5. a.valid = TRUE /\ a.address = c.address /\ a.gateway = c.gateway /\ a.dns = c.dns
      BY DEF AppliedConfig
    <2> HIDE DEF k, e, u, a
    <2>6. UdpOK(u)
      BY <1>1, <2>4 DEF LinkAndUdpOK, UdpOK
    <2>7. /\ Whole(r, StackFields) /\ r.link = k /\ r.udp = u /\ r.dhcp = s.dhcp /\ r.dns = e
          /\ r.answers = s.answers /\ r.applied = a /\ r.backend = c.address /\ r.origin = by
      BY <1>1 DEF LinkAndUdpOK, Whole, StackFields
    <2> HIDE DEF r
    <2>8. AppliedOK(r)
      BY <2>1, <2>2, <2>3, <2>4, <2>5, <2>7 DEF AppliedOK
    <2>9. StackOK(r)
      BY <1>1, <2>1, <2>3, <2>6, <2>7, <2>8 DEF StackOK, LinkAndUdpOK
    <2>10. Fine(s.link, r.link)
      BY <1>2, <2>1, <2>7, FineTrans
    <2>11. \A v \in Nat : QueriesOK(s.dns, s.answers, v) => QueriesOK(r.dns, r.answers, v)
      <3>1. \A i \in Transaction : \A p \in Query : AsksFor(e, i, p) <=> AsksFor(s.dns, i, p)
        BY <2>3 DEF AsksFor
      <3> QED
        BY <2>7, <3>1, QueriesAlike
    <2> QED
      BY <2>5, <2>7, <2>9, <2>10, <2>11 DEF Orderly
  <1> HIDE DEF q, r
  <1> QED
    BY <1>3, <1>4, <1>5, OrderlySelf

LEMMA ClearIs ==
    ASSUME NEW s, StackOK(s)
    PROVE  LET r == clear_ipv4_config(s)
           IN  Orderly(s, r) /\ r.dhcp = s.dhcp /\ ~r.applied.valid
  <1> DEFINE w == Withdrawn(s)
             e == net_dns_flush_cache(net_dns_set_network(s.dns, Zero, Zero))
             u == [s.udp EXCEPT !.local = Zero]
             r == [s EXCEPT !.link = w, !.udp = u, !.dns = e, !.backend = Zero, !.applied = NoApplied,
                            !.origin = "none"]
  <1>1. LinkAndUdpOK(s) /\ DhcpOK(s.dhcp) /\ DnsOK(s.dns)
    BY DEF StackOK
  <1>2. LinkOK(w) /\ Bare(w) /\ Fine(s.link, w)
    BY WithdrawnIs
  <1>3. clear_ipv4_config(s) = IF ~s.applied.valid THEN s ELSE r
    BY <1>1 DEF clear_ipv4_config, LinkAndUdpOK, Whole, StackFields
  <1>4. DnsOK(e) /\ e.local = Zero /\ e.server = Zero /\ e.transaction = s.dns.transaction
    <2>1. Destination(Zero)
      BY DEF Destination
    <2> QED
      BY <1>1, <2>1, DnsNetworkIs
  <1>5. Whole(u, UdpFields) /\ u.endpoint = s.udp.endpoint /\ u.local = Zero
    BY <1>1 DEF LinkAndUdpOK, UdpOK, Whole, UdpFields
  <1>6. ~NoApplied.valid
    BY DEF NoApplied
  <1> HIDE DEF w, e, u
  <1>7. UdpOK(u)
    BY <1>1, <1>5 DEF LinkAndUdpOK, UdpOK
  <1>8. /\ Whole(r, StackFields) /\ r.link = w /\ r.udp = u /\ r.dhcp = s.dhcp /\ r.dns = e
        /\ r.answers = s.answers /\ r.applied = NoApplied /\ r.backend = Zero /\ r.origin = "none"
    BY <1>1 DEF LinkAndUdpOK, Whole, StackFields
  <1> HIDE DEF r
  <1>9. StackOK(r)
    <2>1. AppliedOK(r)
      BY <1>2, <1>4, <1>5, <1>6, <1>8 DEF AppliedOK, Bare
    <2> QED
      BY <1>1, <1>2, <1>4, <1>7, <1>8, <2>1 DEF StackOK, LinkAndUdpOK
  <1>10. \A v \in Nat : QueriesOK(s.dns, s.answers, v) => QueriesOK(r.dns, r.answers, v)
    <2>1. \A i \in Transaction : \A p \in Query : AsksFor(e, i, p) <=> AsksFor(s.dns, i, p)
      BY <1>4 DEF AsksFor
    <2> QED
      BY <1>8, <2>1, QueriesAlike
  <1>11. Orderly(s, r)
    BY <1>2, <1>8, <1>9, <1>10 DEF Orderly
  <1> QED
    BY <1>3, <1>6, <1>8, <1>11, OrderlySelf

LEMMA NetworkIs ==
    ASSUME NEW c \in Offers \cup StaticConfigs
    PROVE  c.address # Zero => Network(c.address) \in Nat \ {Zero}
  <1>1. c.address \in Nat
    BY StackAssumption DEF Config
  <1>2. c.address \div 10 \in Nat
    BY <1>1
  <1> QED
    BY <1>2, StackAssumption DEF Network

LEMMA WantedIs ==
    ASSUME NEW d, Given(d)
    PROVE  ConfigFor(Wanted(d))
  <1> DEFINE c == Wanted(d)
  <1>1. c.address = d.address /\ c.gateway = d.gateway /\ c.dns \in {d.dns, d.gateway}
    BY DEF Wanted
  <1> HIDE DEF c
  <1>2. \A f \in {"address", "gateway", "dns", "server"} : d[f] = Zero \/ \E o \in Offers : d[f] = o[f]
    BY DEF Given
  <1>3. c.address # Zero => /\ \E o \in Offers \cup StaticConfigs : o.address = c.address
                            /\ Network(c.address) \in Nat \ {Zero}
    BY <1>1, <1>2, NetworkIs
  <1>4. c.gateway # Zero => \E o \in Offers \cup StaticConfigs : o.gateway = c.gateway
    BY <1>1, <1>2
  <1>5. Destination(d.dns) /\ Destination(d.gateway)
    BY <1>2 DEF Destination, Peers
  <1> QED
    BY <1>1, <1>3, <1>4, <1>5 DEF ConfigFor, c

LEMMA StaticIs ==
    ASSUME NEW c \in StaticConfigs
    PROVE  ConfigFor(c)
  <1>1. Destination(c.dns)
    BY DEF Destination, Peers
  <1> QED
    BY <1>1, NetworkIs DEF ConfigFor

\* After synchronize_dhcp_config the address is that of the lease, or it is not from DHCP.
LEMMA SynchronizeIs ==
    ASSUME NEW s, StackOK(s)
    PROVE  LET r == synchronize_dhcp_config(s) IN Orderly(s, r) /\ LeasedOK(r)
  <1> DEFINE c == Wanted(s.dhcp.config)
             r == synchronize_dhcp_config(s)
  <1>1. c.address = s.dhcp.config.address /\ c.mask = s.dhcp.config.mask /\ "address" \in DOMAIN c
    BY DEF Wanted
  <1>2. ConfigFor(c)
    BY WantedIs DEF StackOK, DhcpOK
  <1>3. CASE s.dhcp.state = "EXPIRED"
    <2>1. r = clear_ipv4_config(s)
      BY <1>3 DEF synchronize_dhcp_config
    <2> HIDE DEF r
    <2> QED
      BY <2>1, ClearIs DEF LeasedOK, r
  <1>4. CASE s.dhcp.state # "EXPIRED" /\ ~net_dhcp_is_configured(s.dhcp)
    <2>1. r = s
      BY <1>4 DEF synchronize_dhcp_config
    <2> HIDE DEF r
    <2> QED
      BY <1>4, <2>1, OrderlySelf DEF LeasedOK, r
  <1>5. CASE net_dhcp_is_configured(s.dhcp) /\ s.applied.valid /\ \A f \in DOMAIN c : s.applied[f] = c[f]
    <2>1. s.dhcp.state # "EXPIRED"
      BY <1>5 DEF net_dhcp_is_configured
    <2>2. r = s
      BY <1>5, <2>1 DEF synchronize_dhcp_config
    <2>3. s.applied.address = c.address
      BY <1>1, <1>5
    <2> HIDE DEF r, c
    <2> QED
      BY <1>1, <2>1, <2>2, <2>3, OrderlySelf DEF LeasedOK, r
  <1>6. CASE net_dhcp_is_configured(s.dhcp) /\ ~(s.applied.valid /\ \A f \in DOMAIN c : s.applied[f] = c[f])
    <2>1. s.dhcp.state # "EXPIRED"
      BY <1>6 DEF net_dhcp_is_configured
    <2>2. r = apply_ipv4_config(s, c, "dhcp")
      BY <1>6, <2>1 DEF synchronize_dhcp_config
    <2>3. LeaseOK(s.dhcp)
      BY <1>6 DEF StackOK, DhcpOK
    <2>4. c.address # Zero
      BY <1>1, <2>3 DEF LeaseOK
    <2> HIDE DEF r, c
    <2>5. Orderly(s, r) /\ r.dhcp = s.dhcp /\ (c.mask /\ r.applied.valid => r.applied.address = c.address)
      BY <1>2, <2>2, <2>4, ApplyIs
    <2> QED
      BY <1>1, <2>1, <2>5 DEF LeasedOK, r
  <1> QED
    BY <1>3, <1>4, <1>5, <1>6

----------------------------------------------------------------------------
\* Frames and timers.

LEMMA MaxIs ==
    ASSUME NEW N \in Nat, NEW S \in SUBSET (0..N), S # {}
    PROVE  Max(S) \in S
  <1> DEFINE T == {N - x : x \in S}
  <1>1. T \in SUBSET Nat /\ T # {}
    <2>1. \A x \in S : N - x \in Nat
      OBVIOUS
    <2> QED
      BY <2>1
  <1>2. Min(T) \in T /\ \A y \in T : Min(T) <= y
    BY <1>1, MinIs
  <1>3. PICK x \in S : Min(T) = N - x
    BY <1>2
  <1>4. \A y \in S : x >= y
    <2> TAKE y \in S
    <2>1. N - x <= N - y
      BY <1>2, <1>3
    <2> QED
      BY <2>1
  <1> QED
    BY <1>4 DEF Max

LEMMA MinOne ==
    ASSUME NEW x \in Nat
    PROVE  Min({x}) = x
  BY MinIs

LEMMA DestinationEndpoint ==
    ASSUME NEW u, NEW dst, NEW port
    PROVE  LET to == find_destination(u, dst, port) IN to # {} => Min(to) \in Endpoint
  <1> DEFINE bound == {x \in Endpoint : u.endpoint[x].active /\ u.endpoint[x].bound
                                        /\ u.endpoint[x].port = port}
             exact == {x \in bound : u.endpoint[x].address = dst}
             wild == {x \in bound : u.endpoint[x].address = Zero}
             to == find_destination(u, dst, port)
  <1>1. exact \in SUBSET Endpoint /\ wild \in SUBSET Endpoint
    OBVIOUS
  <1>2. to = IF exact # {} THEN {Min(exact)} ELSE IF wild # {} THEN {Max(wild)} ELSE {}
    BY DEF find_destination
  <1> HIDE DEF exact, wild, to
  <1>3. NET_UDP_MAX_ENDPOINTS \in Nat
    BY ServicesAssumption
  <1>4. exact \in SUBSET Nat /\ wild \in SUBSET (0..NET_UDP_MAX_ENDPOINTS)
    BY <1>1, <1>3 DEF Endpoint
  <1>5. exact # {} => Min(exact) \in Endpoint
    BY <1>1, <1>4, MinIs
  <1>6. wild # {} => Max(wild) \in Endpoint
    BY <1>1, <1>3, <1>4, MaxIs
  <1>7. \A x \in Endpoint : Min({x}) = x
    BY MinOne DEF Endpoint
  <1>8. to # {} => Min(to) \in Endpoint
    BY <1>2, <1>5, <1>6, <1>7
  <1> QED
    BY <1>8 DEF to

\* A program's endpoint changes.
LEMMA UdpOrderly ==
    ASSUME NEW s, StackOK(s), NEW u, UdpOK(u), u.local = s.udp.local
    PROVE  LET r == [s EXCEPT !.udp = u] IN Orderly(s, r) /\ r.link = s.link
  <1> DEFINE r == [s EXCEPT !.udp = u]
  <1>1. /\ Whole(r, StackFields) /\ r.link = s.link /\ r.udp = u /\ r.dhcp = s.dhcp /\ r.dns = s.dns
        /\ r.answers = s.answers /\ r.applied = s.applied /\ r.backend = s.backend /\ r.origin = s.origin
    BY DEF StackOK, LinkAndUdpOK, Whole, StackFields
  <1> HIDE DEF r
  <1>2. StackOK(r)
    BY <1>1 DEF StackOK, LinkAndUdpOK, AppliedOK
  <1> QED
    BY <1>1, <1>2, FineSelf DEF Orderly, r

LEMMA QueueMessage ==
    ASSUME NEW e, EndpointOK(e), NEW m, Len(e.queue) # NET_UDP_QUEUE_DEPTH
    PROVE  EndpointOK([e EXCEPT !.queue = Append(@, m)])
  <1> DEFINE r == [e EXCEPT !.queue = Append(@, m)]
  <1>1. Whole(r, EndpointFields) /\ r.queue = Append(e.queue, m)
    BY DEF EndpointOK, Whole, EndpointFields
  <1>2. IsSeq(Append(e.queue, m)) /\ Len(Append(e.queue, m)) = Len(e.queue) + 1 /\ Len(e.queue) \in Nat
    BY AppendIs DEF EndpointOK
  <1> HIDE DEF r
  <1>3. Len(r.queue) <= NET_UDP_QUEUE_DEPTH
    BY <1>1, <1>2, ServicesAssumption DEF EndpointOK
  <1> QED
    BY <1>1, <1>2, <1>3 DEF EndpointOK, r

LEMMA UdpReceiveIs ==
    ASSUME NEW s, StackOK(s), NEW p, p.data.message.service = "dhcp" => DhcpMessageOK(p.data.message)
    PROVE  Orderly(s, net_udp_receive(s, p))
  <1> DEFINE to == find_destination(s.udp, p.dst, p.data.dport)
             x == Min(to)
             m == p.data.message
             d == net_dhcp_receive(s, m)
             e == s.udp.endpoint[x]
             v == [e EXCEPT !.queue = Append(@, m)]
             r == net_udp_receive(s, p)
  <1>1. \/ r = s
        \/ r = synchronize_dhcp_config(s)
        \/ m.service = "dhcp" /\ r = synchronize_dhcp_config(d)
        \/ to # {} /\ x # DhcpEndpoint /\ x \notin ProgramEndpoint
           /\ r = net_dns_receive(s, x - DnsEndpoint(0), p.src, m)
        \/ to # {} /\ Len(e.queue) # NET_UDP_QUEUE_DEPTH
           /\ r = [s EXCEPT !.udp.endpoint[x].queue = Append(@, m)]
    BY DEF net_udp_receive, dhcp_udp_notify, dns_udp_notify
  <1>2. to # {} => x \in Endpoint
    BY DestinationEndpoint
  <1>3. LinkAndUdpOK(s) /\ DhcpOK(s.dhcp) /\ DnsOK(s.dns)
    BY DEF StackOK
  <1> HIDE DEF to, x, m, r
  <1>4. ASSUME m.service = "dhcp" PROVE Orderly(s, synchronize_dhcp_config(d))
    <2>1. DhcpServed(s, d)
      BY <1>3, <1>4, DhcpReceiveIs DEF m
    <2> HIDE DEF d
    <2>2. Orderly(s, d)
      BY <2>1, DhcpOrderly
    <2>3. Orderly(d, synchronize_dhcp_config(d))
      BY <2>2, SynchronizeIs DEF Orderly
    <2> QED
      BY <2>2, <2>3, OrderlyTrans
  <1>5. ASSUME to # {}, x # DhcpEndpoint, x \notin ProgramEndpoint
        PROVE  Orderly(s, net_dns_receive(s, x - DnsEndpoint(0), p.src, m))
    <2>1. x - DnsEndpoint(0) \in Transaction
      BY <1>2, <1>5, ServicesAssumption
         DEF Endpoint, DhcpEndpoint, ProgramEndpoint, DnsEndpoint, Transaction
    <2> QED
      BY <1>3, <2>1, DnsReceiveIs, DnsOrderly
  <1>6. ASSUME to # {}, Len(e.queue) # NET_UDP_QUEUE_DEPTH
        PROVE  Orderly(s, [s EXCEPT !.udp.endpoint[x].queue = Append(@, m)])
    <2> DEFINE u == [s.udp EXCEPT !.endpoint[x] = v]
    <2>1. x \in Endpoint /\ UdpOK(s.udp) /\ EndpointOK(e)
      BY <1>2, <1>3, <1>6 DEF LinkAndUdpOK, UdpOK
    <2>2. EndpointOK(v)
      <3> HIDE DEF e
      <3> QED
        BY <1>6, <2>1, QueueMessage
    <2>3. [s EXCEPT !.udp.endpoint[x].queue = Append(@, m)] = [s EXCEPT !.udp = u]
      BY <1>3, <2>1 DEF LinkAndUdpOK, UdpOK, Whole, StackFields, UdpFields
    <2> HIDE DEF v
    <2>4. UdpOK(u) /\ u.local = s.udp.local
      BY <2>1, <2>2, SetEndpoint
    <2> HIDE DEF u
    <2> QED
      BY <2>3, <2>4, UdpOrderly
  <1>7. Orderly(s, r)
    BY <1>1, <1>4, <1>5, <1>6, OrderlySelf, SynchronizeIs
  <1> QED
    BY <1>7 DEF r

\* What the network sends.
FrameOK(f) ==
    IF f.type = "ARP" THEN f.body.sip \in Neighbour /\ f.body.smac \in Mac /\ f.body.smac # NoMac
    ELSE IF f.body.proto = "ICMP" THEN Destination(f.body.src)
    ELSE f.body.data.message.service = "dhcp" => DhcpMessageOK(f.body.data.message)

ToldIn(k, f, told) == IF f.type = "ARP" THEN ToldBy(k, f.body, told) ELSE told

\* The stack in order, with datagrams c transmitted and hardware addresses told.
Sound(s, told, c) == StackOK(s) /\ FlightOK(s.link, told, c)

LEMMA OrderlySound ==
    ASSUME NEW s, NEW r, NEW told, NEW c, Sound(s, told, c), Orderly(s, r)
    PROVE  Sound(r, told, c) /\ \A n \in Datagram : Free(s.link, c, n) => Free(r.link, c, n)
  BY DEF Orderly, Fine, FineBut, Sound

LEMMA LinkOrderly ==
    ASSUME NEW s, StackOK(s), NEW k, LinkStep(s.link, k)
    PROVE  LET r == [s EXCEPT !.link = k]
           IN  /\ StackOK(r) /\ r.link = k
               /\ \A u \in Nat : QueriesOK(s.dns, s.answers, u) => QueriesOK(r.dns, r.answers, u)
               /\ Fine(s.link, k) => Orderly(s, r)
  <1> DEFINE r == [s EXCEPT !.link = k]
  <1>1. LinkAndUdpOK(s) /\ DhcpOK(s.dhcp) /\ DnsOK(s.dns) /\ AppliedOK(s)
    BY DEF StackOK
  <1>2. /\ Kept(s, r) /\ r.link = k /\ r.udp = s.udp /\ r.dhcp = s.dhcp /\ r.dns = s.dns
        /\ r.answers = s.answers
    BY <1>1, SetLink
  <1> HIDE DEF r
  <1>3. AppliedOK(r)
    BY <1>1, <1>2, KeptApplied
  <1>4. StackOK(r)
    BY <1>1, <1>2, <1>3, KeptOK DEF StackOK
  <1> QED
    BY <1>2, <1>4 DEF Orderly, r

LEMMA EthernetInputIs ==
    ASSUME NEW s, NEW told, NEW c, Sound(s, told, c), s.link.out = <<>>, Whole(told, Neighbour),
           NEW f, FrameOK(f)
    PROVE  LET r == net_ethernet_input(s, f)
           IN  /\ Sound(r, ToldIn(s.link, f, told), c)
               /\ \A n \in Datagram : Free(s.link, c, n) => Free(r.link, c, n)
               /\ \A u \in Nat : QueriesOK(s.dns, s.answers, u) => QueriesOK(r.dns, r.answers, u)
  <1> DEFINE r == net_ethernet_input(s, f)
             b == f.body
  <1>1. StackOK(s) /\ LinkOK(s.link) /\ FlightOK(s.link, told, c) /\ Whole(s, StackFields)
    BY DEF Sound, StackOK, LinkAndUdpOK
  <1>2. CASE f.type = "ARP"
    <2> DEFINE k == net_arp_input(s.link, b)
    <2>1. r = [s EXCEPT !.link = k]
      BY <1>2 DEF net_ethernet_input
    <2>2. b.sip \in Neighbour /\ b.smac \in Mac /\ b.smac # NoMac
      BY <1>2 DEF FrameOK
    <2>3. LinkStep(s.link, k)
      BY <1>1, <2>2, ArpInputIs
    <2>4. FlightOK(k, ToldBy(s.link, b, told), c) /\ \A n \in Datagram : Free(s.link, c, n) => Free(k, c, n)
      BY <1>1, <2>2, ArpInputFine
    <2>5. ToldIn(s.link, f, told) = ToldBy(s.link, b, told)
      BY <1>2 DEF ToldIn
    <2> HIDE DEF k, r, b
    <2>6. /\ StackOK(r) /\ r.link = k
          /\ \A u \in Nat : QueriesOK(s.dns, s.answers, u) => QueriesOK(r.dns, r.answers, u)
      BY <1>1, <2>1, <2>3, LinkOrderly
    <2> QED
      BY <2>4, <2>5, <2>6 DEF Sound, r
  <1>3. CASE f.type # "ARP"
    <2>1. r = net_ipv4_input(s, b) /\ ToldIn(s.link, f, told) = told
      BY <1>3 DEF net_ethernet_input, ToldIn
    <2> DEFINE k == net_icmp_input(s.link, b)
    <2>2. \/ r = s
          \/ b.proto = "ICMP" /\ r = [s EXCEPT !.link = k]
          \/ b.proto # "ICMP" /\ r = net_udp_receive(s, b)
      BY <2>1 DEF net_ipv4_input
    <2>3. ASSUME b.proto = "ICMP" PROVE Orderly(s, [s EXCEPT !.link = k])
      <3>1. LinkStep(s.link, k) /\ Fine(s.link, k)
        BY <1>1, <1>3, <2>3, IcmpInputIs, IcmpInputFine DEF FrameOK
      <3> HIDE DEF k
      <3> QED
        BY <1>1, <3>1, LinkOrderly
    <2>4. ASSUME b.proto # "ICMP" PROVE Orderly(s, net_udp_receive(s, b))
      <3>1. b.data.message.service = "dhcp" => DhcpMessageOK(b.data.message)
        BY <1>3, <2>4 DEF FrameOK
      <3> HIDE DEF b
      <3> QED
        BY <1>1, <3>1, UdpReceiveIs
    <2> HIDE DEF r, b, k
    <2>5. Orderly(s, r)
      BY <1>1, <2>2, <2>3, <2>4, OrderlySelf
    <2>6. Sound(r, told, c) /\ \A n \in Datagram : Free(s.link, c, n) => Free(r.link, c, n)
      BY <2>5, OrderlySound
    <2> QED
      BY <2>1, <2>5, <2>6 DEF Orderly, r
  <1> QED
    BY <1>2, <1>3

LEMMA TimersAre ==
    ASSUME NEW s, StackOK(s), NEW t \in Nat
    PROVE  LET r == net_stack_timers(s, t) IN Orderly(s, r) /\ LeasedOK(r)
  <1> DEFINE k == net_arp_tick(s.link, t)
             l == net_ipv4_tick(k, t)
             w == IF t = 0 THEN s.link ELSE l
             a == [s EXCEPT !.link = w]
             d == net_dhcp_poll(a)
             n == net_dns_poll(d)
             r == synchronize_dhcp_config(n)
  <1>1. LinkOK(s.link)
    BY DEF StackOK, LinkAndUdpOK
  <1>2. LinkStep(s.link, k) /\ Fine(s.link, k)
    BY <1>1, ArpTickIs, ArpTickFine
  <1> HIDE DEF k
  <1>3. LinkStep(k, l) /\ Fine(k, l)
    BY <1>2, QueueTickIs, QueueTickFine DEF LinkStep
  <1>4. LinkStep(s.link, l) /\ Fine(s.link, l)
    BY <1>2, <1>3, LinkStepTrans, FineTrans
  <1>5. LinkStep(s.link, w) /\ Fine(s.link, w)
    BY <1>1, <1>4, FineSelf DEF LinkStep, SameConfig
  <1>6. net_stack_timers(s, t) = r
    BY DEF net_stack_timers, k, StackOK, LinkAndUdpOK, Whole, StackFields
  <1> HIDE DEF w
  <1>7. Orderly(s, a)
    BY <1>5, LinkOrderly
  <1> HIDE DEF a
  <1>8. Orderly(a, d)
    BY <1>7, DhcpPollIs, DhcpOrderly DEF Orderly, StackOK
  <1> HIDE DEF d
  <1>9. Orderly(d, n)
    BY <1>8, DnsPollIs, DnsOrderly DEF Orderly, StackOK
  <1> HIDE DEF n
  <1>10. Orderly(n, r) /\ LeasedOK(r)
    BY <1>9, SynchronizeIs DEF Orderly
  <1> HIDE DEF r
  <1>11. Orderly(s, r)
    BY <1>7, <1>8, <1>9, <1>10, OrderlyTrans
  <1> QED
    BY <1>6, <1>10, <1>11

----------------------------------------------------------------------------
\* The inductive invariant.

\* Between two calls nothing is with the driver; the parts of the stack are in order;
\* each query that was accepted is asked or answered, each datagram is on its way or
\* transmitted once, and those still to be numbered are neither.
StackInvariant ==
    /\ Whole(link, LinkFields) /\ link.tx = 0 /\ link.out = <<>>
    /\ StackOK(Stack(0)) /\ LeasedOK(Stack(0))
    /\ lag \in Nat /\ used \in [Kind -> Nat]
    /\ QueriesOK(dns, answers, used["query"])
    /\ Whole(latest, Neighbour) /\ Whole(carried, Datagram)
    /\ FlightOK(link, latest, carried)
    /\ \A n \in Datagram : n > used["datagram"] => Free(link, carried, n)
    /\ ~strayed

\* The stack once the driver has taken its frames.
Settled(k) == [k EXCEPT !.tx = 0, !.out = <<>>, !.refused = FALSE]

LEMMA SettledIs ==
    ASSUME NEW s, StackOK(s), LeasedOK(s), NEW r, r = [s EXCEPT !.link = Settled(s.link)]
    PROVE  /\ StackOK(r) /\ LeasedOK(r) /\ Whole(r.link, LinkFields)
           /\ r.link.tx = 0 /\ r.link.out = <<>>
           /\ r.link.arp = s.link.arp /\ r.link.pending = s.link.pending
  <1> DEFINE k == Settled(s.link)
  <1>1. LinkOK(s.link) /\ Whole(s, StackFields)
    BY DEF StackOK, LinkAndUdpOK
  <1>2. /\ Whole(k, LinkFields) /\ k.tx = 0 /\ k.out = <<>> /\ k.arp = s.link.arp
        /\ k.pending = s.link.pending /\ SameConfig(s.link, k)
    BY <1>1 DEF Settled, LinkOK, SameConfig, Whole, LinkFields
  <1> HIDE DEF k
  <1>3. k.tx \in Nat
    BY <1>2
  <1>4. LinkStep(s.link, k)
    BY <1>1, <1>2, <1>3, LinkAlike
  <1>5. StackOK(r) /\ r.link = k
    BY <1>4, LinkOrderly DEF k
  <1>6. r.dhcp = s.dhcp /\ r.applied = s.applied /\ r.origin = s.origin
    BY <1>1 DEF Whole, StackFields
  <1> QED
    BY <1>2, <1>5, <1>6 DEF LeasedOK

\* The transmissions of datagram n, one at most.
LEMMA TransmissionsOf ==
    ASSUME NEW k, NEW c, NEW n, OnceOK(k, c, n)
    PROVE  LET X == {x \in DOMAIN k.out : Carries(k.out[x], n)}
           IN  \/ X = {} /\ Cardinality(X) = 0
               \/ (\E x \in DOMAIN k.out : Carries(k.out[x], n)) /\ Cardinality(X) = 1
  <1> DEFINE X == {x \in DOMAIN k.out : Carries(k.out[x], n)}
  <1>1. \A x, y \in X : x = y
    BY DEF OnceOK
  <1>2. CASE X = {}
    BY <1>2, FS_EmptySet
  <1>3. CASE X # {}
    <2>1. PICK x \in X : TRUE
      BY <1>3
    <2>2. X = {x}
      BY <1>1, <2>1
    <2>3. Cardinality({x}) = 1
      BY FS_Singleton
    <2>4. x \in DOMAIN k.out /\ Carries(k.out[x], n)
      BY <2>1
    <2> HIDE DEF X
    <2> QED
      BY <2>2, <2>3, <2>4 DEF X
  <1> QED
    BY <1>2, <1>3

LEMMA FlightSettled ==
    ASSUME NEW k, NEW told, NEW c, FlightOK(k, told, c), NEW r, r.out = <<>>, r.arp = k.arp,
           r.pending = k.pending,
           NEW t, t = [a \in Neighbour |-> IF find_entry(k, a) = {} THEN NoMac ELSE told[a]],
           NEW d, d = [n \in Datagram |->
                          c[n] + Cardinality({x \in DOMAIN k.out : Carries(k.out[x], n)})]
    PROVE  /\ FlightOK(r, t, d)
           /\ \A n \in Datagram : Free(k, c, n) => Free(r, d, n)
           /\ ~\E x \in DOMAIN k.out : Strays(k.out[x], told)
  <1>1. DOMAIN r.out = {} /\ IsSeq(r.out)
    BY EmptySeqIs
  <1>2. \A n, x : Holds(r, x, n) <=> Holds(k, x, n)
    BY DEF Holds
  <1>3. ASSUME NEW x \in ArpSlot, k.arp[x].state = "VALID", k.arp[x].ip \in Neighbour
        PROVE  t[k.arp[x].ip] = told[k.arp[x].ip]
    <2>1. x \in find_entry(k, k.arp[x].ip)
      BY <1>3 DEF find_entry
    <2> QED
      BY <1>3, <2>1
  <1>4. CacheTold(r, t)
    <2>1. CacheTold(k, told)
      BY DEF FlightOK
    <2>2. ASSUME NEW x \in ArpSlot, r.arp[x].state = "VALID"
          PROVE  /\ r.arp[x].ip \in Neighbour /\ Unicast(r.arp[x].ip)
                 /\ r.arp[x].mac = t[r.arp[x].ip]
      <3>1. k.arp[x].ip \in Neighbour /\ Unicast(k.arp[x].ip) /\ k.arp[x].mac = told[k.arp[x].ip]
        BY <2>1, <2>2 DEF CacheTold
      <3>2. t[k.arp[x].ip] = told[k.arp[x].ip]
        BY <1>3, <2>2, <3>1
      <3> QED
        BY <3>1, <3>2
    <2>3. ASSUME NEW x \in ArpSlot, NEW y \in ArpSlot, r.arp[x].state # "EMPTY",
                 r.arp[y].state # "EMPTY", r.arp[x].ip = r.arp[y].ip
          PROVE  x = y
      BY <2>1, <2>3 DEF CacheTold
    <2> QED
      BY <2>2, <2>3 DEF CacheTold
  <1>5. QueueHops(r)
    BY DEF FlightOK, QueueHops
  <1>6. OutOK(r, t)
    BY <1>1 DEF OutOK
  <1>7. ASSUME NEW n \in Datagram
        PROVE  OnceOK(r, d, n) /\ (Free(k, c, n) => Free(r, d, n))
    <2> DEFINE X == {x \in DOMAIN k.out : Carries(k.out[x], n)}
    <2>1. OnceOK(k, c, n) /\ d[n] = c[n] + Cardinality(X)
      BY DEF FlightOK
    <2>2. \/ X = {} /\ Cardinality(X) = 0
          \/ (\E x \in DOMAIN k.out : Carries(k.out[x], n)) /\ Cardinality(X) = 1
      BY <2>1, TransmissionsOf
    <2>3. CASE X = {} /\ Cardinality(X) = 0
      <3>1. d[n] = c[n]
        BY <2>1, <2>3 DEF OnceOK
      <3> QED
        BY <1>1, <1>2, <2>1, <3>1 DEF OnceOK, Free
    <2>4. CASE (\E x \in DOMAIN k.out : Carries(k.out[x], n)) /\ Cardinality(X) = 1
      <3>1. c[n] = 0 /\ \A y \in PendingSlot : ~Holds(k, y, n)
        BY <2>1, <2>4 DEF OnceOK
      <3>2. d[n] = 1
        BY <2>1, <2>4, <3>1
      <3>3. ~Free(k, c, n)
        BY <2>4 DEF Free
      <3> QED
        BY <1>1, <1>2, <3>1, <3>2, <3>3 DEF OnceOK
    <2> QED
      BY <2>2, <2>3, <2>4
  <1>8. ~\E x \in DOMAIN k.out : Strays(k.out[x], told)
    BY DEF FlightOK, OutOK
  <1> QED
    BY <1>4, <1>5, <1>6, <1>7, <1>8 DEF FlightOK

\* The stack that a call finds, with tx free slots in the driver.
LEMMA StackIs ==
    ASSUME StackInvariant, NEW tx \in Nat
    PROVE  LET s == Stack(tx)
           IN  /\ Sound(s, latest, carried) /\ LeasedOK(s) /\ s.link.out = <<>>
               /\ s.link = [link EXCEPT !.tx = tx] /\ s.link.arp = link.arp /\ s.link.address = link.address
               /\ s.udp = udp /\ s.dhcp = dhcp /\ s.dns = dns /\ s.answers = answers
               /\ s.applied = applied /\ s.backend = backend /\ s.origin = origin
               /\ \A n \in Datagram : Free(link, carried, n) => Free(s.link, carried, n)
  <1> DEFINE s == Stack(tx)
             z == Stack(0)
             k == [link EXCEPT !.tx = tx]
             l == [link EXCEPT !.tx = 0]
  <1>1. Whole(link, LinkFields) /\ link.tx = 0 /\ link.out = <<>> /\ FlightOK(link, latest, carried)
    BY DEF StackInvariant
  <1>2. /\ Whole(k, LinkFields) /\ k.tx = tx /\ k.out = link.out /\ k.arp = link.arp
        /\ k.pending = link.pending /\ SameConfig(link, k) /\ k.address = link.address
    BY <1>1 DEF SameConfig, Whole, LinkFields
  <1>3. l = link
    BY <1>1 DEF Whole, LinkFields
  <1> HIDE DEF k, l
  <1>4. /\ Whole(s, StackFields) /\ s.link = k /\ s.udp = udp /\ s.dhcp = dhcp /\ s.dns = dns
        /\ s.answers = answers /\ s.applied = applied /\ s.backend = backend /\ s.origin = origin
    BY DEF Stack, k, Whole, StackFields
  <1>5. /\ z.link = link /\ z.udp = udp /\ z.dhcp = dhcp /\ z.dns = dns
        /\ z.answers = answers /\ z.applied = applied /\ z.backend = backend /\ z.origin = origin
    BY <1>3 DEF Stack, l
  <1> HIDE DEF s, z
  <1>6. StackOK(z) /\ LeasedOK(z)
    BY DEF StackInvariant, z
  <1>7. LinkStep(link, k)
    BY <1>2, <1>5, <1>6, LinkAlike DEF StackOK, LinkAndUdpOK
  <1>8. StackOK(s)
    BY <1>4, <1>5, <1>6, <1>7 DEF StackOK, LinkAndUdpOK, AppliedOK, LinkStep, SameConfig
  <1>9. LeasedOK(s)
    BY <1>4, <1>5, <1>6 DEF LeasedOK
  <1>10. FlightOK(k, latest, carried) /\ \A n \in Datagram : Free(link, carried, n) => Free(k, carried, n)
    BY <1>1, <1>2, FlightAlike
  <1> QED
    BY <1>1, <1>2, <1>4, <1>8, <1>9, <1>10 DEF Sound, s, k

LEMMA BecomesIs ==
    ASSUME StackInvariant, NEW s, NEW told, Sound(s, told, carried), LeasedOK(s), Becomes(s, told),
           lag' \in Nat, used' \in [Kind -> Nat], QueriesOK(s.dns, s.answers, used'["query"]),
           \A n \in Datagram : n > used'["datagram"] => Free(s.link, carried, n)
    PROVE  StackInvariant'
  <1> DEFINE k == Settled(s.link)
             r == [s EXCEPT !.link = k]
  <1>1. StackOK(s) /\ FlightOK(s.link, told, carried) /\ Whole(s, StackFields)
    BY DEF Sound, StackOK, LinkAndUdpOK
  <1>2. /\ StackOK(r) /\ LeasedOK(r) /\ Whole(r.link, LinkFields) /\ r.link.tx = 0 /\ r.link.out = <<>>
        /\ r.link.arp = s.link.arp /\ r.link.pending = s.link.pending
    BY <1>1, SettledIs
  <1>3. /\ r.link = k /\ r.udp = s.udp /\ r.dhcp = s.dhcp /\ r.dns = s.dns /\ r.answers = s.answers
        /\ r.applied = s.applied /\ r.backend = s.backend /\ r.origin = s.origin /\ Whole(r, StackFields)
    BY <1>1 DEF Whole, StackFields
  <1>4. /\ link' = k /\ udp' = s.udp /\ dhcp' = s.dhcp /\ dns' = s.dns /\ applied' = s.applied
        /\ backend' = s.backend /\ answers' = s.answers /\ origin' = s.origin
        /\ latest' = [a \in Neighbour |-> IF find_entry(s.link, a) = {} THEN NoMac ELSE told[a]]
        /\ carried' = [n \in Datagram |->
              carried[n] + Cardinality({x \in DOMAIN s.link.out : Carries(s.link.out[x], n)})]
        /\ strayed' = (strayed \/ \E x \in DOMAIN s.link.out : Strays(s.link.out[x], told))
    BY DEF Becomes, Settled
  <1> HIDE DEF k, r
  <1>5. link' = r.link
    BY <1>3, <1>4
  <1>6. /\ FlightOK(link', latest', carried')
        /\ \A n \in Datagram : Free(s.link, carried, n) => Free(link', carried', n)
        /\ ~\E x \in DOMAIN s.link.out : Strays(s.link.out[x], told)
    BY <1>1, <1>2, <1>4, <1>5, FlightSettled
  <1>7. [link' EXCEPT !.tx = 0] = link'
    BY <1>2, <1>5 DEF Whole, LinkFields
  <1>8. Stack(0)' = r
    <2>1. Stack(0)' = [link |-> link', udp |-> udp', dhcp |-> dhcp', dns |-> dns', applied |-> applied',
                       backend |-> backend', answers |-> answers', origin |-> origin']
      BY <1>7 DEF Stack
    <2> QED
      BY <1>3, <1>4, <1>5, <2>1 DEF Whole, StackFields
  <1>9. StackOK(Stack(0))' /\ LeasedOK(Stack(0))'
    BY <1>2, <1>8
  <1>10. Whole(latest', Neighbour) /\ Whole(carried', Datagram)
    BY <1>4 DEF Whole
  <1>11. ~strayed'
    <2>1. ~strayed
      BY DEF StackInvariant
    <2> QED
      BY <1>4, <1>6, <2>1
  <1>12. QueriesOK(dns', answers', used'["query"])
    BY <1>4
  <1> QED
    BY <1>2, <1>5, <1>6, <1>9, <1>10, <1>11, <1>12 DEF StackInvariant

LEMMA LinkInitOK ==
    /\ LinkOK(LinkInit) /\ Bare(LinkInit) /\ LinkInit.tx = 0 /\ LinkInit.out = <<>>
    /\ \A x \in ArpSlot : LinkInit.arp[x].state = "EMPTY"
    /\ \A x \in PendingSlot : ~LinkInit.pending[x].used
  <1> DEFINE A == [x \in ArpSlot |-> EmptyEntry]
             P == [x \in PendingSlot |-> NoPacket]
             k == LinkInit
  <1>1. /\ Whole(k, LinkFields) /\ k.address = Zero /\ k.gateway = Zero /\ k.routes = {}
        /\ k.arp = A /\ k.pending = P /\ k.tx = 0 /\ k.out = <<>>
    BY DEF LinkInit, Whole, LinkFields
  <1>2. /\ Whole(A, ArpSlot) /\ \A x \in ArpSlot : A[x] = EmptyEntry
        /\ Whole(P, PendingSlot) /\ \A x \in PendingSlot : P[x] = NoPacket
    BY DEF Whole
  <1>3. EmptyEntry.state = "EMPTY" /\ NoPacket.used = FALSE
    BY DEF EmptyEntry, NoPacket
  <1> HIDE DEF A, P, k
  <1>4. CacheOK(k) /\ ResolvesOn(k)
    BY <1>1, <1>2, <1>3, NoEntryOK DEF CacheOK, ResolvesOn
  <1>5. QueueOK(k)
    BY <1>1, <1>2, NoPacketOK DEF QueueOK
  <1>6. RoutesOK(k) /\ Bare(k)
    BY <1>1 DEF RoutesOK, Bare
  <1>7. LinkOK(k)
    BY <1>1, <1>4, <1>5, <1>6 DEF LinkOK
  <1> QED
    BY <1>1, <1>2, <1>3, <1>6, <1>7 DEF k

LEMMA UdpInitOK == UdpOK(UdpInit)
  <1> DEFINE E == [x \in Endpoint |->
                      IF x = DhcpEndpoint THEN BoundTo(Zero, NET_DHCP_CLIENT_PORT)
                      ELSE IF x \in ProgramEndpoint THEN Inactive
                      ELSE BoundTo(Zero, NET_STACK_DNS_PORT_BASE + x - DnsEndpoint(1))]
  <1>1. Whole(UdpInit, UdpFields) /\ UdpInit.endpoint = E
    BY DEF UdpInit, Whole, UdpFields
  <1>2. Whole(E, Endpoint)
    BY DEF Whole
  <1>3. \A x \in Endpoint : EndpointOK(E[x])
    BY NewEndpointsOK
  <1> HIDE DEF E
  <1> QED
    BY <1>1, <1>2, <1>3 DEF UdpOK

LEMMA DnsInitOK == DnsOK(DnsInit) /\ \A i \in Transaction : ~DnsInit.transaction[i].in_use
  <1> DEFINE T == [i \in Transaction |-> FreeTransaction]
             c == DnsInit
  <1>1. Whole(c, DnsFields) /\ c.transaction = T /\ c.server = Zero
    BY DEF DnsInit, Whole, DnsFields
  <1>2. Whole(T, Transaction) /\ \A i \in Transaction : T[i] = FreeTransaction
    BY DEF Whole
  <1> HIDE DEF T, c
  <1>3. Destination(Zero)
    BY DEF Destination
  <1>4. DnsOK(c)
    BY <1>1, <1>2, <1>3, FreeTransactionOK DEF DnsOK
  <1> QED
    BY <1>1, <1>2, <1>4, FreeTransactionOK DEF c

LEMMA InitInvariant == Init => StackInvariant
  <1> SUFFICES ASSUME Init PROVE StackInvariant
    OBVIOUS
  <1> DEFINE s == Stack(0)
  <1>1. /\ link = LinkInit /\ udp = UdpInit /\ dhcp = DhcpInit /\ dns = DnsInit /\ applied = NoApplied
        /\ backend = Zero /\ origin = "none"
        /\ lag = 0 /\ answers = [q \in Query |-> <<>>] /\ latest = [a \in Neighbour |-> NoMac]
        /\ carried = [n \in Datagram |-> 0] /\ strayed = FALSE /\ used = [k \in Kind |-> 0]
    BY DEF Init
  <1>2. LinkOK(link) /\ Bare(link) /\ link.tx = 0 /\ link.out = <<>>
    BY <1>1, LinkInitOK
  <1>3. Whole(link, LinkFields)
    BY <1>2 DEF LinkOK
  <1>4. [link EXCEPT !.tx = 0] = link
    BY <1>2, <1>3 DEF Whole, LinkFields
  <1>5. /\ Whole(s, StackFields) /\ s.link = link /\ s.udp = udp /\ s.dhcp = dhcp /\ s.dns = dns
        /\ s.applied = applied /\ s.backend = backend /\ s.origin = origin
    BY <1>4 DEF Stack, Whole, StackFields
  <1>6. ~NoApplied.valid
    BY DEF NoApplied
  <1>7. StackOK(s) /\ LeasedOK(s)
    <2> HIDE DEF s
    <2>1. LinkAndUdpOK(s)
      BY <1>1, <1>2, <1>5, UdpInitOK DEF LinkAndUdpOK
    <2>2. DhcpOK(s.dhcp) /\ DnsOK(s.dns)
      BY <1>1, <1>5, DhcpInitOK, DnsInitOK
    <2>3. udp.local = Zero /\ dns.local = Zero /\ dns.server = Zero
      BY <1>1 DEF UdpInit, DnsInit
    <2>4. AppliedOK(s) /\ LeasedOK(s)
      BY <1>1, <1>2, <1>5, <1>6, <2>3 DEF AppliedOK, LeasedOK, Bare
    <2> QED
      BY <2>1, <2>2, <2>4 DEF StackOK
  <1>8. lag \in Nat /\ used \in [Kind -> Nat] /\ used["query"] = 0 /\ used["datagram"] = 0
    BY <1>1 DEF Kind
  <1>9. QueriesOK(dns, answers, 0)
    <2>1. Whole(answers, Query) /\ \A q \in Query : answers[q] = <<>>
      BY <1>1 DEF Whole
    <2>2. \A q \in Query : ~(q <= 0)
      BY DEF Query
    <2>3. \A i \in Transaction : \A q : ~AsksFor(dns, i, q)
      BY <1>1, DnsInitOK DEF AsksFor
    <2> QED
      BY <2>1, <2>2, <2>3, EmptySeqIs DEF QueriesOK, Asking
  <1>10. Whole(latest, Neighbour) /\ Whole(carried, Datagram) /\ \A n \in Datagram : carried[n] = 0
    BY <1>1 DEF Whole
  <1>11. /\ \A x \in ArpSlot : link.arp[x].state = "EMPTY"
         /\ \A x \in PendingSlot : ~link.pending[x].used
         /\ DOMAIN link.out = {} /\ IsSeq(link.out)
    BY <1>1, <1>2, LinkInitOK, EmptySeqIs
  <1>12. \A n \in Datagram : Free(link, carried, n) /\ OnceOK(link, carried, n)
    BY <1>10, <1>11 DEF Free, OnceOK, Holds
  <1>13. FlightOK(link, latest, carried)
    BY <1>11, <1>12 DEF FlightOK, CacheTold, QueueHops, OutOK
  <1> QED
    BY <1>1, <1>2, <1>3, <1>7, <1>8, <1>9, <1>10, <1>12, <1>13 DEF StackInvariant

----------------------------------------------------------------------------
\* Every step preserves it.

LEMMA UsedIs ==
    ASSUME used \in [Kind -> Nat], NEW kinds, Uses(kinds)
    PROVE  /\ used' \in [Kind -> Nat]
           /\ \A k \in Kind : used'[k] = IF k \in kinds THEN used[k] + 1 ELSE used[k]
           /\ \A k \in kinds : used[k] < MaxOf[k]
  BY DEF Uses, Allowed

LEMMA RoomIs == Room \subseteq Nat
  BY StackAssumption DEF Room

\* A frame that the network sends is one that the stack was proved for.
LEMMA ArpFrames ==
    ASSUME NEW op, NEW a \in Neighbour, NEW mac \in MacsOf[a]
    PROVE  FrameOK(ArpPacket(op, a, mac))
  <1> DEFINE f == ArpPacket(op, a, mac)
  <1>1. f.type = "ARP" /\ f.body.sip = a /\ f.body.smac = mac
    BY DEF ArpPacket
  <1>2. mac \in Mac
    BY DEF Mac
  <1>3. mac # NoMac
    BY StackAssumption
  <1> HIDE DEF f
  <1> QED
    BY <1>1, <1>2, <1>3 DEF FrameOK, f

LEMMA DatagramFrames ==
    ASSUME NEW src, NEW dst, NEW sport, NEW dport, NEW m, m.service = "dhcp" => DhcpMessageOK(m)
    PROVE  FrameOK(DatagramFrame(src, dst, sport, dport, m))
  <1> DEFINE f == DatagramFrame(src, dst, sport, dport, m)
  <1>1. f.type = "IPv4" /\ f.body.proto = "UDP" /\ f.body.data.message = m
    BY DEF DatagramFrame
  <1> HIDE DEF f
  <1> QED
    BY <1>1 DEF FrameOK, f

LEMMA DhcpFrames ==
    ASSUME NEW m, NEW f \in DhcpReplies(m)
    PROVE  FrameOK(f)
  <1> DEFINE M(type, o) == [service |-> "dhcp", type |-> type, xid |-> m.xid, config |-> o]
             d == IF m.address # Zero THEN m.address ELSE Broadcast
             nak(o) == [NoConfig EXCEPT !.server = o.server]
  <1>1. \/ \E o \in Offers : \E type \in {"OFFER", "ACK"} : f = DhcpReply(m, type, o)
        \/ \E o \in Offers : f = DhcpReply(m, "NAK", nak(o))
    BY DEF DhcpReplies
  <1>2. ASSUME NEW type, NEW o, type = "NAK" \/ o \in Offers
        PROVE  FrameOK(DhcpReply(m, type, o))
    <2>1. DhcpReply(m, type, o) = DatagramFrame(o.server, d, NET_DHCP_SERVER_PORT, NET_DHCP_CLIENT_PORT, M(type, o))
      BY DEF DhcpReply
    <2>2. DhcpMessageOK(M(type, o))
      BY <1>2 DEF DhcpMessageOK
    <2> HIDE DEF M, d
    <2> QED
      BY <2>1, <2>2, DatagramFrames
  <1> HIDE DEF nak
  <1> QED
    BY <1>1, <1>2

LEMMA DnsFrames ==
    ASSUME NEW m, NEW f \in DnsReplies(m)
    PROVE  FrameOK(f)
  <1> DEFINE M(r) == [service |-> "dns", id |-> m.query.id, name |-> m.query.name, reply |-> r]
  <1>1. PICK r \in Replies : f = DatagramFrame(m.server, m.client, NET_DNS_PORT, m.port, M(r))
    BY DEF DnsReplies
  <1>2. M(r).service # "dhcp"
    OBVIOUS
  <1> HIDE DEF M
  <1> QED
    BY <1>1, <1>2, DatagramFrames

LEMMA AnswersOK ==
    ASSUME NEW f \in Answers
    PROVE  FrameOK(f)
  <1>1. \/ \E m \in heard : f \in DhcpReplies(m)
        \/ \E m \in heard : f \in DnsReplies(m)
        \/ \E a \in Neighbour : \E mac \in MacsOf[a] : f = ArpPacket("reply", a, mac)
    BY DEF Answers
  <1> QED
    BY <1>1, DhcpFrames, DnsFrames, ArpFrames

LEMMA StrangersOK ==
    ASSUME NEW f \in Strangers
    PROVE  FrameOK(f)
  <1> DEFINE e == [mac |-> OwnMac, type |-> "IPv4",
                   body |-> [src |-> Remote, dst |-> link.address, proto |-> "ICMP",
                             data |-> [type |-> "echo_request"]]]
             m == [service |-> "program", n |-> 0]
  <1>1. \/ \E a \in Neighbour : \E mac \in MacsOf[a] : \E op \in {"request", "reply"} : f = ArpPacket(op, a, mac)
        \/ f = e
        \/ f = DatagramFrame(Remote, link.address, ProgramPort, ProgramPort, m)
    BY DEF Strangers
  <1>2. FrameOK(e)
    <2>1. Destination(Remote)
      BY DEF Destination, Peers
    <2>2. e.type = "IPv4" /\ e.body.proto = "ICMP" /\ e.body.src = Remote
      OBVIOUS
    <2> HIDE DEF e
    <2> QED
      BY <2>1, <2>2 DEF FrameOK
  <1>3. m.service # "dhcp"
    OBVIOUS
  <1> HIDE DEF e, m
  <1> QED
    BY <1>1, <1>2, <1>3, ArpFrames, DatagramFrames

\* What a frame tells does not depend on the driver.
LEMMA ToldIs ==
    ASSUME NEW k, k.address = link.address, k.arp = link.arp, NEW f
    PROVE  Told(f) = ToldIn(k, f, latest)
  <1>1. ArpAccepted(k, f.body) <=> ArpAccepted(link, f.body)
    BY DEF ArpAccepted, find_entry
  <1> QED
    BY <1>1 DEF Told, ToldIn, ToldBy

\* A step that numbers no query and no datagram.
LEMMA PollBecomes ==
    ASSUME StackInvariant, NEW kinds \in SUBSET {"stranger", "fault"}, Uses(kinds), lag' = 0,
           NEW s, NEW told, Sound(s, told, carried), LeasedOK(s), Becomes(s, told),
           QueriesOK(dns, answers, used["query"]) => QueriesOK(s.dns, s.answers, used["query"]),
           \A n \in Datagram : Free(link, carried, n) => Free(s.link, carried, n)
    PROVE  StackInvariant'
  <1>1. /\ used \in [Kind -> Nat] /\ QueriesOK(dns, answers, used["query"])
        /\ \A n \in Datagram : n > used["datagram"] => Free(link, carried, n)
    BY DEF StackInvariant
  <1>2. used' \in [Kind -> Nat] /\ used'["query"] = used["query"] /\ used'["datagram"] = used["datagram"]
    BY <1>1, UsedIs DEF Kind
  <1>3. lag' \in Nat
    OBVIOUS
  <1> QED
    BY <1>1, <1>2, <1>3, BecomesIs

LEMMA PollIdleStep ==
    ASSUME StackInvariant, PollIdle
    PROVE  StackInvariant'
  <1>1. PICK tx \in Room : \E s \in {net_stack_timers(Stack(tx), lag)} :
                              Uses(Fault(s)) /\ Becomes(s, latest) /\ lag' = 0
    BY DEF PollIdle
  <1> DEFINE z == Stack(tx)
             s == net_stack_timers(z, lag)
  <1>2. Uses(Fault(s)) /\ Becomes(s, latest) /\ lag' = 0
    BY <1>1
  <1>3. tx \in Nat /\ lag \in Nat /\ used \in [Kind -> Nat]
    BY RoomIs DEF StackInvariant
  <1>4. /\ Sound(z, latest, carried) /\ z.dns = dns /\ z.answers = answers
        /\ \A n \in Datagram : Free(link, carried, n) => Free(z.link, carried, n)
    BY <1>3, StackIs
  <1> HIDE DEF z
  <1>5. Orderly(z, s) /\ LeasedOK(s)
    BY <1>3, <1>4, TimersAre DEF Sound
  <1> HIDE DEF s
  <1>6. Sound(s, latest, carried) /\ \A n \in Datagram : Free(z.link, carried, n) => Free(s.link, carried, n)
    BY <1>4, <1>5, OrderlySound
  <1>7. Fault(s) \in SUBSET {"stranger", "fault"}
    BY DEF Fault
  <1>8. used["query"] \in Nat
    BY <1>3 DEF Kind
  <1>9. QueriesOK(dns, answers, used["query"]) => QueriesOK(s.dns, s.answers, used["query"])
    BY <1>4, <1>5, <1>8 DEF Orderly
  <1> QED
    BY <1>2, <1>4, <1>5, <1>6, <1>7, <1>9, PollBecomes

LEMMA PollFrameStep ==
    ASSUME StackInvariant, NEW f, FrameOK(f), NEW kinds \in SUBSET {"stranger"}, PollFrame(f, kinds)
    PROVE  StackInvariant'
  <1>1. PICK tx \in Room : \E s \in {net_stack_timers(net_ethernet_input(Stack(tx), f), lag)} :
           Uses(kinds \cup Fault(s) \cup Refusal(s)) /\ Becomes(s, Told(f)) /\ lag' = 0
    BY DEF PollFrame
  <1> DEFINE z == Stack(tx)
             e == net_ethernet_input(z, f)
             s == net_stack_timers(e, lag)
             K == kinds \cup Fault(s) \cup Refusal(s)
             t == Told(f)
  <1>2. Uses(K) /\ Becomes(s, t) /\ lag' = 0
    BY <1>1
  <1>3. tx \in Nat /\ lag \in Nat /\ used \in [Kind -> Nat] /\ Whole(latest, Neighbour)
    BY RoomIs DEF StackInvariant
  <1>4. /\ Sound(z, latest, carried) /\ z.dns = dns /\ z.answers = answers
        /\ z.link.arp = link.arp /\ z.link.address = link.address /\ z.link.out = <<>>
        /\ \A n \in Datagram : Free(link, carried, n) => Free(z.link, carried, n)
    BY <1>3, StackIs
  <1> HIDE DEF z
  <1>5. t = ToldIn(z.link, f, latest)
    BY <1>4, ToldIs
  <1> HIDE DEF t
  <1>6. /\ Sound(e, t, carried)
        /\ \A n \in Datagram : Free(z.link, carried, n) => Free(e.link, carried, n)
        /\ \A u \in Nat : QueriesOK(z.dns, z.answers, u) => QueriesOK(e.dns, e.answers, u)
    BY <1>3, <1>4, <1>5, EthernetInputIs
  <1> HIDE DEF e
  <1>7. Orderly(e, s) /\ LeasedOK(s)
    BY <1>3, <1>6, TimersAre DEF Sound
  <1> HIDE DEF s
  <1>8. Sound(s, t, carried) /\ \A n \in Datagram : Free(e.link, carried, n) => Free(s.link, carried, n)
    BY <1>6, <1>7, OrderlySound
  <1>9. K \in SUBSET {"stranger", "fault"}
    BY DEF Fault, Refusal
  <1> HIDE DEF K
  <1>10. used["query"] \in Nat
    BY <1>3 DEF Kind
  <1>11. QueriesOK(dns, answers, used["query"]) => QueriesOK(s.dns, s.answers, used["query"])
    BY <1>4, <1>6, <1>7, <1>10 DEF Orderly
  <1>12. \A n \in Datagram : Free(link, carried, n) => Free(s.link, carried, n)
    BY <1>4, <1>6, <1>8
  <1> QED
    BY <1>2, <1>7, <1>8, <1>9, <1>11, <1>12, PollBecomes

LEMMA PollStep ==
    ASSUME StackInvariant, net_stack_poll
    PROVE  StackInvariant'
  <1>1. CASE PollIdle
    BY <1>1, PollIdleStep
  <1>2. CASE PollAnswer
    <2>1. PICK f \in Answers : PollFrame(f, {})
      BY <1>2 DEF PollAnswer
    <2>2. {} \in SUBSET {"stranger"}
      OBVIOUS
    <2> QED
      BY <2>1, <2>2, AnswersOK, PollFrameStep
  <1>3. CASE PollStranger
    <2>1. PICK f \in Strangers : PollFrame(f, {"stranger"})
      BY <1>3 DEF PollStranger
    <2>2. {"stranger"} \in SUBSET {"stranger"}
      OBVIOUS
    <2> QED
      BY <2>1, <2>2, StrangersOK, PollFrameStep
  <1> QED
    BY <1>1, <1>2, <1>3 DEF net_stack_poll

\* A call of a program that numbers no query and no datagram.
LEMMA CallBecomes ==
    ASSUME StackInvariant, NEW kind \in {"start", "static"}, NEW s, Call(s, kind),
           Sound(s, latest, carried), LeasedOK(s),
           QueriesOK(dns, answers, used["query"]) => QueriesOK(s.dns, s.answers, used["query"]),
           \A n \in Datagram : Free(link, carried, n) => Free(s.link, carried, n)
    PROVE  StackInvariant'
  <1> DEFINE K == {kind} \cup Fault(s)
  <1>1. /\ used \in [Kind -> Nat] /\ QueriesOK(dns, answers, used["query"]) /\ lag \in Nat
        /\ \A n \in Datagram : n > used["datagram"] => Free(link, carried, n)
    BY DEF StackInvariant
  <1>2. Uses(K) /\ Becomes(s, latest) /\ lag' = lag
    BY DEF Call
  <1>3. "query" \notin K /\ "datagram" \notin K
    BY DEF Fault
  <1> HIDE DEF K
  <1>4. used' \in [Kind -> Nat] /\ used'["query"] = used["query"] /\ used'["datagram"] = used["datagram"]
    BY <1>1, <1>2, <1>3, UsedIs DEF Kind
  <1> QED
    BY <1>1, <1>2, <1>4, BecomesIs

LEMMA StartStep ==
    ASSUME StackInvariant, net_stack_start_dhcp
    PROVE  StackInvariant'
  <1>1. PICK tx \in Room : Call(net_dhcp_start(Stack(tx)), "start")
    BY DEF net_stack_start_dhcp
  <1> DEFINE z == Stack(tx)
             s == net_dhcp_start(z)
  <1>2. tx \in Nat /\ used \in [Kind -> Nat]
    BY RoomIs DEF StackInvariant
  <1>3. /\ Sound(z, latest, carried) /\ LeasedOK(z) /\ z.dns = dns /\ z.answers = answers
        /\ \A n \in Datagram : Free(link, carried, n) => Free(z.link, carried, n)
    BY <1>2, StackIs
  <1>4. Call(s, "start")
    BY <1>1
  <1> HIDE DEF z
  <1>5. DhcpServed(z, s) /\ s.dhcp.state = "SELECTING"
    BY <1>3, DhcpStartIs DEF Sound, StackOK
  <1> HIDE DEF s
  <1>6. Orderly(z, s)
    BY <1>3, <1>5, DhcpOrderly DEF Sound
  <1>7. Sound(s, latest, carried) /\ \A n \in Datagram : Free(z.link, carried, n) => Free(s.link, carried, n)
    BY <1>3, <1>6, OrderlySound
  <1>8. LeasedOK(s)
    BY <1>5 DEF LeasedOK, net_dhcp_is_configured
  <1>9. s.dns = dns /\ s.answers = answers
    BY <1>3, <1>5 DEF DhcpServed
  <1> QED
    BY <1>3, <1>4, <1>7, <1>8, <1>9, CallBecomes

LEMMA StaticStep ==
    ASSUME StackInvariant, net_stack_configure_static
    PROVE  StackInvariant'
  <1> DEFINE z == Stack(0)
  <1>1. PICK c \in StaticConfigs : Call(apply_ipv4_config(z, c, "program"), "static")
    BY DEF net_stack_configure_static
  <1> DEFINE s == apply_ipv4_config(z, c, "program")
  <1>2. 0 \in Nat /\ used \in [Kind -> Nat]
    BY DEF StackInvariant
  <1>3. /\ Sound(z, latest, carried) /\ LeasedOK(z) /\ z.dns = dns /\ z.answers = answers
        /\ \A n \in Datagram : Free(link, carried, n) => Free(z.link, carried, n)
    BY <1>2, StackIs
  <1> HIDE DEF z
  <1>4. ConfigFor(c)
    BY StaticIs
  <1>5. Orderly(z, s) /\ (s = z \/ ~s.applied.valid \/ s.origin = "program")
    BY <1>3, <1>4, ApplyIs DEF Sound
  <1>6. Call(s, "static")
    BY <1>1
  <1> HIDE DEF s
  <1>7. Sound(s, latest, carried) /\ \A n \in Datagram : Free(z.link, carried, n) => Free(s.link, carried, n)
    BY <1>3, <1>5, OrderlySound
  <1>8. LeasedOK(s)
    BY <1>3, <1>5 DEF LeasedOK
  <1>9. used["query"] \in Nat
    BY <1>2 DEF Kind
  <1>10. QueriesOK(dns, answers, used["query"]) => QueriesOK(s.dns, s.answers, used["query"])
    BY <1>3, <1>5, <1>9 DEF Orderly
  <1>11. "static" \in {"start", "static"}
    OBVIOUS
  <1> QED
    BY <1>3, <1>6, <1>7, <1>8, <1>10, <1>11, CallBecomes

LEMMA KeptLeased ==
    ASSUME NEW s, NEW r, LeasedOK(s), Kept(s, r), r.dhcp = s.dhcp
    PROVE  LeasedOK(r)
  BY DEF LeasedOK, Kept

LEMMA ResolveStep ==
    ASSUME StackInvariant, ResolveName
    PROVE  StackInvariant'
  <1> DEFINE q == used["query"]
  <1>1. PICK tx \in Room, name \in Names :
           /\ find_cache_entry(dns, name) # {} \/ FreeTransactions(Stack(tx)) # {}
           /\ Call(net_dns_resolve(Stack(tx), name, q + 1), "query")
    BY DEF ResolveName
  <1> DEFINE z == Stack(tx)
             s == net_dns_resolve(z, name, q + 1)
             K == {"query"} \cup Fault(s)
  <1>2. /\ tx \in Nat /\ used \in [Kind -> Nat] /\ lag \in Nat /\ QueriesOK(dns, answers, q)
        /\ \A n \in Datagram : n > used["datagram"] => Free(link, carried, n)
    BY RoomIs DEF StackInvariant
  <1>3. /\ Sound(z, latest, carried) /\ LeasedOK(z) /\ z.dns = dns /\ z.answers = answers
        /\ \A n \in Datagram : Free(link, carried, n) => Free(z.link, carried, n)
    BY <1>2, StackIs
  <1>4. find_cache_entry(z.dns, name) # {} \/ FreeTransactions(z) # {}
    BY <1>1, <1>3
  <1>5. Uses(K) /\ Becomes(s, latest) /\ lag' = lag
    BY <1>1 DEF Call
  <1>6. "query" \in K /\ "datagram" \notin K
    BY DEF Fault
  <1> HIDE DEF z, K
  <1>7. /\ used' \in [Kind -> Nat] /\ used'["query"] = q + 1 /\ used'["datagram"] = used["datagram"]
        /\ q < MaxOf["query"] /\ q \in Nat
    BY <1>2, <1>5, <1>6, UsedIs DEF Kind
  <1> HIDE DEF q
  <1>8. q + 1 \in Query
    <2>1. MaxOf["query"] \in Nat
      BY StackAssumption DEF Kind
    <2> QED
      BY <1>7, <2>1 DEF Query
  <1>9. DnsAsked(z, s, q)
    BY <1>3, <1>4, <1>7, <1>8, ResolveNameIs DEF Sound, StackOK
  <1> HIDE DEF s
  <1>10. StackOK(s)
    <2>1. AppliedOK(s)
      BY <1>3, <1>9, KeptApplied DEF DnsAsked, Sound, StackOK
    <2> QED
      BY <1>3, <1>9, <2>1, KeptOK DEF DnsAsked, Sound, StackOK
  <1>11. LeasedOK(s)
    BY <1>3, <1>9, KeptLeased DEF DnsAsked
  <1>12. /\ Sound(s, latest, carried)
         /\ \A n \in Datagram : Free(z.link, carried, n) => Free(s.link, carried, n)
    BY <1>3, <1>9, <1>10 DEF DnsAsked, Fine, FineBut, Sound
  <1>13. QueriesOK(s.dns, s.answers, used'["query"])
    BY <1>2, <1>3, <1>7, <1>9 DEF DnsAsked
  <1>14. \A n \in Datagram : n > used'["datagram"] => Free(s.link, carried, n)
    BY <1>2, <1>3, <1>7, <1>12
  <1>15. lag' \in Nat
    BY <1>2, <1>5
  <1> QED
    BY <1>5, <1>7, <1>11, <1>12, <1>13, <1>14, <1>15, BecomesIs

\* A datagram that a program sends is a new one.
LEMMA ProgramSendFine ==
    ASSUME NEW s, LinkAndUdpOK(s), NEW x \in Endpoint, NEW dst, Destination(dst), NEW dport,
           NEW n \in Datagram
    PROVE  FineBut(s.link, net_udp_sendto(s, x, dst, dport, [service |-> "program", n |-> n]).link, {n})
  <1> DEFINE m == [service |-> "program", n |-> n]
             r == net_udp_sendto(s, x, dst, dport, m)
             D(sport) == [sport |-> sport, dport |-> dport, message |-> m]
  <1>1. SentOver(s.link, r.link, dst, dport, m)
    BY SendToIs
  <1>2. m.service = "program" /\ m.n = n
    OBVIOUS
  <1> HIDE DEF r, m
  <1>3. ASSUME NEW src, NEW sport
        PROVE  FineBut(s.link, net_ipv4_send(s.link, src, dst, "UDP", D(sport)), {n})
    <2> DEFINE p == Ipv4(s.link, src, dst, "UDP", D(sport))
    <2>1. p.proto = "UDP" /\ p.data.message = m
      BY DEF Ipv4
    <2>2. Carried(p) = {n}
      <3> HIDE DEF p
      <3> QED
        BY <1>2, <2>1 DEF Carried, PacketCarries
    <2> HIDE DEF D
    <2>3. FineBut(s.link, net_ipv4_send(s.link, src, dst, "UDP", D(sport)), Carried(p))
      BY Ipv4SendFine DEF LinkAndUdpOK
    <2> QED
      BY <2>2, <2>3
  <1>4. FineBut(s.link, s.link, {n})
    BY DEF FineBut
  <1> QED
    BY <1>1, <1>3, <1>4 DEF SentOver, r, m

LEMMA UdpSendStep ==
    ASSUME StackInvariant, UdpSend
    PROVE  StackInvariant'
  <1> DEFINE d == used["datagram"]
             m == [service |-> "program", n |-> d + 1]
  <1>1. PICK tx \in Room, x \in ProgramEndpoint, dst \in Neighbour \cup {Remote} :
           Call(net_udp_sendto(Stack(tx), x, dst, ProgramPort, m), "datagram")
    BY DEF UdpSend
  <1> DEFINE z == Stack(tx)
             s == net_udp_sendto(z, x, dst, ProgramPort, m)
             K == {"datagram"} \cup Fault(s)
  <1>2. /\ tx \in Nat /\ used \in [Kind -> Nat] /\ lag \in Nat /\ QueriesOK(dns, answers, used["query"])
        /\ \A n \in Datagram : n > d => Free(link, carried, n)
    BY RoomIs DEF StackInvariant
  <1>3. /\ Sound(z, latest, carried) /\ LeasedOK(z) /\ z.dns = dns /\ z.answers = answers
        /\ \A n \in Datagram : Free(link, carried, n) => Free(z.link, carried, n)
    BY <1>2, StackIs
  <1>4. Uses(K) /\ Becomes(s, latest) /\ lag' = lag
    BY <1>1 DEF Call
  <1>5. "datagram" \in K /\ "query" \notin K
    BY DEF Fault
  <1> HIDE DEF z, K
  <1>6. /\ used' \in [Kind -> Nat] /\ used'["query"] = used["query"] /\ used'["datagram"] = d + 1
        /\ d < MaxOf["datagram"] /\ d \in Nat
    BY <1>2, <1>4, <1>5, UsedIs DEF Kind
  <1> HIDE DEF d
  <1>7. d + 1 \in Datagram
    <2>1. MaxOf["datagram"] \in Nat
      BY StackAssumption DEF Kind
    <2> QED
      BY <1>6, <2>1 DEF Datagram
  <1>8. x \in Endpoint /\ Destination(dst)
    <2>1. Destination(dst)
      BY DEF Destination, Peers
    <2>2. x \in Endpoint
      BY ServicesAssumption DEF ProgramEndpoint, Endpoint
    <2> QED
      BY <2>1, <2>2
  <1>9. LinkAndUdpOK(z) /\ StackOK(z) /\ FlightOK(z.link, latest, carried)
    BY <1>3 DEF Sound, StackOK
  <1>10. FineBut(z.link, s.link, {d + 1})
    BY <1>7, <1>8, <1>9, ProgramSendFine
  <1>11. Kept(z, s) /\ s.dhcp = z.dhcp /\ s.dns = z.dns /\ s.answers = z.answers
    BY <1>8, <1>9, SendToIs
  <1> HIDE DEF s
  <1>12. StackOK(s)
    <2>1. AppliedOK(s)
      BY <1>9, <1>11, KeptApplied DEF StackOK
    <2> QED
      BY <1>9, <1>11, <2>1, KeptOK DEF StackOK
  <1>13. LeasedOK(s)
    BY <1>3, <1>11, KeptLeased
  <1>14. \A n \in Datagram : n > d => Free(z.link, carried, n)
    BY <1>2, <1>3
  <1>15. Free(z.link, carried, d + 1)
    BY <1>6, <1>7, <1>14
  <1>16. /\ FlightOK(s.link, latest, carried)
         /\ \A n \in Datagram \ {d + 1} : Free(z.link, carried, n) => Free(s.link, carried, n)
    BY <1>9, <1>10, <1>15 DEF FineBut
  <1>17. \A n \in Datagram : n > used'["datagram"] => Free(s.link, carried, n)
    <2> SUFFICES ASSUME NEW n \in Datagram, n > d + 1 PROVE Free(s.link, carried, n)
      BY <1>6
    <2>1. n # d + 1 /\ n > d
      BY <1>6, StackAssumption DEF Datagram
    <2> QED
      BY <1>14, <1>16, <2>1
  <1>18. Sound(s, latest, carried)
    BY <1>12, <1>16 DEF Sound
  <1>19. lag' \in Nat /\ QueriesOK(s.dns, s.answers, used'["query"])
    BY <1>2, <1>3, <1>4, <1>6, <1>11
  <1> QED
    BY <1>4, <1>6, <1>13, <1>17, <1>18, <1>19, BecomesIs

\* A step beside the lower half and the configuration.
LEMMA BesideIs ==
    ASSUME StackInvariant,
           UNCHANGED <<link, applied, backend, answers, latest, carried, strayed, origin>>,
           lag' \in Nat, used' \in [Kind -> Nat],
           used'["query"] = used["query"], used'["datagram"] = used["datagram"],
           UdpOK(udp'), udp'.local = udp.local,
           DhcpOK(dhcp'), dhcp'.state = dhcp.state, dhcp'.config = dhcp.config,
           DnsOK(dns'), dns'.local = dns.local, dns'.server = dns.server,
           \A i \in Transaction : \A q \in Query : AsksFor(dns', i, q) <=> AsksFor(dns, i, q)
    PROVE  StackInvariant'
  <1> DEFINE z == Stack(0)
             r == [link |-> [link EXCEPT !.tx = 0], udp |-> udp', dhcp |-> dhcp', dns |-> dns', applied |-> applied,
                   backend |-> backend, answers |-> answers, origin |-> origin]
  <1>1. /\ z.link = [link EXCEPT !.tx = 0] /\ z.udp = udp /\ z.dhcp = dhcp /\ z.dns = dns
        /\ z.applied = applied /\ z.backend = backend /\ z.answers = answers /\ z.origin = origin
    BY DEF Stack
  <1>2. /\ r.link = [link EXCEPT !.tx = 0] /\ r.udp = udp' /\ r.dhcp = dhcp' /\ r.dns = dns'
        /\ r.applied = applied /\ r.backend = backend /\ r.answers = answers /\ r.origin = origin
        /\ Whole(r, StackFields)
    BY DEF Whole, StackFields
  <1>3. Stack(0)' = r
    BY DEF Stack
  <1> HIDE DEF z, r
  <1>4. StackOK(z) /\ LeasedOK(z)
    BY DEF StackInvariant, z
  <1>5. StackOK(r)
    BY <1>1, <1>2, <1>4 DEF StackOK, LinkAndUdpOK, AppliedOK
  <1>6. LeasedOK(r)
    BY <1>1, <1>2, <1>4 DEF LeasedOK, net_dhcp_is_configured
  <1>7. QueriesOK(dns', answers', used'["query"])
    BY QueriesAlike DEF StackInvariant
  <1>8. StackOK(Stack(0))' /\ LeasedOK(Stack(0))'
    BY <1>3, <1>5, <1>6
  <1> QED
    BY <1>7, <1>8 DEF StackInvariant

LEMMA PartsOK ==
    ASSUME StackInvariant
    PROVE  UdpOK(udp) /\ DhcpOK(dhcp) /\ DnsOK(dns) /\ used \in [Kind -> Nat] /\ lag \in Nat
  <1>1. StackOK(Stack(0)) /\ Stack(0).udp = udp /\ Stack(0).dhcp = dhcp /\ Stack(0).dns = dns
    BY DEF StackInvariant, Stack
  <1> QED
    BY <1>1 DEF StackInvariant, StackOK, LinkAndUdpOK

LEMMA PassStep ==
    ASSUME StackInvariant, Pass
    PROVE  StackInvariant'
  <1>1. UdpOK(udp) /\ DhcpOK(dhcp) /\ DnsOK(dns) /\ used \in [Kind -> Nat] /\ lag \in Nat
    BY PartsOK
  <1>2. /\ lag' = lag + 1 /\ dhcp' = DhcpTick(dhcp) /\ dns' = DnsTick(dns)
        /\ UNCHANGED <<link, udp, applied, backend, answers, latest, carried, strayed, origin, used>>
    BY DEF Pass
  <1>3. DhcpOK(dhcp') /\ dhcp'.state = dhcp.state /\ dhcp'.config = dhcp.config
    BY <1>1, <1>2, DhcpTickIs
  <1>4. /\ DnsOK(dns') /\ dns'.local = dns.local /\ dns'.server = dns.server
        /\ \A i \in Transaction : \A q \in Query : AsksFor(dns', i, q) <=> AsksFor(dns, i, q)
    BY <1>1, <1>2, DnsTickIs
  <1> QED
    BY <1>1, <1>2, <1>3, <1>4, BesideIs

LEMMA EndpointBecomes ==
    ASSUME StackInvariant, NEW u, UdpOK(u), u.local = udp.local,
           NEW kinds \in SUBSET {"socket"}, EndpointStep(u, kinds)
    PROVE  StackInvariant'
  <1>1. UdpOK(udp) /\ DhcpOK(dhcp) /\ DnsOK(dns) /\ used \in [Kind -> Nat] /\ lag \in Nat
    BY PartsOK
  <1>2. /\ Uses(kinds) /\ udp' = u
        /\ UNCHANGED <<link, dhcp, dns, applied, backend, lag, answers, latest, carried, strayed, origin>>
    BY DEF EndpointStep
  <1>3. used' \in [Kind -> Nat] /\ used'["query"] = used["query"] /\ used'["datagram"] = used["datagram"]
    BY <1>1, <1>2, UsedIs DEF Kind
  <1> QED
    BY <1>1, <1>2, <1>3, BesideIs

LEMMA UdpOpenStep ==
    ASSUME StackInvariant, UdpOpen
    PROVE  StackInvariant'
  <1> DEFINE new == [Inactive EXCEPT !.active = TRUE]
  <1>1. PICK x \in ProgramEndpoint : EndpointStep([udp EXCEPT !.endpoint[x] = new], {"socket"})
    BY DEF UdpOpen
  <1>2. EndpointOK(new) /\ UdpOK(udp)
    BY NewEndpointsOK, PartsOK
  <1> HIDE DEF new
  <1>3. x \in Endpoint
    BY ServicesAssumption DEF ProgramEndpoint, Endpoint
  <1> DEFINE u == [udp EXCEPT !.endpoint[x] = new]
  <1>4. UdpOK(u) /\ u.local = udp.local /\ EndpointStep(u, {"socket"})
    BY <1>1, <1>2, <1>3, SetEndpoint
  <1> HIDE DEF u
  <1>5. {"socket"} \in SUBSET {"socket"}
    OBVIOUS
  <1> QED
    BY <1>4, <1>5, EndpointBecomes

LEMMA UdpBindStep ==
    ASSUME StackInvariant, UdpBind
    PROVE  StackInvariant'
  <1>1. PICK x \in ProgramEndpoint : EndpointStep(net_udp_bind(udp, x, backend, ProgramPort), {})
    BY DEF UdpBind
  <1>2. x \in Endpoint
    BY ServicesAssumption DEF ProgramEndpoint, Endpoint
  <1> DEFINE u == net_udp_bind(udp, x, backend, ProgramPort)
  <1>3. UdpOK(u) /\ u.local = udp.local /\ EndpointStep(u, {})
    BY <1>1, <1>2, BindIs, PartsOK
  <1> HIDE DEF u
  <1>4. {} \in SUBSET {"socket"}
    OBVIOUS
  <1> QED
    BY <1>3, <1>4, EndpointBecomes

LEMMA UdpRecvStep ==
    ASSUME StackInvariant, UdpRecv
    PROVE  StackInvariant'
  <1>1. PICK x \in ProgramEndpoint :
           /\ udp.endpoint[x].queue # <<>>
           /\ EndpointStep([udp EXCEPT !.endpoint[x].queue = Tail(@)], {})
    BY DEF UdpRecv
  <1>2. x \in Endpoint /\ UdpOK(udp)
    BY PartsOK, ServicesAssumption DEF ProgramEndpoint, Endpoint
  <1> DEFINE e == udp.endpoint[x]
             f == [e EXCEPT !.queue = Tail(e.queue)]
             u == [udp EXCEPT !.endpoint[x] = f]
  <1>3. EndpointOK(e) /\ e.queue # <<>>
    BY <1>1, <1>2 DEF UdpOK
  <1>4. [udp EXCEPT !.endpoint[x].queue = Tail(@)] = u
    BY <1>2 DEF UdpOK
  <1> HIDE DEF e
  <1>5. EndpointOK(f)
    <2>1. IsSeq(Tail(e.queue)) /\ Len(Tail(e.queue)) = Len(e.queue) - 1 /\ Len(e.queue) \in Nat
      BY <1>3, TailIs DEF EndpointOK
    <2>2. Whole(f, EndpointFields) /\ f.queue = Tail(e.queue)
      BY <1>3 DEF EndpointOK, Whole, EndpointFields
    <2> HIDE DEF f
    <2>3. Len(f.queue) <= NET_UDP_QUEUE_DEPTH
      BY <1>3, <2>1, <2>2, ServicesAssumption DEF EndpointOK
    <2> QED
      BY <2>1, <2>2, <2>3 DEF EndpointOK
  <1> HIDE DEF f
  <1>6. UdpOK(u) /\ u.local = udp.local
    BY <1>2, <1>5, SetEndpoint
  <1>7. EndpointStep(u, {})
    BY <1>1, <1>4
  <1> HIDE DEF u
  <1>8. {} \in SUBSET {"socket"}
    OBVIOUS
  <1> QED
    BY <1>6, <1>7, <1>8, EndpointBecomes

LEMMA UdpCloseStep ==
    ASSUME StackInvariant, UdpClose
    PROVE  StackInvariant'
  <1>1. PICK x \in ProgramEndpoint : EndpointStep([udp EXCEPT !.endpoint[x] = Inactive], {})
    BY DEF UdpClose
  <1>2. x \in Endpoint
    BY ServicesAssumption DEF ProgramEndpoint, Endpoint
  <1> DEFINE u == [udp EXCEPT !.endpoint[x] = Inactive]
  <1>3. UdpOK(u) /\ u.local = udp.local /\ EndpointStep(u, {})
    BY <1>1, <1>2, NewEndpointsOK, PartsOK, SetEndpoint
  <1> HIDE DEF u
  <1>4. {} \in SUBSET {"socket"}
    OBVIOUS
  <1> QED
    BY <1>3, <1>4, EndpointBecomes

LEMMA NextInvariant == StackInvariant /\ [Next]_vars => StackInvariant'
  <1> SUFFICES ASSUME StackInvariant, [Next]_vars PROVE StackInvariant'
    OBVIOUS
  <1>1. CASE UNCHANGED vars
    <2>1. Stack(0)' = Stack(0)
      BY <1>1 DEF vars, Stack
    <2> QED
      BY <1>1, <2>1 DEF StackInvariant, vars
  <1>2. CASE Pass
    BY <1>2, PassStep
  <1>3. CASE net_stack_poll
    BY <1>3, PollStep
  <1>4. CASE net_stack_start_dhcp
    BY <1>4, StartStep
  <1>5. CASE net_stack_configure_static
    BY <1>5, StaticStep
  <1>6. CASE ResolveName
    BY <1>6, ResolveStep
  <1>7. CASE UdpOpen
    BY <1>7, UdpOpenStep
  <1>8. CASE UdpBind
    BY <1>8, UdpBindStep
  <1>9. CASE UdpSend
    BY <1>9, UdpSendStep
  <1>10. CASE UdpRecv
    BY <1>10, UdpRecvStep
  <1>11. CASE UdpClose
    BY <1>11, UdpCloseStep
  <1> QED
    BY <1>1, <1>2, <1>3, <1>4, <1>5, <1>6, <1>7, <1>8, <1>9, <1>10, <1>11 DEF Next

----------------------------------------------------------------------------
\* What the invariant says.

LEMMA InvariantTypes == StackInvariant => TypeOK
  <1> SUFFICES ASSUME StackInvariant PROVE TypeOK
    OBVIOUS
  <1> DEFINE z == Stack(0)
  <1>1. z.link = link /\ StackOK(z)
    BY DEF StackInvariant, Stack, Whole, LinkFields
  <1> HIDE DEF z
  <1>2. LinkOK(link)
    BY <1>1 DEF StackOK, LinkAndUdpOK
  <1>3. UdpOK(udp) /\ DhcpOK(dhcp) /\ DnsOK(dns)
    BY PartsOK
  <1>4. /\ \A x \in ArpSlot : EntryOK(link.arp[x])
        /\ \A x \in PendingSlot : WaitOK(link.pending[x])
    BY <1>2 DEF LinkOK, CacheOK, QueueOK
  <1>5. \A x \in Endpoint : Len(udp.endpoint[x].queue) <= NET_UDP_QUEUE_DEPTH
    BY <1>3 DEF UdpOK, EndpointOK
  <1>6. \A i \in Transaction : dns.transaction[i].attempts \in 0..NET_DNS_MAX_RETRIES
    BY <1>3 DEF DnsOK, TransactionOK
  <1>7. /\ dhcp.state \in {"INIT", "SELECTING", "REQUESTING", "BOUND", "RENEWING", "REBINDING", "EXPIRED"}
        /\ dhcp.config \in Config /\ dhcp.offer \in Config
        /\ dhcp.interval \in 1..NET_DHCP_MAX_RETRY /\ dhcp.retry \in 0..NET_DHCP_MAX_RETRY
        /\ net_dhcp_is_configured(dhcp) => LeaseOK(dhcp)
    BY <1>3 DEF DhcpOK, Given
  <1> QED
    BY <1>4, <1>5, <1>6, <1>7 DEF TypeOK, EntryOK, WaitOK, LeaseOK

LEMMA InvariantCoherent == StackInvariant => ConfigurationCoherent
  <1> SUFFICES ASSUME StackInvariant PROVE ConfigurationCoherent
    OBVIOUS
  <1> DEFINE z == Stack(0)
  <1>1. /\ z.link = link /\ z.udp = udp /\ z.dhcp = dhcp /\ z.dns = dns /\ z.applied = applied
        /\ z.backend = backend /\ z.origin = origin /\ StackOK(z) /\ LeasedOK(z)
    BY DEF StackInvariant, Stack, Whole, LinkFields
  <1> HIDE DEF z
  <1>2. RoutesOK(link) /\ ResolvesOn(link)
    BY <1>1 DEF StackOK, LinkAndUdpOK, LinkOK
  <1>3. /\ udp.local = backend /\ dns.local = backend
        /\ applied.valid <=> origin \in {"dhcp", "program"}
        /\ origin = "none" => backend = Zero /\ dns.server = Zero
        /\ applied.valid =>
              /\ link.address = applied.address /\ link.gateway = applied.gateway
              /\ backend = applied.address /\ dns.server = applied.dns
              /\ applied.address # Zero
        /\ ~applied.valid => link.address = Zero
    BY <1>1 DEF StackOK, AppliedOK
  <1>4. PartsAgree
    <2>1. CASE ~applied.valid
      BY <1>2, <1>3, <2>1 DEF PartsAgree, RoutesOK
    <2>2. CASE applied.valid
      <3>1. /\ Network(link.address) # Zero
            /\ \A r \in link.routes :
                  \/ r.network = Network(link.address) /\ r.gateway = Zero
                  \/ r.network = Zero /\ r.gateway = link.gateway /\ link.gateway # Zero
            /\ \E r \in link.routes : r.network = Network(link.address)
            /\ link.gateway # Zero => \E r \in link.routes : r.network = Zero
        BY <1>2, <1>3, <2>2 DEF RoutesOK
      <3>2. {r.network : r \in link.routes} =
                {Network(link.address)} \cup (IF link.gateway = Zero THEN {} ELSE {Zero})
        BY <3>1
      <3>3. \A r \in link.routes : r.gateway = IF r.network = Zero THEN link.gateway ELSE Zero
        BY <3>1
      <3> QED
        BY <1>3, <2>2, <3>2, <3>3 DEF PartsAgree
    <2> QED
      BY <2>1, <2>2
  <1>5. ResolvesOnLink
    BY <1>2 DEF ResolvesOnLink, ResolvesOn
  <1>6. AddressLeased
    BY <1>1 DEF AddressLeased, LeasedOK
  <1> QED
    BY <1>4, <1>5, <1>6 DEF ConfigurationCoherent

\* A set whose members are all equal has none or one.
LEMMA AtMostOne ==
    ASSUME NEW X, \A x, y \in X : x = y
    PROVE  Cardinality(X) = IF X = {} THEN 0 ELSE 1
  <1>1. CASE X = {}
    BY <1>1, FS_EmptySet
  <1>2. CASE X # {}
    <2>1. PICK x : X = {x}
      BY <1>2
    <2>2. Cardinality({x}) = 1
      BY FS_Singleton
    <2> QED
      BY <1>2, <2>1, <2>2
  <1> QED
    BY <1>1, <1>2

LEMMA InvariantOnce == StackInvariant => DeliveredOnce
  <1> SUFFICES ASSUME StackInvariant PROVE DeliveredOnce
    OBVIOUS
  <1>1. ASSUME NEW n \in Datagram PROVE carried[n] + Cardinality(Waiting(n)) <= 1
    <2>1. OnceOK(link, carried, n)
      BY DEF StackInvariant, FlightOK
    <2>2. \A x \in PendingSlot : x \in Waiting(n) <=> Holds(link, x, n)
      BY DEF Waiting, Holds, Carries, PacketCarries
    <2>3. Waiting(n) \subseteq PendingSlot
      BY DEF Waiting
    <2>4. \A x, y \in Waiting(n) : x = y
      BY <2>1, <2>2, <2>3 DEF OnceOK
    <2>5. Cardinality(Waiting(n)) = IF Waiting(n) = {} THEN 0 ELSE 1
      BY <2>4, AtMostOne
    <2>6. carried[n] = 1 => Waiting(n) = {}
      BY <2>1, <2>2, <2>3 DEF OnceOK
    <2> QED
      BY <2>1, <2>5, <2>6 DEF OnceOK
  <1>2. DatagramsOnce
    BY <1>1 DEF StackInvariant, DatagramsOnce
  <1>3. ASSUME NEW q \in Query
        PROVE  Len(answers[q]) + Cardinality(Outstanding(q)) = IF q <= used["query"] THEN 1 ELSE 0
    <2>1. QueriesOK(dns, answers, used["query"])
      BY DEF StackInvariant
    <2>2. \A i \in Transaction : i \in Outstanding(q) <=> AsksFor(dns, i, q)
      BY DEF Outstanding, AsksFor
    <2>3. Outstanding(q) \subseteq Transaction
      BY DEF Outstanding
    <2>4. \A i, j \in Outstanding(q) : i = j
      BY <2>1, <2>2, <2>3 DEF QueriesOK
    <2>5. Cardinality(Outstanding(q)) = IF Outstanding(q) = {} THEN 0 ELSE 1
      BY <2>4, AtMostOne
    <2>6. Asking(dns, q) <=> Outstanding(q) # {}
      BY <2>2, <2>3 DEF Asking
    <2>7. IF q <= used["query"]
          THEN (Asking(dns, q) /\ Len(answers[q]) = 0) \/ (~Asking(dns, q) /\ Len(answers[q]) = 1)
          ELSE ~Asking(dns, q) /\ Len(answers[q]) = 0
      BY <2>1 DEF QueriesOK
    <2> DEFINE C == Cardinality(Outstanding(q))
               L == Len(answers[q])
               mine == q <= used["query"]
    <2>8. (Asking(dns, q) => C = 1) /\ (~Asking(dns, q) => C = 0)
      BY <2>5, <2>6
    <2>9. mine => (L = 0 /\ C = 1) \/ (L = 1 /\ C = 0)
      BY <2>7, <2>8
    <2>10. ~mine => L = 0 /\ C = 0
      BY <2>7, <2>8
    <2> HIDE DEF C, L, mine
    <2>11. L + C = IF mine THEN 1 ELSE 0
      BY <2>9, <2>10
    <2> QED
      BY <2>11 DEF C, L, mine
  <1>4. QueriesOnce
    BY <1>3 DEF QueriesOnce
  <1> QED
    BY <1>2, <1>4 DEF DeliveredOnce

----------------------------------------------------------------------------
\* The theorems.

\* Between two calls the network stack is in the inductive invariant: its tables are
\* within their sizes and times, its parts have one configuration, and each query and
\* each datagram is in one place (net_stack.c, and what it calls).
THEOREM StackInvariantHolds == Spec => []StackInvariant
  <1>1. Init => StackInvariant
    BY InitInvariant
  <1>2. StackInvariant /\ [Next]_vars => StackInvariant'
    BY NextInvariant
  <1> QED
    BY <1>1, <1>2, PTL DEF Spec

\* Whatever the capacities and times of the tables, the number of hosts and leases and
\* the bounds of the run: no entry of the ARP cache or of the packet queue outlives its
\* time, no endpoint holds more than its queue, a lease that is in force has
\* T1 < T2 < expiry, and a query is sent no oftener than NET_DNS_MAX_RETRIES.
THEOREM StackTypeCorrect == Spec => []TypeOK
  <1>1. StackInvariant => TypeOK
    BY InvariantTypes
  <1> QED
    BY <1>1, StackInvariantHolds, PTL

\* However leases are granted, changed, refused and run out and programs configure the
\* stack in between, the device, the routes, UDP, DNS and the sockets keep to one
\* configuration, no route of an earlier one is left, addresses are resolved only on the
\* link, and an address from DHCP is that of the lease and goes with it
\* (apply_ipv4_config, clear_ipv4_config, synchronize_dhcp_config).
THEOREM StackConfigurationCoherent == Spec => []ConfigurationCoherent
  <1>1. StackInvariant => ConfigurationCoherent
    BY InvariantCoherent
  <1> QED
    BY <1>1, StackInvariantHolds, PTL

\* Whatever the network repeats, delays or loses: a datagram that a program sends is
\* transmitted or waits at most once, every frame goes to the hardware address that its
\* next hop told last, and a DNS query that was accepted is asked by one transaction or
\* has exactly one result (net_ipv4_send, net_ipv4_notify_arp_resolved, net_dns_poll,
\* net_dns_receive).
THEOREM StackDeliversOnce == Spec => []DeliveredOnce
  <1>1. StackInvariant => DeliveredOnce
    BY InvariantOnce
  <1> QED
    BY <1>1, StackInvariantHolds, PTL
====
