---------------------------- MODULE Kernel_proofs ----------------------------
(***************************************************************************)
(* Proofs of the invariants of Kernel for any number of processes, pipes   *)
(* and bytes: processes, pipes and scheduler never disagree, and no wakeup *)
(* is lost.                                                                *)
(***************************************************************************)
EXTENDS Kernel, SchedRR_proofs

Runnable == {"READY", "RUNNING"}

\* The scheduler between two steps: somebody runs, with preemption enabled.
SchedOK(s) ==
    Good(s, {}) /\ Timely(s) /\ s.depth = 0 /\ Runs(s)

\* The thread of a process is a thread of the scheduler while it is alive.
ThreadsInv ==
    \A p \in Pid : /\ proc[p] = "FREE" <=> sched.st[p] = "EMBRYO"
                   /\ proc[p] = "ZOMBIE" <=> sched.st[p] = "ZOMBIE"

\* What blocked process p waits for has not happened.
Waits(p) ==
    \/ /\ call[p].op = "read"
       /\ pipe[call[p].pipe].used = 0 /\ pipe[call[p].pipe].writers # 0
       /\ sched.wait[p] = <<"PIPE_READ", call[p].pipe>>
    \/ /\ call[p].op = "write"
       /\ pipe[call[p].pipe].readers # 0
       /\ Capacity - pipe[call[p].pipe].used < Least(call[p].count, NS_PIPE_ATOMIC_MAX)
       /\ sched.wait[p] = <<"PIPE_WRITE", call[p].pipe>>
    \/ /\ call[p].op = "wait"
       /\ \A z \in Matches(p, call[p].pid) \ stale : proc[z] = "ALIVE"

\* A call in progress holds the pipe end it works on.
CallOK(p) ==
    /\ call[p] # NoCall => sched.st[p] \in {"READY", "RUNNING", "BLOCKED"}
    /\ sched.st[p] = "BLOCKED" => Waits(p)
    /\ call[p].op = "read" => <<call[p].pipe, "r">> \in files[p]
    /\ call[p].op = "write" => <<call[p].pipe, "w">> \in files[p]

CallsInv == \A p \in Pid : CallOK(p)

Referred(e) == \E p \in Pid : e \in files[p]

PipesInv ==
    /\ \A p \in Pid : proc[p] # "ALIVE" => files[p] = {}
    /\ \A o \in Pipe :
        /\ pipe[o].readers = (IF Referred(<<o, "r">>) THEN 1 ELSE 0)
        /\ pipe[o].writers = (IF Referred(<<o, "w">>) THEN 1 ELSE 0)
        /\ pipe[o].live <=> pipe[o].readers # 0 \/ pipe[o].writers # 0

\* The lists of children and the parent links are two views of one tree, of
\* which PID 1 is the root.
TreeInv ==
    /\ \A p \in Pid : Once(children[p])
    /\ \A p, c \in Pid : c \in On(children[p]) <=> parent[c] = p
    /\ \A c \in Pid : parent[c] \in Pid => proc[c] # "FREE" /\ parent[c] # c
    /\ \A c \in Pid \ {Init1} : proc[c] # "FREE" =>
         parent[c] \in Pid /\ proc[parent[c]] = "ALIVE"
    /\ proc[Init1] = "ALIVE" /\ parent[Init1] = NoParent

KernelInv ==
    /\ TypeOK /\ SchedOK(sched)
    /\ ThreadsInv /\ CallsInv /\ PipesInv /\ TreeInv /\ StreamIntact

----------------------------------------------------------------------------
\* The scheduler functions, between two steps.

\* Thread t keeps its state, or becomes runnable, or changes places with
\* another runnable one.
Kin(s, n, t) ==
    \/ n.st[t] = s.st[t] /\ n.wait[t] = s.wait[t]
    \/ /\ s.st[t] \in {"READY", "RUNNING", "BLOCKED", "SLEEPING"}
       /\ n.st[t] \in Runnable

LEMMA KeyIs ==
    /\ \A o \in Pipe : <<"PIPE_READ", o>> \in Key /\ <<"PIPE_WRITE", o>> \in Key
    /\ \A t \in Thread : <<"CHILD", t>> \in Key
  BY KernelAssumption

LEMMA YieldOK ==
    ASSUME NEW s, SchedOK(s)
    PROVE  /\ SchedOK(ns_sched_yield(s))
           /\ \A t \in Thread : Kin(s, ns_sched_yield(s), t)
  <1> DEFINE n == Resched(s)
  <1>1. Good(n, {}) /\ Rescheduled(s, n)
    BY ReschedGood DEF SchedOK
  <1>2. ns_sched_yield(s) = n
    BY DEF ns_sched_yield
  <1> HIDE DEF n
  <1>3. Timely(n)
    BY <1>1 DEF SchedOK, Timely, Rescheduled, SameWaits
  <1>4. \A t \in Thread : Kin(s, n, t)
    BY <1>1 DEF Rescheduled, SameWaits, Kin, Runnable
  <1> QED
    BY <1>1, <1>2, <1>3, <1>4 DEF SchedOK, Rescheduled, Runs

LEMMA WakeOK ==
    ASSUME NEW s, SchedOK(s), NEW key \in Key
    PROVE  LET n == ns_sched_wake(s, key)
           IN  /\ SchedOK(n)
               /\ \A t \in Thread : Kin(s, n, t)
               /\ \A t \in Thread : n.st[t] = "BLOCKED" => n.wait[t] # key
  <1> DEFINE n == ns_sched_wake(s, key)
  <1>0. Good(s, {}) /\ Agrees(s)
    BY DEF SchedOK, Good
  <1>1. /\ Good(n, {}) /\ SameSleep(s, n) /\ SameControl(s, n)
        /\ \A t \in Thread :
             \/ n.st[t] = s.st[t] /\ n.wait[t] = s.wait[t]
             \/ t \in On(s.blocked) /\ s.wait[t] = key
                /\ n.st[t] = "READY" /\ n.wait[t] = NoKey
        /\ \A t \in On(n.blocked) : n.wait[t] # key
    BY <1>0, WakeGood
  <1> HIDE DEF n
  <1>2. \A t \in Thread : Kin(s, n, t)
    BY <1>0, <1>1 DEF Kin, Runnable, Agrees
  <1>3. \A t \in Thread : n.st[t] = "BLOCKED" => n.wait[t] # key
    BY <1>1 DEF Good, Placed
  <1>4. Timely(n) /\ n.depth = 0 /\ n.cur = s.cur
    BY <1>1 DEF SchedOK, Timely, SameSleep, SameControl
  <1>5. s.cur \in Thread => (s.st[s.cur] = "RUNNING" => n.st[s.cur] = "RUNNING")
    BY <1>0, <1>1 DEF Agrees
  <1> QED
    BY <1>1, <1>2, <1>3, <1>4, <1>5 DEF SchedOK, Runs, n

LEMMA BlockOK ==
    ASSUME NEW s, SchedOK(s), s.cur \in Thread, NEW key \in Key
    PROVE  LET n == ns_sched_block(s, key)
           IN  /\ SchedOK(n)
               /\ \A t \in Thread \ {s.cur} : Kin(s, n, t)
               /\ n.st[s.cur] = "BLOCKED" /\ n.wait[s.cur] = key
  <1>0. Good(s, {}) /\ s.st[s.cur] = "RUNNING" /\ s.depth = 0 /\ Timely(s)
    BY SchedAssumption DEF SchedOK, Runs
  <1> DEFINE m == ns_sched_prepare_block(s, key)
             n == Resched(m)
  <1>1. /\ Good(m, {}) /\ m.cur = s.cur /\ m.depth = s.depth
        /\ m.sleep = s.sleep /\ m.due = s.due
        /\ \A u \in Thread : m.st[u] = IF u = s.cur THEN "BLOCKED" ELSE s.st[u]
        /\ \A u \in Thread : m.wait[u] = IF u = s.cur THEN key ELSE s.wait[u]
    BY <1>0, PrepareGood
  <1> HIDE DEF m
  <1>2. ns_sched_block(s, key) = n
    BY <1>1 DEF ns_sched_block, ns_sched_commit_block, m
  <1>3. Good(n, {}) /\ Rescheduled(m, n)
    BY <1>0, <1>1, ReschedGood
  <1> HIDE DEF n
  <1>4. /\ SameWaits(m, n) /\ n.depth = 0
        /\ n.cur = Idle \/ (n.cur \in Thread /\ n.st[n.cur] = "RUNNING")
        /\ \A t \in Thread :
             \/ n.st[t] = m.st[t]
             \/ m.st[t] \in {"READY", "RUNNING"} /\ n.st[t] \in {"READY", "RUNNING"}
    BY <1>3 DEF Rescheduled
  <1>5. Timely(n)
    BY <1>0, <1>1, <1>4 DEF Timely, SameWaits
  <1>6. \A t \in Thread \ {s.cur} : Kin(s, n, t)
    BY <1>1, <1>4 DEF Kin, Runnable, SameWaits
  <1>7. n.st[s.cur] = "BLOCKED" /\ n.wait[s.cur] = key
    BY <1>1, <1>4 DEF SameWaits
  <1> QED
    BY <1>2, <1>3, <1>4, <1>5, <1>6, <1>7 DEF SchedOK, Runs

LEMMA SleepOK ==
    ASSUME NEW s, SchedOK(s), s.cur \in Thread, NEW d \in 1..MaxSleep
    PROVE  LET n == ns_sched_sleep_until(s, d)
           IN  /\ SchedOK(n)
               /\ \A t \in Thread \ {s.cur} : Kin(s, n, t)
               /\ n.st[s.cur] = "SLEEPING"
  <1> DEFINE n == ns_sched_sleep_until(s, d)
  <1>0. /\ Good(s, {}) /\ s.st[s.cur] = "RUNNING" /\ s.depth = 0 /\ Timely(s)
    BY SchedAssumption DEF SchedOK, Runs
  <1>1. Good(n, {}) /\ Timely(n) /\ Away(s, n, "SLEEPING")
    BY <1>0, SleepGood
  <1> HIDE DEF n
  <1> QED
    BY <1>1 DEF Away, SchedOK, Kin, Runnable, n

LEMMA TickOK ==
    ASSUME NEW s, SchedOK(s)
    PROVE  /\ SchedOK(ns_sched_tick(s))
           /\ \A t \in Thread : Kin(s, ns_sched_tick(s), t)
  <1> DEFINE n == ns_sched_tick(s)
  <1>0. s.cur # NoThread
    BY SchedAssumption DEF SchedOK, Runs
  <1>1. /\ Good(n, {}) /\ Timely(n) /\ n.wait = s.wait
        /\ \A t \in Thread :
             \/ n.st[t] = s.st[t]
             \/ /\ s.st[t] \in {"READY", "RUNNING", "SLEEPING"}
                /\ n.st[t] \in {"READY", "RUNNING"}
        /\ n.depth = 0 /\ Runs(n)
    BY <1>0, TickGood DEF SchedOK
  <1> HIDE DEF n
  <1> QED
    BY <1>1 DEF SchedOK, Kin, Runnable, n

LEMMA AddOK ==
    ASSUME NEW s, SchedOK(s), NEW t \in Thread, s.st[t] = "EMBRYO"
    PROVE  LET n == ns_sched_add(s, t)
           IN  /\ SchedOK(n) /\ n.cur = s.cur
               /\ \A u \in Thread \ {t} : Kin(s, n, u)
               /\ n.st[t] = "READY"
  <1> DEFINE n == ns_sched_add(s, t)
  <1>0. Good(s, {}) /\ s \in SchedState /\ Agrees(s)
    BY DEF SchedOK, Good
  <1>1. MayAdd(s, t)
    BY <1>0 DEF Agrees, MayAdd, Listed, On
  <1>2. /\ Good(n, {} \ {t})
        /\ n.cur = s.cur /\ n.depth = s.depth
        /\ n.due = s.due /\ n.sleep = Without(s.sleep, t)
        /\ \A u \in Thread : n.st[u] = IF u = t THEN "READY" ELSE s.st[u]
        /\ \A u \in Thread : u # t => n.wait[u] = s.wait[u]
    BY <1>0, <1>1, AddGood
  <1> HIDE DEF n
  <1>3. {} \ {t} = {}
    OBVIOUS
  <1>4. Timely(n)
    BY <1>0, <1>2, TimelyWithout DEF SchedOK, Good
  <1>5. Runs(n)
    BY <1>2 DEF SchedOK, Runs
  <1> QED
    BY <1>2, <1>3, <1>4, <1>5 DEF SchedOK, Kin, n

\* ns_proc_reap: the thread of a zombie is free again.
LEMMA ReapOK ==
    ASSUME NEW s, SchedOK(s), NEW t \in Thread, s.st[t] = "ZOMBIE"
    PROVE  LET n == [s EXCEPT !.st[t] = "EMBRYO", !.left[t] = Quantum]
           IN  /\ SchedOK(n) /\ n.cur = s.cur
               /\ \A u \in Thread \ {t} : Kin(s, n, u)
               /\ n.st[t] = "EMBRYO"
  <1> DEFINE m == [s EXCEPT !.st[t] = "EMBRYO"]
             n == [s EXCEPT !.st[t] = "EMBRYO", !.left[t] = Quantum]
  <1>0. Good(s, {}) /\ s \in SchedState /\ "EMBRYO" \in Quiet /\ "ZOMBIE" \in Quiet
    BY DEF SchedOK, Good, Quiet
  <1>1. /\ Good(m, {}) /\ SameWaits(s, m) /\ SameControl(s, m)
        /\ m.ready = s.ready
        /\ \A u \in Thread : m.st[u] = IF u = t THEN "EMBRYO" ELSE s.st[u]
    BY <1>0, QuietGood
  <1>2. m \in SchedState /\ n = [m EXCEPT !.left = [m.left EXCEPT ![t] = Quantum]]
    BY <1>0, <1>1 DEF SchedState, Good
  <1> HIDE DEF m
  <1>3. [m.left EXCEPT ![t] = Quantum] \in [Task -> 0..Quantum]
    BY <1>2, StateIs, SchedAssumption
  <1>4. /\ n \in SchedState /\ SameWaits(m, n) /\ n.cur = m.cur /\ n.depth = m.depth
        /\ n.ready = m.ready /\ n.st = m.st
    BY <1>2, <1>3 DEF SchedState, SameWaits
  <1> HIDE DEF n
  <1>5. Good(n, {})
    BY <1>1, <1>4, GoodSame DEF SameWaits
  <1>6. Timely(n) /\ n.depth = 0 /\ n.cur = s.cur
    BY <1>1, <1>4 DEF SchedOK, Timely, SameWaits, SameControl
  <1>7. \A u \in Thread : n.st[u] = IF u = t THEN "EMBRYO" ELSE s.st[u]
    BY <1>1, <1>4
  <1>8. Runs(n)
    BY <1>6, <1>7 DEF SchedOK, Runs
  <1> QED
    BY <1>1, <1>4, <1>5, <1>6, <1>7, <1>8 DEF SchedOK, Kin, SameWaits, n

----------------------------------------------------------------------------
\* The wakes of an exit, one end after the other.

\* What a close of the end e wakes.
PeerKey(e) == IF e[2] = "w" THEN <<"PIPE_READ", e[1]>> ELSE <<"PIPE_WRITE", e[1]>>

\* n is s with the threads that waited for one of K made ready.
Roused(s, n, K) ==
    /\ Good(n, {}) /\ SameSleep(s, n) /\ SameControl(s, n)
    /\ \A t \in Thread : \/ n.st[t] = s.st[t] /\ n.wait[t] = s.wait[t]
                         \/ s.st[t] = "BLOCKED" /\ n.st[t] = "READY"
    /\ \A t \in Thread : n.st[t] = "BLOCKED" => n.wait[t] \notin K

LEMMA RousedOne ==
    ASSUME NEW s, NEW m, NEW K, Roused(s, m, K), NEW key \in Key
    PROVE  Roused(s, ns_sched_wake(m, key), K \cup {key})
  <1> DEFINE n == ns_sched_wake(m, key)
  <1>0. Good(m, {}) /\ Agrees(m)
    BY DEF Roused, Good
  <1>1. /\ Good(n, {}) /\ SameSleep(m, n) /\ SameControl(m, n)
        /\ \A t \in Thread :
             \/ n.st[t] = m.st[t] /\ n.wait[t] = m.wait[t]
             \/ t \in On(m.blocked) /\ m.wait[t] = key
                /\ n.st[t] = "READY" /\ n.wait[t] = NoKey
        /\ \A t \in On(n.blocked) : n.wait[t] # key
    BY <1>0, WakeGood
  <1> HIDE DEF n
  <1>2. \A t \in Thread : \/ n.st[t] = m.st[t] /\ n.wait[t] = m.wait[t]
                          \/ m.st[t] = "BLOCKED" /\ n.st[t] = "READY"
    BY <1>0, <1>1 DEF Agrees
  <1>3. \A t \in Thread : n.st[t] = "BLOCKED" => n.wait[t] # key
    BY <1>1 DEF Good, Placed
  <1>4. \A t \in Thread : \/ n.st[t] = s.st[t] /\ n.wait[t] = s.wait[t]
                          \/ s.st[t] = "BLOCKED" /\ n.st[t] = "READY"
    BY <1>2 DEF Roused
  <1>5. \A t \in Thread : n.st[t] = "BLOCKED" => n.wait[t] \notin K
    BY <1>2 DEF Roused
  <1>6. SameSleep(s, n) /\ SameControl(s, n)
    BY <1>1 DEF Roused, SameSleep, SameControl
  <1> QED
    BY <1>1, <1>3, <1>4, <1>5, <1>6 DEF Roused, n

\* The states between the wakes.
Steps(s, order, f) ==
    f = [n \in 0..Len(order) |-> IF n = 0 THEN s ELSE WakePeer(f[n - 1], order[n])]

LEMMA StepsExist ==
    ASSUME NEW s, NEW order, Len(order) \in Nat
    PROVE  \E f : Steps(s, order, f)
  <1> DEFINE N == Len(order)
             Upto(k, f) == f = [n \in 0..k |-> IF n = 0 THEN s
                                              ELSE WakePeer(f[n - 1], order[n])]
             Bad == {k \in 0..N : ~\E f : Upto(k, f)}
             R == {p \in Nat \X Nat : p[1] < p[2]}
  <1>1. IsWellFoundedOn(R, Nat)
    BY NatLessThanWellFounded DEF OpToRel
  <1>2. \A x, n \in Nat : x < n => <<x, n>> \in R
    OBVIOUS
  <1>3. Bad \subseteq Nat
    OBVIOUS
  <1>4. Bad = {}
    <2>1. SUFFICES ASSUME Bad # {} PROVE FALSE
      OBVIOUS
    <2>2. PICK k \in Bad : \A x \in Bad : ~(<<x, k>> \in R)
      <3> HIDE DEF Bad, R
      <3> QED
        BY <1>1, <1>3, <2>1, WFMin
    <2>3. k \in 0..N /\ k \in Nat
      OBVIOUS
    <2>4. k # 0
      <3> DEFINE f == [n \in 0..0 |-> s]
      <3>1. f = [n \in 0..0 |-> IF n = 0 THEN s ELSE WakePeer(f[n - 1], order[n])]
        OBVIOUS
      <3>2. Upto(0, f)
        BY <3>1
      <3> HIDE DEF f, Upto
      <3> QED
        BY <2>2, <3>2
    <2>5. k - 1 \in 0..N /\ k - 1 \in Nat /\ k - 1 < k
      BY <2>3, <2>4
    <2>6. PICK g : Upto(k - 1, g)
      <3>1. k - 1 \notin Bad
        BY <1>2, <2>2, <2>3, <2>5
      <3> HIDE DEF Upto
      <3> QED
        BY <2>5, <3>1
    <2> DEFINE f == [n \in 0..k |-> IF n = k THEN WakePeer(g[k - 1], order[k]) ELSE g[n]]
    <2>7. \A n \in 0..k : n # k => n \in 0..(k - 1)
      BY <2>3
    <2>8. \A n \in 0..k : f[n] = IF n = 0 THEN s ELSE WakePeer(f[n - 1], order[n])
      <3> TAKE n \in 0..k
      <3>1. CASE n = k
        <4>1. f[k] = WakePeer(g[k - 1], order[k]) /\ f[k - 1] = g[k - 1]
          BY <2>3, <2>4
        <4> QED
          BY <2>4, <3>1, <4>1
      <3>2. CASE n # k
        <4>1. n \in 0..(k - 1) /\ f[n] = g[n]
          BY <2>7, <3>2
        <4>2. g[n] = IF n = 0 THEN s ELSE WakePeer(g[n - 1], order[n])
          BY <2>6, <4>1
        <4>3. n # 0 => n - 1 \in 0..k /\ n - 1 # k
          BY <2>3, <4>1
        <4>4. n # 0 => f[n - 1] = g[n - 1]
          BY <4>3
        <4> QED
          BY <4>1, <4>2, <4>4
      <3> QED
        BY <3>1, <3>2
    <2>9. Upto(k, f)
      <3>1. f = [n \in 0..k |-> f[n]]
        OBVIOUS
      <3> HIDE DEF f
      <3> QED
        BY <2>8, <3>1
    <2> HIDE DEF f, Upto
    <2> QED
      BY <2>2, <2>9
  <1>5. \E f : Upto(N, f)
    <2>1. N \in 0..N /\ N \notin Bad
      BY <1>4
    <2> HIDE DEF Upto
    <2> QED
      BY <2>1
  <1> QED
    BY <1>5 DEF Steps

LEMMA WakePeersIs ==
    ASSUME NEW s, NEW order, Len(order) \in Nat
    PROVE  \E f : /\ WakePeers(s, order) = f[Len(order)] /\ f[0] = s
                  /\ \A n \in 1..Len(order) : f[n] = ns_sched_wake(f[n - 1], PeerKey(order[n]))
  <1> DEFINE f == CHOOSE f : Steps(s, order, f)
  <1>1. Steps(s, order, f)
    BY StepsExist
  <1>2. WakePeers(s, order) = f[Len(order)]
    BY DEF WakePeers, Steps
  <1> HIDE DEF f
  <1>3. \A n \in 0..Len(order) : f[n] = IF n = 0 THEN s ELSE WakePeer(f[n - 1], order[n])
    BY <1>1 DEF Steps
  <1>4. 0 \in 0..Len(order) /\ \A n \in 1..Len(order) : n \in 0..Len(order) /\ n # 0
    OBVIOUS
  <1>5. f[0] = s
    BY <1>3, <1>4
  <1>6. \A n \in 1..Len(order) : f[n] = WakePeer(f[n - 1], order[n])
    BY <1>3, <1>4
  <1>7. \A m, e : WakePeer(m, e) = ns_sched_wake(m, PeerKey(e))
    BY DEF WakePeer, PeerKey
  <1> QED
    BY <1>2, <1>5, <1>6, <1>7

LEMMA WakePeersRouse ==
    ASSUME NEW s, Good(s, {}), NEW ends, NEW order, Len(order) \in Nat,
           \A e \in ends : PeerKey(e) \in Key,
           \A n \in 1..Len(order) : order[n] \in ends,
           \A e \in ends : \E n \in 1..Len(order) : order[n] = e
    PROVE  Roused(s, WakePeers(s, order), {PeerKey(e) : e \in ends})
  <1>1. PICK f : /\ WakePeers(s, order) = f[Len(order)] /\ f[0] = s
                 /\ \A n \in 1..Len(order) : f[n] = ns_sched_wake(f[n - 1], PeerKey(order[n]))
    BY WakePeersIs
  <1> DEFINE N == Len(order)
             K(k) == {PeerKey(order[n]) : n \in 1..k}
             Bad == {k \in 0..N : ~Roused(s, f[k], K(k))}
             R == {p \in Nat \X Nat : p[1] < p[2]}
  <1>2. IsWellFoundedOn(R, Nat)
    BY NatLessThanWellFounded DEF OpToRel
  <1>3. \A x, n \in Nat : x < n => <<x, n>> \in R
    OBVIOUS
  <1>4. Bad \subseteq Nat
    OBVIOUS
  <1>5. Bad = {}
    <2>1. SUFFICES ASSUME Bad # {} PROVE FALSE
      OBVIOUS
    <2>2. PICK k \in Bad : \A x \in Bad : ~(<<x, k>> \in R)
      <3> HIDE DEF Bad, R
      <3> QED
        BY <1>2, <1>4, <2>1, WFMin
    <2>3. k \in 0..N /\ k \in Nat /\ ~Roused(s, f[k], K(k))
      OBVIOUS
    <2>4. k # 0
      <3>1. K(0) = {}
        OBVIOUS
      <3> HIDE DEF K
      <3>2. Roused(s, f[0], K(0))
        BY <1>1, <3>1 DEF Roused, SameSleep, SameControl
      <3> QED
        BY <2>3, <3>2
    <2>5. k - 1 \in 0..N /\ k - 1 \in Nat /\ k - 1 < k /\ k \in 1..N
      BY <2>3, <2>4
    <2>6. Roused(s, f[k - 1], K(k - 1))
      <3>1. k - 1 \notin Bad
        BY <1>3, <2>2, <2>3, <2>5
      <3> HIDE DEF K
      <3> QED
        BY <2>5, <3>1
    <2>7. K(k) = K(k - 1) \cup {PeerKey(order[k])}
      <3>1. 1..k = 1..(k - 1) \cup {k}
        BY <2>3, <2>4
      <3> QED
        BY <3>1
    <2> HIDE DEF K
    <2>8. f[k] = ns_sched_wake(f[k - 1], PeerKey(order[k])) /\ PeerKey(order[k]) \in Key
      BY <1>1, <2>5
    <2>9. Roused(s, f[k], K(k - 1) \cup {PeerKey(order[k])})
      BY <2>6, <2>8, RousedOne
    <2> QED
      BY <2>3, <2>7, <2>9
  <1>6. N \in 0..N /\ N \notin Bad
    <2>1. N \in 0..N
      OBVIOUS
    <2> HIDE DEF Bad
    <2> QED
      BY <1>5, <2>1
  <1>7. K(N) = {PeerKey(e) : e \in ends}
    OBVIOUS
  <1> HIDE DEF K
  <1> QED
    BY <1>1, <1>6, <1>7

\* The scheduler after ns_proc_exit of the current process p, which closed
\* the given ends last.
Exited(s, p, order) ==
    ns_sched_terminate_current(
        WakeParent(WakePeers([s EXCEPT !.st[p] = "ZOMBIE"], order), p))

\* Process w waits for its child p to end.
WaitsFor(w, p) == call[w].op = "wait" /\ call[w].pid \in {WAIT_ANY, p}

LEMMA ExitOK ==
    ASSUME NEW s, SchedOK(s), NEW p \in Thread, s.cur = p,
           NEW ends, NEW order, Len(order) \in Nat,
           \A e \in ends : PeerKey(e) \in Key,
           \A n \in 1..Len(order) : order[n] \in ends,
           \A e \in ends : \E n \in 1..Len(order) : order[n] = e
    PROVE  LET n == Exited(s, p, order)
           IN  /\ SchedOK(n) /\ n.st[p] = "ZOMBIE"
               /\ \A t \in Thread \ {p} : Kin(s, n, t)
               /\ \A t \in Thread, e \in ends :
                    n.st[t] = "BLOCKED" => n.wait[t] # PeerKey(e)
               /\ parent[p] \in Pid /\ WaitsFor(parent[p], p)
                    => n.st[parent[p]] # "BLOCKED"
  <1> DEFINE z == [s EXCEPT !.st[p] = "ZOMBIE"]
             a == WakePeers(z, order)
             b == WakeParent(a, p)
             n == ns_sched_terminate_current(b)
             w == parent[p]
             K == {PeerKey(e) : e \in ends}
  <1>0. /\ Good(s, {}) /\ Timely(s) /\ s.depth = 0 /\ s.st[p] = "RUNNING"
        /\ "ZOMBIE" \in Quiet
    BY SchedAssumption DEF SchedOK, Runs, Quiet
  <1>1. /\ Good(z, {}) /\ SameWaits(s, z) /\ SameControl(s, z)
        /\ \A u \in Thread : z.st[u] = IF u = p THEN "ZOMBIE" ELSE s.st[u]
    BY <1>0, QuietGood
  <1> HIDE DEF z
  <1>2. Roused(z, a, K)
    BY <1>1, WakePeersRouse
  <1> HIDE DEF a, K
  <1>3. /\ Good(a, {}) /\ a.sleep = s.sleep /\ a.due = s.due /\ a.cur = p /\ a.depth = 0
        /\ a.st[p] = "ZOMBIE"
        /\ \A t \in Thread \ {p} : \/ a.st[t] = s.st[t] /\ a.wait[t] = s.wait[t]
                                   \/ s.st[t] = "BLOCKED" /\ a.st[t] = "READY"
        /\ \A t \in Thread : a.st[t] = "BLOCKED" => a.wait[t] \notin K
    BY <1>0, <1>1, <1>2 DEF Roused, SameSleep, SameControl, SameWaits
  <1>t. Timely(a)
    BY <1>0, <1>3 DEF Timely
  <1>4. /\ Good(b, {}) /\ Timely(b) /\ b.cur = p /\ b.depth = 0 /\ b.st[p] = "ZOMBIE"
        /\ \A t \in Thread \ {p} : \/ b.st[t] = s.st[t] /\ b.wait[t] = s.wait[t]
                                   \/ s.st[t] = "BLOCKED" /\ b.st[t] = "READY"
        /\ \A t \in Thread : b.st[t] = "BLOCKED" => b.wait[t] \notin K
        /\ w \in Pid /\ WaitsFor(w, p) => b.st[w] # "BLOCKED"
    <2>1. CASE w \in Pid /\ a.st[w] = "BLOCKED" /\ WaitsFor(w, p)
      <3>0. w \in Thread
        BY <2>1 DEF Pid
      <3>1. b = ns_sched_wake_thread(a, w)
        BY <2>1 DEF WakeParent, WaitsFor
      <3>2. Good(b, {} \ {w}) /\ Woken(a, w, b)
        BY <1>3, <2>1, <3>0, <3>1, WakeThreadGood
      <3> HIDE DEF b, w
      <3>3. {} \ {w} = {}
        OBVIOUS
      <3>4. /\ b.cur = a.cur /\ b.depth = a.depth
            /\ b.due = [a.due EXCEPT ![w] = 0] /\ b.sleep = Without(a.sleep, w)
            /\ \A u \in Thread : b.st[u] = IF u = w THEN "READY" ELSE a.st[u]
            /\ \A u \in Thread : u # w => b.wait[u] = a.wait[u]
        BY <3>2 DEF Woken
      <3>5. \A u \in Thread : u # w => b.due[u] = a.due[u]
        BY <1>3, <3>4, StateIs DEF Good
      <3>6. Timely(b)
        <4>1. a \in SchedState /\ b \in SchedState
          BY <1>3, <3>2 DEF Good
        <4> QED
          BY <1>t, <3>0, <3>4, <3>5, <4>1, TimelyWithout
      <3>7. w # p
        BY <1>3, <2>1
      <3> QED
        BY <1>3, <2>1, <3>0, <3>2, <3>3, <3>4, <3>6, <3>7
    <2>2. CASE ~(w \in Pid /\ a.st[w] = "BLOCKED" /\ WaitsFor(w, p))
      <3>1. b = a
        BY <2>2 DEF WakeParent, WaitsFor
      <3> HIDE DEF b, w
      <3> QED
        BY <1>3, <1>t, <2>2, <3>1
    <2> QED
      BY <2>1, <2>2
  <1> HIDE DEF b
  <1>5. Good(n, {}) /\ SameWaits(b, n) /\ Away(b, n, "ZOMBIE")
    BY <1>0, <1>4, TerminateGood
  <1>6. Exited(s, p, order) = n
    BY DEF Exited, z, a, b
  <1> HIDE DEF n, w
  <1>7. /\ n.depth = 0 /\ Runs(n) /\ n.wait = b.wait /\ n.st[p] = "ZOMBIE"
        /\ \A t \in Thread \ {p} :
             \/ n.st[t] = b.st[t]
             \/ b.st[t] \in {"READY", "RUNNING"} /\ n.st[t] \in {"READY", "RUNNING"}
    BY <1>4, <1>5 DEF Away
  <1>8. SchedOK(n)
    BY <1>4, <1>5, <1>7 DEF SchedOK, Timely, SameWaits
  <1>9. \A t \in Thread \ {p} : Kin(s, n, t)
    BY <1>4, <1>7 DEF Kin, Runnable
  <1>10. \A t \in Thread, e \in ends : n.st[t] = "BLOCKED" => n.wait[t] # PeerKey(e)
    BY <1>4, <1>7 DEF K
  <1>11. w \in Pid /\ WaitsFor(w, p) => n.st[w] # "BLOCKED"
    BY <1>4, <1>7 DEF Pid
  <1> QED
    BY <1>6, <1>7, <1>8, <1>9, <1>10, <1>11 DEF w

----------------------------------------------------------------------------
\* The ring buffer.

LEMMA ModRange ==
    ASSUME NEW m \in Nat \ {0}, NEW a \in Nat
    PROVE  a % m \in 0..(m - 1)
  OBVIOUS

LEMMA ModSmall ==
    ASSUME NEW m \in Nat \ {0}, NEW a \in 0..(m - 1)
    PROVE  a % m = a
  OBVIOUS

LEMMA ModWrap ==
    ASSUME NEW m \in Nat \ {0}, NEW a \in m..(2 * m - 1)
    PROVE  a % m = a - m
  OBVIOUS

LEMMA ModStep ==
    ASSUME NEW m \in Nat \ {0}, NEW a \in Nat, NEW b \in Nat, a + b < 2 * m
    PROVE  ((a % m) + b) % m = (a + b) % m
  <1>1. CASE a < m
    BY <1>1, ModSmall
  <1>2. CASE a >= m
    <2>1. a \in m..(2 * m - 1) /\ a + b \in m..(2 * m - 1) /\ (a - m) + b \in 0..(m - 1)
      BY <1>2
    <2>2. a % m = a - m /\ (a + b) % m = (a + b) - m
      BY <2>1, ModWrap
    <2>3. ((a - m) + b) % m = (a - m) + b
      BY <2>1, ModSmall
    <2>4. (a - m) + b = (a + b) - m
      BY <2>1
    <2> QED
      BY <2>2, <2>3, <2>4
  <1> QED
    BY <1>1, <1>2

LEMMA ModApart ==
    ASSUME NEW m \in Nat \ {0}, NEW a \in Nat, NEW b \in Nat,
           a < b, b < a + m, b < 2 * m
    PROVE  a % m # b % m
  <1>1. CASE b < m
    <2>1. a \in 0..(m - 1) /\ b \in 0..(m - 1)
      BY <1>1
    <2>2. a % m = a /\ b % m = b
      BY <2>1, ModSmall
    <2> QED
      BY <2>2
  <1>2. CASE a >= m
    <2>1. a \in m..(2 * m - 1) /\ b \in m..(2 * m - 1)
      BY <1>2
    <2>2. a % m = a - m /\ b % m = b - m
      BY <2>1, ModWrap
    <2> QED
      BY <2>2
  <1>3. CASE a < m /\ b >= m
    <2>1. a \in 0..(m - 1) /\ b \in m..(2 * m - 1)
      BY <1>3
    <2>2. a % m = a /\ b % m = b - m
      BY <2>1, ModSmall, ModWrap
    <2> QED
      BY <2>2
  <1> QED
    BY <1>1, <1>2, <1>3

\* used bytes of the stream, from number first, lie in the ring from head on.
Ring(buf, head, used, first) ==
    \A i \in 0..(used - 1) :
        buf[(head + i) % Capacity] = (first + i) % (2 * Capacity)

LEMMA CapacityIs == Capacity \in Nat \ {0} /\ 2 * Capacity \in Nat \ {0}
                    /\ NS_PIPE_ATOMIC_MAX \in Nat \ {0}
  BY KernelAssumption

LEMMA RingRead ==
    ASSUME NEW buf, NEW head \in 0..(Capacity - 1), NEW used \in 0..Capacity,
           NEW first \in 0..(2 * Capacity - 1), NEW n \in 0..used,
           Ring(buf, head, used, first)
    PROVE  Ring(buf, (head + n) % Capacity, used - n, (first + n) % (2 * Capacity))
  <1> DEFINE C == Capacity
             D == 2 * Capacity
  <1>0. C \in Nat \ {0} /\ D \in Nat \ {0}
    BY CapacityIs
  <1> SUFFICES ASSUME NEW i \in 0..((used - n) - 1)
               PROVE  buf[(((head + n) % C) + i) % C] = (((first + n) % D) + i) % D
    BY DEF Ring
  <1>1. /\ n + i \in 0..(used - 1) /\ i \in Nat
        /\ head + n \in Nat /\ (head + n) + i < 2 * C
        /\ first + n \in Nat /\ (first + n) + i < 2 * D
        /\ (head + n) + i = head + (n + i) /\ (first + n) + i = first + (n + i)
    BY <1>0
  <1>2. (((head + n) % C) + i) % C = (head + (n + i)) % C
    BY <1>0, <1>1, ModStep
  <1>3. (((first + n) % D) + i) % D = (first + (n + i)) % D
    <2> HIDE DEF D
    <2> QED
      BY <1>0, <1>1, ModStep
  <1>4. buf[(head + (n + i)) % C] = (first + (n + i)) % D
    BY <1>1 DEF Ring
  <1> QED
    BY <1>2, <1>3, <1>4

\* The buffer after a write of n bytes behind the used ones.
Written(buf, head, used, first, n) ==
    [k \in DOMAIN buf |->
        IF \E i \in 0..(n - 1) : (head + used + i) % Capacity = k
        THEN (first + used + (CHOOSE i \in 0..(n - 1) : (head + used + i) % Capacity = k))
               % (2 * Capacity)
        ELSE buf[k]]

LEMMA RingWrite ==
    ASSUME NEW buf \in [0..(Capacity - 1) -> 0..(2 * Capacity - 1)],
           NEW head \in 0..(Capacity - 1), NEW used \in 0..Capacity,
           NEW first \in 0..(2 * Capacity - 1), NEW n \in 0..(Capacity - used),
           Ring(buf, head, used, first)
    PROVE  LET new == Written(buf, head, used, first, n)
           IN  /\ new \in [0..(Capacity - 1) -> 0..(2 * Capacity - 1)]
               /\ Ring(new, head, used + n, first)
  <1> DEFINE new == Written(buf, head, used, first, n)
             C == Capacity
             D == 2 * Capacity
             Fits(i, k) == (head + used + i) % C = k
             Which(k) == CHOOSE i \in 0..(n - 1) : Fits(i, k)
  <1>0. C \in Nat \ {0} /\ D \in Nat \ {0}
    BY CapacityIs
  <1>1. \A k \in 0..(C - 1) : new[k] = IF \E i \in 0..(n - 1) : Fits(i, k)
                                       THEN (first + used + Which(k)) % D ELSE buf[k]
    BY DEF Written
  <1>d. DOMAIN new = 0..(C - 1) /\ new = [k \in DOMAIN new |-> new[k]]
    BY DEF Written
  <1> HIDE DEF new
  <1>2. \A i \in 0..(n - 1) : i \in Nat
    BY <1>0
  <1>3. \A k : (\E i \in 0..(n - 1) : Fits(i, k)) => Which(k) \in 0..(n - 1) /\ Fits(Which(k), k)
    OBVIOUS
  <1> HIDE DEF Which
  <1>4. new \in [0..(C - 1) -> 0..(D - 1)]
    <2>1. \A x \in Nat : x % D \in 0..(D - 1)
      BY <1>0, ModRange
    <2>2. \A k \in 0..(C - 1) : new[k] \in 0..(D - 1)
      <3> TAKE k \in 0..(C - 1)
      <3>1. CASE \E i \in 0..(n - 1) : Fits(i, k)
        <4>1. first + used + Which(k) \in Nat
          <5>1. Which(k) \in Nat
            BY <1>2, <1>3, <3>1
          <5>2. first \in Nat /\ used \in Nat
            BY <1>0
          <5> QED
            BY <5>1, <5>2
        <4> QED
          BY <1>1, <2>1, <3>1, <4>1
      <3>2. CASE ~\E i \in 0..(n - 1) : Fits(i, k)
        BY <1>1, <3>2
      <3> QED
        BY <3>1, <3>2
    <2> QED
      BY <1>d, <2>2
  <1>5. ASSUME NEW i \in 0..((used + n) - 1)
        PROVE  new[(head + i) % C] = (first + i) % D
    <2>a. head + i \in Nat /\ i \in Nat
      BY <1>0
    <2>1. (head + i) % C \in 0..(C - 1) /\ head + i \in Nat /\ i \in Nat
      BY <1>0, <2>a, ModRange
    <2>2. CASE i < used
      <3>1. \A j \in 0..(n - 1) : ~Fits(j, (head + i) % C)
        <4> TAKE j \in 0..(n - 1)
        <4>1. /\ head + used + j \in Nat /\ head + i < head + used + j
              /\ head + used + j < (head + i) + C /\ head + used + j < 2 * C
          BY <1>0, <2>1, <2>2
        <4>2. (head + i) % C # (head + used + j) % C
          BY <1>0, <2>1, <4>1, ModApart
        <4> QED
          BY <4>2
      <3>2. new[(head + i) % C] = buf[(head + i) % C]
        BY <1>1, <2>1, <3>1
      <3>3. i \in 0..(used - 1)
        BY <2>1, <2>2
      <3> QED
        BY <3>2, <3>3 DEF Ring
    <2>3. CASE i >= used
      <3> DEFINE j == i - used
                 k == (head + i) % C
      <3>1. j \in 0..(n - 1) /\ head + used + j = head + i /\ first + used + j = first + i
        BY <1>0, <2>1, <2>3
      <3>2. Fits(j, k)
        BY <3>1
      <3>3. Which(k) \in 0..(n - 1) /\ Fits(Which(k), k)
        BY <1>3, <3>1, <3>2
      <3> HIDE DEF j
      <3>4. Which(k) = j
        <4>1. \A x, y \in 0..(n - 1) : x < y => (head + used + x) % C # (head + used + y) % C
          <5> TAKE x \in 0..(n - 1), y \in 0..(n - 1)
          <5> HAVE x < y
          <5>1. /\ head + used + x \in Nat /\ head + used + y \in Nat
                /\ head + used + x < head + used + y
                /\ head + used + y < (head + used + x) + C /\ head + used + y < 2 * C
            BY <1>0
          <5> QED
            BY <1>0, <5>1, ModApart
        <4>2. ~(Which(k) < j) /\ ~(j < Which(k))
          BY <3>1, <3>2, <3>3, <4>1
        <4>3. Which(k) \in Nat /\ j \in Nat
          BY <1>2, <3>1, <3>3
        <4> QED
          BY <4>2, <4>3
      <3>5. new[k] = (first + used + Which(k)) % D
        BY <1>1, <2>1, <3>1, <3>2
      <3> QED
        BY <3>1, <3>4, <3>5
    <2> QED
      BY <1>0, <2>1, <2>2, <2>3
  <1> QED
    BY <1>4, <1>5 DEF Ring, new

----------------------------------------------------------------------------
\* Calls, lists of children and pipe ends.

\* What Kin says of the states the invariant speaks of.
LEMMA KinKeeps ==
    ASSUME NEW s, NEW n, NEW t, Kin(s, n, t)
    PROVE  /\ n.st[t] = "EMBRYO" <=> s.st[t] = "EMBRYO"
           /\ n.st[t] = "ZOMBIE" <=> s.st[t] = "ZOMBIE"
           /\ n.st[t] = "BLOCKED" => s.st[t] = "BLOCKED" /\ n.wait[t] = s.wait[t]
           /\ s.st[t] \in {"READY", "RUNNING", "BLOCKED"}
                => n.st[t] \in {"READY", "RUNNING", "BLOCKED"}
  BY DEF Kin, Runnable

LEMMA CallIs ==
    ASSUME TypeOK, NEW p \in Pid
    PROVE  \/ call[p] = NoCall /\ call[p].op = "none"
           \/ /\ call[p] # NoCall /\ call[p].op = "read"
              /\ call[p].pipe \in Pipe /\ call[p].count \in ReadSizes
           \/ /\ call[p] # NoCall /\ call[p].op = "write"
              /\ call[p].pipe \in Pipe /\ call[p].count \in WriteSizes
           \/ /\ call[p] # NoCall /\ call[p].op = "wait"
              /\ call[p].pid \in Pid \cup {WAIT_ANY}
  <1>1. call[p] \in {NoCall}
                    \cup [op : {"read"}, pipe : Pipe, count : ReadSizes]
                    \cup [op : {"write"}, pipe : Pipe, count : WriteSizes]
                    \cup [op : {"wait"}, pid : Pid \cup {WAIT_ANY}]
    BY DEF TypeOK
  <1>2. NoCall.op = "none"
    BY DEF NoCall
  <1> HIDE DEF NoCall
  <1> QED
    BY <1>1, <1>2

LEMMA ChildList ==
    ASSUME NEW list \in Seq(Thread)
    PROVE  /\ \A c : Contains(list, c) <=> c \in On(list)
           /\ ToSet(list) = On(list)
  BY ListIs DEF Contains, ToSet, On

LEMMA ReverseList ==
    ASSUME NEW list \in Seq(Thread)
    PROVE  /\ Reverse(list) \in Seq(Thread)
           /\ On(Reverse(list)) = On(list)
           /\ Once(list) => Once(Reverse(list))
  <1> DEFINE n == Len(list)
             r == Reverse(list)
  <1>1. n \in Nat /\ DOMAIN list = 1..n /\ \A i \in 1..n : list[i] \in Thread
    BY ListIs
  <1>2. r = [i \in 1..n |-> list[(n - i) + 1]]
    BY DEF Reverse
  <1> HIDE DEF n, r
  <1>3. \A i \in 1..n : (n - i) + 1 \in 1..n /\ (n - ((n - i) + 1)) + 1 = i
    BY <1>1
  <1>4. DOMAIN r = 1..n /\ \A i \in 1..n : r[i] = list[(n - i) + 1]
    BY <1>2
  <1>5. r \in Seq(Thread)
    BY <1>1, <1>2, <1>3
  <1>6. \A i \in 1..n : r[(n - i) + 1] = list[i]
    BY <1>3, <1>4
  <1>7. On(r) = On(list)
    <2>1. On(r) \subseteq On(list)
      BY <1>1, <1>3, <1>4 DEF On
    <2>2. On(list) \subseteq On(r)
      BY <1>1, <1>3, <1>4, <1>6 DEF On
    <2> QED
      BY <2>1, <2>2
  <1>8. Once(list) => Once(r)
    <2> SUFFICES ASSUME Once(list), NEW i \in 1..n, NEW j \in 1..n, r[i] = r[j]
                 PROVE  i = j
      BY <1>4 DEF Once
    <2>1. (n - i) + 1 = (n - j) + 1
      BY <1>1, <1>3, <1>4 DEF Once
    <2> QED
      BY <1>1, <2>1
  <1> QED
    BY <1>5, <1>7, <1>8 DEF r

LEMMA OnceLength ==
    ASSUME NEW list \in Seq(Thread), Once(list)
    PROVE  Len(list) = Cardinality(ToSet(list))
  <1> DEFINE n == Len(list)
             S == 1..n
  <1>1. n \in Nat /\ DOMAIN list = S /\ list \in [S -> Thread]
    BY ListIs
  <1>2. list \in Bijection(S, ToSet(list))
    BY <1>1 DEF Once, ToSet, Bijection, Injection, Surjection, IsInjective
  <1>3. IsFiniteSet(S) /\ Cardinality(S) = n
    BY <1>1, FS_Interval
  <1>4. ExistsBijection(S, ToSet(list))
    BY <1>2 DEF ExistsBijection
  <1> HIDE DEF S
  <1> QED
    BY <1>3, <1>4, FS_Bijection

\* A wait that found no zombie: none of the children it looks at is one.
LEMMA NoneSelected ==
    ASSUME NEW list \in Seq(Thread), NEW S
    PROVE  /\ Selected(list, S) = <<>> => On(list) \cap S = {}
           /\ Selected(list, S) # <<>> => Head(Selected(list, S)) \in On(list) \cap S
  <1> DEFINE l == Selected(list, S)
  <1>1. l \in Seq(Thread) /\ On(l) = On(list) \cap S
    BY SelectedList
  <1> HIDE DEF l
  <1>2. l = <<>> => On(l) = {}
    BY DEF On
  <1>3. l # <<>> => Head(l) \in On(l)
    BY <1>1 DEF On
  <1> QED
    BY <1>1, <1>2, <1>3 DEF l

\* An order in which to close the last references.
LEMMA OrderIs ==
    ASSUME NEW last \in SUBSET (Pipe \X End), NEW order \in SetToSeqs(last)
    PROVE  /\ Len(order) \in Nat
           /\ \A n \in 1..Len(order) : order[n] \in last
           /\ \A e \in last : \E n \in 1..Len(order) : order[n] = e
  <1> DEFINE c == Cardinality(last)
             D == 1..c
  <1>1. IsFiniteSet(Pipe \X End)
    <2>1. IsFiniteSet(End)
      <3>1. IsFiniteSet({"r"})
        BY FS_Singleton
      <3>2. End = {"r"} \cup {"w"}
        BY DEF End
      <3> QED
        BY <3>1, <3>2, FS_AddElement
    <2> QED
      BY <2>1, KernelAssumption, FS_Product
  <1>2. IsFiniteSet(last)
    BY <1>1, FS_Subset
  <1>3. c \in Nat
    BY <1>2, FS_CardinalityType
  <1>4. order \in [D -> last] /\ \A i, j \in D : i # j => order[i] # order[j]
    BY DEF SetToSeqs
  <1> HIDE DEF c
  <1>5. Len(order) = c
    BY <1>3, <1>4
  <1>6. order \in Injection(D, last)
    BY <1>4 DEF Injection, IsInjective
  <1>7. IsFiniteSet(D) /\ Cardinality(D) = c
    BY <1>3, FS_Interval
  <1> HIDE DEF D
  <1>8. order \in Surjection(D, last)
    BY <1>2, <1>6, <1>7, FS_Injection DEF c
  <1>9. \A e \in last : \E n \in D : order[n] = e
    BY <1>8 DEF Surjection
  <1> QED
    BY <1>3, <1>4, <1>5, <1>9 DEF D

LEMMA PeerKeyIs ==
    ASSUME NEW e \in Pipe \X End
    PROVE  /\ PeerKey(e) \in Key
           /\ \A o \in Pipe : e = <<o, "w">> => PeerKey(e) = <<"PIPE_READ", o>>
           /\ \A o \in Pipe : e = <<o, "r">> => PeerKey(e) = <<"PIPE_WRITE", o>>
  BY KeyIs DEF PeerKey, End

----------------------------------------------------------------------------
\* What a step leaves alone.

LEMMA Current ==
    ASSUME KernelInv, NEW p \in Pid, sched.cur = p
    PROVE  /\ p \in Thread /\ sched.cur \in Thread /\ sched.st[p] = "RUNNING"
           /\ proc[p] = "ALIVE"
  <1>1. p \in Thread /\ sched.st[p] = "RUNNING"
    BY SchedAssumption DEF KernelInv, SchedOK, Runs, Pid
  <1>2. proc[p] \in {"FREE", "ALIVE", "ZOMBIE"}
    BY DEF KernelInv, TypeOK
  <1> QED
    BY <1>1, <1>2 DEF KernelInv, ThreadsInv

LEMMA PipeIs ==
    ASSUME TypeOK, NEW o \in Pipe
    PROVE  /\ pipe[o] \in [live : BOOLEAN,
                           buf : [0..(Capacity - 1) -> 0..(2 * Capacity - 1)],
                           head : 0..(Capacity - 1), used : 0..Capacity,
                           readers : 0..1, writers : 0..1, first : 0..(2 * Capacity - 1)]
           /\ pipe[o].live \in BOOLEAN
           /\ pipe[o].buf \in [0..(Capacity - 1) -> 0..(2 * Capacity - 1)]
           /\ pipe[o].head \in 0..(Capacity - 1) /\ pipe[o].used \in 0..Capacity
           /\ pipe[o].readers \in 0..1 /\ pipe[o].writers \in 0..1
           /\ pipe[o].first \in 0..(2 * Capacity - 1)
  <1>1. pipe[o] \in [live : BOOLEAN,
                     buf : [0..(Capacity - 1) -> 0..(2 * Capacity - 1)],
                     head : 0..(Capacity - 1), used : 0..Capacity,
                     readers : 0..1, writers : 0..1, first : 0..(2 * Capacity - 1)]
    BY DEF TypeOK
  <1> QED
    BY <1>1

LEMMA ThreadsSame ==
    ASSUME ThreadsInv, UNCHANGED proc,
           \A q \in Pid : /\ sched'.st[q] = "EMBRYO" <=> sched.st[q] = "EMBRYO"
                          /\ sched'.st[q] = "ZOMBIE" <=> sched.st[q] = "ZOMBIE"
    PROVE  ThreadsInv'
  BY DEF ThreadsInv

LEMMA PipesSame ==
    ASSUME PipesInv, UNCHANGED <<proc, files, pipe>>
    PROVE  PipesInv'
  BY DEF PipesInv, Referred

LEMMA TreeSame ==
    ASSUME TreeInv, UNCHANGED <<proc, parent, children>>
    PROVE  TreeInv'
  BY DEF TreeInv

LEMMA UsedIs ==
    ASSUME KernelInv
    PROVE  \A o \in Pipe : pipe[o].used \in Nat /\ pipe[o].used >= pipe[o].used
  BY PipeIs, CapacityIs DEF KernelInv

\* The pipe that q is blocked at did not change in a way q waits for.
PipeKept(q) ==
    \A o \in Pipe :
        /\ sched.wait[q] = <<"PIPE_READ", o>> /\ pipe[o].used = 0 /\ pipe[o].writers # 0
             => pipe'[o].used = 0 /\ pipe'[o].writers # 0
        /\ sched.wait[q] = <<"PIPE_WRITE", o>> /\ pipe[o].readers # 0
             => pipe'[o].readers # 0 /\ pipe'[o].used >= pipe[o].used

\* Nor did one of the children that q waits for end.
ChildrenKept(q) ==
    call[q].op = "wait" =>
        \A z \in Matches(q, call[q].pid)' \ stale' : proc'[z] = "ALIVE"

LEMMA LeastIs ==
    ASSUME NEW a \in Nat, NEW b \in Nat
    PROVE  Least(a, b) \in Nat /\ Least(a, b) <= a /\ Least(a, b) <= b
  BY DEF Least

LEMMA WaitsKept ==
    ASSUME TypeOK, TypeOK', NEW q \in Pid, Waits(q),
           call'[q] = call[q], sched'.wait[q] = sched.wait[q],
           PipeKept(q), ChildrenKept(q)
    PROVE  Waits(q)'
  <1>1. CASE call[q].op = "read"
    <2>1. call[q].pipe \in Pipe
      BY <1>1, CallIs
    <2> QED
      BY <1>1, <2>1 DEF Waits, PipeKept
  <1>2. CASE call[q].op = "write"
    <2> DEFINE o == call[q].pipe
               l == Least(call[q].count, NS_PIPE_ATOMIC_MAX)
    <2>1. o \in Pipe /\ call[q].count \in WriteSizes
      BY <1>2, CallIs
    <2>2. call[q].count \in Nat
      BY <2>1, KernelAssumption
    <2>3. l \in Nat
      BY <2>2, CapacityIs, LeastIs
    <2>4. pipe[o].used \in Nat /\ pipe'[o].used \in Nat
      <3>1. pipe[o].used \in 0..Capacity
        BY <2>1, PipeIs
      <3>2. pipe'[o].used \in 0..Capacity
        BY <2>1 DEF TypeOK
      <3> QED
        BY <3>1, <3>2, CapacityIs
    <2>5. /\ pipe[o].readers # 0 /\ Capacity - pipe[o].used < l
          /\ sched.wait[q] = <<"PIPE_WRITE", o>>
      BY <1>2 DEF Waits
    <2>6. pipe'[o].readers # 0 /\ pipe'[o].used >= pipe[o].used
      BY <2>1, <2>5 DEF PipeKept
    <2>7. Capacity - pipe'[o].used < l
      BY <2>3, <2>4, <2>5, <2>6, CapacityIs
    <2>8. l = Least(call'[q].count, NS_PIPE_ATOMIC_MAX) /\ o = call'[q].pipe
      OBVIOUS
    <2> HIDE DEF o, l
    <2> QED
      BY <1>2, <2>5, <2>6, <2>7, <2>8 DEF Waits
  <1>3. CASE call[q].op = "wait"
    BY <1>3 DEF Waits, ChildrenKept
  <1> QED
    BY <1>1, <1>2, <1>3 DEF Waits

\* The calls of the processes outside P, which the step does not touch.
LEMMA CallsKept ==
    ASSUME KernelInv, TypeOK', NEW P,
           \A q \in Pid \ P :
               /\ Kin(sched, sched', q) /\ call'[q] = call[q] /\ files'[q] = files[q]
               /\ sched'.st[q] = "BLOCKED" => PipeKept(q) /\ ChildrenKept(q),
           \A q \in Pid \cap P : CallOK(q)'
    PROVE  CallsInv'
  <1> SUFFICES ASSUME NEW q \in Pid \ P PROVE CallOK(q)'
    BY DEF CallsInv
  <1>1. CallOK(q) /\ TypeOK
    BY DEF KernelInv, CallsInv
  <1>2. /\ sched'.st[q] = "BLOCKED" => sched.st[q] = "BLOCKED"
                                       /\ sched'.wait[q] = sched.wait[q]
        /\ sched.st[q] \in {"READY", "RUNNING", "BLOCKED"}
             => sched'.st[q] \in {"READY", "RUNNING", "BLOCKED"}
    BY KinKeeps
  <1>3. sched'.st[q] = "BLOCKED" => Waits(q)'
    BY <1>1, <1>2, WaitsKept DEF CallOK
  <1> QED
    BY <1>1, <1>2, <1>3 DEF CallOK

\* A process whose call is over.
LEMMA CallOver ==
    ASSUME NEW q, call'[q] = NoCall, sched'.st[q] # "BLOCKED"
    PROVE  CallOK(q)'
  <1>1. call'[q].op = "none"
    BY DEF NoCall
  <1> QED
    BY <1>1 DEF CallOK

\* Children, when no process ends and the lists stay.
LEMMA SameChildren ==
    ASSUME KernelInv, UNCHANGED <<proc, children, stale>>,
           NEW q \in Pid, sched.st[q] = "BLOCKED", call'[q] = call[q]
    PROVE  ChildrenKept(q)
  <1>1. Waits(q)
    BY DEF KernelInv, CallsInv, CallOK
  <1> QED
    BY <1>1 DEF Waits, ChildrenKept, Matches

----------------------------------------------------------------------------
\* The steps.

LEMMA InitSched ==
    LET n == ns_sched_reschedule(ns_sched_add(ns_sched_init, Init1))
    IN  /\ SchedOK(n) /\ n.st[Init1] \in Runnable
        /\ \A t \in Thread \ {Init1} : n.st[t] = "EMBRYO"
  <1> DEFINE s == ns_sched_init
             m == ns_sched_add(s, Init1)
             n == ns_sched_reschedule(m)
  <1>0. Init1 \in Thread
    BY KernelAssumption
  <1>1. s \in SchedState
    BY SchedAssumption DEF ns_sched_init, SchedState, State, Task
  <1>2. /\ s.ready = <<>> /\ s.blocked = <<>> /\ s.sleep = <<>> /\ s.depth = 0
        /\ \A t \in Thread : s.st[t] = "EMBRYO"
    BY SchedAssumption DEF ns_sched_init, Task
  <1> HIDE DEF s
  <1>3. On(<<>>) = {} /\ Once(<<>>)
    BY DEF On, Once
  <1>4. Good(s, {}) /\ Timely(s)
    BY <1>1, <1>2, <1>3 DEF Good, Agrees, Placed, Timely, InOrder
  <1>5. MayAdd(s, Init1)
    BY <1>0, <1>2 DEF MayAdd, Listed
  <1>6. /\ Good(m, {} \ {Init1})
        /\ m.cur = s.cur /\ m.depth = s.depth
        /\ m.due = s.due /\ m.sleep = Without(s.sleep, Init1)
        /\ \A u \in Thread : m.st[u] = IF u = Init1 THEN "READY" ELSE s.st[u]
    BY <1>0, <1>4, <1>5, AddGood
  <1> HIDE DEF m
  <1>7. {} \ {Init1} = {}
    OBVIOUS
  <1>8. Good(m, {}) /\ Timely(m) /\ m.depth = 0
    BY <1>0, <1>1, <1>2, <1>4, <1>6, <1>7, TimelyWithout DEF Good
  <1>9. Good(n, {}) /\ Rescheduled(m, n)
    BY <1>8, SwitchGood
  <1> HIDE DEF n
  <1>10. /\ SameWaits(m, n) /\ n.depth = 0
         /\ n.cur = Idle \/ (n.cur \in Thread /\ n.st[n.cur] = "RUNNING")
         /\ \A t \in Thread :
              \/ n.st[t] = m.st[t]
              \/ m.st[t] \in {"READY", "RUNNING"} /\ n.st[t] \in {"READY", "RUNNING"}
    BY <1>9 DEF Rescheduled
  <1>11. SchedOK(n)
    BY <1>8, <1>9, <1>10 DEF SchedOK, Timely, SameWaits, Runs
  <1>12. n.st[Init1] \in Runnable /\ \A t \in Thread \ {Init1} : n.st[t] = "EMBRYO"
    BY <1>0, <1>2, <1>6, <1>10 DEF Runnable
  <1> QED
    BY <1>11, <1>12 DEF n, m, s

LEMMA FreePipeIs ==
    FreePipe \in [live : BOOLEAN, buf : [0..(Capacity - 1) -> 0..(2 * Capacity - 1)],
                  head : 0..(Capacity - 1), used : 0..Capacity,
                  readers : 0..1, writers : 0..1, first : 0..(2 * Capacity - 1)]
  BY CapacityIs DEF FreePipe

LEMMA KernelInvInit == Init => KernelInv
  <1> SUFFICES ASSUME Init PROVE KernelInv
    OBVIOUS
  <1>0. Init1 \in Pid /\ Pid = Thread /\ NoParent \notin Pid /\ Pid \cup {NoParent} # {}
    BY KernelAssumption, SchedAssumption DEF Pid, NoParent
  <1>1. /\ SchedOK(sched) /\ sched.st[Init1] \in Runnable
        /\ \A t \in Thread \ {Init1} : sched.st[t] = "EMBRYO"
    BY InitSched DEF Init
  <1>2. sched \in SchedState
    BY <1>1 DEF SchedOK, Good
  <1>3. TypeOK
    <2>1. pipe \in [Pipe -> [live : BOOLEAN, buf : [0..(Capacity - 1) -> 0..(2 * Capacity - 1)],
                          head : 0..(Capacity - 1), used : 0..Capacity,
                          readers : 0..1, writers : 0..1, first : 0..(2 * Capacity - 1)]]
      BY FreePipeIs DEF Init
    <2>2. /\ proc \in [Pid -> {"FREE", "ALIVE", "ZOMBIE"}]
          /\ parent \in [Pid -> Pid \cup {NoParent}]
          /\ children \in [Pid -> Seq(Pid)]
          /\ files \in [Pid -> SUBSET (Pipe \X End)] /\ stale \subseteq Pid
      BY DEF Init
    <2>3. call \in [Pid -> {NoCall}]
      BY DEF Init
    <2>4. \A p \in Pid : call[p] \in {NoCall}
      BY <2>3
    <2>5. call = [p \in Pid |-> call[p]]
      BY <2>3
    <2> QED
      BY <1>2, <2>1, <2>2, <2>4, <2>5 DEF TypeOK
  <1>4. ThreadsInv
    BY <1>0, <1>1 DEF ThreadsInv, Init, Runnable
  <1>5. CallsInv
    BY <1>0, <1>1 DEF CallsInv, CallOK, Init, Runnable, NoCall
  <1>6. PipesInv
    BY DEF PipesInv, Referred, Init, FreePipe
  <1>7. TreeInv
    <2>1. On(<<>>) = {} /\ Once(<<>>)
      BY DEF On, Once
    <2> QED
      BY <1>0, <2>1 DEF TreeInv, Init
  <1>8. StreamIntact
    BY CapacityIs DEF StreamIntact, Init, FreePipe
  <1> QED
    BY <1>1, <1>3, <1>4, <1>5, <1>6, <1>7, <1>8 DEF KernelInv

\* Sleep, Yield and Tick: only the scheduler changes.
LEMMA SchedStep ==
    ASSUME KernelInv, SchedOK(sched'), NEW p,
           UNCHANGED <<proc, parent, children, files, pipe, call, stale>>,
           \A t \in Thread \ {p} : Kin(sched, sched', t),
           p \in Thread => /\ sched.st[p] = "RUNNING" /\ sched'.st[p] = "SLEEPING"
                           /\ call[p] = NoCall
    PROVE  KernelInv'
  <1>0. Pid = Thread /\ sched' \in SchedState
    BY DEF Pid, SchedOK, Good
  <1>1. TypeOK'
    BY <1>0 DEF KernelInv, TypeOK
  <1>2. \A q \in Pid : /\ sched'.st[q] = "EMBRYO" <=> sched.st[q] = "EMBRYO"
                       /\ sched'.st[q] = "ZOMBIE" <=> sched.st[q] = "ZOMBIE"
    BY <1>0, KinKeeps
  <1>3. ThreadsInv'
    BY <1>2, ThreadsSame DEF KernelInv
  <1>4. \A q \in Pid \ {p} : sched'.st[q] = "BLOCKED" => PipeKept(q) /\ ChildrenKept(q)
    <2> TAKE q \in Pid \ {p}
    <2> HAVE sched'.st[q] = "BLOCKED"
    <2>1. sched.st[q] = "BLOCKED"
      BY <1>0, KinKeeps
    <2>2. \A o \in Pipe : pipe[o].used >= pipe[o].used
      BY PipeIs, CapacityIs DEF KernelInv
    <2>3. ChildrenKept(q)
      BY <2>1, SameChildren
    <2> QED
      BY <2>2, <2>3 DEF PipeKept
  <1>5. \A q \in Pid \cap {p} : CallOK(q)'
    BY <1>0, CallOver
  <1>6. CallsInv'
    BY <1>0, <1>1, <1>4, <1>5, CallsKept
  <1>7. PipesInv' /\ TreeInv' /\ StreamIntact'
    BY PipesSame, TreeSame DEF KernelInv, StreamIntact
  <1> QED
    BY <1>1, <1>3, <1>6, <1>7 DEF KernelInv

LEMMA TickStep == KernelInv /\ Tick => KernelInv'
  <1> SUFFICES ASSUME KernelInv, Tick PROVE KernelInv'
    OBVIOUS
  <1>1. SchedOK(sched') /\ \A t \in Thread : Kin(sched, sched', t)
    BY TickOK DEF KernelInv, Tick
  <1>2. NoThread \notin Thread
    BY SchedAssumption
  <1> QED
    BY <1>1, <1>2, SchedStep DEF Tick

LEMMA YieldStep == \A p \in Pid : KernelInv /\ Yield(p) => KernelInv'
  <1> SUFFICES ASSUME NEW p \in Pid, KernelInv, Yield(p) PROVE KernelInv'
    OBVIOUS
  <1>1. SchedOK(sched') /\ \A t \in Thread : Kin(sched, sched', t)
    BY YieldOK DEF KernelInv, Yield
  <1>2. NoThread \notin Thread
    BY SchedAssumption
  <1> QED
    BY <1>1, <1>2, SchedStep DEF Yield

LEMMA SleepStep ==
    \A p \in Pid, d \in 1..MaxSleep : KernelInv /\ Sleep(p, d) => KernelInv'
  <1> SUFFICES ASSUME NEW p \in Pid, NEW d \in 1..MaxSleep, KernelInv, Sleep(p, d)
               PROVE  KernelInv'
    OBVIOUS
  <1>1. /\ sched.cur = p /\ sched.cur \in Thread /\ sched.st[p] = "RUNNING"
        /\ call[p] = NoCall
    BY Current DEF Sleep, At
  <1>2. /\ SchedOK(sched') /\ \A t \in Thread \ {p} : Kin(sched, sched', t)
        /\ sched'.st[p] = "SLEEPING"
    BY <1>1, SleepOK DEF KernelInv, Sleep
  <1> QED
    BY <1>1, <1>2, SchedStep DEF Sleep

Calls == {NoCall} \cup [op : {"read"}, pipe : Pipe, count : ReadSizes]
                  \cup [op : {"write"}, pipe : Pipe, count : WriteSizes]
                  \cup [op : {"wait"}, pid : Pid \cup {WAIT_ANY}]

LEMMA CallSet ==
    ASSUME TypeOK, NEW p \in Pid, NEW c \in Calls, call' = [call EXCEPT ![p] = c]
    PROVE  /\ call' \in [Pid -> Calls] /\ call'[p] = c
           /\ \A q \in Pid \ {p} : call'[q] = call[q]
  <1>1. call \in [Pid -> Calls]
    BY DEF TypeOK, Calls
  <1> HIDE DEF Calls
  <1> QED
    BY <1>1

LEMMA NoCallIs == NoCall \in Calls
  BY DEF Calls

\* A call that returns without having changed anything else.
LEMMA ReturnStep ==
    ASSUME KernelInv, NEW p \in Pid, sched.cur = p, Return(p),
           UNCHANGED <<sched, proc, parent, children, files, pipe, stale>>
    PROVE  KernelInv'
  <1>1. /\ call' \in [Pid -> Calls] /\ call'[p] = NoCall
        /\ \A q \in Pid \ {p} : call'[q] = call[q]
    BY CallSet, NoCallIs DEF KernelInv, Return
  <1>2. TypeOK'
    BY <1>1 DEF KernelInv, TypeOK, Calls
  <1>3. sched.st[p] = "RUNNING"
    BY Current
  <1>4. \A q \in Pid \ {p} : sched'.st[q] = "BLOCKED" => PipeKept(q) /\ ChildrenKept(q)
    <2> TAKE q \in Pid \ {p}
    <2> HAVE sched'.st[q] = "BLOCKED"
    <2>1. \A o \in Pipe : pipe[o].used >= pipe[o].used
      BY UsedIs
    <2>2. ChildrenKept(q)
      BY <1>1, SameChildren
    <2> QED
      BY <2>1, <2>2 DEF PipeKept
  <1>5. \A q \in Pid \cap {p} : CallOK(q)'
    BY <1>1, <1>3, CallOver
  <1>6. \A q \in Pid : Kin(sched, sched', q)
    BY DEF Kin
  <1>7. CallsInv'
    BY <1>1, <1>2, <1>4, <1>5, <1>6, CallsKept
  <1>8. ThreadsInv' /\ PipesInv' /\ TreeInv' /\ StreamIntact' /\ SchedOK(sched')
    BY PipesSame, TreeSame, ThreadsSame DEF KernelInv, StreamIntact
  <1> QED
    BY <1>2, <1>7, <1>8 DEF KernelInv

\* A call that blocks, for a reason.
LEMMA BlockStep ==
    ASSUME KernelInv, NEW p \in Pid, sched.cur = p, NEW key \in Key,
           sched' = ns_sched_block(sched, key),
           NEW c \in Calls, call' = [call EXCEPT ![p] = c],
           UNCHANGED <<proc, parent, children, files, pipe, stale>>,
           sched'.wait[p] = key => Waits(p)',
           c.op = "read" => <<c.pipe, "r">> \in files[p],
           c.op = "write" => <<c.pipe, "w">> \in files[p]
    PROVE  KernelInv'
  <1>1. /\ call' \in [Pid -> Calls] /\ call'[p] = c
        /\ \A q \in Pid \ {p} : call'[q] = call[q]
    BY CallSet DEF KernelInv
  <1>2. sched.st[p] = "RUNNING" /\ sched.cur \in Thread /\ Pid = Thread
    BY Current DEF Pid
  <1>3. /\ SchedOK(sched') /\ \A t \in Thread \ {p} : Kin(sched, sched', t)
        /\ sched'.st[p] = "BLOCKED" /\ sched'.wait[p] = key
    BY <1>2, BlockOK DEF KernelInv
  <1>4. TypeOK'
    BY <1>1, <1>3 DEF KernelInv, TypeOK, Calls, SchedOK, Good
  <1>5. \A q \in Pid \ {p} : sched'.st[q] = "BLOCKED" => PipeKept(q) /\ ChildrenKept(q)
    <2> TAKE q \in Pid \ {p}
    <2> HAVE sched'.st[q] = "BLOCKED"
    <2>1. \A o \in Pipe : pipe[o].used >= pipe[o].used
      BY UsedIs
    <2>2. sched.st[q] = "BLOCKED"
      BY <1>2, <1>3, KinKeeps
    <2>3. ChildrenKept(q)
      BY <1>1, <2>2, SameChildren
    <2> QED
      BY <2>1, <2>3 DEF PipeKept
  <1>6. \A q \in Pid \cap {p} : CallOK(q)'
    BY <1>1, <1>3 DEF CallOK
  <1>7. CallsInv'
    BY <1>1, <1>2, <1>3, <1>4, <1>5, <1>6, CallsKept
  <1>8. \A q \in Pid : /\ sched'.st[q] = "EMBRYO" <=> sched.st[q] = "EMBRYO"
                       /\ sched'.st[q] = "ZOMBIE" <=> sched.st[q] = "ZOMBIE"
    BY <1>2, <1>3, KinKeeps
  <1>9. ThreadsInv' /\ PipesInv' /\ TreeInv' /\ StreamIntact'
    BY <1>8, PipesSame, TreeSame, ThreadsSame DEF KernelInv, StreamIntact
  <1> QED
    BY <1>3, <1>4, <1>7, <1>9 DEF KernelInv

\* A transfer through pipe o, which wakes the other side: whoever is still
\* blocked at the pipe has no use for what changed.
LEMMA TransferStep ==
    ASSUME KernelInv, NEW p \in Pid, sched.cur = p, Return(p),
           NEW o \in Pipe, NEW key \in Key, sched' = ns_sched_wake(sched, key),
           UNCHANGED <<proc, parent, children, files, stale>>,
           pipe' \in [Pipe -> [live : BOOLEAN,
                               buf : [0..(Capacity - 1) -> 0..(2 * Capacity - 1)],
                               head : 0..(Capacity - 1), used : 0..Capacity,
                               readers : 0..1, writers : 0..1,
                               first : 0..(2 * Capacity - 1)]],
           \A x \in Pipe \ {o} : pipe'[x] = pipe[x],
           pipe'[o].live = pipe[o].live, pipe'[o].readers = pipe[o].readers,
           pipe'[o].writers = pipe[o].writers,
           Ring(pipe'[o].buf, pipe'[o].head, pipe'[o].used, pipe'[o].first),
           key = <<"PIPE_READ", o>> \/ pipe[o].used # 0,
           key = <<"PIPE_WRITE", o>> \/ pipe'[o].used >= pipe[o].used
    PROVE  KernelInv'
  <1>1. /\ call' \in [Pid -> Calls] /\ call'[p] = NoCall
        /\ \A q \in Pid \ {p} : call'[q] = call[q]
    BY CallSet, NoCallIs DEF KernelInv, Return
  <1>2. sched.st[p] = "RUNNING" /\ Pid = Thread
    BY Current DEF Pid
  <1>3. /\ SchedOK(sched') /\ \A t \in Thread : Kin(sched, sched', t)
        /\ \A t \in Thread : sched'.st[t] = "BLOCKED" => sched'.wait[t] # key
    BY WakeOK DEF KernelInv
  <1>4. TypeOK'
    BY <1>1, <1>3 DEF KernelInv, TypeOK, Calls, SchedOK, Good
  <1>5. \A q \in Pid \ {p} : sched'.st[q] = "BLOCKED" => PipeKept(q) /\ ChildrenKept(q)
    <2> TAKE q \in Pid \ {p}
    <2> HAVE sched'.st[q] = "BLOCKED"
    <2>1. \A x \in Pipe : pipe[x].used >= pipe[x].used
      BY UsedIs
    <2>2. sched.st[q] = "BLOCKED" /\ sched'.wait[q] = sched.wait[q] /\ sched.wait[q] # key
      BY <1>2, <1>3, KinKeeps
    <2>3. ChildrenKept(q)
      BY <1>1, <2>2, SameChildren
    <2> QED
      BY <2>1, <2>2, <2>3 DEF PipeKept
  <1>6. \A q \in Pid \cap {p} : CallOK(q)'
    BY <1>1, <1>2, <1>3, CallOver, KinKeeps
  <1>7. CallsInv'
    BY <1>1, <1>2, <1>3, <1>4, <1>5, <1>6, CallsKept
  <1>8. \A q \in Pid : /\ sched'.st[q] = "EMBRYO" <=> sched.st[q] = "EMBRYO"
                       /\ sched'.st[q] = "ZOMBIE" <=> sched.st[q] = "ZOMBIE"
    BY <1>2, <1>3, KinKeeps
  <1>9. ThreadsInv' /\ TreeInv'
    BY <1>8, TreeSame, ThreadsSame DEF KernelInv
  <1>10. PipesInv'
    <2>1. PipesInv
      BY DEF KernelInv
    <2>2. \A x \in Pipe : /\ pipe'[x].live = pipe[x].live
                          /\ pipe'[x].readers = pipe[x].readers
                          /\ pipe'[x].writers = pipe[x].writers
      OBVIOUS
    <2>3. \A e : Referred(e)' <=> Referred(e)
      BY DEF Referred
    <2>4. \A q \in Pid : proc'[q] # "ALIVE" => files'[q] = {}
      BY <2>1 DEF PipesInv
    <2>5. ASSUME NEW x \in Pipe
          PROVE  /\ pipe'[x].readers = (IF Referred(<<x, "r">>)' THEN 1 ELSE 0)
                 /\ pipe'[x].writers = (IF Referred(<<x, "w">>)' THEN 1 ELSE 0)
                 /\ pipe'[x].live <=> pipe'[x].readers # 0 \/ pipe'[x].writers # 0
      BY <2>1, <2>2, <2>3 DEF PipesInv
    <2> QED
      BY <2>4, <2>5 DEF PipesInv
  <1>11. StreamIntact'
    <2>1. \A x \in Pipe : Ring(pipe[x].buf, pipe[x].head, pipe[x].used, pipe[x].first)
      BY DEF KernelInv, StreamIntact, Ring
    <2>2. \A x \in Pipe : Ring(pipe'[x].buf, pipe'[x].head, pipe'[x].used, pipe'[x].first)
      BY <2>1
    <2> QED
      BY <2>2 DEF StreamIntact, Ring
  <1> QED
    BY <1>3, <1>4, <1>7, <1>9, <1>10, <1>11 DEF KernelInv

LEMMA ReadStep ==
    \A p \in Pid, o \in Pipe, count \in ReadSizes :
        KernelInv /\ pipe_read(p, o, count) => KernelInv'
  <1> SUFFICES ASSUME NEW p \in Pid, NEW o \in Pipe, NEW count \in ReadSizes,
                      KernelInv, pipe_read(p, o, count)
               PROVE  KernelInv'
    OBVIOUS
  <1> DEFINE c == [op |-> "read", pipe |-> o, count |-> count]
             n == Least(count, pipe[o].used)
  <1>0. /\ TypeOK /\ sched.cur = p /\ <<o, "r">> \in files[p] /\ c \in Calls
        /\ UNCHANGED <<proc, parent, children, files, stale>>
    BY DEF KernelInv, pipe_read, At, Calls
  <1>1. CASE /\ pipe[o].used # 0
             /\ pipe' = [pipe EXCEPT ![o].head = (@ + n) % Capacity,
                                     ![o].used = @ - n,
                                     ![o].first = (@ + n) % (2 * Capacity)]
             /\ sched' = ns_sched_wake(sched, <<"PIPE_WRITE", o>>)
             /\ Return(p)
    <2> DEFINE q == pipe[o]
               h == (q.head + n) % Capacity
               f == (q.first + n) % (2 * Capacity)
    <2>1. /\ q \in [live : BOOLEAN, buf : [0..(Capacity - 1) -> 0..(2 * Capacity - 1)],
                    head : 0..(Capacity - 1), used : 0..Capacity,
                    readers : 0..1, writers : 0..1, first : 0..(2 * Capacity - 1)]
          /\ q.head \in 0..(Capacity - 1) /\ q.used \in 0..Capacity
          /\ q.first \in 0..(2 * Capacity - 1)
      BY <1>0, PipeIs
    <2>2. q.used \in Nat /\ count \in Nat
      BY <2>1, CapacityIs, KernelAssumption
    <2>3. n \in 0..q.used /\ q.used - n \in 0..Capacity
      <3>1. n \in Nat /\ n <= q.used
        BY <2>2, LeastIs
      <3>2. Capacity \in Nat /\ q.used <= Capacity
        BY <2>1, CapacityIs
      <3> HIDE DEF n, q
      <3> QED
        BY <2>2, <3>1, <3>2
    <2>4. Ring(q.buf, q.head, q.used, q.first)
      BY DEF KernelInv, StreamIntact, Ring
    <2> HIDE DEF n
    <2>5. pipe' = [pipe EXCEPT ![o] = [q EXCEPT !.head = h, !.used = q.used - n, !.first = f]]
      BY <1>1
    <2>6. Ring(q.buf, h, q.used - n, f)
      <3> HIDE DEF q
      <3> QED
        BY <2>1, <2>3, <2>4, RingRead
    <2>7. h \in 0..(Capacity - 1) /\ f \in 0..(2 * Capacity - 1)
      <3>1. q.head + n \in Nat /\ q.first + n \in Nat
        <4> HIDE DEF q
        <4> QED
          BY <2>1, <2>2, <2>3, CapacityIs
      <3>2. \A x \in Nat : x % Capacity \in 0..(Capacity - 1)
        BY CapacityIs, ModRange
      <3>3. \A x \in Nat : x % (2 * Capacity) \in 0..(2 * Capacity - 1)
        BY CapacityIs, ModRange
      <3> HIDE DEF q
      <3> QED
        BY <3>1, <3>2, <3>3
    <2> HIDE DEF h, f
    <2> DEFINE r == [q EXCEPT !.head = h, !.used = q.used - n, !.first = f]
    <2>8. /\ r \in [live : BOOLEAN, buf : [0..(Capacity - 1) -> 0..(2 * Capacity - 1)],
                    head : 0..(Capacity - 1), used : 0..Capacity,
                    readers : 0..1, writers : 0..1, first : 0..(2 * Capacity - 1)]
          /\ r.buf = q.buf /\ r.head = h /\ r.used = q.used - n /\ r.first = f
          /\ r.live = q.live /\ r.readers = q.readers /\ r.writers = q.writers
      <3> HIDE DEF q
      <3> QED
        BY <2>1, <2>3, <2>7
    <2> HIDE DEF r
    <2>9. /\ pipe' \in [Pipe -> [live : BOOLEAN,
                               buf : [0..(Capacity - 1) -> 0..(2 * Capacity - 1)],
                               head : 0..(Capacity - 1), used : 0..Capacity,
                               readers : 0..1, writers : 0..1,
                               first : 0..(2 * Capacity - 1)]]
          /\ \A x \in Pipe \ {o} : pipe'[x] = pipe[x]
          /\ pipe'[o] = r
      BY <1>0, <2>5, <2>8 DEF TypeOK, r
    <2>10. <<"PIPE_WRITE", o>> \in Key
      BY KeyIs
    <2> QED
      BY <1>0, <1>1, <2>6, <2>8, <2>9, <2>10, TransferStep
  <1>2. CASE /\ pipe[o].used = 0 /\ pipe[o].writers = 0
             /\ Return(p)
             /\ UNCHANGED <<pipe, sched>>
    BY <1>0, <1>2, ReturnStep
  <1>3. CASE /\ pipe[o].used = 0 /\ pipe[o].writers # 0
             /\ sched' = ns_sched_block(sched, <<"PIPE_READ", o>>)
             /\ call' = [call EXCEPT ![p] = c]
             /\ UNCHANGED pipe
    <2>1. call'[p] = c
      BY <1>0, <1>3, CallSet
    <2>2. c.op = "read" /\ c.pipe = o
      OBVIOUS
    <2> HIDE DEF c
    <2>3. sched'.wait[p] = <<"PIPE_READ", o>> => Waits(p)'
      BY <1>3, <2>1, <2>2 DEF Waits
    <2>4. <<"PIPE_READ", o>> \in Key
      BY KeyIs
    <2> QED
      BY <1>0, <1>3, <2>2, <2>3, <2>4, BlockStep
  <1> QED
    BY <1>1, <1>2, <1>3 DEF pipe_read

LEMMA WriteStep ==
    \A p \in Pid, o \in Pipe, count \in WriteSizes :
        KernelInv /\ pipe_write(p, o, count) => KernelInv'
  <1> SUFFICES ASSUME NEW p \in Pid, NEW o \in Pipe, NEW count \in WriteSizes,
                      KernelInv, pipe_write(p, o, count)
               PROVE  KernelInv'
    OBVIOUS
  <1> DEFINE c == [op |-> "write", pipe |-> o, count |-> count]
             available == Capacity - pipe[o].used
             n == Least(count, available)
             full == \/ count <= NS_PIPE_ATOMIC_MAX /\ available < count
                     \/ available = 0
             byte(i) == (pipe[o].first + pipe[o].used + i) % (2 * Capacity)
             q == pipe[o]
             b == Written(q.buf, q.head, q.used, q.first, n)
  <1>0. /\ TypeOK /\ sched.cur = p /\ <<o, "w">> \in files[p] /\ c \in Calls
        /\ UNCHANGED <<proc, parent, children, files, stale>>
    BY DEF KernelInv, pipe_write, At, Calls
  <1>a. /\ q \in [live : BOOLEAN, buf : [0..(Capacity - 1) -> 0..(2 * Capacity - 1)],
                  head : 0..(Capacity - 1), used : 0..Capacity,
                  readers : 0..1, writers : 0..1, first : 0..(2 * Capacity - 1)]
        /\ q.buf \in [0..(Capacity - 1) -> 0..(2 * Capacity - 1)]
        /\ q.head \in 0..(Capacity - 1) /\ q.used \in 0..Capacity
        /\ q.first \in 0..(2 * Capacity - 1)
    BY <1>0, PipeIs
  <1>b. q.used \in Nat /\ count \in Nat \ {0} /\ available \in Nat
    <2> HIDE DEF q
    <2> QED
      BY <1>a, CapacityIs, KernelAssumption DEF q
  <1>1. CASE pipe[o].readers = 0 /\ Return(p) /\ UNCHANGED <<pipe, sched>>
    BY <1>0, <1>1, ReturnStep
  <1>2. CASE /\ pipe[o].readers # 0 /\ full
             /\ sched' = ns_sched_block(sched, <<"PIPE_WRITE", o>>)
             /\ call' = [call EXCEPT ![p] = c]
             /\ UNCHANGED pipe
    <2>1. call'[p] = c
      BY <1>0, <1>2, CallSet
    <2>2. c.op = "write" /\ c.pipe = o /\ c.count = count
      OBVIOUS
    <2>3. Capacity - pipe[o].used < Least(count, NS_PIPE_ATOMIC_MAX)
      BY <1>2, <1>b, CapacityIs DEF Least
    <2> HIDE DEF c
    <2>4. sched'.wait[p] = <<"PIPE_WRITE", o>> => Waits(p)'
      BY <1>2, <2>1, <2>2, <2>3 DEF Waits
    <2>5. <<"PIPE_WRITE", o>> \in Key
      BY KeyIs
    <2> QED
      BY <1>0, <1>2, <2>2, <2>4, <2>5, BlockStep
  <1>3. CASE /\ pipe[o].readers # 0 /\ ~full
             /\ pipe' = [pipe EXCEPT
                    ![o].buf = [k \in DOMAIN @ |->
                        IF \E i \in 0..(n - 1) : Slot(o, i) = k
                        THEN byte(CHOOSE i \in 0..(n - 1) : Slot(o, i) = k) ELSE @[k]],
                    ![o].used = @ + n]
             /\ sched' = ns_sched_wake(sched, <<"PIPE_READ", o>>)
             /\ Return(p)
    <2>1. n \in 0..(Capacity - q.used) /\ q.used + n \in 0..Capacity /\ q.used + n >= q.used
      <3>1. n \in Nat /\ n <= available /\ available = Capacity - q.used
        BY <1>b, LeastIs
      <3> HIDE DEF n, q, available
      <3> QED
        BY <1>a, <1>b, <3>1, CapacityIs
    <2>2. Ring(q.buf, q.head, q.used, q.first)
      BY DEF KernelInv, StreamIntact, Ring
    <2>3. pipe' = [pipe EXCEPT ![o] = [q EXCEPT !.buf = b, !.used = q.used + n]]
      <3> HIDE DEF n
      <3> QED
        BY <1>3 DEF Slot, Written
    <2>4. b \in [0..(Capacity - 1) -> 0..(2 * Capacity - 1)] /\ Ring(b, q.head, q.used + n, q.first)
      <3> HIDE DEF n, q
      <3> QED
        BY <1>a, <2>1, <2>2, RingWrite
    <2> HIDE DEF b, n
    <2> DEFINE r == [q EXCEPT !.buf = b, !.used = q.used + n]
    <2>5. /\ r \in [live : BOOLEAN, buf : [0..(Capacity - 1) -> 0..(2 * Capacity - 1)],
                    head : 0..(Capacity - 1), used : 0..Capacity,
                    readers : 0..1, writers : 0..1, first : 0..(2 * Capacity - 1)]
          /\ r.buf = b /\ r.head = q.head /\ r.used = q.used + n /\ r.first = q.first
          /\ r.live = q.live /\ r.readers = q.readers /\ r.writers = q.writers
      <3> HIDE DEF q
      <3> QED
        BY <1>a, <2>1, <2>4
    <2> HIDE DEF r
    <2>6. /\ pipe' \in [Pipe -> [live : BOOLEAN,
                               buf : [0..(Capacity - 1) -> 0..(2 * Capacity - 1)],
                               head : 0..(Capacity - 1), used : 0..Capacity,
                               readers : 0..1, writers : 0..1,
                               first : 0..(2 * Capacity - 1)]]
          /\ \A x \in Pipe \ {o} : pipe'[x] = pipe[x]
          /\ pipe'[o] = r
      BY <1>0, <2>3, <2>5 DEF TypeOK, r
    <2>7. <<"PIPE_READ", o>> \in Key
      BY KeyIs
    <2> QED
      BY <1>0, <1>3, <2>1, <2>4, <2>5, <2>6, <2>7, TransferStep
  <1> QED
    BY <1>1, <1>2, <1>3 DEF pipe_write

LEMMA CreateStep ==
    \A p \in Pid, o \in Pipe : KernelInv /\ ns_pipe_create(p, o) => KernelInv'
  <1> SUFFICES ASSUME NEW p \in Pid, NEW o \in Pipe, KernelInv, ns_pipe_create(p, o)
               PROVE  KernelInv'
    OBVIOUS
  <1> DEFINE new == [FreePipe EXCEPT !.live = TRUE, !.readers = 1, !.writers = 1]
  <1>0. /\ TypeOK /\ sched.cur = p /\ call[p] = NoCall /\ ~pipe[o].live
        /\ pipe' = [pipe EXCEPT ![o] = new]
        /\ files' = [files EXCEPT ![p] = @ \cup {<<o, "r">>, <<o, "w">>}]
        /\ UNCHANGED <<sched, proc, parent, children, call, stale>>
    BY DEF KernelInv, ns_pipe_create, At
  <1>1. /\ new \in [live : BOOLEAN, buf : [0..(Capacity - 1) -> 0..(2 * Capacity - 1)],
                    head : 0..(Capacity - 1), used : 0..Capacity,
                    readers : 0..1, writers : 0..1, first : 0..(2 * Capacity - 1)]
        /\ new.live = TRUE /\ new.readers = 1 /\ new.writers = 1 /\ new.used = 0
    <2> DEFINE P == [live : BOOLEAN, buf : [0..(Capacity - 1) -> 0..(2 * Capacity - 1)],
                     head : 0..(Capacity - 1), used : 0..Capacity,
                     readers : 0..1, writers : 0..1, first : 0..(2 * Capacity - 1)]
    <2>1. ASSUME NEW f \in P, NEW t \in BOOLEAN, NEW i \in 0..1
          PROVE  LET n == [f EXCEPT !.live = t, !.readers = i, !.writers = i]
                 IN  /\ n \in P /\ n.live = t /\ n.readers = i /\ n.writers = i
                     /\ n.used = f.used
      OBVIOUS
    <2>2. FreePipe \in P /\ FreePipe.used = 0
      BY FreePipeIs DEF FreePipe
    <2>3. TRUE \in BOOLEAN /\ 1 \in 0..1
      OBVIOUS
    <2>4. /\ new \in P /\ new.live = TRUE /\ new.readers = 1 /\ new.writers = 1
          /\ new.used = FreePipe.used
      <3> HIDE DEF P
      <3> QED
        BY <2>1, <2>2, <2>3
    <2> QED
      BY <2>2, <2>4
  <1> HIDE DEF new
  <1>2. /\ pipe' \in [Pipe -> [live : BOOLEAN,
                               buf : [0..(Capacity - 1) -> 0..(2 * Capacity - 1)],
                               head : 0..(Capacity - 1), used : 0..Capacity,
                               readers : 0..1, writers : 0..1,
                               first : 0..(2 * Capacity - 1)]]
        /\ \A x \in Pipe \ {o} : pipe'[x] = pipe[x]
        /\ pipe'[o] = new
    BY <1>0, <1>1 DEF TypeOK
  <1>3. /\ files' \in [Pid -> SUBSET (Pipe \X End)]
        /\ files'[p] = files[p] \cup {<<o, "r">>, <<o, "w">>}
        /\ \A q \in Pid \ {p} : files'[q] = files[q]
    BY <1>0 DEF TypeOK, End
  <1>4. TypeOK'
    BY <1>0, <1>2, <1>3 DEF TypeOK
  <1>5. sched.st[p] = "RUNNING" /\ proc[p] = "ALIVE"
    BY <1>0, Current
  <1>6. pipe[o].readers = 0 /\ pipe[o].writers = 0
    BY <1>0 DEF KernelInv, PipesInv
  <1>7. \A q \in Pid \ {p} : sched'.st[q] = "BLOCKED" => PipeKept(q) /\ ChildrenKept(q)
    <2> TAKE q \in Pid \ {p}
    <2> HAVE sched'.st[q] = "BLOCKED"
    <2>1. \A x \in Pipe : pipe[x].used >= pipe[x].used
      BY UsedIs
    <2>2. ChildrenKept(q)
      BY <1>0, SameChildren
    <2> QED
      BY <1>2, <1>6, <1>0, <2>1, <2>2 DEF PipeKept
  <1>8. \A q \in Pid \cap {p} : CallOK(q)'
    BY <1>0, <1>5, CallOver
  <1>9. \A q \in Pid : Kin(sched, sched', q)
    BY <1>0 DEF Kin
  <1>10. CallsInv'
    BY <1>0, <1>3, <1>4, <1>7, <1>8, <1>9, CallsKept
  <1>11. ThreadsInv' /\ TreeInv' /\ SchedOK(sched')
    BY <1>0, TreeSame, ThreadsSame DEF KernelInv
  <1>12. PipesInv'
    <2>1. PipesInv
      BY DEF KernelInv
    <2>2. \A q \in Pid : proc'[q] # "ALIVE" => files'[q] = {}
      BY <1>0, <1>3, <1>5, <2>1 DEF PipesInv
    <2>3. Referred(<<o, "r">>)' /\ Referred(<<o, "w">>)'
      BY <1>3 DEF Referred
    <2>4. \A x \in Pipe \ {o}, d \in End : Referred(<<x, d>>)' <=> Referred(<<x, d>>)
      BY <1>3 DEF Referred
    <2>5. \A x \in Pipe \ {o} :
            /\ pipe'[x].readers = (IF Referred(<<x, "r">>)' THEN 1 ELSE 0)
            /\ pipe'[x].writers = (IF Referred(<<x, "w">>)' THEN 1 ELSE 0)
            /\ pipe'[x].live <=> pipe'[x].readers # 0 \/ pipe'[x].writers # 0
      BY <1>2, <2>1, <2>4 DEF PipesInv, End
    <2>6. /\ pipe'[o].readers = (IF Referred(<<o, "r">>)' THEN 1 ELSE 0)
          /\ pipe'[o].writers = (IF Referred(<<o, "w">>)' THEN 1 ELSE 0)
          /\ pipe'[o].live <=> pipe'[o].readers # 0 \/ pipe'[o].writers # 0
      BY <1>1, <1>2, <2>3
    <2> QED
      BY <2>2, <2>5, <2>6 DEF PipesInv
  <1>13. StreamIntact'
    <2>1. \A x \in Pipe : Ring(pipe[x].buf, pipe[x].head, pipe[x].used, pipe[x].first)
      BY DEF KernelInv, StreamIntact, Ring
    <2>2. Ring(new.buf, new.head, new.used, new.first)
      BY <1>1 DEF Ring
    <2>3. \A x \in Pipe : Ring(pipe'[x].buf, pipe'[x].head, pipe'[x].used, pipe'[x].first)
      BY <1>2, <2>1, <2>2
    <2> QED
      BY <2>3 DEF StreamIntact, Ring
  <1> QED
    BY <1>4, <1>10, <1>11, <1>12, <1>13 DEF KernelInv

\* The pipes after the ends E were closed for good.
Closed(E) ==
    /\ pipe' \in [Pipe -> [live : BOOLEAN,
                           buf : [0..(Capacity - 1) -> 0..(2 * Capacity - 1)],
                           head : 0..(Capacity - 1), used : 0..Capacity,
                           readers : 0..1, writers : 0..1,
                           first : 0..(2 * Capacity - 1)]]
    /\ \A o \in Pipe :
         /\ pipe'[o].readers = (IF <<o, "r">> \in E THEN 0 ELSE pipe[o].readers)
         /\ pipe'[o].writers = (IF <<o, "w">> \in E THEN 0 ELSE pipe[o].writers)
         /\ pipe'[o].live <=> pipe'[o].readers # 0 \/ pipe'[o].writers # 0
         /\ \/ pipe'[o] = FreePipe /\ pipe'[o].readers = 0 /\ pipe'[o].writers = 0
            \/ /\ pipe'[o].used = pipe[o].used /\ pipe'[o].head = pipe[o].head
               /\ pipe'[o].buf = pipe[o].buf /\ pipe'[o].first = pipe[o].first

LEMMA ClosedIs ==
    ASSUME KernelInv, NEW E, pipe' = ClosedPipes(E)
    PROVE  Closed(E)
  <1> DEFINE P == [live : BOOLEAN, buf : [0..(Capacity - 1) -> 0..(2 * Capacity - 1)],
                   head : 0..(Capacity - 1), used : 0..Capacity,
                   readers : 0..1, writers : 0..1, first : 0..(2 * Capacity - 1)]
             r(o) == IF <<o, "r">> \in E THEN 0 ELSE pipe[o].readers
             w(o) == IF <<o, "w">> \in E THEN 0 ELSE pipe[o].writers
  <1>1. \A o \in Pipe :
          pipe'[o] = IF pipe[o].live /\ r(o) = 0 /\ w(o) = 0 THEN FreePipe
                     ELSE [pipe[o] EXCEPT !.readers = r(o), !.writers = w(o)]
    BY DEF ClosedPipes
  <1>2. pipe' = [o \in Pipe |-> pipe'[o]]
    BY DEF ClosedPipes
  <1>3. ASSUME NEW o \in Pipe
        PROVE  /\ pipe'[o] \in P
               /\ pipe'[o].readers = r(o) /\ pipe'[o].writers = w(o)
               /\ pipe'[o].live <=> r(o) # 0 \/ w(o) # 0
               /\ \/ pipe'[o] = FreePipe /\ r(o) = 0 /\ w(o) = 0
                  \/ /\ pipe'[o].used = pipe[o].used /\ pipe'[o].head = pipe[o].head
                     /\ pipe'[o].buf = pipe[o].buf /\ pipe'[o].first = pipe[o].first
    <2>1. /\ pipe[o] \in P /\ pipe[o].live \in BOOLEAN
          /\ pipe[o].readers \in 0..1 /\ pipe[o].writers \in 0..1
      BY PipeIs DEF KernelInv
    <2>2. pipe[o].live <=> pipe[o].readers # 0 \/ pipe[o].writers # 0
      BY DEF KernelInv, PipesInv
    <2>3. r(o) \in 0..1 /\ w(o) \in 0..1
      BY <2>1
    <2>4. /\ FreePipe \in P /\ FreePipe.live = FALSE
          /\ FreePipe.readers = 0 /\ FreePipe.writers = 0
      BY FreePipeIs DEF FreePipe
    <2>5. r(o) # 0 \/ w(o) # 0 => pipe[o].live
      BY <2>2
    <2>6. CASE pipe[o].live /\ r(o) = 0 /\ w(o) = 0
      <3>1. pipe'[o] = FreePipe
        BY <1>1, <2>6
      <3> QED
        BY <2>4, <2>6, <3>1
    <2>7. CASE ~(pipe[o].live /\ r(o) = 0 /\ w(o) = 0)
      <3>1. pipe'[o] = [pipe[o] EXCEPT !.readers = r(o), !.writers = w(o)]
        BY <1>1, <2>7
      <3>2. /\ pipe'[o].readers = r(o) /\ pipe'[o].writers = w(o)
            /\ pipe'[o].live = pipe[o].live /\ pipe'[o] \in P
            /\ pipe'[o].used = pipe[o].used /\ pipe'[o].head = pipe[o].head
            /\ pipe'[o].buf = pipe[o].buf /\ pipe'[o].first = pipe[o].first
        <4> HIDE DEF r, w
        <4> QED
          BY <2>1, <2>3, <3>1
      <3> QED
        BY <2>5, <2>7, <3>2
    <2> QED
      BY <2>6, <2>7
  <1>4. pipe' \in [Pipe -> P]
    <2> HIDE DEF P
    <2> QED
      BY <1>2, <1>3
  <1>5. \A o \in Pipe :
          /\ pipe'[o].readers = r(o) /\ pipe'[o].writers = w(o)
          /\ pipe'[o].live <=> pipe'[o].readers # 0 \/ pipe'[o].writers # 0
          /\ \/ pipe'[o] = FreePipe /\ pipe'[o].readers = 0 /\ pipe'[o].writers = 0
             \/ /\ pipe'[o].used = pipe[o].used /\ pipe'[o].head = pipe[o].head
                /\ pipe'[o].buf = pipe[o].buf /\ pipe'[o].first = pipe[o].first
    <2> HIDE DEF P, r, w
    <2> QED
      BY <1>3
  <1> QED
    BY <1>4, <1>5 DEF Closed

\* The process p gives up the ends X.
LEMMA ClosedPipesInv ==
    ASSUME KernelInv, NEW p \in Pid, NEW X \in SUBSET files[p],
           pipe' = ClosedPipes(LastRef(p, X)),
           files' = [files EXCEPT ![p] = files[p] \ X],
           \A q \in Pid : proc'[q] # "ALIVE" => proc[q] # "ALIVE" \/ q = p,
           proc'[p] # "ALIVE" => X = files[p]
    PROVE  PipesInv' /\ StreamIntact' /\ Closed(LastRef(p, X))
  <1> DEFINE E == LastRef(p, X)
  <1>1. Closed(E)
    BY ClosedIs
  <1>2. /\ files'[p] = files[p] \ X
        /\ \A q \in Pid \ {p} : files'[q] = files[q]
    BY DEF KernelInv, TypeOK
  <1>3. PipesInv /\ StreamIntact
    BY DEF KernelInv
  <1>4. \A q \in Pid : proc'[q] # "ALIVE" => files'[q] = {}
    BY <1>2, <1>3 DEF PipesInv
  <1>5. \A e : Referred(e)' <=> Referred(e) /\ e \notin E
    BY <1>2 DEF Referred, LastRef
  <1> HIDE DEF E
  <1>6. \A o \in Pipe :
          /\ pipe'[o].readers = (IF Referred(<<o, "r">>)' THEN 1 ELSE 0)
          /\ pipe'[o].writers = (IF Referred(<<o, "w">>)' THEN 1 ELSE 0)
          /\ pipe'[o].live <=> pipe'[o].readers # 0 \/ pipe'[o].writers # 0
    <2> TAKE o \in Pipe
    <2>1. pipe'[o].live <=> pipe'[o].readers # 0 \/ pipe'[o].writers # 0
      BY <1>1 DEF Closed
    <2>2. /\ pipe'[o].readers = (IF <<o, "r">> \in E THEN 0 ELSE pipe[o].readers)
          /\ pipe'[o].writers = (IF <<o, "w">> \in E THEN 0 ELSE pipe[o].writers)
      BY <1>1 DEF Closed
    <2>3. /\ pipe[o].readers = (IF Referred(<<o, "r">>) THEN 1 ELSE 0)
          /\ pipe[o].writers = (IF Referred(<<o, "w">>) THEN 1 ELSE 0)
      BY <1>3 DEF PipesInv
    <2>4. /\ Referred(<<o, "r">>)' <=> Referred(<<o, "r">>) /\ <<o, "r">> \notin E
          /\ Referred(<<o, "w">>)' <=> Referred(<<o, "w">>) /\ <<o, "w">> \notin E
      BY <1>5
    <2> QED
      BY <2>1, <2>2, <2>3, <2>4
  <1>7. PipesInv'
    BY <1>4, <1>6 DEF PipesInv
  <1>8. StreamIntact'
    <2> SUFFICES ASSUME NEW o \in Pipe, NEW i \in 0..(pipe'[o].used - 1)
                 PROVE  pipe'[o].buf[(pipe'[o].head + i) % Capacity]
                          = (pipe'[o].first + i) % (2 * Capacity)
      BY DEF StreamIntact
    <2>1. pipe'[o] # FreePipe
      BY DEF FreePipe
    <2>2. /\ pipe'[o].used = pipe[o].used /\ pipe'[o].head = pipe[o].head
          /\ pipe'[o].buf = pipe[o].buf /\ pipe'[o].first = pipe[o].first
      BY <1>1, <2>1 DEF Closed
    <2> QED
      BY <1>3, <2>2 DEF StreamIntact
  <1> QED
    BY <1>1, <1>7, <1>8 DEF E

\* Who is still blocked at a pipe after its peers were woken may go on waiting.
LEMMA ClosedKept ==
    ASSUME KernelInv, NEW E \in SUBSET (Pipe \X End), Closed(E), NEW q \in Pid,
           \A e \in E : sched.wait[q] # PeerKey(e)
    PROVE  PipeKept(q)
  <1> SUFFICES ASSUME NEW o \in Pipe
               PROVE  /\ (/\ sched.wait[q] = <<"PIPE_READ", o>>
                          /\ pipe[o].used = 0 /\ pipe[o].writers # 0)
                           => pipe'[o].used = 0 /\ pipe'[o].writers # 0
                      /\ sched.wait[q] = <<"PIPE_WRITE", o>> /\ pipe[o].readers # 0
                           => pipe'[o].readers # 0 /\ pipe'[o].used >= pipe[o].used
    BY DEF PipeKept
  <1>1. sched.wait[q] = <<"PIPE_READ", o>> => <<o, "w">> \notin E
    BY DEF PeerKey
  <1>2. sched.wait[q] = <<"PIPE_WRITE", o>> => <<o, "r">> \notin E
    BY DEF PeerKey
  <1>3. pipe[o].used >= pipe[o].used
    BY UsedIs
  <1>4. /\ pipe'[o].readers = (IF <<o, "r">> \in E THEN 0 ELSE pipe[o].readers)
        /\ pipe'[o].writers = (IF <<o, "w">> \in E THEN 0 ELSE pipe[o].writers)
        /\ pipe'[o].readers # 0 \/ pipe'[o].writers # 0 => pipe'[o].used = pipe[o].used
    BY DEF Closed
  <1> QED
    BY <1>1, <1>2, <1>3, <1>4

LEMMA CloseStep ==
    \A p \in Pid, e \in Pipe \X End : KernelInv /\ ns_vfs_close(p, e) => KernelInv'
  <1> SUFFICES ASSUME NEW p \in Pid, NEW e \in Pipe \X End, KernelInv, ns_vfs_close(p, e)
               PROVE  KernelInv'
    OBVIOUS
  <1> DEFINE E == LastRef(p, {e})
  <1>0. /\ TypeOK /\ sched.cur = p /\ call[p] = NoCall /\ e \in files[p]
        /\ files' = [files EXCEPT ![p] = files[p] \ {e}]
        /\ pipe' = ClosedPipes(E)
        /\ sched' = IF E = {} THEN sched ELSE WakePeer(sched, e)
        /\ UNCHANGED <<proc, parent, children, call, stale>>
    BY DEF KernelInv, ns_vfs_close, At
  <1>1. sched.st[p] = "RUNNING" /\ proc[p] = "ALIVE" /\ Pid = Thread
    BY <1>0, Current DEF Pid
  <1>2. PipesInv' /\ StreamIntact' /\ Closed(E)
    BY <1>0, <1>1, ClosedPipesInv
  <1>3. E = {} \/ E = {e}
    BY DEF LastRef
  <1> HIDE DEF E
  <1>4. /\ SchedOK(sched') /\ \A t \in Thread : Kin(sched, sched', t)
        /\ \A t \in Thread : sched'.st[t] = "BLOCKED" =>
             \A x \in E : sched'.wait[t] # PeerKey(x)
    <2>1. CASE E = {}
      BY <1>0, <2>1 DEF Kin, KernelInv
    <2>2. CASE E = {e}
      <3>1. sched' = ns_sched_wake(sched, PeerKey(e)) /\ PeerKey(e) \in Key
        BY <1>0, <2>2, PeerKeyIs DEF WakePeer, PeerKey
      <3>2. /\ SchedOK(sched') /\ \A t \in Thread : Kin(sched, sched', t)
            /\ \A t \in Thread : sched'.st[t] = "BLOCKED" => sched'.wait[t] # PeerKey(e)
        BY <3>1, WakeOK DEF KernelInv
      <3> QED
        BY <2>2, <3>2
    <2> QED
      BY <1>3, <2>1, <2>2
  <1>5. /\ files' \in [Pid -> SUBSET (Pipe \X End)]
        /\ \A q \in Pid \ {p} : files'[q] = files[q]
    BY <1>0 DEF TypeOK
  <1>6. TypeOK'
    BY <1>0, <1>2, <1>4, <1>5 DEF TypeOK, SchedOK, Good, Closed
  <1>7. \A q \in Pid \ {p} : sched'.st[q] = "BLOCKED" => PipeKept(q) /\ ChildrenKept(q)
    <2> TAKE q \in Pid \ {p}
    <2> HAVE sched'.st[q] = "BLOCKED"
    <2>1. sched.st[q] = "BLOCKED" /\ \A x \in E : sched.wait[q] # PeerKey(x)
      BY <1>1, <1>4, KinKeeps
    <2>2. ChildrenKept(q)
      BY <1>0, <2>1, SameChildren
    <2>3. PipeKept(q)
      BY <1>2, <1>3, <2>1, ClosedKept
    <2> QED
      BY <2>2, <2>3
  <1>8. \A q \in Pid \cap {p} : CallOK(q)'
    BY <1>0, <1>1, <1>4, CallOver, KinKeeps
  <1>9. CallsInv'
    BY <1>0, <1>1, <1>4, <1>5, <1>6, <1>7, <1>8, CallsKept
  <1>10. \A q \in Pid : /\ sched'.st[q] = "EMBRYO" <=> sched.st[q] = "EMBRYO"
                        /\ sched'.st[q] = "ZOMBIE" <=> sched.st[q] = "ZOMBIE"
    BY <1>1, <1>4, KinKeeps
  <1>11. ThreadsInv' /\ TreeInv'
    BY <1>0, <1>10, TreeSame, ThreadsSame DEF KernelInv
  <1> QED
    BY <1>2, <1>4, <1>6, <1>9, <1>11 DEF KernelInv

\* A process with no thread of its own, yet or any more, is in no call.
LEMMA OutsideCalls ==
    ASSUME KernelInv, NEW q \in Pid, sched.st[q] \in {"EMBRYO", "ZOMBIE"}
    PROVE  call[q] = NoCall /\ files[q] = {} /\ q # Init1
  <1>1. CallOK(q) /\ ThreadsInv /\ PipesInv /\ TreeInv
    BY DEF KernelInv, CallsInv
  <1>2. call[q] = NoCall
    BY <1>1 DEF CallOK
  <1>3. proc[q] # "ALIVE"
    BY <1>1 DEF ThreadsInv
  <1> QED
    BY <1>1, <1>2, <1>3 DEF PipesInv, TreeInv

LEMMA SpawnStep ==
    \A p \in Pid, child \in Pid, inherited \in SUBSET (Pipe \X End) :
        KernelInv /\ ns_proc_spawn(p, child, inherited) => KernelInv'
  <1> SUFFICES ASSUME NEW p \in Pid, NEW child \in Pid,
                      NEW inherited \in SUBSET (Pipe \X End),
                      KernelInv, ns_proc_spawn(p, child, inherited)
               PROVE  KernelInv'
    OBVIOUS
  <1>0. /\ TypeOK /\ sched.cur = p /\ call[p] = NoCall /\ proc[child] = "FREE"
        /\ inherited \subseteq files[p]
        /\ proc' = [proc EXCEPT ![child] = "ALIVE"]
        /\ parent' = [parent EXCEPT ![child] = p]
        /\ children' = [children EXCEPT ![p] = <<child>> \o @]
        /\ files' = [files EXCEPT ![child] = inherited]
        /\ sched' = ns_sched_add(sched, child)
        /\ UNCHANGED <<pipe, call, stale>>
    BY DEF KernelInv, ns_proc_spawn, At
  <1>1. sched.st[p] = "RUNNING" /\ proc[p] = "ALIVE" /\ Pid = Thread
    BY <1>0, Current DEF Pid
  <1>2. sched.st[child] = "EMBRYO" /\ child # p /\ ThreadsInv /\ PipesInv /\ TreeInv
    BY <1>0, <1>1 DEF KernelInv, ThreadsInv
  <1>3. call[child] = NoCall /\ files[child] = {} /\ child # Init1
    BY <1>2, OutsideCalls
  <1>4. /\ SchedOK(sched') /\ \A u \in Thread \ {child} : Kin(sched, sched', u)
        /\ sched'.st[child] = "READY"
    BY <1>0, <1>1, <1>2, AddOK DEF KernelInv
  <1>5. /\ proc' \in [Pid -> {"FREE", "ALIVE", "ZOMBIE"}] /\ proc'[child] = "ALIVE"
        /\ \A q \in Pid \ {child} : proc'[q] = proc[q]
    BY <1>0 DEF TypeOK
  <1>6. /\ parent' \in [Pid -> Pid \cup {NoParent}] /\ parent'[child] = p
        /\ \A q \in Pid \ {child} : parent'[q] = parent[q]
    BY <1>0 DEF TypeOK
  <1>7. /\ files' \in [Pid -> SUBSET (Pipe \X End)] /\ files'[child] = inherited
        /\ \A q \in Pid \ {child} : files'[q] = files[q]
    BY <1>0 DEF TypeOK
  <1>8. /\ children[p] \in Seq(Thread) /\ child \notin On(children[p])
        /\ Once(children[p])
    BY <1>0, <1>1, <1>2 DEF TypeOK, TreeInv
  <1>9. /\ <<child>> \o children[p] \in Seq(Thread)
        /\ On(<<child>> \o children[p]) = {child} \cup On(children[p])
        /\ Once(<<child>> \o children[p])
    <2>1. <<child>> \in Seq(Thread) /\ On(<<child>>) = {child} /\ Once(<<child>>)
      BY <1>1, OneList
    <2> QED
      BY <1>8, <2>1, ConcatList
  <1>10. /\ children' \in [Pid -> Seq(Pid)] /\ children'[p] = <<child>> \o children[p]
         /\ \A q \in Pid \ {p} : children'[q] = children[q]
    BY <1>0, <1>1, <1>9 DEF TypeOK
  <1>11. TypeOK'
    BY <1>0, <1>4, <1>5, <1>6, <1>7, <1>10 DEF TypeOK, SchedOK, Good
  <1>12. ThreadsInv'
    <2>1. \A q \in Pid \ {child} : /\ sched'.st[q] = "EMBRYO" <=> sched.st[q] = "EMBRYO"
                                   /\ sched'.st[q] = "ZOMBIE" <=> sched.st[q] = "ZOMBIE"
      BY <1>1, <1>4, KinKeeps
    <2> QED
      BY <1>2, <1>4, <1>5, <2>1 DEF ThreadsInv
  <1>13. \A q \in Pid \ {p, child} :
           sched'.st[q] = "BLOCKED" => PipeKept(q) /\ ChildrenKept(q)
    <2> TAKE q \in Pid \ {p, child}
    <2> HAVE sched'.st[q] = "BLOCKED"
    <2>1. \A x \in Pipe : pipe[x].used >= pipe[x].used
      BY UsedIs
    <2>2. sched.st[q] = "BLOCKED"
      BY <1>1, <1>4, KinKeeps
    <2>3. Waits(q)
      BY <2>2 DEF KernelInv, CallsInv, CallOK
    <2>4. children'[q] = children[q] /\ call'[q] = call[q] /\ stale' = stale
      BY <1>0, <1>10
    <2>5. \A z \in ToSet(children[q]) : z \in Pid /\ z # child
      <3>1. ToSet(children[q]) = On(children[q]) /\ On(children[q]) \subseteq Pid
        BY <1>0, <1>1, ChildList, ListIs DEF TypeOK
      <3> QED
        BY <1>0, <1>2, <3>1 DEF TreeInv
    <2>6. ChildrenKept(q)
      BY <1>5, <2>3, <2>4, <2>5 DEF Waits, ChildrenKept, Matches
    <2> QED
      BY <1>0, <2>1, <2>6 DEF PipeKept
  <1>14. \A q \in Pid \cap {p, child} : CallOK(q)'
    <2>1. sched'.st[p] # "BLOCKED"
      BY <1>1, <1>2, <1>4, KinKeeps
    <2> QED
      BY <1>0, <1>3, <1>4, <2>1, CallOver
  <1>15. CallsInv'
    BY <1>0, <1>1, <1>4, <1>7, <1>11, <1>13, <1>14, CallsKept
  <1>16. PipesInv'
    <2>1. \A e : Referred(e)' <=> Referred(e)
      BY <1>0, <1>2, <1>3, <1>7 DEF Referred
    <2>2. \A q \in Pid : proc'[q] # "ALIVE" => files'[q] = {}
      BY <1>2, <1>5, <1>7 DEF PipesInv
    <2> QED
      BY <1>0, <1>2, <2>1, <2>2 DEF PipesInv
  <1>17. TreeInv'
    <2>0. NoParent \notin Pid
      BY SchedAssumption DEF NoParent, Pid
    <2>1. \A q \in Pid : Once(children'[q])
      <3>1. \A q \in Pid : Once(children[q])
        BY <1>2 DEF TreeInv
      <3> QED
        BY <1>9, <1>10, <3>1
    <2>2. \A q, c \in Pid : c \in On(children'[q]) <=> parent'[c] = q
      BY <1>0, <1>2, <1>6, <1>9, <1>10 DEF TreeInv
    <2>3. \A c \in Pid : parent'[c] \in Pid => proc'[c] # "FREE" /\ parent'[c] # c
      BY <1>2, <1>5, <1>6 DEF TreeInv
    <2>4. \A c \in Pid \ {Init1} : proc'[c] # "FREE" =>
            parent'[c] \in Pid /\ proc'[parent'[c]] = "ALIVE"
      BY <1>1, <1>2, <1>5, <1>6 DEF TreeInv
    <2>5. proc'[Init1] = "ALIVE" /\ parent'[Init1] = NoParent
      BY <1>2, <1>3, <1>5, <1>6, KernelAssumption DEF TreeInv, Pid
    <2> QED
      BY <2>1, <2>2, <2>3, <2>4, <2>5 DEF TreeInv
  <1>18. StreamIntact'
    BY <1>0 DEF KernelInv, StreamIntact
  <1> QED
    BY <1>4, <1>11, <1>12, <1>15, <1>16, <1>17, <1>18 DEF KernelInv

LEMMA ReapStep ==
    ASSUME KernelInv, NEW p \in Pid, sched.cur = p,
           NEW child \in On(children[p]), proc[child] = "ZOMBIE",
           ns_proc_reap(p, child), Return(p), UNCHANGED <<files, pipe>>
    PROVE  KernelInv'
  <1>0. /\ TypeOK /\ ThreadsInv /\ PipesInv /\ TreeInv
        /\ children' = [children EXCEPT ![p] = Without(@, child)]
        /\ parent' = [parent EXCEPT ![child] = NoParent]
        /\ proc' = [proc EXCEPT ![child] = "FREE"]
        /\ stale' = stale \ {child}
        /\ sched' = [sched EXCEPT !.st[child] = "EMBRYO", !.left[child] = Quantum]
    BY DEF KernelInv, ns_proc_reap
  <1>1. sched.st[p] = "RUNNING" /\ proc[p] = "ALIVE" /\ Pid = Thread
    BY Current DEF Pid
  <1>2. children[p] \in Seq(Thread) /\ child \in Pid
    BY <1>0, <1>1, ListIs DEF TypeOK
  <1>3. sched.st[child] = "ZOMBIE" /\ child # p /\ parent[child] = p
    BY <1>0, <1>1, <1>2 DEF ThreadsInv, TreeInv
  <1>4. call[child] = NoCall /\ files[child] = {} /\ child # Init1
    BY <1>2, <1>3, OutsideCalls
  <1>5. /\ SchedOK(sched') /\ \A u \in Thread \ {child} : Kin(sched, sched', u)
        /\ sched'.st[child] = "EMBRYO"
    BY <1>0, <1>1, <1>2, <1>3, ReapOK DEF KernelInv
  <1>6. /\ call' \in [Pid -> Calls] /\ call'[p] = NoCall
        /\ \A q \in Pid \ {p} : call'[q] = call[q]
    BY <1>0, CallSet, NoCallIs DEF Return
  <1>7. /\ proc' \in [Pid -> {"FREE", "ALIVE", "ZOMBIE"}] /\ proc'[child] = "FREE"
        /\ \A q \in Pid \ {child} : proc'[q] = proc[q]
    BY <1>0, <1>2 DEF TypeOK
  <1>8. /\ parent' \in [Pid -> Pid \cup {NoParent}] /\ parent'[child] = NoParent
        /\ \A q \in Pid \ {child} : parent'[q] = parent[q]
    BY <1>0, <1>2 DEF TypeOK
  <1>9. /\ Without(children[p], child) \in Seq(Thread)
        /\ On(Without(children[p], child)) = On(children[p]) \ {child}
        /\ Once(Without(children[p], child))
    BY <1>0, <1>2, WithoutList DEF TreeInv
  <1>10. /\ children' \in [Pid -> Seq(Pid)] /\ children'[p] = Without(children[p], child)
         /\ \A q \in Pid \ {p} : children'[q] = children[q]
    BY <1>0, <1>1, <1>9 DEF TypeOK
  <1>11. TypeOK'
    <2>1. stale' \subseteq Pid /\ sched' \in SchedState
      BY <1>0, <1>5 DEF TypeOK, SchedOK, Good
    <2> QED
      BY <1>0, <1>6, <1>7, <1>8, <1>10, <2>1 DEF TypeOK, Calls
  <1>12. ThreadsInv'
    <2>1. \A q \in Pid \ {child} : /\ sched'.st[q] = "EMBRYO" <=> sched.st[q] = "EMBRYO"
                                   /\ sched'.st[q] = "ZOMBIE" <=> sched.st[q] = "ZOMBIE"
      BY <1>1, <1>5, KinKeeps
    <2> QED
      BY <1>0, <1>5, <1>7, <2>1 DEF ThreadsInv
  <1>13. \A q \in Pid \ {p, child} :
           sched'.st[q] = "BLOCKED" => PipeKept(q) /\ ChildrenKept(q)
    <2> TAKE q \in Pid \ {p, child}
    <2> HAVE sched'.st[q] = "BLOCKED"
    <2>1. \A x \in Pipe : pipe[x].used >= pipe[x].used
      BY UsedIs
    <2>2. sched.st[q] = "BLOCKED"
      BY <1>1, <1>5, KinKeeps
    <2>3. Waits(q)
      BY <2>2 DEF KernelInv, CallsInv, CallOK
    <2>4. children'[q] = children[q] /\ call'[q] = call[q]
      BY <1>6, <1>10
    <2>5. \A z \in ToSet(children[q]) : z \in Pid /\ z # child
      <3>1. ToSet(children[q]) = On(children[q]) /\ On(children[q]) \subseteq Pid
        BY <1>0, <1>1, ChildList, ListIs DEF TypeOK
      <3> QED
        BY <1>0, <1>3, <3>1 DEF TreeInv
    <2>6. ChildrenKept(q)
      BY <1>0, <1>7, <2>3, <2>4, <2>5 DEF Waits, ChildrenKept, Matches
    <2> QED
      BY <2>1, <2>6 DEF PipeKept
  <1>14. \A q \in Pid \cap {p, child} : CallOK(q)'
    <2>1. sched'.st[p] # "BLOCKED"
      BY <1>1, <1>3, <1>5, KinKeeps
    <2>2. call'[child] = NoCall
      BY <1>2, <1>3, <1>4, <1>6
    <2> QED
      BY <1>5, <1>6, <2>1, <2>2, CallOver
  <1>15. CallsInv'
    BY <1>1, <1>5, <1>6, <1>11, <1>13, <1>14, CallsKept
  <1>16. PipesInv'
    <2>1. \A e : Referred(e)' <=> Referred(e)
      BY DEF Referred
    <2>2. \A q \in Pid : proc'[q] # "ALIVE" => files'[q] = {}
      BY <1>0, <1>4, <1>7 DEF PipesInv
    <2> QED
      BY <1>0, <2>1, <2>2 DEF PipesInv
  <1>17. TreeInv'
    <2>0. NoParent \notin Pid
      BY SchedAssumption DEF NoParent, Pid
    <2>1. \A q \in Pid : Once(children'[q])
      BY <1>0, <1>9, <1>10 DEF TreeInv
    <2>2. \A q, c \in Pid : c \in On(children'[q]) <=> parent'[c] = q
      BY <1>0, <1>3, <1>8, <1>9, <1>10, <2>0 DEF TreeInv
    <2>3. \A c \in Pid : parent'[c] \in Pid => proc'[c] # "FREE" /\ parent'[c] # c
      BY <1>0, <1>7, <1>8, <2>0 DEF TreeInv
    <2>4. \A c \in Pid \ {Init1} : proc'[c] # "FREE" =>
            parent'[c] \in Pid /\ proc'[parent'[c]] = "ALIVE"
      BY <1>0, <1>7, <1>8 DEF TreeInv
    <2>5. proc'[Init1] = "ALIVE" /\ parent'[Init1] = NoParent
      BY <1>0, <1>4, <1>7, <1>8, KernelAssumption DEF TreeInv, Pid
    <2> QED
      BY <2>1, <2>2, <2>3, <2>4, <2>5 DEF TreeInv
  <1>18. StreamIntact'
    BY DEF KernelInv, StreamIntact
  <1> QED
    BY <1>5, <1>11, <1>12, <1>15, <1>16, <1>17, <1>18 DEF KernelInv

LEMMA WaitStep ==
    \A p \in Pid, w \in Pid \cup {WAIT_ANY}, nohang \in BOOLEAN :
        KernelInv /\ ns_proc_wait(p, w, nohang) => KernelInv'
  <1> SUFFICES ASSUME NEW p \in Pid, NEW w \in Pid \cup {WAIT_ANY},
                      NEW nohang \in BOOLEAN, KernelInv, ns_proc_wait(p, w, nohang)
               PROVE  KernelInv'
    OBVIOUS
  <1> DEFINE c == [op |-> "wait", pid |-> w]
             S == {k \in Matches(p, w) : proc[k] = "ZOMBIE"}
             dead == Selected(children[p], S)
  <1>0. /\ TypeOK /\ TreeInv /\ sched.cur = p /\ c \in Calls
        /\ UNCHANGED <<files, pipe>>
    BY DEF KernelInv, ns_proc_wait, At, Calls
  <1>1. /\ children[p] \in Seq(Thread) /\ Pid = Thread
        /\ ToSet(children[p]) = On(children[p]) /\ On(children[p]) \subseteq Pid
    <2>1. children[p] \in Seq(Thread) /\ Pid = Thread
      BY <1>0 DEF TypeOK, Pid
    <2> QED
      BY <2>1, ChildList, ListIs
  <1>2. CASE dead # <<>> /\ ns_proc_reap(p, Head(dead)) /\ Return(p)
    <2>1. Head(dead) \in On(children[p]) \cap S
      BY <1>1, <1>2, NoneSelected
    <2> HIDE DEF dead
    <2> QED
      BY <1>0, <1>2, <2>1, ReapStep
  <1>3. CASE Return(p) /\ UNCHANGED <<sched, proc, parent, children, stale>>
    BY <1>0, <1>3, ReturnStep
  <1>4. CASE /\ dead = <<>> /\ Matches(p, w) # {} /\ ~nohang
             /\ sched' = ns_sched_block(sched, <<"CHILD", p>>)
             /\ call' = [call EXCEPT ![p] = c]
             /\ UNCHANGED <<proc, parent, children, stale>>
    <2>1. On(children[p]) \cap S = {}
      BY <1>1, <1>4, NoneSelected
    <2>2. \A z \in Matches(p, w) : proc[z] = "ALIVE"
      <3>1. \A z \in Matches(p, w) : z \in On(children[p]) /\ z \in Pid
        BY <1>1 DEF Matches
      <3>2. \A z \in Matches(p, w) : proc[z] # "ZOMBIE"
        BY <2>1, <3>1
      <3>3. \A z \in Matches(p, w) : proc[z] # "FREE"
        BY <1>0, <3>1 DEF TreeInv
      <3>4. \A z \in Pid : proc[z] \in {"FREE", "ALIVE", "ZOMBIE"}
        BY <1>0 DEF TypeOK
      <3> QED
        BY <3>1, <3>2, <3>3, <3>4
    <2>3. call'[p] = c
      BY <1>0, <1>4, CallSet
    <2>4. c.op = "wait" /\ c.pid = w
      OBVIOUS
    <2> HIDE DEF c
    <2>5. Waits(p)'
      BY <1>4, <2>2, <2>3, <2>4 DEF Waits, Matches
    <2>6. <<"CHILD", p>> \in Key
      BY <1>1, KeyIs
    <2> QED
      BY <1>0, <1>4, <2>4, <2>5, <2>6, BlockStep
  <1> QED
    BY <1>2, <1>3, <1>4 DEF ns_proc_wait

\* The children of p go to PID 1.
LEMMA Adopted ==
    ASSUME KernelInv, NEW p \in Pid, p # Init1, proc[p] = "ALIVE",
           proc' = [proc EXCEPT ![p] = "ZOMBIE"],
           children' = [children EXCEPT ![p] = <<>>,
                                        ![Init1] = Reverse(children[p]) \o @],
           parent' = [c \in Pid |-> IF Contains(children[p], c) THEN Init1 ELSE parent[c]]
    PROVE  /\ TreeInv'
           /\ children' \in [Pid -> Seq(Pid)] /\ parent' \in [Pid -> Pid \cup {NoParent}]
           /\ \A q \in Pid \ {p, Init1} : children'[q] = children[q]
           /\ On(children'[Init1]) = On(children[p]) \cup On(children[Init1])
           /\ \A q \in Pid : children'[q] \in Seq(Thread)
  <1> DEFINE mine == children[p]
             both == Reverse(mine) \o children[Init1]
  <1>0. /\ TypeOK /\ TreeInv /\ Pid = Thread /\ Init1 \in Pid /\ NoParent \notin Pid
        /\ \A q \in Pid : children[q] \in Seq(Thread)
    BY KernelAssumption, SchedAssumption DEF KernelInv, TypeOK, Pid, NoParent
  <1>1. mine \in Seq(Thread) /\ children[Init1] \in Seq(Thread)
    BY <1>0
  <1>2. /\ \A c : Contains(mine, c) <=> c \in On(mine)
        /\ Reverse(mine) \in Seq(Thread) /\ On(Reverse(mine)) = On(mine)
        /\ Once(Reverse(mine))
    BY <1>0, <1>1, ChildList, ReverseList DEF TreeInv
  <1>3. On(mine) \cap On(children[Init1]) = {}
    <2>1. On(mine) \subseteq Pid
      BY <1>0, <1>1, ListIs
    <2> QED
      BY <1>0, <2>1 DEF TreeInv
  <1>4. both \in Seq(Thread) /\ On(both) = On(mine) \cup On(children[Init1]) /\ Once(both)
    <2>1. Once(children[Init1]) /\ On(Reverse(mine)) \cap On(children[Init1]) = {}
      BY <1>0, <1>2, <1>3 DEF TreeInv
    <2>2. /\ both \in Seq(Thread) /\ On(both) = On(Reverse(mine)) \cup On(children[Init1])
          /\ Once(both)
      <3> HIDE DEF mine
      <3> QED
        BY <1>1, <1>2, <2>1, ConcatList
    <2> QED
      BY <1>2, <2>2
  <1> HIDE DEF mine, both
  <1>5. /\ children'[p] = <<>> /\ children'[Init1] = both
        /\ \A q \in Pid \ {p, Init1} : children'[q] = children[q]
        /\ DOMAIN children' = Pid
    <2>1. children \in [Pid -> Seq(Pid)]
      BY <1>0 DEF TypeOK
    <2> QED
      BY <1>0, <2>1 DEF mine, both
  <1>6. <<>> \in Seq(Thread) /\ On(<<>>) = {} /\ Once(<<>>)
    BY DEF On, Once
  <1>7. \A q \in Pid : children'[q] \in Seq(Thread)
    BY <1>0, <1>4, <1>5, <1>6
  <1>8. children' \in [Pid -> Seq(Pid)]
    <2>1. children' = [q \in Pid |-> children'[q]]
      BY <1>0 DEF TypeOK
    <2> QED
      BY <1>0, <1>7, <2>1
  <1>9. /\ DOMAIN parent' = Pid
        /\ \A c \in Pid : parent'[c] = IF c \in On(mine) THEN Init1 ELSE parent[c]
    BY <1>2 DEF mine
  <1>10. parent' \in [Pid -> Pid \cup {NoParent}]
    <2>1. \A c \in Pid : parent'[c] \in Pid \cup {NoParent}
      BY <1>0, <1>9 DEF TypeOK
    <2>2. parent' = [c \in Pid |-> parent'[c]]
      OBVIOUS
    <2> QED
      BY <2>1, <2>2
  <1>11. proc'[p] = "ZOMBIE" /\ \A q \in Pid \ {p} : proc'[q] = proc[q]
    BY <1>0 DEF TypeOK
  <1>12. TreeInv'
    <2>0. \A q, c \in Pid : c \in On(children[q]) <=> parent[c] = q
      BY <1>0 DEF TreeInv
    <2>1. \A q \in Pid : Once(children'[q])
      <3>1. \A q \in Pid : Once(children[q])
        BY <1>0 DEF TreeInv
      <3> QED
        BY <1>4, <1>5, <1>6, <3>1
    <2>2. \A q, c \in Pid : c \in On(children'[q]) <=> parent'[c] = q
      <3> SUFFICES ASSUME NEW q \in Pid, NEW c \in Pid
                   PROVE  c \in On(children'[q]) <=> parent'[c] = q
        OBVIOUS
      <3>0. c \in On(mine) <=> parent[c] = p
        BY <2>0 DEF mine
      <3>1. CASE q = p
        BY <1>0, <1>5, <1>6, <1>9, <3>0, <3>1
      <3>2. CASE q = Init1
        BY <1>0, <1>4, <1>5, <1>9, <2>0, <3>0, <3>2
      <3>3. CASE q \in Pid \ {p, Init1}
        BY <1>5, <1>9, <2>0, <3>0, <3>3
      <3> QED
        BY <3>1, <3>2, <3>3
    <2>3. \A c \in Pid : c \in On(mine) <=> parent[c] = p
      BY <2>0 DEF mine
    <2>4. \A c \in Pid : parent'[c] \in Pid => proc'[c] # "FREE" /\ parent'[c] # c
      BY <1>0, <1>9, <1>11, <2>3 DEF TreeInv
    <2>5. \A c \in Pid \ {Init1} : proc'[c] # "FREE" =>
            parent'[c] \in Pid /\ proc'[parent'[c]] = "ALIVE"
      <3> TAKE c \in Pid \ {Init1}
      <3> HAVE proc'[c] # "FREE"
      <3>1. proc[c] # "FREE" /\ proc[Init1] = "ALIVE"
        BY <1>0, <1>11 DEF TreeInv
      <3>2. parent[c] \in Pid /\ proc[parent[c]] = "ALIVE"
        BY <1>0, <3>1 DEF TreeInv
      <3> QED
        BY <1>0, <1>9, <1>11, <2>3, <3>1, <3>2
    <2>6. proc'[Init1] = "ALIVE" /\ parent'[Init1] = NoParent
      BY <1>0, <1>9, <1>11, <2>3 DEF TreeInv
    <2> QED
      BY <2>1, <2>2, <2>4, <2>5, <2>6 DEF TreeInv
  <1> QED
    BY <1>4, <1>5, <1>7, <1>8, <1>10, <1>12 DEF mine

LEMMA ExitStep == \A p \in Pid : KernelInv /\ ns_proc_exit(p) => KernelInv'
  <1> SUFFICES ASSUME NEW p \in Pid, KernelInv, ns_proc_exit(p) PROVE KernelInv'
    OBVIOUS
  <1> DEFINE last == LastRef(p, files[p])
             mine == children[p]
  <1>0. /\ TypeOK /\ TreeInv /\ ThreadsInv
        /\ sched.cur = p /\ call[p] = NoCall /\ p # Init1
        /\ proc' = [proc EXCEPT ![p] = "ZOMBIE"]
        /\ files' = [files EXCEPT ![p] = {}]
        /\ pipe' = ClosedPipes(last)
        /\ children' = [children EXCEPT ![p] = <<>>, ![Init1] = Reverse(mine) \o @]
        /\ parent' = [c \in Pid |-> IF Contains(mine, c) THEN Init1 ELSE parent[c]]
        /\ stale' = stale \cup {c \in ToSet(mine) : proc[c] = "ZOMBIE"}
        /\ UNCHANGED call
    BY DEF KernelInv, ns_proc_exit, At
  <1>1. sched.st[p] = "RUNNING" /\ proc[p] = "ALIVE" /\ Pid = Thread
    BY <1>0, Current DEF Pid
  <1>2. PICK order \in SetToSeqs(last) : sched' = Exited(sched, p, order)
    BY DEF ns_proc_exit, Exited
  <1>3. files[p] \in SUBSET (Pipe \X End) /\ last \in SUBSET (Pipe \X End)
    <2>1. files[p] \in SUBSET (Pipe \X End)
      BY <1>0 DEF TypeOK
    <2> QED
      BY <2>1 DEF LastRef
  <1>4. /\ proc' \in [Pid -> {"FREE", "ALIVE", "ZOMBIE"}] /\ proc'[p] = "ZOMBIE"
        /\ \A q \in Pid \ {p} : proc'[q] = proc[q]
    BY <1>0 DEF TypeOK
  <1>5. PipesInv' /\ StreamIntact' /\ Closed(last)
    <2>1. files' = [files EXCEPT ![p] = files[p] \ files[p]] /\ files[p] \in SUBSET files[p]
      BY <1>0
    <2>2. \A q \in Pid : proc'[q] # "ALIVE" => proc[q] # "ALIVE" \/ q = p
      BY <1>4
    <2> QED
      BY <1>0, <2>1, <2>2, ClosedPipesInv
  <1>6. /\ TreeInv'
        /\ children' \in [Pid -> Seq(Pid)] /\ parent' \in [Pid -> Pid \cup {NoParent}]
        /\ \A q \in Pid \ {p, Init1} : children'[q] = children[q]
        /\ On(children'[Init1]) = On(mine) \cup On(children[Init1])
        /\ \A q \in Pid : children'[q] \in Seq(Thread)
    BY <1>0, <1>1, Adopted
  <1> HIDE DEF last
  <1>7. /\ SchedOK(sched') /\ sched'.st[p] = "ZOMBIE"
        /\ \A t \in Thread \ {p} : Kin(sched, sched', t)
        /\ \A t \in Thread, e \in last :
             sched'.st[t] = "BLOCKED" => sched'.wait[t] # PeerKey(e)
        /\ parent[p] \in Pid /\ WaitsFor(parent[p], p)
             => sched'.st[parent[p]] # "BLOCKED"
    <2>1. /\ Len(order) \in Nat
          /\ \A n \in 1..Len(order) : order[n] \in last
          /\ \A e \in last : \E n \in 1..Len(order) : order[n] = e
      BY <1>3, OrderIs
    <2>2. \A e \in last : PeerKey(e) \in Key
      BY <1>3, PeerKeyIs
    <2>3. p \in Thread /\ SchedOK(sched)
      BY <1>1 DEF KernelInv
    <2> QED
      BY <1>0, <1>2, <2>1, <2>2, <2>3, ExitOK
  <1>8. /\ files' \in [Pid -> SUBSET (Pipe \X End)]
        /\ \A q \in Pid \ {p} : files'[q] = files[q]
    BY <1>0 DEF TypeOK
  <1>9. \A q \in Pid : /\ children[q] \in Seq(Thread)
                       /\ ToSet(children[q]) = On(children[q])
                       /\ On(children[q]) \subseteq Pid
                       /\ ToSet(children'[q]) = On(children'[q])
    <2> TAKE q \in Pid
    <2>1. children[q] \in Seq(Thread) /\ children'[q] \in Seq(Thread)
      BY <1>0, <1>1, <1>6 DEF TypeOK
    <2> QED
      BY <1>1, <2>1, ChildList, ListIs
  <1>10. TypeOK'
    <2>1. stale' \subseteq Pid
      BY <1>0, <1>9 DEF TypeOK
    <2>2. sched' \in SchedState
      BY <1>7 DEF SchedOK, Good
    <2>3. pipe' \in [Pipe -> [live : BOOLEAN,
                              buf : [0..(Capacity - 1) -> 0..(2 * Capacity - 1)],
                              head : 0..(Capacity - 1), used : 0..Capacity,
                              readers : 0..1, writers : 0..1,
                              first : 0..(2 * Capacity - 1)]]
      BY <1>5 DEF Closed
    <2> QED
      BY <1>0, <1>4, <1>6, <1>8, <2>1, <2>2, <2>3 DEF TypeOK
  <1>11. ThreadsInv'
    <2>1. \A q \in Pid \ {p} : /\ sched'.st[q] = "EMBRYO" <=> sched.st[q] = "EMBRYO"
                               /\ sched'.st[q] = "ZOMBIE" <=> sched.st[q] = "ZOMBIE"
      BY <1>1, <1>7, KinKeeps
    <2> QED
      BY <1>0, <1>4, <1>7, <2>1 DEF ThreadsInv
  <1>12. \A q \in Pid \ {p} : sched'.st[q] = "BLOCKED" => PipeKept(q) /\ ChildrenKept(q)
    <2> TAKE q \in Pid \ {p}
    <2> HAVE sched'.st[q] = "BLOCKED"
    <2>1. sched.st[q] = "BLOCKED" /\ \A e \in last : sched.wait[q] # PeerKey(e)
      BY <1>1, <1>7, KinKeeps
    <2>2. PipeKept(q)
      BY <1>3, <1>5, <2>1, ClosedKept
    <2>3. Waits(q)
      BY <2>1 DEF KernelInv, CallsInv, CallOK
    <2>4. ChildrenKept(q)
      <3> SUFFICES ASSUME call[q].op = "wait",
                          NEW z \in Matches(q, call[q].pid)', z \notin stale'
                   PROVE  proc'[z] = "ALIVE"
        BY DEF ChildrenKept
      <3>1. z \in On(children'[q]) /\ (call[q].pid = WAIT_ANY \/ z = call[q].pid)
        BY <1>0, <1>9 DEF Matches
      <3>2. \A y \in On(children[q]) :
              (call[q].pid = WAIT_ANY \/ y = call[q].pid) /\ y \notin stale
                => proc[y] = "ALIVE"
        BY <1>9, <2>3 DEF Waits, Matches
      <3>3. z \in On(children[q]) \/ z \in On(mine)
        BY <1>6, <3>1
      <3>4. z \notin stale /\ ~(z \in On(mine) /\ proc[z] = "ZOMBIE")
        BY <1>0, <1>9
      <3>5. CASE z \in On(children[q])
        <4>1. z \in Pid /\ parent[z] = q /\ proc[z] = "ALIVE"
          BY <1>0, <1>9, <3>1, <3>2, <3>4, <3>5 DEF TreeInv
        <4>2. z # p
          BY <1>7, <3>1, <4>1 DEF WaitsFor
        <4> QED
          BY <1>4, <4>1, <4>2
      <3>6. CASE z \in On(mine)
        <4>1. z \in Pid /\ parent[z] = p
          BY <1>0, <1>9, <3>6 DEF TreeInv
        <4>2. proc[z] # "FREE" /\ z # p /\ proc[z] \in {"FREE", "ALIVE", "ZOMBIE"}
          BY <1>0, <4>1 DEF TreeInv, TypeOK
        <4> QED
          BY <1>4, <3>4, <3>6, <4>1, <4>2
      <3> QED
        BY <3>3, <3>5, <3>6
    <2> QED
      BY <2>2, <2>4
  <1>13. \A q \in Pid \cap {p} : CallOK(q)'
    BY <1>0, <1>7, CallOver
  <1>14. CallsInv'
    BY <1>0, <1>1, <1>7, <1>8, <1>10, <1>12, <1>13, CallsKept
  <1> QED
    BY <1>5, <1>6, <1>7, <1>10, <1>11, <1>14 DEF KernelInv

----------------------------------------------------------------------------
\* The theorems.

LEMMA KernelInvStep == KernelInv /\ [Next]_vars => KernelInv'
  <1> SUFFICES ASSUME KernelInv, [Next]_vars PROVE KernelInv'
    OBVIOUS
  <1>1. CASE Tick
    BY <1>1, TickStep
  <1>2. ASSUME NEW p \in Pid, Syscall(p) PROVE KernelInv'
    BY <1>2, ReadStep, WriteStep, CreateStep, CloseStep, SpawnStep, ExitStep,
       WaitStep, SleepStep, YieldStep DEF Syscall
  <1>3. CASE UNCHANGED vars
    <2>1. UNCHANGED <<sched, proc, parent, children, files, pipe, call, stale>>
      BY <1>3 DEF vars
    <2>2. TypeOK' /\ SchedOK(sched') /\ StreamIntact'
      BY <2>1 DEF KernelInv, TypeOK, StreamIntact
    <2>3. ThreadsInv' /\ PipesInv' /\ TreeInv'
      BY <2>1, ThreadsSame, PipesSame, TreeSame DEF KernelInv
    <2>4. CallsInv'
      BY <2>1 DEF KernelInv, CallsInv, CallOK, Waits, Matches
    <2> QED
      BY <2>2, <2>3, <2>4 DEF KernelInv
  <1> QED
    BY <1>1, <1>2, <1>3 DEF Next

LEMMA KernelInvHolds == Spec => []KernelInv
  <1>1. Init => KernelInv
    BY KernelInvInit
  <1>2. KernelInv /\ [Next]_vars => KernelInv'
    BY KernelInvStep
  <1> QED
    BY <1>1, <1>2, PTL DEF Spec

\* Processes, pipes, descriptor tables and scheduler keep their types: the
\* counts of a pipe stay within the buffer, whatever is read and written.
THEOREM KernelTypeCorrect == Spec => []TypeOK
  <1>1. KernelInv => TypeOK
    BY DEF KernelInv
  <1> QED
    BY <1>1, KernelInvHolds, PTL

\* pipe_read, pipe_write, pipe_close, ns_proc_exit and ns_proc_wait lose no
\* wakeup, for any number of processes and pipes: a process is blocked only
\* while what it waits for has not happened.
THEOREM WakeupsAreKept == Spec => []NoLostWakeup
  <1>1. KernelInv => NoLostWakeup
    <2> SUFFICES ASSUME KernelInv, NEW p \in Pid, sched.st[p] = "BLOCKED"
                 PROVE  CASE call[p].op = "read" ->
                               /\ pipe[call[p].pipe].used = 0
                               /\ pipe[call[p].pipe].writers # 0
                               /\ sched.wait[p] = <<"PIPE_READ", call[p].pipe>>
                          [] call[p].op = "write" ->
                               /\ pipe[call[p].pipe].readers # 0
                               /\ Capacity - pipe[call[p].pipe].used
                                     < Least(call[p].count, NS_PIPE_ATOMIC_MAX)
                               /\ sched.wait[p] = <<"PIPE_WRITE", call[p].pipe>>
                          [] call[p].op = "wait" ->
                               \A z \in Matches(p, call[p].pid) \ stale : proc[z] = "ALIVE"
                          [] OTHER -> FALSE
      BY DEF NoLostWakeup
    <2>1. Waits(p)
      BY DEF KernelInv, CallsInv, CallOK
    <2> QED
      BY <2>1 DEF Waits
  <1> QED
    BY <1>1, KernelInvHolds, PTL

\* ns_pipe_create, pipe_close, ns_proc_spawn and ns_proc_exit keep the counts
\* of a pipe: it is freed with its last descriptor, never before and never
\* while a thread is inside a read or a write of it.
THEOREM PipesLiveAsLongAsUsed == Spec => []PipeLifetime
  <1>1. KernelInv => PipeLifetime
    <2> SUFFICES ASSUME KernelInv, NEW o \in Pipe
        PROVE /\ pipe[o].readers = (IF \E p \in Pid : <<o, "r">> \in files[p] THEN 1 ELSE 0)
              /\ pipe[o].writers = (IF \E p \in Pid : <<o, "w">> \in files[p] THEN 1 ELSE 0)
              /\ pipe[o].live <=> pipe[o].readers + pipe[o].writers > 0
              /\ ~pipe[o].live => \A p \in Pid : call[p] # NoCall /\ call[p].op # "wait"
                                            => call[p].pipe # o
      BY DEF PipeLifetime
    <2>1. /\ pipe[o].readers = (IF Referred(<<o, "r">>) THEN 1 ELSE 0)
          /\ pipe[o].writers = (IF Referred(<<o, "w">>) THEN 1 ELSE 0)
          /\ pipe[o].live <=> pipe[o].readers # 0 \/ pipe[o].writers # 0
      BY DEF KernelInv, PipesInv
    <2>2. pipe[o].readers \in 0..1 /\ pipe[o].writers \in 0..1
      BY PipeIs DEF KernelInv
    <2>3. pipe[o].readers # 0 \/ pipe[o].writers # 0
            <=> pipe[o].readers + pipe[o].writers > 0
      BY <2>2
    <2>4. ASSUME NEW p \in Pid, call[p] # NoCall, call[p].op # "wait", call[p].pipe = o
          PROVE  pipe[o].live
      <3>1. CallOK(p) /\ call[p].op \in {"read", "write"}
        BY <2>4, CallIs DEF KernelInv, CallsInv
      <3>2. Referred(<<o, "r">>) \/ Referred(<<o, "w">>)
        BY <2>4, <3>1 DEF CallOK, Referred
      <3> QED
        BY <2>1, <3>2
    <2> QED
      BY <2>1, <2>3, <2>4 DEF Referred
  <1> QED
    BY <1>1, KernelInvHolds, PTL

\* pipe_read and pipe_write keep the ring buffer in the order of the stream,
\* for any capacity and any sizes of reads and writes, also where the buffer
\* wraps.
THEOREM StreamStaysIntact == Spec => []StreamIntact
  <1>1. KernelInv => StreamIntact
    BY DEF KernelInv
  <1> QED
    BY <1>1, KernelInvHolds, PTL

\* ns_proc_spawn, ns_proc_exit and ns_proc_reap keep the lists of children and
\* the parent pointers in agreement, and no process loses its living parent.
THEOREM TreeStaysWhole == Spec => []ProcessTree
  <1>1. KernelInv => ProcessTree
    <2> SUFFICES ASSUME KernelInv PROVE ProcessTree
      OBVIOUS
    <2>1. TreeInv /\ \A p \in Pid : children[p] \in Seq(Thread)
      BY DEF KernelInv, TypeOK, Pid
    <2>2. \A p, c \in Pid : Contains(children[p], c) <=> parent[c] = p
      BY <2>1, ChildList DEF TreeInv
    <2>3. \A p \in Pid : Len(children[p]) = Cardinality(ToSet(children[p]))
      BY <2>1, OnceLength DEF TreeInv
    <2> QED
      BY <2>1, <2>2, <2>3 DEF TreeInv, ProcessTree
  <1> QED
    BY <1>1, KernelInvHolds, PTL

\* ns_proc_exit and ns_proc_reap leave no thread of a dead process with the
\* scheduler, and no thread of a living process is ever lost by it.
THEOREM TheDeadStayDead == Spec => []DeadStayDead
  <1>1. KernelInv => DeadStayDead
    <2> SUFFICES ASSUME KernelInv PROVE DeadStayDead
      OBVIOUS
    <2>1. /\ sched \in SchedState /\ Agrees(sched) /\ Placed(sched, {}) /\ ThreadsInv
          /\ Runs(sched) /\ Pid = Thread
          /\ \A p \in Pid : proc[p] \in {"FREE", "ALIVE", "ZOMBIE"}
      BY DEF KernelInv, SchedOK, Good, Pid, TypeOK
    <2>2. Coherent(sched)
      BY <2>1, AgreesIsCoherent
    <2>3. /\ \A l : (l \in 1..3) <=> l = 1 \/ l = 2 \/ l = 3
          /\ Lists(sched)[1] = sched.ready /\ Lists(sched)[2] = sched.blocked
          /\ Lists(sched)[3] = sched.sleep
      BY DEF Lists
    <2>4. \A list, p : Listed(list, p) <=> p \in On(list)
      BY DEF Listed, On
    <2>5. \A p \in Pid : sched.st[p] \in State
      BY <2>1, StateIs
    <2>6. ASSUME NEW p \in Pid, proc[p] # "ALIVE"
          PROVE  sched.cur # p /\ \A l \in 1..3 : ~Listed(Lists(sched)[l], p)
      <3>1. sched.st[p] \in {"EMBRYO", "ZOMBIE"} /\ p \in Thread
        BY <2>1, <2>6 DEF ThreadsInv
      <3>2. sched.cur # p
        BY <2>1, <3>1, SchedAssumption DEF Runs
      <3>3. p \notin On(sched.ready) /\ p \notin On(sched.blocked) /\ p \notin On(sched.sleep)
        BY <2>1, <3>1 DEF Agrees
      <3> QED
        BY <2>3, <2>4, <3>2, <3>3
    <2>7. ASSUME NEW p \in Pid, proc[p] = "ALIVE"
          PROVE  sched.cur = p \/ \E l \in 1..3 : Listed(Lists(sched)[l], p)
      <3>1. sched.st[p] \in {"READY", "RUNNING", "BLOCKED", "SLEEPING"} /\ p \in Thread
        BY <2>1, <2>5, <2>7 DEF ThreadsInv, State
      <3>2. \/ sched.cur = p
            \/ p \in On(sched.ready) \/ p \in On(sched.blocked) \/ p \in On(sched.sleep)
        BY <2>1, <3>1 DEF Agrees, Placed
      <3> QED
        BY <2>3, <2>4, <3>2
    <2> QED
      BY <2>2, <2>6, <2>7 DEF DeadStayDead
  <1> QED
    BY <1>1, KernelInvHolds, PTL
====
