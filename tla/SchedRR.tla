------------------------------ MODULE SchedRR ------------------------------
(***************************************************************************)
(* The round-robin scheduler of kernel/proc/scheduler.c as functions of    *)
(* its state.  Every operator below is one function of the C code, run     *)
(* under enter_critical/leave_critical, that is with interrupts masked;    *)
(* modules that use the scheduler compose them into atomic steps.          *)
(*                                                                         *)
(* A scheduler state is a record: cur (current), the run queue, the list   *)
(* of blocked threads (last blocked first) and the list of sleepers, and   *)
(* for every thread its state, what it waits for (wait_kind and wait_key,  *)
(* one value here), the number of timer ticks left to its wake deadline    *)
(* and to the end of its quantum.  pending is reschedule_pending, depth is *)
(* preempt_disable_depth.                                                  *)
(***************************************************************************)
EXTENDS Naturals, Sequences, FiniteSets

CONSTANTS
    Thread,      \* schedulable threads
    Idle,        \* the idle thread
    NoThread,    \* a null thread pointer
    Key,         \* what a thread may wait for: a wait kind with its key
    NoKey,       \* NS_WAIT_NONE
    Quantum,     \* quantum_ticks
    MaxSleep,    \* bound on the length of a sleep, in ticks
    MaxDepth     \* bound on nested preemption disabling

ASSUME SchedAssumption ==
    /\ Idle \notin Thread /\ NoThread \notin Thread /\ Idle # NoThread
    /\ NoKey \notin Key
    /\ Quantum \in Nat \ {0} /\ MaxSleep \in Nat \ {0} /\ MaxDepth \in Nat

Task == Thread \cup {Idle}

State == {"EMBRYO", "READY", "RUNNING", "BLOCKED", "SLEEPING", "ZOMBIE"}

SchedState ==
    [cur : Task \cup {NoThread}, ready : Seq(Thread), blocked : Seq(Thread),
     sleep : Seq(Thread), st : [Task -> State], wait : [Thread -> Key \cup {NoKey}],
     due : [Thread -> 0..MaxSleep], left : [Task -> 0..Quantum],
     pending : BOOLEAN, depth : 0..MaxDepth]

\* ns_sched_init and ns_sched_set_idle.
ns_sched_init ==
    [cur |-> NoThread, ready |-> <<>>, blocked |-> <<>>, sleep |-> <<>>,
     st |-> [t \in Task |-> IF t = Idle THEN "READY" ELSE "EMBRYO"],
     wait |-> [t \in Thread |-> NoKey], due |-> [t \in Thread |-> 0],
     left |-> [t \in Task |-> Quantum], pending |-> FALSE, depth |-> 0]

\* The element of I with k - 1 smaller ones.
Nth(I, k) == CHOOSE i \in I : Cardinality({j \in I : j <= i}) = k

\* The elements of list that are in S, in their order.
Selected(list, S) ==
    LET I == {i \in DOMAIN list : list[i] \in S}
    IN  [k \in 1..Cardinality(I) |-> list[Nth(I, k)]]

\* Where a cursor stops that moves on over the elements of S.
Leading(list, S) ==
    CHOOSE n \in 0..Len(list) :
        /\ \A i \in 1..n : list[i] \in S
        /\ n < Len(list) => list[n + 1] \notin S

\* blocked_remove, sleep_remove, ready_remove: take t out of a list.
Without(list, t) == Selected(list, Thread \ {t})

Listed(list, t) == \E i \in DOMAIN list : list[i] = t

\* Mutation: a thread made ready goes to the head of the run queue.
ready_insert_tail_AtHead(s, t) ==
    [s EXCEPT !.ready = <<t>> \o @, !.st[t] = "READY"]

\* The thread becomes ready behind every thread that already is.
ready_insert_tail(s, t) == [s EXCEPT !.ready = Append(@, t), !.st[t] = "READY"]

switch_to(s, next) ==
    [s EXCEPT !.cur = next, !.st[next] = "RUNNING", !.left[next] = Quantum]

\* Mutation: the preempted thread is not put back on the run queue.
ns_sched_reschedule_Drops(s) ==
    IF s.depth # 0 THEN [s EXCEPT !.pending = TRUE]
    ELSE LET off == [s EXCEPT !.pending = FALSE, !.st[s.cur] = "READY"]
         IN  IF s.ready = <<>> THEN switch_to(off, Idle)
             ELSE switch_to([off EXCEPT !.ready = Tail(@)], Head(s.ready))

\* A running thread goes to the tail of the queue; one that blocked, slept or
\* ended does not; one woken before it switched away is queued already.
ns_sched_reschedule(s) ==
    IF s.depth # 0 THEN [s EXCEPT !.pending = TRUE]
    ELSE LET put == IF s.cur \in Thread /\ s.st[s.cur] = "RUNNING"
                    THEN ready_insert_tail(s, s.cur)
                    ELSE IF s.cur = Idle THEN [s EXCEPT !.st[Idle] = "READY"]
                    ELSE s
             off == [put EXCEPT !.pending = FALSE]
         IN  IF put.ready = <<>> THEN switch_to(off, Idle)
             ELSE switch_to([off EXCEPT !.ready = Tail(@)], Head(put.ready))

Resched(s) == ns_sched_reschedule([s EXCEPT !.pending = TRUE])

\* ns_sched_add of a thread its guard accepts.
MayAdd(s, t) == ~Listed(s.ready, t) /\ s.st[t] \notin {"RUNNING", "ZOMBIE"}

ns_sched_add(s, t) ==
    ready_insert_tail([s EXCEPT !.blocked = Without(@, t),
                                !.sleep = Without(@, t), !.wait[t] = NoKey], t)

ns_sched_remove(s, t) ==
    [s EXCEPT !.ready = Without(@, t), !.blocked = Without(@, t),
              !.sleep = Without(@, t), !.pending = @ \/ s.cur = t]

\* Mutation: the list of sleepers is kept in reverse order.
SleepInsert_Reversed(s, t, d) ==
    LET k == Leading(s.sleep, {u \in Thread : s.due[u] >= d})
    IN  SubSeq(s.sleep, 1, k) \o <<t>> \o SubSeq(s.sleep, k + 1, Len(s.sleep))

\* The place of a deadline in the sorted list of sleepers: behind the ones
\* that are due no later.
SleepInsert(s, t, d) ==
    LET k == Leading(s.sleep, {u \in Thread : s.due[u] <= d})
    IN  SubSeq(s.sleep, 1, k) \o <<t>> \o SubSeq(s.sleep, k + 1, Len(s.sleep))

ns_sched_sleep_until(s, d) ==
    Resched([s EXCEPT !.st[s.cur] = "SLEEPING", !.due[s.cur] = d,
                      !.sleep = SleepInsert(s, s.cur, d)])

\* The sleepers at the front of the list whose deadline has come.
Expired(sleep, due) ==
    SubSeq(sleep, 1, Leading(sleep, {t \in Thread : due[t] = 0}))

\* Mutation: the remaining quantum is decremented below zero.
Spend_Wraps(left) == left - 1

\* One tick of a quantum, which may be used up while preemption is disabled.
Spend(left) == IF left # 0 THEN left - 1 ELSE left

\* A tick makes expired sleepers ready, in order of their deadlines, and takes
\* a tick of the quantum of the current thread.
ns_sched_tick(s) ==
    LET Asleep == {s.sleep[i] : i \in DOMAIN s.sleep}
        due == [t \in Thread |-> IF t \in Asleep /\ s.due[t] > 0
                                 THEN s.due[t] - 1 ELSE s.due[t]]
        up == Expired(s.sleep, due)
        woken == {up[i] : i \in DOMAIN up}
        left == IF s.cur \in Thread THEN Spend(s.left[s.cur]) ELSE s.left[s.cur]
        ticked == [s EXCEPT
            !.sleep = SubSeq(@, Len(up) + 1, Len(@)),
            !.due = [t \in Thread |-> IF t \in woken THEN 0 ELSE due[t]],
            !.st = [t \in Task |-> IF t \in woken THEN "READY" ELSE s.st[t]],
            !.ready = @ \o up,
            !.left[s.cur] = left,
            !.pending = \/ @
                        \/ s.cur = Idle /\ s.ready \o up # <<>>
                        \/ s.cur # Idle /\ left = 0]
    IN  IF ticked.pending THEN ns_sched_reschedule(ticked) ELSE ticked

ns_sched_yield(s) == Resched(s)

ns_sched_prepare_block(s, key) ==
    [s EXCEPT !.st[s.cur] = "BLOCKED", !.wait[s.cur] = key,
              !.blocked = <<s.cur>> \o @]

\* Mutation: a thread whose wait was satisfied stays on the run queue.
ns_sched_commit_block_StaysQueued(s) ==
    CASE s.st[s.cur] = "BLOCKED" -> Resched(s)
      [] s.st[s.cur] = "READY" /\ Listed(s.ready, s.cur) ->
            [s EXCEPT !.st[s.cur] = "RUNNING"]
      [] OTHER -> s

\* Switch away, unless a producer satisfied the wait in the meantime.
ns_sched_commit_block(s) ==
    CASE s.st[s.cur] = "BLOCKED" -> Resched(s)
      [] s.st[s.cur] = "READY" /\ Listed(s.ready, s.cur) ->
            [s EXCEPT !.ready = Without(@, s.cur), !.st[s.cur] = "RUNNING"]
      [] OTHER -> s

ns_sched_block(s, key) == ns_sched_commit_block(ns_sched_prepare_block(s, key))

\* ns_sched_wake of every thread that waits for key (all callers pass the
\* largest maximum), in the order of the list of blocked threads.
ns_sched_wake(s, key) ==
    LET up == Selected(s.blocked, {t \in Thread : s.wait[t] = key})
        woken == {up[i] : i \in DOMAIN up}
    IN  [s EXCEPT !.blocked = Selected(@, {t \in Thread : s.wait[t] # key}),
                  !.ready = @ \o up,
                  !.st = [t \in Task |-> IF t \in woken THEN "READY" ELSE s.st[t]],
                  !.wait = [t \in Thread |-> IF t \in woken THEN NoKey
                                             ELSE s.wait[t]]]

ns_sched_wake_thread(s, t) ==
    IF s.st[t] \notin {"BLOCKED", "SLEEPING"} THEN s
    ELSE ready_insert_tail([s EXCEPT !.blocked = Without(@, t),
                                     !.sleep = Without(@, t),
                                     !.wait[t] = NoKey, !.due[t] = 0], t)

ns_sched_terminate_current(s) == Resched([s EXCEPT !.st[s.cur] = "ZOMBIE"])

ns_sched_preempt_disable(s) == [s EXCEPT !.depth = @ + 1]

\* Mutation: leaving the outermost section forgets the pending reschedule.
ns_sched_preempt_enable_Forgets(s) ==
    [s EXCEPT !.depth = IF @ # 0 THEN @ - 1 ELSE 0]

ns_sched_preempt_enable(s) ==
    LET up == [s EXCEPT !.depth = IF @ # 0 THEN @ - 1 ELSE 0]
    IN  IF up.depth = 0 /\ up.pending THEN ns_sched_reschedule(up) ELSE up

----------------------------------------------------------------------------
\* Properties of a scheduler state.

\* The three lists.
Lists(s) == <<s.ready, s.blocked, s.sleep>>

\* A thread is on at most one list, once, and the list is the one its state
\* names; the current thread is on none, except between the two halves of a
\* wait, when it is blocked or already woken.
Coherent(s) ==
    /\ \A i \in DOMAIN s.ready : s.st[s.ready[i]] = "READY"
    /\ \A i \in DOMAIN s.blocked : /\ s.st[s.blocked[i]] = "BLOCKED"
                                   /\ s.wait[s.blocked[i]] # NoKey
    /\ \A i \in DOMAIN s.sleep : s.st[s.sleep[i]] = "SLEEPING"
    /\ \A l \in 1..3 : \A i, j \in DOMAIN Lists(s)[l] :
         Lists(s)[l][i] = Lists(s)[l][j] => i = j
    /\ \A t \in Thread : s.st[t] = "RUNNING" => s.cur = t
====
