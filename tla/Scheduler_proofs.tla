-------------------------- MODULE Scheduler_proofs --------------------------
(***************************************************************************)
(* Proofs of what Scheduler.cfg checks, for any number of threads, wait    *)
(* keys, sleep lengths and nesting depths.                                 *)
(***************************************************************************)
EXTENDS Scheduler, SchedRR_proofs

\* The inductive invariant.  The lists agree with the thread states, every
\* thread that was not taken out is on the list its state names, whether it is
\* current or not, and the list of sleepers is sorted: a deadline that has
\* come is at its head, where the tick looks for it.
SchedInv ==
    /\ Good(sched, removed) /\ Timely(sched)
    /\ prepared \subseteq Thread /\ removed \subseteq Thread

\* What every step does.
GoodStep ==
    /\ SchedInv'
    /\ Ahead(sched.ready, sched'.ready)
    /\ MadeUp(sched, sched') \/ \E t \in Thread : Remove(t, t)

LEMMA SchedInvInit == Init => SchedInv
  <1> SUFFICES ASSUME Init PROVE SchedInv
    OBVIOUS
  <1> DEFINE s == ns_sched_init
  <1>1. s \in SchedState
    BY SchedAssumption DEF ns_sched_init, SchedState, State, Task
  <1>2. /\ s.ready = <<>> /\ s.blocked = <<>> /\ s.sleep = <<>>
        /\ \A t \in Thread : s.st[t] = "EMBRYO"
    BY SchedAssumption DEF ns_sched_init, Task
  <1> HIDE DEF s
  <1>3. On(<<>>) = {} /\ Once(<<>>)
    BY DEF On, Once
  <1>4. Agrees(s) /\ Placed(s, {})
    BY <1>2, <1>3 DEF Agrees, Placed
  <1>5. Timely(s)
    BY <1>2, <1>3 DEF Timely, InOrder
  <1> QED
    BY <1>1, <1>4, <1>5 DEF Init, SchedInv, Good, s

LEMMA AddStep ==
    ASSUME SchedInv, NEW t \in Thread, Add(t)
    PROVE  GoodStep
  <1>1. /\ sched \in SchedState /\ Once(sched.ready) /\ sched.ready \in Seq(Thread)
        /\ sched.depth \in Nat
    BY StateIs DEF SchedInv, Good, Agrees
  <1>2. /\ Good(sched', removed \ {t})
        /\ sched'.depth = sched.depth /\ sched'.pending = sched.pending
        /\ sched'.ready = Append(sched.ready, t)
        /\ sched'.due = sched.due /\ sched'.sleep = Without(sched.sleep, t)
    BY AddGood DEF Add, SchedInv
  <1>3. t \notin On(sched.ready)
    BY DEF Add, MayAdd, Listed, On
  <1>4. Ahead(sched.ready, sched'.ready)
    BY <1>1, <1>2, <1>3, AheadAppend
  <1>5. Timely(sched')
    BY <1>1, <1>2, TimelyWithout DEF SchedInv, Good
  <1>6. MadeUp(sched, sched')
    BY <1>1, <1>2 DEF MadeUp
  <1> QED
    BY <1>2, <1>4, <1>5, <1>6 DEF GoodStep, SchedInv, Add

LEMMA WakeThreadStep ==
    ASSUME SchedInv, NEW t \in Thread, WakeThread(t)
    PROVE  GoodStep
  <1>1. /\ sched \in SchedState /\ Once(sched.ready) /\ sched.ready \in Seq(Thread)
        /\ sched.depth \in Nat /\ sched.due \in [Thread -> 0..MaxSleep]
    BY StateIs DEF SchedInv, Good, Agrees
  <1>2. /\ Good(sched', removed \ {t})
        /\ sched'.depth = sched.depth /\ sched'.pending = sched.pending
        /\ sched'.ready = Append(sched.ready, t) /\ t \notin On(sched.ready)
        /\ sched'.due = [sched.due EXCEPT ![t] = 0]
        /\ sched'.sleep = Without(sched.sleep, t)
    <2>1. /\ sched' = ns_sched_wake_thread(sched, t) /\ Good(sched, removed)
          /\ sched.st[t] \in {"BLOCKED", "SLEEPING"}
      BY DEF WakeThread, SchedInv
    <2>2. Good(sched', removed \ {t}) /\ Woken(sched, t, sched')
      BY <2>1, WakeThreadGood
    <2> QED
      BY <2>2 DEF Woken
  <1>3. \A u \in Thread : u # t => sched'.due[u] = sched.due[u]
    BY <1>1, <1>2
  <1>4. Ahead(sched.ready, sched'.ready)
    BY <1>1, <1>2, AheadAppend
  <1>5. Timely(sched')
    BY <1>1, <1>2, <1>3, TimelyWithout DEF SchedInv, Good
  <1>6. MadeUp(sched, sched')
    BY <1>1, <1>2 DEF MadeUp
  <1> QED
    BY <1>2, <1>4, <1>5, <1>6 DEF GoodStep, SchedInv, WakeThread

LEMMA RemoveStep ==
    ASSUME SchedInv, NEW t \in Thread, NEW u \in Thread, Remove(t, u)
    PROVE  GoodStep
  <1>1. /\ sched \in SchedState /\ Once(sched.ready) /\ sched.ready \in Seq(Thread)
        /\ sched.depth \in Nat
    BY StateIs DEF SchedInv, Good, Agrees
  <1>2. /\ Good(sched', removed \cup {u})
        /\ sched.st[u] = "RUNNING" => Good(sched', removed)
        /\ sched'.depth = sched.depth
        /\ sched.cur # u => sched'.pending = sched.pending
        /\ sched'.ready = Without(sched.ready, u)
        /\ sched'.due = sched.due /\ sched'.sleep = Without(sched.sleep, u)
    BY RemoveGood DEF Remove, SchedInv
  <1>3. Good(sched', removed')
    BY <1>2 DEF Remove, Running
  <1>4. Ahead(sched.ready, sched'.ready)
    BY <1>1, <1>2, AheadSelected DEF Without
  <1>5. Timely(sched')
    BY <1>1, <1>2, TimelyWithout DEF SchedInv, Good
  <1>6. MadeUp(sched, sched') \/ Remove(t, t)
    <2>1. CASE u = t
      BY <2>1
    <2>2. CASE u # t
      BY <1>1, <1>2, <2>2 DEF Remove, Running, MadeUp
    <2> QED
      BY <2>1, <2>2
  <1> QED
    BY <1>3, <1>4, <1>5, <1>6 DEF GoodStep, SchedInv, Remove

LEMMA PrepareStep ==
    ASSUME SchedInv, NEW t \in Thread, NEW key \in Key, Prepare(t, key)
    PROVE  GoodStep
  <1>1. /\ sched.ready \in Seq(Thread) /\ Once(sched.ready) /\ sched.depth \in Nat
    BY StateIs DEF SchedInv, Good, Agrees
  <1>2. /\ Good(sched', removed)
        /\ sched'.depth = sched.depth /\ sched'.pending = sched.pending
        /\ sched'.ready = sched.ready /\ sched'.sleep = sched.sleep
        /\ sched'.due = sched.due
    BY PrepareGood DEF Prepare, MayBlock, Running, SchedInv
  <1>3. Ahead(sched.ready, sched'.ready)
    BY <1>1, <1>2, AheadSame
  <1>4. Timely(sched') /\ MadeUp(sched, sched')
    BY <1>1, <1>2 DEF Timely, MadeUp, SchedInv
  <1> QED
    BY <1>2, <1>3, <1>4 DEF GoodStep, SchedInv, Prepare

LEMMA CallStep ==
    ASSUME SchedInv, NEW t \in Thread, Call(t)
    PROVE  GoodStep
  <1>1. /\ sched \in SchedState /\ sched.ready \in Seq(Thread) /\ Once(sched.ready)
        /\ sched.depth \in Nat
    BY StateIs DEF SchedInv, Good, Agrees
  <1>2. CASE \E key \in Key : Prepare(t, key)
    BY <1>2, PrepareStep
  <1>3. CASE Commit(t)
    <2>1. /\ Good(sched', removed) /\ MadeUp(sched, sched')
          /\ SameSleep(sched, sched') /\ Ahead(sched.ready, sched'.ready)
      BY <1>3, CommitGood DEF Commit, SchedInv
    <2> QED
      BY <1>3, <2>1 DEF GoodStep, SchedInv, Commit, Timely, SameSleep
  <1>4. ASSUME NEW d \in 1..MaxSleep, Sleep(t, d) PROVE GoodStep
    <2>1. /\ Good(sched', removed) /\ Timely(sched') /\ MadeUp(sched, sched')
          /\ Ahead(sched.ready, sched'.ready)
      BY <1>4, SleepGood DEF Sleep, MayBlock, Running, SchedInv
    <2> QED
      BY <1>4, <2>1 DEF GoodStep, SchedInv, Sleep
  <1>5. CASE Yield(t)
    <2>1. /\ Good(sched', removed) /\ MadeUp(sched, sched')
          /\ SameWaits(sched, sched') /\ Ahead(sched.ready, sched'.ready)
      BY <1>5, YieldGood DEF Yield, ns_sched_yield, SchedInv
    <2> QED
      BY <1>5, <2>1 DEF GoodStep, SchedInv, Yield, Timely, SameWaits
  <1>6. CASE Terminate(t)
    <2>1. /\ Good(sched', removed) /\ MadeUp(sched, sched')
          /\ SameWaits(sched, sched') /\ Ahead(sched.ready, sched'.ready)
      BY <1>6, TerminateGood DEF Terminate, MayBlock, Running, SchedInv
    <2> QED
      BY <1>6, <2>1 DEF GoodStep, SchedInv, Terminate, Timely, SameWaits
  <1>7. ASSUME NEW u \in Thread, Remove(t, u) PROVE GoodStep
    BY <1>7, RemoveStep
  <1>8. ASSUME NEW u \in Thread, Release(t, u) PROVE GoodStep
    <2>1. /\ Good(sched', removed) /\ SameWaits(sched, sched')
          /\ SameControl(sched, sched') /\ sched'.ready = sched.ready
      <3>1. sched.st[u] \in {"RUNNING"} \cup Quiet /\ "EMBRYO" \in Quiet
        BY <1>8 DEF Release, Quiet
      <3>2. sched' = [sched EXCEPT !.st[u] = "EMBRYO"] /\ removed' = removed
            /\ Good(sched, removed)
        BY <1>8 DEF Release, SchedInv
      <3> QED
        BY <3>1, <3>2, QuietGood, SMTT(30)
    <2>2. Ahead(sched.ready, sched'.ready)
      BY <1>1, <2>1, AheadSame
    <2>3. MadeUp(sched, sched')
      BY <1>1, <2>1 DEF MadeUp, SameControl
    <2> QED
      BY <1>8, <2>1, <2>2, <2>3 DEF GoodStep, SchedInv, Release, Timely, SameWaits
  <1>9. CASE PreemptDisable(t)
    <2>1. /\ Good(sched', removed) /\ SameWaits(sched, sched')
          /\ sched'.ready = sched.ready /\ sched'.depth > 0
      BY <1>9, DisableGood DEF PreemptDisable, SchedInv
    <2>2. Ahead(sched.ready, sched'.ready) /\ MadeUp(sched, sched')
      BY <1>1, <2>1, AheadSame DEF MadeUp
    <2> QED
      BY <1>9, <2>1, <2>2 DEF GoodStep, SchedInv, PreemptDisable, Timely, SameWaits
  <1>10. CASE PreemptEnable(t)
    <2>1. /\ Good(sched', removed) /\ MadeUp(sched, sched')
          /\ SameWaits(sched, sched') /\ Ahead(sched.ready, sched'.ready)
      BY <1>10, EnableGood DEF PreemptEnable, SchedInv
    <2> QED
      BY <1>10, <2>1 DEF GoodStep, SchedInv, PreemptEnable, Timely, SameWaits
  <1> QED
    BY <1>2, <1>3, <1>4, <1>5, <1>6, <1>7, <1>8, <1>9, <1>10 DEF Call

LEMMA SchedStep == SchedInv /\ Next => GoodStep
  <1> SUFFICES ASSUME SchedInv, Next PROVE GoodStep
    OBVIOUS
  <1>1. CASE Start
    <2>1. /\ Good(sched', removed) /\ MadeUp(sched, sched')
          /\ SameWaits(sched, sched') /\ Ahead(sched.ready, sched'.ready)
      BY <1>1, StartGood DEF Start, SchedInv
    <2> QED
      BY <1>1, <2>1 DEF GoodStep, SchedInv, Start, Timely, SameWaits
  <1>2. CASE Tick
    <2>1. /\ Good(sched', removed) /\ Timely(sched') /\ MadeUp(sched, sched')
          /\ Ahead(sched.ready, sched'.ready)
      BY <1>2, TickGood DEF Tick, SchedInv
    <2> QED
      BY <1>2, <2>1 DEF GoodStep, SchedInv, Tick
  <1>3. ASSUME NEW key \in Key, Wake(key) PROVE GoodStep
    <2>1. /\ Good(sched', removed) /\ SameSleep(sched, sched')
          /\ SameControl(sched, sched') /\ Ahead(sched.ready, sched'.ready)
      BY <1>3, WakeGood DEF Wake, SchedInv
    <2>2. sched.depth \in Nat
      BY StateIs DEF SchedInv, Good
    <2>3. MadeUp(sched, sched')
      BY <2>1, <2>2 DEF MadeUp, SameControl
    <2> QED
      BY <1>3, <2>1, <2>3 DEF GoodStep, SchedInv, Wake, Timely, SameSleep
  <1> QED
    BY <1>1, <1>2, <1>3, CallStep, AddStep, WakeThreadStep DEF Next

LEMMA SchedInvStep == SchedInv /\ [Next]_vars => SchedInv'
  <1>1. SchedInv /\ UNCHANGED vars => SchedInv'
    BY DEF SchedInv, vars
  <1> QED
    BY <1>1, SchedStep DEF GoodStep

LEMMA SchedInvHolds == Spec => []SchedInv
  BY SchedInvInit, SchedInvStep, PTL DEF Spec

----------------------------------------------------------------------------

\* Scheduler states stay within their types: in particular the quantum and
\* the deadlines, which the timer tick counts down, do not go below zero.
THEOREM TypeCorrect == Spec => []TypeOK
  <1>1. SchedInv => TypeOK
    BY DEF SchedInv, Good, TypeOK
  <1> QED
    BY <1>1, SchedInvHolds, PTL

\* Whatever interrupts come between the halves of a wait, the three lists of
\* scheduler.c agree with the thread states: nothing is queued twice.
THEOREM ListsStayCoherent == Spec => []QueuesCoherent
  <1>1. SchedInv => QueuesCoherent
    BY AgreesIsCoherent DEF SchedInv, Good, QueuesCoherent
  <1> QED
    BY <1>1, SchedInvHolds, PTL

\* No sequence of calls and interrupts takes a waiting thread off the list it
\* is woken or scheduled from, except ns_sched_remove.
THEOREM ThreadsAreKept == Spec => []NoThreadLost
  <1>1. SchedInv => NoThreadLost
    BY DEF SchedInv, Good, Placed, NoThreadLost, Listed, On
  <1> QED
    BY <1>1, SchedInvHolds, PTL

\* ns_sched_tick stops at the first sleeper that is not due; since
\* ns_sched_sleep_until keeps the list sorted, no sleeper behind it is.
THEOREM SleepersAreWoken == Spec => []SleepersOnTime
  <1>1. SchedInv => SleepersOnTime
    BY DEF SchedInv, Timely, SleepersOnTime, On
  <1> QED
    BY <1>1, SchedInvHolds, PTL

\* ns_sched_reschedule is put off only by preempt_disable_depth, and
\* ns_sched_preempt_enable makes up for it.
THEOREM ReschedulesAreMade == Spec => RescheduleNotForgotten
  <1> DEFINE A == sched'.pending => \/ sched'.depth > 0
                                    \/ sched.pending /\ sched.depth = 0
                                    \/ \E t \in Thread : Remove(t, t)
  <1>1. SchedInv /\ [Next]_vars => [A]_vars
    BY SchedStep DEF GoodStep, MadeUp
  <1> QED
    BY <1>1, SchedInvHolds, PTL DEF Spec, RescheduleNotForgotten

LEMMA PositionIs ==
    ASSUME NEW q \in Seq(Thread), NEW t, Listed(q, t)
    PROVE  Position(q, t) \in DOMAIN q /\ q[Position(q, t)] = t
  BY DEF Position, Listed

\* Round robin: a thread on the run queue only moves towards its head, until
\* it runs or is taken out.
THEOREM RoundRobin == Spec => NoOvertaking
  <1> DEFINE A == \A t \in Thread :
                    Listed(sched.ready, t) /\ Listed(sched.ready', t)
                       => Position(sched.ready', t) <= Position(sched.ready, t)
  <1>1. ASSUME SchedInv, Next PROVE A
    <2>1. /\ Ahead(sched.ready, sched.ready')
          /\ sched.ready \in Seq(Thread) /\ sched.ready' \in Seq(Thread)
      BY <1>1, SchedStep, StateIs DEF GoodStep, SchedInv, Good
    <2> QED
      BY <2>1, PositionIs DEF Ahead
  <1>2. SchedInv /\ [Next]_vars => [A]_vars
    BY <1>1
  <1> QED
    BY <1>2, SchedInvHolds, PTL DEF Spec, NoOvertaking
====
