----------------------------- MODULE Scheduler -----------------------------
(***************************************************************************)
(* The scheduler as a system: the current thread calls the functions of    *)
(* kernel/proc/scheduler.c, timer and device interrupts come between any   *)
(* two of its calls, in particular between the two halves of a wait        *)
(* (ns_sched_prepare_block, then ns_sched_commit_block).                   *)
(*                                                                         *)
(* Callers keep the contract the kernel's callers keep: a thread blocks,   *)
(* sleeps or ends only while running with preemption enabled, and follows  *)
(* a prepare with its commit.                                              *)
(***************************************************************************)
EXTENDS SchedRR

VARIABLES
    sched,      \* the scheduler state
    prepared,   \* threads between the two halves of a wait
    removed     \* threads taken out by ns_sched_remove, not yet added again

vars == <<sched, prepared, removed>>

TypeOK ==
    /\ sched \in SchedState
    /\ prepared \subseteq Thread /\ removed \subseteq Thread

Init == sched = ns_sched_init /\ prepared = {} /\ removed = {}

\* The current thread is executing between calls.
Running(t) == sched.cur = t /\ sched.st[t] = "RUNNING" /\ t \notin prepared

MayBlock(t) == Running(t) /\ sched.depth = 0

Add(t) ==
    /\ MayAdd(sched, t)
    /\ sched.cur \in Thread \cup {NoThread}
    /\ sched' = ns_sched_add(sched, t)
    /\ removed' = removed \ {t}
    /\ UNCHANGED prepared

\* The boot path enters the first thread.
Start ==
    /\ sched.cur = NoThread /\ sched.ready # <<>>
    /\ sched' = ns_sched_reschedule(sched)
    /\ UNCHANGED <<prepared, removed>>

Remove(t, u) ==
    /\ Running(t)
    /\ sched' = ns_sched_remove(sched, u)
    /\ removed' = IF u = t THEN removed ELSE removed \cup {u}
    /\ UNCHANGED prepared

Prepare(t, key) ==
    /\ MayBlock(t)
    /\ sched' = ns_sched_prepare_block(sched, key)
    /\ prepared' = prepared \cup {t}
    /\ UNCHANGED removed

Commit(t) ==
    /\ sched.cur = t /\ t \in prepared
    /\ sched' = ns_sched_commit_block(sched)
    /\ prepared' = prepared \ {t}
    /\ UNCHANGED removed

Sleep(t, d) ==
    /\ MayBlock(t)
    /\ sched' = ns_sched_sleep_until(sched, d)
    /\ UNCHANGED <<prepared, removed>>

Yield(t) ==
    /\ Running(t)
    /\ sched' = ns_sched_yield(sched)
    /\ UNCHANGED <<prepared, removed>>

Terminate(t) ==
    /\ MayBlock(t)
    /\ sched' = ns_sched_terminate_current(sched)
    /\ UNCHANGED <<prepared, removed>>

\* The thread of a process that was reaped is released; its slot may hold a
\* new thread later.
Release(t, u) ==
    /\ Running(t) /\ sched.st[u] = "ZOMBIE" /\ u # t
    /\ sched' = [sched EXCEPT !.st[u] = "EMBRYO"]
    /\ UNCHANGED <<prepared, removed>>

PreemptDisable(t) ==
    /\ Running(t) /\ sched.depth < MaxDepth
    /\ sched' = ns_sched_preempt_disable(sched)
    /\ UNCHANGED <<prepared, removed>>

PreemptEnable(t) ==
    /\ Running(t) /\ sched.depth > 0
    /\ sched' = ns_sched_preempt_enable(sched)
    /\ UNCHANGED <<prepared, removed>>

\* Wakes come from the current thread and from interrupt handlers.
Wake(key) ==
    /\ sched.cur # NoThread
    /\ sched' = ns_sched_wake(sched, key)
    /\ UNCHANGED <<prepared, removed>>

WakeThread(t) ==
    /\ sched.cur # NoThread
    /\ sched.st[t] \in {"BLOCKED", "SLEEPING"}
    /\ sched' = ns_sched_wake_thread(sched, t)
    /\ removed' = removed \ {t}
    /\ UNCHANGED prepared

Tick ==
    /\ sched.cur # NoThread
    /\ sched' = ns_sched_tick(sched)
    /\ UNCHANGED <<prepared, removed>>

Call(t) ==
    \/ \E key \in Key : Prepare(t, key)
    \/ Commit(t)
    \/ \E d \in 1..MaxSleep : Sleep(t, d)
    \/ Yield(t) \/ Terminate(t)
    \/ \E u \in Thread : Remove(t, u) \/ Release(t, u)
    \/ PreemptDisable(t) \/ PreemptEnable(t)

Next ==
    \/ Start \/ Tick
    \/ \E t \in Thread : Call(t) \/ Add(t) \/ WakeThread(t)
    \/ \E key \in Key : Wake(key)

Spec == Init /\ [][Next]_vars

----------------------------------------------------------------------------
\* Properties.

\* The lists and the thread states never disagree, whatever interrupts come
\* between the two halves of a wait: no thread is queued twice, on two lists,
\* or runs while it is queued as ready by somebody else.
QueuesCoherent == Coherent(sched)

\* No thread is lost: one that is ready, blocked or asleep and not running is
\* on the list it is woken or scheduled from.
NoThreadLost ==
    \A t \in Thread \ (removed \cup {sched.cur}) :
        /\ sched.st[t] = "READY" => Listed(sched.ready, t)
        /\ sched.st[t] = "BLOCKED" => Listed(sched.blocked, t)
        /\ sched.st[t] = "SLEEPING" => Listed(sched.sleep, t)

\* A sleeper whose deadline has come is off the list with the tick that
\* reaches it, even behind sleepers that came later with longer deadlines.
SleepersOnTime ==
    \A i \in DOMAIN sched.sleep : sched.due[sched.sleep[i]] > 0

\* A reschedule is put off only while preemption is disabled, and made up for
\* when it is enabled again, not at a later tick.  (ns_sched_remove of the
\* current thread only asks for a reschedule.)
RescheduleNotForgotten ==
    [][sched'.pending => \/ sched'.depth > 0
                         \/ sched.pending /\ sched.depth = 0
                         \/ \E t \in Thread : Remove(t, t)]_vars

\* Round robin: a queued thread is never overtaken.
Position(q, t) == CHOOSE i \in DOMAIN q : q[i] = t

NoOvertaking ==
    [][\A t \in Thread :
         Listed(sched.ready, t) /\ Listed(sched.ready', t)
            => Position(sched.ready', t) <= Position(sched.ready, t)]_vars
====
