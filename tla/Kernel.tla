------------------------------- MODULE Kernel -------------------------------
(***************************************************************************)
(* Processes, pipes and the scheduler together: the system calls that      *)
(* block, wake and end processes (kernel/proc/process.c, pipe.c, fd.c and  *)
(* the dispatcher in syscall.c) over the scheduler of SchedRR.             *)
(*                                                                         *)
(* A system call runs with interrupts masked, so it is one step up to the  *)
(* point where it blocks; the thread that is switched to continues its own *)
(* interrupted call before any interrupt is taken.  Timer ticks preempt    *)
(* user mode and the idle thread.  Every process has one thread and is     *)
(* named by its pid; a pid not in use is free to be allocated again.       *)
(*                                                                         *)
(* A descriptor table is the set of pipe ends it refers to; an end is      *)
(* closed when the last table drops it.  A byte of a pipe is its number in *)
(* the stream modulo 2 * Capacity, so two bytes in flight are different.   *)
(* PID 1 does not exit.                                                    *)
(***************************************************************************)
EXTENDS SchedRR, SequencesExt

CONSTANTS
    Pipe,          \* pipe objects
    Capacity,      \* bytes a pipe holds
    NS_PIPE_ATOMIC_MAX,
    ReadSizes,     \* byte counts of reads
    WriteSizes,    \* byte counts of writes
    Init1          \* PID 1

ASSUME KernelAssumption ==
    /\ Init1 \in Thread /\ IsFiniteSet(Pipe)
    /\ Capacity \in Nat /\ NS_PIPE_ATOMIC_MAX \in 1..Capacity
    /\ ReadSizes \subseteq Nat \ {0} /\ WriteSizes \subseteq Nat \ {0}
    /\ Key = {<<"PIPE_READ", p>> : p \in Pipe} \cup {<<"PIPE_WRITE", p>> : p \in Pipe}
             \cup {<<"CHILD", t>> : t \in Thread}

Pid == Thread
NoParent == NoThread
WAIT_ANY == Idle                 \* NS_PROC_WAIT_ANY
NoCall == [op |-> "none"]

VARIABLES
    sched,      \* the scheduler state
    proc,       \* process->state, or FREE
    parent,     \* process->parent
    children,   \* process->children, newest first
    files,      \* process->files
    pipe,       \* the pipe objects
    call,       \* the blocking system call a thread is inside of
    stale       \* history: processes that were zombies when PID 1 adopted them

vars == <<sched, proc, parent, children, files, pipe, call, stale>>

End == {"r", "w"}
FreePipe == [live |-> FALSE, buf |-> [i \in 0..(Capacity - 1) |-> 0],
             head |-> 0, used |-> 0, readers |-> 0, writers |-> 0, first |-> 0]

TypeOK ==
    /\ sched \in SchedState
    /\ proc \in [Pid -> {"FREE", "ALIVE", "ZOMBIE"}]
    /\ parent \in [Pid -> Pid \cup {NoParent}]
    /\ children \in [Pid -> Seq(Pid)]
    /\ files \in [Pid -> SUBSET (Pipe \X End)]
    /\ pipe \in [Pipe -> [live : BOOLEAN, buf : [0..(Capacity - 1) -> 0..(2 * Capacity - 1)],
                          head : 0..(Capacity - 1), used : 0..Capacity,
                          readers : 0..1, writers : 0..1, first : 0..(2 * Capacity - 1)]]
    /\ call \in [Pid -> {NoCall}
                    \cup [op : {"read"}, pipe : Pipe, count : ReadSizes]
                    \cup [op : {"write"}, pipe : Pipe, count : WriteSizes]
                    \cup [op : {"wait"}, pid : Pid \cup {WAIT_ANY}]]
    /\ stale \subseteq Pid

----------------------------------------------------------------------------
\* Pipes.

\* The process p is current and at the start of a call, or resumes the call c.
At(p, c) ==
    /\ sched.cur = p
    /\ call[p] = NoCall \/ call[p] = c

Return(p) == call' = [call EXCEPT ![p] = NoCall]

\* Mutation: the whole request is transferred, whatever is there.
Least_Whole(a, b) == a

\* The part of a request that can be met.
Least(a, b) == IF a < b THEN a ELSE b

\* pipe_read: take what there is, at most count bytes, and wake the writers;
\* end of file when nobody can write; otherwise block and try again.
pipe_read(p, o, count) ==
    LET c == [op |-> "read", pipe |-> o, count |-> count]
        n == Least(count, pipe[o].used)
    IN  /\ At(p, c) /\ <<o, "r">> \in files[p]
        /\ \/ /\ pipe[o].used # 0
              /\ pipe' = [pipe EXCEPT ![o].head = (@ + n) % Capacity,
                                      ![o].used = @ - n,
                                      ![o].first = (@ + n) % (2 * Capacity)]
              /\ sched' = ns_sched_wake(sched, <<"PIPE_WRITE", o>>)
              /\ Return(p)
           \/ /\ pipe[o].used = 0 /\ pipe[o].writers = 0
              /\ Return(p)
              /\ UNCHANGED <<pipe, sched>>
           \/ /\ pipe[o].used = 0 /\ pipe[o].writers # 0
              /\ sched' = ns_sched_block(sched, <<"PIPE_READ", o>>)
              /\ call' = [call EXCEPT ![p] = c]
              /\ UNCHANGED pipe
        /\ UNCHANGED <<proc, parent, children, files, stale>>

\* Mutation: a write starts at the first byte that is not read yet.
Slot_AtHead(o, i) == (pipe[o].head + i) % Capacity

\* Where the i-th byte of a write goes in the ring.
Slot(o, i) == (pipe[o].head + pipe[o].used + i) % Capacity

\* pipe_write of count bytes: fails without readers; a write of at most
\* NS_PIPE_ATOMIC_MAX bytes waits until all of it fits, a longer one until
\* anything does and then returns what fitted.  Either wakes the readers.
pipe_write(p, o, count) ==
    LET c == [op |-> "write", pipe |-> o, count |-> count]
        available == Capacity - pipe[o].used
        n == Least(count, available)
        full == \/ count <= NS_PIPE_ATOMIC_MAX /\ available < count
                \/ available = 0
        byte(i) == (pipe[o].first + pipe[o].used + i) % (2 * Capacity)
    IN  /\ At(p, c) /\ <<o, "w">> \in files[p]
        /\ \/ /\ pipe[o].readers = 0
              /\ Return(p)
              /\ UNCHANGED <<pipe, sched>>
           \/ /\ pipe[o].readers # 0 /\ full
              /\ sched' = ns_sched_block(sched, <<"PIPE_WRITE", o>>)
              /\ call' = [call EXCEPT ![p] = c]
              /\ UNCHANGED pipe
           \/ /\ pipe[o].readers # 0 /\ ~full
              /\ pipe' = [pipe EXCEPT
                    ![o].buf = [k \in DOMAIN @ |->
                        IF \E i \in 0..(n - 1) : Slot(o, i) = k
                        THEN byte(CHOOSE i \in 0..(n - 1) : Slot(o, i) = k) ELSE @[k]],
                    ![o].used = @ + n]
              /\ sched' = ns_sched_wake(sched, <<"PIPE_READ", o>>)
              /\ Return(p)
        /\ UNCHANGED <<proc, parent, children, files, stale>>

\* ns_pipe_create: both ends are installed in the table of the caller.
ns_pipe_create(p, o) ==
    /\ At(p, NoCall)
    /\ ~pipe[o].live
    /\ pipe' = [pipe EXCEPT ![o] = [FreePipe EXCEPT !.live = TRUE,
                                                   !.readers = 1, !.writers = 1]]
    /\ files' = [files EXCEPT ![p] = @ \cup {<<o, "r">>, <<o, "w">>}]
    /\ UNCHANGED <<sched, proc, parent, children, call, stale>>

\* Mutation: an end is closed when any of its descriptors is.
LastRef_AnyRef(p, ends) == ends

\* The ends that no table but p's refers to.
LastRef(p, ends) ==
    {e \in ends : \A q \in Pid \ {p} : e \notin files[q]}

\* pipe_close of the given ends: the counts, and the pipe released when both
\* reach zero.
ClosedPipes(ends) ==
    [o \in Pipe |->
        LET r == IF <<o, "r">> \in ends THEN 0 ELSE pipe[o].readers
            w == IF <<o, "w">> \in ends THEN 0 ELSE pipe[o].writers
        IN  IF pipe[o].live /\ r = 0 /\ w = 0 THEN FreePipe
            ELSE [pipe[o] EXCEPT !.readers = r, !.writers = w]]

\* Mutation: closing the last writer does not wake the readers.
WakePeer_NoEof(s, e) ==
    IF e[2] = "w" THEN s ELSE ns_sched_wake(s, <<"PIPE_WRITE", e[1]>>)

\* pipe_close wakes whoever waits at the other end.
WakePeer(s, e) ==
    ns_sched_wake(s, IF e[2] = "w" THEN <<"PIPE_READ", e[1]>>
                                   ELSE <<"PIPE_WRITE", e[1]>>)

\* The wakes of the closed ends, in the order they are closed.
WakePeers(s, order) ==
    LET woken[n \in 0..Len(order)] ==
            IF n = 0 THEN s ELSE WakePeer(woken[n - 1], order[n])
    IN  woken[Len(order)]

ns_vfs_close(p, e) ==
    /\ At(p, NoCall) /\ e \in files[p]
    /\ files' = [files EXCEPT ![p] = @ \ {e}]
    /\ pipe' = ClosedPipes(LastRef(p, {e}))
    /\ sched' = IF LastRef(p, {e}) = {} THEN sched ELSE WakePeer(sched, e)
    /\ UNCHANGED <<proc, parent, children, call, stale>>

----------------------------------------------------------------------------
\* Processes.

\* ns_proc_spawn and ns_sched_add: the child starts with the caller's pipe
\* ends, less the ones its spawn actions close.
ns_proc_spawn(p, child, inherited) ==
    /\ At(p, NoCall)
    /\ proc[child] = "FREE"
    /\ inherited \subseteq files[p]
    /\ proc' = [proc EXCEPT ![child] = "ALIVE"]
    /\ parent' = [parent EXCEPT ![child] = p]
    /\ children' = [children EXCEPT ![p] = <<child>> \o @]
    /\ files' = [files EXCEPT ![child] = inherited]
    /\ sched' = ns_sched_add(sched, child)
    /\ UNCHANGED <<pipe, call, stale>>

\* Mutation: the parent is woken only if it waits for this very child.
WakeParent_AnyForgotten(s, p) ==
    LET w == parent[p]
    IN  IF w \in Pid /\ s.st[w] = "BLOCKED" /\ call[w] = [op |-> "wait", pid |-> p]
        THEN ns_sched_wake_thread(s, w) ELSE s

\* ns_proc_exit wakes the thread of the parent if it waits for this child.
WakeParent(s, p) ==
    LET w == parent[p]
    IN  IF /\ w \in Pid /\ s.st[w] = "BLOCKED"
           /\ call[w].op = "wait" /\ call[w].pid \in {WAIT_ANY, p}
        THEN ns_sched_wake_thread(s, w) ELSE s

\* ns_proc_exit: the process keeps only its status; its ends are closed, its
\* children go to PID 1 one by one, the waiting parent is woken, and the
\* thread leaves the processor for good.
ns_proc_exit(p) ==
    LET last == LastRef(p, files[p])
        mine == children[p]
    IN  /\ At(p, NoCall) /\ p # Init1
        /\ proc' = [proc EXCEPT ![p] = "ZOMBIE"]
        /\ files' = [files EXCEPT ![p] = {}]
        /\ pipe' = ClosedPipes(last)
        /\ children' = [children EXCEPT ![p] = <<>>, ![Init1] = Reverse(mine) \o @]
        /\ parent' = [c \in Pid |-> IF Contains(mine, c) THEN Init1 ELSE parent[c]]
        /\ stale' = stale \cup {c \in ToSet(mine) : proc[c] = "ZOMBIE"}
        /\ \E order \in SetToSeqs(last) :
             sched' = ns_sched_terminate_current(
                        WakeParent(WakePeers([sched EXCEPT !.st[p] = "ZOMBIE"], order), p))
        /\ UNCHANGED call

\* The children of p that a wait for w looks at.
Matches(p, w) == {c \in ToSet(children[p]) : w = WAIT_ANY \/ c = w}

\* Mutation: the child stays in the list of its parent.
ns_proc_reap_NotUnlinked(p, child) ==
    /\ parent' = [parent EXCEPT ![child] = NoParent]
    /\ proc' = [proc EXCEPT ![child] = "FREE"]
    /\ stale' = stale \ {child}
    /\ sched' = [sched EXCEPT !.st[child] = "EMBRYO", !.left[child] = Quantum]
    /\ UNCHANGED children

\* ns_proc_reap and release_process: process, thread and pid are free again.
ns_proc_reap(p, child) ==
    /\ children' = [children EXCEPT ![p] = Without(@, child)]
    /\ parent' = [parent EXCEPT ![child] = NoParent]
    /\ proc' = [proc EXCEPT ![child] = "FREE"]
    /\ stale' = stale \ {child}
    /\ sched' = [sched EXCEPT !.st[child] = "EMBRYO", !.left[child] = Quantum]

\* NS_SYS_WAITPID: reap the first matching zombie; fail if nothing matches;
\* return at once with WNOHANG; otherwise block and look again.
ns_proc_wait(p, w, nohang) ==
    LET c == [op |-> "wait", pid |-> w]
        dead == Selected(children[p], {k \in Matches(p, w) : proc[k] = "ZOMBIE"})
    IN  /\ At(p, c) /\ w # p
        /\ nohang => call[p] = NoCall
        /\ \/ /\ dead # <<>>
              /\ ns_proc_reap(p, Head(dead))
              /\ Return(p)
           \/ /\ dead = <<>> /\ (Matches(p, w) = {} \/ nohang)
              /\ Return(p)
              /\ UNCHANGED <<sched, proc, parent, children, stale>>
           \/ /\ dead = <<>> /\ Matches(p, w) # {} /\ ~nohang
              /\ sched' = ns_sched_block(sched, <<"CHILD", p>>)
              /\ call' = [call EXCEPT ![p] = c]
              /\ UNCHANGED <<proc, parent, children, stale>>
        /\ UNCHANGED <<files, pipe>>

Sleep(p, d) ==
    /\ At(p, NoCall)
    /\ sched' = ns_sched_sleep_until(sched, d)
    /\ UNCHANGED <<proc, parent, children, files, pipe, call, stale>>

Yield(p) ==
    /\ At(p, NoCall)
    /\ sched' = ns_sched_yield(sched)
    /\ UNCHANGED <<proc, parent, children, files, pipe, call, stale>>

\* The timer interrupt, taken in user mode and in the idle thread.
Tick ==
    /\ \A p \in Pid : sched.cur = p => call[p] = NoCall
    /\ sched' = ns_sched_tick(sched)
    /\ UNCHANGED <<proc, parent, children, files, pipe, call, stale>>

----------------------------------------------------------------------------
\* PID 1 has been created and scheduled.
Init ==
    /\ sched = ns_sched_reschedule(ns_sched_add(ns_sched_init, Init1))
    /\ proc = [p \in Pid |-> IF p = Init1 THEN "ALIVE" ELSE "FREE"]
    /\ parent = [p \in Pid |-> NoParent]
    /\ children = [p \in Pid |-> <<>>]
    /\ files = [p \in Pid |-> {}]
    /\ pipe = [o \in Pipe |-> FreePipe]
    /\ call = [p \in Pid |-> NoCall]
    /\ stale = {}

Syscall(p) ==
    \/ \E o \in Pipe, n \in ReadSizes : pipe_read(p, o, n)
    \/ \E o \in Pipe, n \in WriteSizes : pipe_write(p, o, n)
    \/ \E o \in Pipe : ns_pipe_create(p, o)
    \/ \E e \in Pipe \X End : ns_vfs_close(p, e)
    \/ \E child \in Pid, ends \in SUBSET (Pipe \X End) : ns_proc_spawn(p, child, ends)
    \/ ns_proc_exit(p)
    \/ \E w \in Pid \cup {WAIT_ANY}, nohang \in BOOLEAN : ns_proc_wait(p, w, nohang)
    \/ \E d \in 1..MaxSleep : Sleep(p, d)
    \/ Yield(p)

Next == Tick \/ \E p \in Pid : Syscall(p)

Spec == Init /\ [][Next]_vars

\* A thread that was switched to inside a call continues that call.
Resume == \E p \in Pid :
    \/ call[p].op = "read" /\ pipe_read(p, call[p].pipe, call[p].count)
    \/ call[p].op = "write" /\ pipe_write(p, call[p].pipe, call[p].count)
    \/ call[p].op = "wait" /\ ns_proc_wait(p, call[p].pid, FALSE)

\* The timer keeps ticking and the processor executes the kernel code of the
\* current thread; no process is assumed to make any particular call.
FairSpec == Spec /\ WF_vars(Tick) /\ WF_vars(Resume)

----------------------------------------------------------------------------
\* Properties.

\* No wakeup is lost.  A process blocked on a pipe or on its children has
\* nothing to gain from being woken now: a reader's pipe is empty and can
\* still be written, a writer's pipe has no room and can still be read, and
\* no zombie child that it waits for exists.  Excepted is PID 1 waiting for
\* any child while it adopts one that is a zombie already: ns_proc_exit wakes
\* nobody then.
NoLostWakeup ==
    \A p \in Pid : sched.st[p] = "BLOCKED" =>
        CASE call[p].op = "read" ->
                /\ pipe[call[p].pipe].used = 0 /\ pipe[call[p].pipe].writers # 0
                /\ sched.wait[p] = <<"PIPE_READ", call[p].pipe>>
          [] call[p].op = "write" ->
                /\ pipe[call[p].pipe].readers # 0
                /\ Capacity - pipe[call[p].pipe].used
                      < Least(call[p].count, NS_PIPE_ATOMIC_MAX)
                /\ sched.wait[p] = <<"PIPE_WRITE", call[p].pipe>>
          [] call[p].op = "wait" ->
                \A z \in Matches(p, call[p].pid) \ stale : proc[z] = "ALIVE"
          [] OTHER -> FALSE

\* A pipe object lives exactly as long as some table refers to one of its
\* ends, each count says whether its end is referred to, and no thread waits
\* for a pipe that was freed.
PipeLifetime ==
    \A o \in Pipe :
        /\ pipe[o].readers = (IF \E p \in Pid : <<o, "r">> \in files[p] THEN 1 ELSE 0)
        /\ pipe[o].writers = (IF \E p \in Pid : <<o, "w">> \in files[p] THEN 1 ELSE 0)
        /\ pipe[o].live <=> pipe[o].readers + pipe[o].writers > 0
        /\ ~pipe[o].live => \A p \in Pid : call[p] # NoCall /\ call[p].op # "wait"
                                            => call[p].pipe # o

\* The ring buffer holds consecutive bytes of the stream, also across the
\* wrap of the buffer and after partial writes.
StreamIntact ==
    \A o \in Pipe : \A i \in 0..(pipe[o].used - 1) :
        pipe[o].buf[(pipe[o].head + i) % Capacity] = (pipe[o].first + i) % (2 * Capacity)

\* The process tree: a process is in the list of exactly the parent it names,
\* once; every process but PID 1 has a parent that is alive, so that every
\* zombie can still be reaped.
ProcessTree ==
    /\ \A p, c \in Pid : Contains(children[p], c) <=> parent[c] = p
    /\ \A p \in Pid : Len(children[p]) = Cardinality(ToSet(children[p]))
    /\ \A c \in Pid \ {Init1} : proc[c] # "FREE" =>
         parent[c] \in Pid /\ proc[parent[c]] = "ALIVE"

\* The thread of a process is schedulable exactly while the process is alive:
\* no zombie or released thread is on a list of the scheduler or current.
DeadStayDead ==
    /\ Coherent(sched)
    /\ \A p \in Pid : proc[p] # "ALIVE" =>
         /\ sched.cur # p
         /\ \A l \in 1..3 : ~Listed(Lists(sched)[l], p)
    /\ \A p \in Pid : proc[p] = "ALIVE" =>
         sched.cur = p \/ \E l \in 1..3 : Listed(Lists(sched)[l], p)

\* No process starves: one that is ready runs, whatever the others do.
ReadyRuns ==
    \A p \in Pid : sched.st[p] = "READY" ~> sched.cur = p

\* End of file reaches a reader: once nobody can write to the pipe a process
\* reads from, its call returns.
EofReachesReader ==
    \A p \in Pid :
        (call[p].op = "read" /\ pipe[call[p].pipe].writers = 0) ~> call[p] = NoCall

\* A wait for a child returns once a child it waits for has ended.
ExitReachesParent ==
    \A p \in Pid :
        (/\ call[p].op = "wait"
         /\ \E c \in Matches(p, call[p].pid) \ stale : proc[c] = "ZOMBIE")
        ~> call[p] = NoCall
====
