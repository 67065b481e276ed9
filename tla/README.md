# A TLA+ verification of NorthstarOS

NorthstarOS is a small x86-64 operating system in C for one processor: a
preemptive kernel with processes, pipes and system calls, a VFS with a
journaling filesystem, a network stack, and drivers. This directory holds TLA+
models of its core: the filesystem from the journal to the namespace, the
scheduler, processes and pipes, the VFS, memory management and the network
stack, with the TLC configurations that check them and proofs that the TLA+
proof system checks.

## The system and its hard parts

| Component | State | Operations | Interacts with | What is hard |
|---|---|---|---|---|
| NorthstarFS (`kernel/fs/nsfs.c`) | superblock pair, redo journal, bitmaps, inodes, directories; superblock copy, `poisoned`, one transaction in memory | format, mount with recovery, transactions, sync, unmount, abandon; lookup, create, link, unlink, rename, read, write, truncate | block layer below, `nsfs_vfs.c` above | a power cut keeps any subset of unflushed writes; a device error at any step; recovery that is itself cut |
| Block layer (`block.c`, `block_mem.c`, `block_slice.c`) | geometry, fault plan | read, write, flush | ATA driver | flush is the only ordering |
| Scheduler (`kernel/proc/scheduler.c`) | run queue, blocked list, sorted sleepers, current thread, quantum, pending reschedule | add, remove, tick, yield, two-phase block, sleep, wake, terminate, preempt disable/enable | timer interrupt, every blocking call | interrupts between the halves of a wait, deferred reschedules |
| Processes (`process.c`) | process tree, thread lists, zombies | spawn, exec, exit, wait, reap | scheduler, descriptor tables | exits and waits in every order; reparenting |
| Pipes (`pipe.c`) | ring buffer, reader and writer counts | create, read, write, close | scheduler, descriptor tables | lost wakeups, end of file, lifetime |
| Descriptors and VFS (`fd.c`, `vfs.c`, `initramfs.c`, `nsfs_vfs.c`) | nodes and open files with reference counts, tables, mounts, devices | mount, open, close, dup, clone, mkdir, unlink, read, write, seek, getdents, chdir | everything with a file operation table | reference counts on failing paths, directories removed under a mount, bytes left behind an end of file |
| System calls (`syscall.c`, `usercopy.c`) | none of its own | dispatch | all of the above | what is atomic: interrupts are masked |
| Memory (`pmm.c`, `vmm.c`, `heap.c`, `image.c`, `elf_loader.c`) | frame bitmaps, page tables, heap blocks, images and breaks of processes | allocate, free, map, unmap, protect; spawn, exec, reap, sbrk; kmalloc, krealloc, kfree | processes, drivers | partial failure of multi-page operations, shared kernel tables, recycled frames |
| Network (`kernel/net`) | ARP cache, routes, datagrams that wait, UDP endpoints, TCP connections, DHCP lease, DNS queries and cache, sockets | packet input, timers, configuration, socket calls | RTL8139 driver | loss, duplication, reordering, retries, sequence numbers that wrap, one configuration kept in five places |
| Drivers (`ata.c`, `rtl8139.c`) | command state, rings | polled requests, receive and transmit | PIC, block layer, network | register protocols |
| Boot, tools, user programs | — | — | — | sequential parsing or start-up code |

`PROJECT.json` lists every component with its status, and under `hazards` what
is hard to test, at the line where it bites.

## Modules

| Module | Models |
|---|---|
| `NsfsJournal` | the journal protocol of `nsfs.c` over a device with a volatile write cache |
| `AtomicStore` | what that protocol promises: transactions all or nothing |
| `NsfsJournal_proofs`, `NsfsStore_proofs` | theorems about `NsfsJournal`, up to the refinement of `AtomicStore` |
| `SchedRR` | `scheduler.c`, one operator per C function, over a record that is `struct ns_scheduler` with its threads |
| `Scheduler` | the scheduler alone, called in any legal order by threads and interrupts |
| `SchedRR_proofs`, `Scheduler_proofs` | lemmas about every operator of `SchedRR`; theorems about `Scheduler` |
| `Kernel` | `SchedRR` composed with processes, pipes and descriptor tables through the system calls |
| `Kernel_proofs` | theorems about `Kernel`, from the lemmas of `SchedRR_proofs` |
| `NsfsTree` | allocation, inodes, block maps, directories and operations of `nsfs.c`, with the checks of `fsck_northstar.c` as its invariant |
| `VfsNodes`, `Vfs` | ramfs, initramfs and the NorthstarFS adapter as nodes; mounts, devices, open files and descriptor tables over them |
| `Vfs_proofs` | theorems about `Vfs` |
| `TcpConnection`, `TcpSockets` | `net_tcp.c`, one operator per function over a connection; two hosts with socket tables and the network between them |
| `TcpSockets_proofs` | theorems about `TcpSockets` |
| `NetLink`, `NetServices`, `NetStack` | Ethernet, ARP, IPv4, ICMP and routes; UDP, DHCP and DNS; `net_stack.c` and the datagram sockets that compose them |
| `NetStack_proofs` | theorems about `NetStack` |
| `PageTables`, `Kheap`, `Memory` | `pmm.c` and `vmm.c`; `heap.c`; the processes, kernel clients and drivers that use them |
| `MC...` | the instances TLC checks |

`SchedRR` is composed in `Scheduler` and `Kernel`, `TcpConnection` in
`TcpSockets`, `VfsNodes` in `Vfs`, `NetLink` and `NetServices` in `NetStack`,
`PageTables` in `Kheap` and both in `Memory`. `AtomicStore` is instantiated by
`NsfsJournal`, and `NsfsTree` takes what it promises for granted: there a
commit is one step.

### NsfsJournal

*Device.* For every block the model keeps what a read returns and the set of
values the medium may hold if power is cut now. A write adds to the set, a
flush (`ns_block_flush`) reduces it to the current value, a cut picks one value
of every set independently. Redo slots and home blocks are 4 KiB and may be
torn; a superblock and a journal header of at most 28 descriptors lie within
one sector and are not (torn sectors are excluded by
`docs/adr/0003-filesystem-crash-model.md`). A loop of writes without a flush is
one step, because a cut keeps any subset of unflushed writes anyway. A block's
contents are the stamp of the transaction that wrote it, and a checksum is the
image it covers, so it matches exactly when the image is the one sealed.

*Filesystem.* `pc` names the step of the running call: the commit goes through
`staged`, `images`, `imgflush`, `header`, `commitflush`, `homes`, `homeflush`,
`clear`, `clearflush`, as the code of `nsfs_tx_commit` does; recovery through
`rhomes` to `rclearflush`; the superblock pair through `sb1` to `sb0flush`.
Each place where the code looks at a device status has a failing alternative,
enabled by the constant `Faults`. An operation on the filesystem is the
sequence of distinct home blocks it stages, and the block `Bitmap` stands for
the bitmaps that the superblock's free counters must agree with
(`nsfs_validate_bitmaps`).

*Properties.* `RecoverySucceeds` (no mount fails with EIO), `JournalIntact` (a
commit record on the medium finds exactly the images it describes, whatever is
preserved), `CleanNeedsNoReplay` (the rule `journal.clean_mismatch` of
`fsck.northstar`), `GenerationNeverRegresses` and `AcknowledgedIsDurable` (the superblock generation a
mount is certain to arrive at never decreases, and covers every call that
returned success), and `ImplementsAtomicStore`: with
`Contents` (what a mount would find) as the refinement mapping, the contents
change by whole transactions only, at the commit barrier or when power is lost
before it returned. `MountCompletes` is the liveness property.

### SchedRR and Scheduler

Every operator of `SchedRR` is a C function as a function of the scheduler
state; the code runs each under `enter_critical`/`leave_critical`. Deadlines
are ticks left. `Scheduler` lets the current thread call any of them and lets
ticks and wakes come between any two calls, in particular between
`ns_sched_prepare_block` and `ns_sched_commit_block`. The callers' contract is
kept: a thread blocks, sleeps or ends only with preemption enabled and follows
a prepare by its commit. `ns_sched_wake` is always called for all waiters in
this kernel and is modelled so.

### Kernel

System calls run with interrupts masked (the syscall entry clears IF, and
`int 0x80` is an interrupt gate), so a call is one step up to where it blocks.
A thread that is switched to inside a call (`call[p]`) continues that call
before any tick; ticks come in user mode and in the idle thread. A process has
one thread and is its pid; a free pid may be allocated again. A descriptor
table is the set of pipe ends it refers to, and an end is closed with its last
reference. A byte is its number in the stream modulo twice the capacity. A
process makes any call in any order, except that PID 1 does not exit, and a
spawned process inherits any subset of its parent's ends (the spawn actions).
`ns_proc_exit` includes closing the descriptors, the reparenting, the wake of
the parent and the final switch; a page fault of a process takes the same path
(`user_exception_handler`).

`stale` is a history variable: children that were already zombies when PID 1
adopted them. `ns_proc_exit` wakes the parent of the process that ends and
nobody else, so PID 1 blocked in a wait for any child is not told about them
until the next exit. The properties on wakeups except these children and no
others.

### NsfsTree

The state is the volume (`disk`) and, for every cell of every file, the values
a read may return (`expect`, a history variable). An operation is the function
of the volume that the code computes: it stages a copy and commits it at the
end, so an error on the way (`ENOSPC`, `ENAMETOOLONG`, a full directory)
leaves the metadata as it was. What is not journaled is file data:
`nsfs_write` and `nsfs_truncate` change data blocks in place before the commit,
and the model lets the operation fail or the machine stop after any number of
them. A block has two cells; a directory block has ten units, of which a
record takes as many as its name needs, so that records are split and
coalesced as in `nsfs_directory_add` and `nsfs_directory_remove`. A file has
one direct block and one indirect block with two entries.

`FsckClean` is `fsck_northstar.c` itself: its four passes over the volume, with
one exception. fsck reports `inode.missing_block` for a hole in a file, while
`nsfs.c` makes sparse files on purpose and `test_fs_nsfs.c:400` relies on it;
the model's checker accepts holes (`SparseInode`). `ReadsMatchWrites` says what
of its history a file may show. It is as strong as the code allows: a write
that failed beyond the end of the file leaves bytes there which a later
extension uncovers, and a failed truncate has already zeroed the tail.

### VfsNodes and Vfs

A call is one step, for the same reason as in `Kernel`. `VfsNodes` has the
nodes of all filesystems in one function: ramfs nodes with their reference
count, their buffer (whose capacity exceeds the size, so what lies behind the
end is state) and their place in the tree; the members of an initramfs archive;
the inodes of a mounted NorthstarFS, which are not counted because the adapter
leaves `retain` and `release` empty. `Vfs` has the mount list, the devices, the
open files and the descriptor tables. Paths are sequences of names and go
through the canonicalisation of the code, `.` and `..` and trailing slashes
included. Each allocation of a call may fail (`oom`, `fault`), and each exit of
the code undoes what that exit undoes. `want` is the history of writes of a
node.

A spawn clones the parent's table, close-on-exec descriptors included, carries
out its list of actions on the clone up to the first that fails, and publishes
the child or destroys the clone; what the actions did to files stays done. An
exec that works closes the close-on-exec descriptors of the caller's own table.
`SpawnLists` are the lists the run tries: each action alone, with descriptors
that are negative, closed or too large, and lists of two and three in which a
later action uses, undoes or fails after an earlier one.

Facts that the properties leave room for because the code is so: `open` with
`O_TRUNC` empties the file, and one with `O_CREAT` leaves the new file, even if
it then fails for lack of a descriptor; a write of no bytes beyond the end
extends a ramfs file and not a NorthstarFS file; a working directory is a text
and survives the removal of its directory.

### TcpConnection and TcpSockets

`TcpConnection` has one operator per function of `net_tcp.c`, from a connection
and a segment to the connection and the segments sent. Sequence numbers are
modulo `SeqMod` and start two and one before the wrap. `TcpSockets` adds the
tables of connections and sockets of two hosts and the network, a set of
segments that may be lost, delivered twice or out of order. A segment that fails
its checksum is a lost one. A timer is armed or not; that it fires while
segments are under way costs one of the bounded faults, otherwise it fires only
when nothing is under way. A blocking call is the repetition of its
non-blocking step (`ns_socket_poll` adds nothing to that). The socket entry and
the backend's object are one record. The generator of initial sequence numbers
is replaced by its result.

`StreamIntact`: what the receiver has read and buffered is a prefix of what the
sender was given. `WindowKept`: the right edge once advertised never moves
left. `NoStall`: who has something in flight, or something that a closed window
holds back, has a timer that will do something about it. `ConnectionsOwned`:
no connection stays in the table without a socket or a live listener that can
close it, except the one that a socket loses when it is made to listen while it
connects (`backend_listen` overwrites `transport_handle`).

### NetLink, NetServices and NetStack

One host with one device. An address is a number whose tens are its network. A
poll of the stack takes one frame or none, then runs the timers, as
`net_stack_poll` does; the frames come from the neighbours, which answer what
was sent to them, possibly late or twice, or from a stranger. Deadlines are the
time left, in ticks of a second. The program starts DHCP, sets a static
configuration, asks DNS and opens a datagram socket. All tables have one or
two entries, so that they are full as a rule.

`ConfigurationCoherent` has three parts. `PartsAgree`: UDP, DNS and the sockets
always send from one address; while a configuration is applied the device and
the routes have it too, and while none is the device and the routes have none.
Then the others have none either, except after a configuration that the device
or the routes refused: `apply_ipv4_config` has withdrawn the old one from the
device by then and returns before it tells the rest of the stack. The history
variable `origin` says who set what UDP, DNS and the sockets have, and so keeps
this exception apart from a forgotten step. `ResolvesOnLink`: next hops are on
the link. `AddressLeased`: an address that DHCP gave goes when the lease
expires, and it is the one of the lease in force, except for a lease without a
netmask, which `net_dhcp.c` binds and `apply_ipv4_config` refuses before it
changes anything. The run has such a lease. `DeliveredOnce`: no datagram is put on the wire
twice, no frame goes to a hardware address other than the one its next hop
told last, and every accepted DNS query ends in exactly one callback, in time.

### PageTables, Kheap and Memory

`PageTables` has the frames with the two bitmaps and the hint of `pmm.c` and
tables of four levels with three entries each, of which the upper ones of the
root are the kernel's. `Kheap` has the block list of the heap as a sequence, in
units smaller than the smallest alignment, and grows it through the kernel's
tables. `Memory` runs the clients: processes with programs that are accepted
or refused by the plan of the ELF loader, breaks that move across tables,
allocations of two sizes and an alignment, runs of frames for devices. There are so
few frames that every operation meets the end of memory at every one of its
steps. The contents of a frame are whose bytes it holds; a table keeps its
entries when its frame is freed, as in `pmm.c`.

`MemoryIntact` has four parts: every frame in use has exactly one reason to be
(an entry, a root, a device) and no free frame is reachable; all roots agree on
the kernel half; a process sees its own pages and zeros in exactly the ranges
that its image, break and stack define, never writable and executable at once;
the heap's blocks tile the committed arena, and those in use are the ones its
clients hold. The second part is about how a root is made and destroyed: the heap
is all that the kernel maps later, and it lies below one entry of the root that is
there before the first process, so no run adds or removes an entry that the
roots have copied.

## Runs

| Run | Bounds | Shows |
|---|---|---|
| `nsfs_journal` | two home blocks, journal of 4, transactions of one or two blocks, two cuts, one device error (outside the commit record) | the safety properties and the refinement |
| `nsfs_journal_live` | as above, errors at five kinds of step | `MountCompletes` |
| `nsfs_journal_commit_fault` | an error of the commit barrier | **violation** of `RecoverySucceeds` |
| `nsfs_journal_unmount_fault` | an error of the last flush of an unmount | **violation** of `CleanNeedsNoReplay` |
| `scheduler` | three threads, one wait key, quantum 1, sleeps of one or two ticks, one level of disabled preemption | coherence of the lists, no lost thread, order |
| `kernel` | three processes, one pipe of two bytes, reads of one or two and writes of two or three bytes, pids 2 and 3 symmetric | wakeups, lifetimes, the process tree |
| `kernel_live` | two processes, the same pipe | no starvation, end of file, exit notification |
| `nsfs_tree` | four inodes, four blocks of two cells, names of two lengths, files up to three cells, three data operations | the volume passes fsck, files read as written |
| `vfs` | two tables of two descriptors, four ramfs and two NorthstarFS nodes, three paths and archives, 50 lists of spawn actions, five calls | reference counts, mounts, contents |
| `tcp_sockets` | two hosts with two sockets and connections, buffers and segments of two bytes, two bytes sent, one fault, two segments under way, one retry | the stream, windows, timers, ownership |
| `net_stack` | tables of one entry, leases of three ticks, two offers (one with T1 after T2, one without a netmask), two static settings (one that the device refuses), three DNS replies, total cost five (starting DHCP three, a fault or a stranger two, other inputs one) | one configuration, nothing delivered twice |
| `memory` | two processes, two heap clients, four levels of three entries, four programs, five calls | frames, spaces, heap |

Why the bounds are enough. A second transaction after a failed or cut one
needs two stamps and a generation for each mount and commit, which `MaxGen`
leaves room for; cuts during recovery and errors before them occur within the
bounds. Three threads are the fewest for one running, one woken and one queued
between them; two deadlines suffice to order sleepers wrongly. Three processes
are the fewest for a parent, a child and an orphan's zombie, and for two
readers and a writer of one pipe; a pipe of two bytes can be empty, partly
full and full, wraps, and has requests at and above
`NS_PIPE_ATOMIC_MAX`. Four inodes allow a directory moved over another or
below itself; three cells reach through the direct into the indirect block and
four blocks run out in between. Two descriptors and two open files fill up
within a call; five calls make, open, remove, reuse and read a node. A buffer of
two bytes is full after one segment, closes the window, and holds one byte out
of order; the second connection slot and socket hold a child and its listener.
A lease of three ticks goes through renewing, rebinding and expiry. Five calls
build a process, move its break into a new table, replace the image and take
it down while the heap grows; the failures need no calls of their own.

Fairness. `nsfs_journal_live` assumes that a call that started goes on and
that the system mounts its filesystem, as the boot code does. `kernel_live`
assumes that the timer ticks and that the processor executes the kernel code
of the thread it switched to; no process is assumed to make any call, and a
process may loop in user mode for ever. The other runs check safety only; what must
happen in TCP is stated as `NoStall`, that a timer is armed.

### The two violations

1. `nsfs_tx_commit` treats a failed flush after the commit record as a failure
   before the commit (`nsfs.c:782-787`): the transaction is released and the
   filesystem stays usable, while the record may be on the medium. The next
   transaction overwrites the redo images; a cut leaves a commit record with
   wrong checksums, and the mount fails. The passing runs and two of the
   theorems therefore exclude the faults `header_late` and `commitflush`.
2. `nsfs_unmount` leaves the filesystem mounted, writable and not poisoned when
   its last flush fails, though the superblocks say CLEAN; a commit and a cut
   later, a clean superblock stands beside a committed journal. The safety run
   excludes the fault `uflush`.

## Proofs

`NsfsJournal_proofs` proves, for every set of home blocks, journal capacity of
at least three and every bound:

- `TypeCorrect`: `Spec => []TypeOK`. The inductive invariant adds that staging
  leaves room for the two superblocks, so that a transaction fits the journal.
- `RedoImagesIntact`: under `CommitRecordReliable` (no fault at the commit
  record), `Spec => []JournalIntact`. `JournalIntact` is not inductive: a
  transaction may overwrite a slot only because no commit record is left, which
  needs the invariant to follow the header through the commit, recovery and
  every failure (`JInv`: outside the window from commit to clear the header and
  everything the medium may hold of it are EMPTY unless the filesystem is down
  or poisoned; in the window the redo slots are durable and equal the staged
  images).

On both of them rests:

- `RecoveryNeverCorrupt`: under `CommitRecordReliable`,
  `Spec => []RecoverySucceeds`, that is, no mount fails with EIO. That the
  checksums match follows from `JInv`. That the free counters match the bitmap
  after replay needs `CInv`: whenever a cut may leave the journal empty, every
  superblock and bitmap that may survive carry the same stamp (`EmptySettled`);
  whenever it may leave a commit record, replaying its entries brings them to
  the same stamp, because they include both superblocks and either the bitmap
  or a stamp that the transaction did not change (`CommittedRedoable`). The
  other conjuncts carry these two facts from staging, where they come from
  `nsfs_tx_append_super`, through the commit, and through a recovery that is
  itself cut short or fails. Unlike the safety run, the theorem allows the fault
  `uflush`.

`NsfsStore_proofs` completes the journal, under `CommitRecordReliable`:

- `AcknowledgedSurvives`: `Spec => []AcknowledgedIsDurable`, and
  `CertainGenerationGrows`: `Spec => GenerationNeverRegresses`. What a mount is
  certain to find depends on both superblock copies and on every record that
  may be replayed over them. `GInv` bounds them from both sides: no surviving
  superblock is newer than the one in memory (`SuperTop`, `OrigTop`,
  `ReadTop`), one copy is certain to be as new as the last acknowledged one
  (`Acked`), and a record ends with the same superblock for both copies
  (`HeadersSealed`, `EntriesSealed`).
- `CleanIsClean`: `Spec => []CleanNeedsNoReplay`, with `UnmountFlushReliable`
  besides (no fault `uflush`; the run `nsfs_journal_unmount_fault` shows what
  happens with it). `DInv`: while a record may be found, or a transaction may
  start, every superblock that may survive says DIRTY.
- `JournalImplementsStore`: `Spec => ImplementsAtomicStore`. `RInv` says which
  home blocks a cut cannot change: all of them when the journal may be found
  empty, those that no record names otherwise (`HomeSettled`,
  `OthersSettled`), and that a cleared record which may still be found would
  only install what is in place (`ClearedInstalled`). Every step is then shown
  to leave `Contents` alone or to change it as a commit or a cut of the store
  may.

`Scheduler_proofs` proves all properties of the run `scheduler`, for every set
of threads and keys, every quantum and every sleep: `TypeCorrect`,
`ListsStayCoherent`, `ThreadsAreKept`, `SleepersAreWoken`, and the action
properties `ReschedulesAreMade` and `RoundRobin`. The invariant is `SchedInv`:
`Good` (the lists and the thread states agree in both directions, so that a
list never names a thread in another state, and no thread outside `removed` is
missing from the list of its state) and `Timely` (sleepers in order of their
deadlines, all in the future). `SchedRR_proofs` has the lemmas: for every
operator of `SchedRR`, that it keeps `Good` and `Timely`, and what it does to
threads other than its own. `Kernel_proofs` uses the same lemmas.

`Kernel_proofs` proves all invariants of the run `kernel`, for every set of
processes, every finite set of pipes, every capacity and all request sizes:
`KernelTypeCorrect`, `WakeupsAreKept`, `PipesLiveAsLongAsUsed`,
`StreamStaysIntact`, `TreeStaysWhole`, `TheDeadStayDead`. The invariant
`KernelInv` joins five views of one state: the scheduler between two steps
(`SchedOK`), process states against thread states (`ThreadsInv`), calls in
progress (`CallsInv`: a blocked process waits on the key that belongs to its
call, what it waits for has not happened, and it holds the pipe end it works
on), counts of pipe ends against the descriptor tables (`PipesInv`), and the
two representations of the process tree (`TreeInv`). None of them is inductive
alone: a wakeup is found by its key, a pipe is alive because the caller holds
an end, and the exit of a process closes its ends and wakes their peers, moves
its children and leaves the scheduler in one step. Pipes are assumed finite
because that loop over the ends that are closed is finite.

`TcpSockets_proofs` proves, for every set of hosts, table and buffer size,
retry limit and even modulus that exceeds four times the two buffers, and for
every behaviour of the network:

- `TcpTypeCorrect`: `Spec => []TypeOK`.
- `NothingStalls`: `Spec => []NoStall`. A retransmission deadline is cleared
  when an acknowledgment covers everything, so the proof has to know how `una`,
  `nxt`, the FIN and the state hang together: `Good` (what is in flight is at
  most a window and has a deadline; while opening, exactly the SYN is in
  flight; a FIN was sent exactly in the finishing states and is then the last
  thing in flight; FIN_WAIT_2 and TIME_WAIT have nothing in flight). `Settled`,
  the persist deadline, does not hold inside a handler: a handler may empty the
  flight before `flush_send` arms the deadline. The lemmas therefore show `Step`
  (`Good` kept) for each part of a handler and `Turn` (`Step` and `Settled`) for
  whole handlers: `Receives`, `Ticks`, `Queues`, `Takes`, `Aborts`, `Closes`.
- `ConnectionsStayOwned`: `Spec => []ConnectionsOwned`. `Tidy` relates the
  connections, the sockets and the abandoned handles of a host: a handle names
  a generation that its slot has reached (so that a slot which is used again
  does not come back to an old socket), no two sockets hold the same handle, a
  child has a live listener and no socket, and every other connection is held,
  closing or abandoned. `Goes` says what any handler may do to these facts.

`NetStack_proofs` proves all properties of the run `net_stack`, for every size
of the tables, every timeout, every set of hosts, leases and static
configurations and every bound: `StackTypeCorrect`, `StackConfigurationCoherent`
and `StackDeliversOnce`. The invariant, `StackInvariant`, has four parts.

- The tables (`LinkOK`, `UdpOK`, `DhcpOK`, `DnsOK`): ages against timeouts, a
  lease in force with its times in order.
- The configuration (`AppliedOK`, `LeasedOK`): every part has the applied
  address, and the routes are exactly the connected network and, with a gateway,
  the default (`RoutesOK`). `ConfigurationCoherent` alone is not inductive: that
  a new configuration finds the routes free needs to know that an address is
  never of network 0, and that the address follows the lease needs to know that
  a lease in force has one.
- What is on its way (`FlightOK`): no two cache entries for one address, each
  valid entry with the hardware address that its host told last; a waiting
  packet is for a hop that may carry it (`QueueHops`); a datagram is in one slot
  of the queue, or in one frame with the driver, or was transmitted once. The
  last is stated for a stack inside a call, between the frame it sends and the
  end of the poll, because one poll may resolve an address, send what waited,
  run the timers and send again. `Fine(k, r)` says that a call keeps it whatever
  the history, so that the lemmas of the calls compose (`FineTrans`);
  `FineBut(k, r, D)` allows the new datagrams `D`, which were nowhere before.
- The queries (`QueriesOK`): of the accepted ones each is asked by one
  transaction or has one result.

Each C function has one or two lemmas (`...Is` for the tables, `...Fine` for
what is on its way), and the calls through several parts are joined by
`Orderly`. The loops over the cache, the queue and the transactions are
recursive functions over the slots; the lemmas follow them with a least slot at
which the property would fail. One assumption is about the network and not about
the code, `NumberingAssumption`: the neighbours are on the network of every
address the host is given, and nobody it sends to has its address or a broadcast
one. TLC evaluates it on the run's instance.

`Vfs_proofs` proves all properties of the run `vfs`, for every number of nodes,
open files, descriptors and processes, every set of paths, flags and archives
and every depth of paths: `VfsTypeCorrect`, `VfsReferencesExact`,
`VfsMountsAnchored` and `VfsContentsAsWritten`. The invariant `VfsInv` says:

- `Tree`: the nodes form trees. Only directories have children, a child is in
  use, of its parent's filesystem, and has one parent and a name of its own
  (`Kin`); there are no cycles (`Grounded`); what is out of the tree has no
  children (`Rooted`). Without the last, a directory that was removed while open
  could still hold a file when it goes.
- `Exact` and `FilesOK`: the counts of `ReferencesExact`, stated for a state
  inside a call, which holds one more node `y` and one more file `x`. So each
  function of the code has a lemma that says what it holds on entry and on
  return, on every one of its exits, and the lemmas of the calls are their
  compositions.
- `Anchored`: the path of a mount still leads, name by name, to the directory it
  covers, through the filesystem it was mounted in. `MountsAnchored` alone is not
  inductive: what protects the directory is a comparison of paths
  (`path_is_mount_target`), so the proof needs that two walks to the same
  directory of one filesystem are the same names (`SameWalk`), and that a call
  which arrives at a covered directory was given its path or one below a mount of
  its own (`ArrivesSame`, `ArrivesOn`). `Grows` and `Shrinks` say how much of the
  tree a call may change.
- `Sound`: the contents of each node against their history. What lies behind the
  end of a file may be anything, so a write has to zero the hole it makes.

The loops (the walk along a path, canonicalisation, growing a buffer, the
members of an archive, cloning and releasing a table, the actions of a spawn) are
recursive functions;
for each the proof shows that a sequence of states with their recurrence exists
and follows it with a least step at which the property would fail
(`Downwards`). A partial initramfs is a set of nodes that the table before did
not use (`Fresh`), and taking it down gives that table back (`FreshDestroyed`);
`ns_vfs_destroy` finds no open file, and so nothing but the trees
(`TreesGone`). `VfsAssumption` asks for paths, actions and archive members of the right
type, nonzero table sizes and finitely many processes, nothing more.

The assumptions on the constants are the `ASSUME`s of the modules; the only
hypotheses beyond them are `CommitRecordReliable` and `UnmountFlushReliable`.
Where an argument goes by induction (the least element of a set, the position
of a selected element, the loop over closed ends), it takes a least
counterexample with `WFMin`. `Selected`, `Leading` and `Nth` in `SchedRR`,
`WakePeers` in `Kernel` and `FinSent` in `TcpConnection` have the form they
have so that this can be done.

What is only model-checked, and why:

- liveness (`MountCompletes` and the properties of `kernel_live`): out of the
  prover's reach;
- `StreamIntact` and `WindowKept` of `TcpSockets`: not meant for all constants.
  The histories are per host and describe one connection at a time, and with
  enough opens and faults a segment may outlive its connection and arrive in
  the window of a later one with the same ports, which nothing in `net_tcp.c`
  excludes. They hold within the bounds of the run;
- `NsfsTree` and `Memory`: `Memory` goes through page tables, segments and the
  heap with folds whose step is an operator argument, which the provers cannot
  instantiate; `FsckClean` rests on sums over directory blocks and on what is
  reachable from the root, `MemoryIntact` on sums over tables, and what a sum is
  for every input needs induction over data.

## Disagreements met while modelling, beyond the two violations

- `docs/SECURITY.md:105`: "Translation invalidation is performed before a frame
  can be reused." `vmm.c` invalidates a page only of the space in
  `active_root_phys`, which `ns_vmm_activate` sets; the kernel never calls it,
  because `context_switch.asm` loads CR3. A process that shrinks its break
  keeps a translation of a freed frame until the next switch to another space,
  and `exec` frees the root that is loaded. `Memory` has no TLB, so no run
  shows it.
- fsck calls sparse files damaged (see `NsfsTree`).
- `nsfs_vfs.c:260` leaves `retain` and `release` empty, which `vfs.h` allows to
  filesystems with stable nodes only, while `nsfs_unlink` frees the inode under
  open descriptors. No system call removes names in this build.
- `net_stack.h` offers a static configuration for networks without DHCP; once a
  lease has expired, every poll clears it again (`net_stack.c:194`). A NAK while
  renewing restarts DHCP and leaves the old address in use. If the device or the
  routes refuse a configuration after an earlier one was applied, UDP, DNS and the
  sockets keep the old address, and `clear_ipv4_config` does not take it from
  them later, because nothing is applied. A lease without a netmask is bound
  (`net_dhcp.c:401`) and cannot be applied (`net_stack.c:120`): the address of an
  earlier lease stays in use, and every poll tries again.
- `net_arp.h` says that only solicited replies are learned; a reply for an
  entry that is valid already overwrites it.
- `net_ipv4.c:187` gives a datagram up when the device refuses it after ARP,
  although the caller was told it was accepted, and a datagram that waits
  across a change of address leaves with the old one.
- A connection reset by the peer or timed out is reported to a reader as an
  orderly end of file, without the unread bytes; READABLE and WRITABLE events
  once set stay set; a closed socket in FIN_WAIT reads nothing, so its window
  stays closed and the peer probes it for ever.
- `ns_pmm_alloc_pages` does not find a run that lies across its hint;
  `krealloc` keeps the neighbour it merged when the replacement fails, and a
  block that moves loses an alignment above the default.
- PID 1 is not told of zombies it adopts while it waits (see `Kernel`).

## What is not modelled

- The TLB and CR3, huge pages, the direct map and the kernel's own image
  tables; memory API without callers (`ns_vmm_map_range`, `map_direct`,
  `ns_pmm_reserve_range`, `ns_kheap_destroy`).
- The reap of the kernel controller thread (`m3.c:474`), which runs with
  interrupts enabled beside system calls that change the same lists.
- Calling the scheduler outside its contract: `ns_sched_remove` of the current
  thread is in the model and has no caller; blocking with preemption disabled
  does not happen.
- `ns_socket_poll`, `ns_socket_close_all`, `net_stack_shutdown` and the unwinding
  of a failed start; multicast; generations in UDP handles.
- Descriptor calls of `Vfs` on pipes: a pipe is a custom file there, its
  behaviour is in `Kernel`. `stat`, `fstat`, `getcwd` change nothing.
- The ATA and RTL8139 drivers: register protocols polled to the end of one
  request; what they can answer is the device of `NsfsJournal` and the transmit
  slots of `NetStack`.
- Boot code, register-level architecture code, user programs, mkfs, and
  conversions without state (checksums, framing, formatting).

## Plan

The components are modelled as far as the lists above say, and the theorems
cover the journal, the scheduler, the processes and pipes, the VFS, TCP and the
network stack. What is left is proof: `Memory`, where the ownership of frames
goes through four levels of tables, and `NsfsTree`, whose allocation maps are
counted by fsck; the folds and sums would have to be restated as recurrences over
states first, as the loops of `VfsNodes` are.
