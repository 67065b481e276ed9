---------------------------- MODULE NsfsJournal ----------------------------
(***************************************************************************)
(* The redo journal of NorthstarFS (kernel/fs/nsfs.c) over a block device  *)
(* with a volatile write cache (include/northstar/block.h): transactions,  *)
(* the ordered commit, mount with journal recovery, the superblock pair,   *)
(* unmount and abandon, with power cuts and device errors at every step.   *)
(*                                                                         *)
(* A block is abstracted to the stamp of the transaction that wrote it; a  *)
(* CRC32C is the image itself, so a checksum matches exactly when the      *)
(* image read is the image sealed.  The device keeps, for every block, the *)
(* value a read returns (home, slot, hdr) and the set of values that the   *)
(* medium may hold if power is cut now (homeM, slotM, hdrM): a completed   *)
(* write adds its value to that set, a successful flush leaves only the    *)
(* current value.  Home blocks and redo slots span several sectors, so a   *)
(* cut may also leave them torn; a superblock (256 bytes) and a journal    *)
(* header of at most 28 descriptors lie in one sector and are not torn.    *)
(*                                                                         *)
(* A loop of writes with no flush inside is one step: a power cut keeps    *)
(* any subset of unflushed writes, which includes every prefix of the loop.*)
(***************************************************************************)
EXTENDS Naturals, Sequences, FiniteSets

CONSTANTS
    Home,        \* metadata blocks outside the superblocks and the journal
    Bitmap,      \* the home block the superblock's free counters describe
    S0, S1,      \* the two superblock copies (blocks 0 and 1)
    Capacity,    \* journal_entries of the superblock
    Faults,      \* device operations that may report an error
    MaxGen,      \* bound on the superblock generation
    MaxStamp,    \* bound on the number of transactions attempted
    MaxFaults,   \* bound on device errors
    MaxCrashes   \* bound on power cuts

\* Every place the code checks a device status.  A write that fails may have
\* reached the device; "header_late" names that case for the commit record.
FaultPoint == {"images", "imgflush", "header", "header_late", "commitflush",
               "homes", "homeflush", "clear", "clearflush", "super", "sync",
               "uflush"}

ASSUME BlockAssumption ==
    /\ Bitmap \in Home
    /\ S0 \notin Home /\ S1 \notin Home /\ S0 # S1
    /\ Capacity \in Nat /\ Capacity >= 3
    /\ Faults \subseteq FaultPoint

ASSUME BoundAssumption ==
    /\ MaxGen \in Nat /\ MaxStamp \in Nat
    /\ MaxFaults \in Nat /\ MaxCrashes \in Nat

NSFS_TX_RESERVED_SUPERS == 2

Target == Home \cup {S0, S1}
Slot == 1..Capacity

\* Contents of blocks.
Stamped == [stamp : Nat]
Superblock == [generation : Nat, last_txid : Nat,
               state : {"CLEAN", "DIRTY"}, stamp : Nat]
Torn == [torn |-> TRUE]
Image == Stamped \cup Superblock \cup {Torn}
Entry == [block : Home, image : Stamped]
         \cup [block : {S0, S1}, image : Superblock]
JournalHeader == [state : {"EMPTY", "COMMITTED"}, txid : Nat,
                  entries : Seq(Entry)]

VARIABLES
    home, homeM,   \* home blocks and superblocks: read value, medium
    slot, slotM,   \* redo slots
    hdr, hdrM,     \* journal header
    pc,            \* the step the filesystem is at; "off" is not mounted
    ro,            \* NSFS_MOUNT_READ_ONLY
    sb,            \* filesystem->superblock
    orig,          \* transaction->original_superblock
    entries,       \* transaction->entries
    poisoned,      \* filesystem->poisoned
    goal,          \* what a superblock pair in progress is for
    err,           \* result of the last nsfs_mount
    seq,           \* transactions attempted so far
    faults, crashes

device == <<home, homeM, slot, slotM, hdr, hdrM>>
fs == <<ro, sb, orig, entries, poisoned, goal, err>>
vars == <<device, pc, fs, seq, faults, crashes>>

Pc == {"off", "idle", "staged", "images", "imgflush", "header", "commitflush",
       "homes", "homeflush", "clear", "clearflush",
       "rhomes", "rflush", "rclear", "rclearflush", "reread",
       "sb1", "sb1flush", "sb0", "sb0flush", "uflush"}

TypeOK ==
    /\ home \in [Target -> Image]
    /\ homeM \in [Target -> SUBSET Image]
    /\ \A b \in {S0, S1} : home[b] \in Superblock /\ homeM[b] \subseteq Superblock
    /\ slot \in [Slot -> Image]
    /\ slotM \in [Slot -> SUBSET Image]
    /\ hdr \in JournalHeader
    /\ hdrM \in SUBSET JournalHeader
    /\ pc \in Pc
    /\ ro \in BOOLEAN
    /\ sb \in Superblock
    /\ orig \in Superblock
    /\ entries \in Seq(Entry)
    /\ Len(entries) <= Capacity
    /\ \A h \in hdrM \cup {hdr} : Len(h.entries) <= Capacity
    /\ poisoned \in BOOLEAN
    /\ goal \in {"mount", "unmount"}
    /\ err \in {"none", "EIO", "EROFS", "EBUSY", "EDEV"}
    /\ seq \in Nat /\ faults \in Nat /\ crashes \in Nat

----------------------------------------------------------------------------
\* The device.

\* A write of img to block b of a device region reaches the cache; the medium
\* may hold the old value, the new one, or part of each.
Reach(media, img) == media \cup {img, Torn}

WriteSuper(b, img) ==
    /\ home' = [home EXCEPT ![b] = img]
    /\ homeM' = [homeM EXCEPT ![b] = @ \cup {img}]
    /\ UNCHANGED <<slot, slotM, hdr, hdrM>>

WriteHeader(h) ==
    /\ hdr' = h
    /\ hdrM' = hdrM \cup {h}
    /\ UNCHANGED <<home, homeM, slot, slotM>>

\* The first k images of es are written to the redo slots, in order.
WriteSlots(es, k) ==
    /\ slot' = [i \in Slot |-> IF i <= k THEN es[i].image ELSE slot[i]]
    /\ slotM' = [i \in Slot |-> IF i <= k THEN Reach(slotM[i], es[i].image)
                                          ELSE slotM[i]]
    /\ UNCHANGED <<home, homeM, hdr, hdrM>>

\* The images written to block b by the first k entries of es.
Written(es, k, b) == {es[i].image : i \in {j \in 1..k : es[j].block = b}}

\* The first k images of es are written to their home blocks.
WriteHomes(es, k) ==
    /\ home' = [b \in Target |-> IF Written(es, k, b) = {} THEN home[b]
                                 ELSE CHOOSE img \in Written(es, k, b) : TRUE]
    /\ homeM' = [b \in Target |->
                   IF Written(es, k, b) = {} THEN homeM[b]
                   ELSE homeM[b] \cup Written(es, k, b)
                                 \cup (IF b \in Home THEN {Torn} ELSE {})]
    /\ UNCHANGED <<slot, slotM, hdr, hdrM>>

\* ns_block_flush: a persistence barrier for every write completed before it.
Flush ==
    /\ homeM' = [b \in Target |-> {home[b]}]
    /\ slotM' = [i \in Slot |-> {slot[i]}]
    /\ hdrM' = {hdr}
    /\ UNCHANGED <<home, slot, hdr>>

\* The device reports an error at fault point p.
Fault(p) ==
    /\ p \in Faults
    /\ faults < MaxFaults
    /\ faults' = faults + 1
    /\ UNCHANGED <<seq, crashes>>

NoFault == UNCHANGED <<seq, faults, crashes>>

\* Power is cut.  Every block independently holds one of the values the
\* medium may have received; memory is lost.
Survivor(media, D) ==
    {f \in [D -> UNION {media[x] : x \in D}] : \A x \in D : f[x] \in media[x]}

Crash ==
    /\ crashes < MaxCrashes
    /\ crashes' = crashes + 1
    /\ home' \in Survivor(homeM, Target)
    /\ slot' \in Survivor(slotM, Slot)
    /\ hdr' \in hdrM
    /\ homeM' = [b \in Target |-> {home'[b]}]
    /\ slotM' = [i \in Slot |-> {slot'[i]}]
    /\ hdrM' = {hdr'}
    /\ pc' = "off"
    /\ UNCHANGED <<fs, seq, faults>>

----------------------------------------------------------------------------
\* Superblocks.

\* nsfs_read_superblocks: the valid copy of the highest generation, copy 0 on
\* a tie.  (Both copies always pass nsfs_validate_superblock_image here.)
nsfs_read_superblocks ==
    IF home[S1].generation > home[S0].generation THEN home[S1] ELSE home[S0]

\* The in-memory half of nsfs_write_super_pair.
SealPair(s, state) ==
    [generation |-> s.generation + 1, last_txid |-> s.last_txid,
     state |-> state, stamp |-> s.stamp]

nsfs_write_super_pair_write(b, from, to) ==
    /\ pc = from
    /\ WriteSuper(b, sb)
    /\ pc' = to
    /\ NoFault
    /\ UNCHANGED fs

nsfs_write_super_pair_flush1 ==
    /\ pc = "sb1flush"
    /\ Flush
    /\ pc' = "sb0"
    /\ NoFault
    /\ UNCHANGED fs

\* After the second barrier a mount is complete, and an unmount goes on to its
\* own flush.
nsfs_write_super_pair_flush0 ==
    /\ pc = "sb0flush"
    /\ Flush
    /\ pc' = IF goal = "mount" THEN "idle" ELSE "uflush"
    /\ err' = IF goal = "mount" THEN "none" ELSE err
    /\ NoFault
    /\ UNCHANGED <<ro, sb, orig, entries, poisoned, goal>>

\* Any status of the pair's writes and flushes below zero poisons the
\* filesystem; a mount then fails and an unmount returns with it mounted.
nsfs_write_super_pair_fail ==
    /\ pc \in {"sb1", "sb1flush", "sb0", "sb0flush"}
    /\ Fault("super")
    /\ \/ UNCHANGED device
       \/ pc = "sb1" /\ WriteSuper(S1, sb)
       \/ pc = "sb0" /\ WriteSuper(S0, sb)
    /\ poisoned' = TRUE
    /\ pc' = IF goal = "mount" THEN "off" ELSE "idle"
    /\ err' = IF goal = "mount" THEN "EDEV" ELSE err
    /\ UNCHANGED <<ro, sb, orig, entries, goal>>

----------------------------------------------------------------------------
\* Transactions.

\* Mutation: the clear record names the transaction before.
EmptyHeader_Prev(txid) ==
    [state |-> "EMPTY", txid |-> txid - 1, entries |-> <<>>]

EmptyHeader(txid) == [state |-> "EMPTY", txid |-> txid, entries |-> <<>>]

\* nsfs_make_journal_header for a commit: one descriptor per staged image,
\* with its target block and its checksum.
CommitHeader ==
    [state |-> "COMMITTED", txid |-> sb.last_txid, entries |-> entries]

\* The orders in which an operation may touch distinct home blocks without
\* exceeding what nsfs_tx_image admits beside the two reserved superblocks.
Footprint ==
    {f \in UNION {[1..n -> Home] : n \in 1..(Capacity - NSFS_TX_RESERVED_SUPERS)} :
        \A i, j \in DOMAIN f : f[i] = f[j] => i = j}

\* nsfs_tx_begin followed by the nsfs_tx_image calls of one operation: the
\* images are changed in memory, and the free counters of the in-memory
\* superblock change with the bitmap.
nsfs_tx_begin(blocks) ==
    /\ pc = "idle" /\ ~poisoned /\ ~ro
    /\ seq < MaxStamp
    /\ seq' = seq + 1
    /\ orig' = sb
    /\ entries' = [i \in DOMAIN blocks |->
                     [block |-> blocks[i], image |-> [stamp |-> seq']]]
    /\ sb' = IF \E i \in DOMAIN blocks : blocks[i] = Bitmap
             THEN [sb EXCEPT !.stamp = seq'] ELSE sb
    /\ pc' = "staged"
    /\ UNCHANGED <<device, ro, poisoned, goal, err, faults, crashes>>

\* nsfs_tx_release(transaction, true) before the commit: the operation met
\* -ENOSPC, -ENOMEM or a read error while staging.
nsfs_tx_release ==
    /\ sb' = orig
    /\ entries' = <<>>
    /\ pc' = "idle"
    /\ UNCHANGED <<ro, orig, poisoned, goal, err>>

nsfs_tx_abort ==
    /\ pc = "staged"
    /\ nsfs_tx_release
    /\ NoFault
    /\ UNCHANGED device

\* nsfs_tx_commit up to its first write: seal the superblock and stage it in
\* both copies, block 1 before block 0 (nsfs_tx_append_super).
nsfs_tx_commit ==
    /\ pc = "staged"
    /\ sb.generation < MaxGen
    /\ sb' = [generation |-> sb.generation + 1, last_txid |-> sb.last_txid + 1,
              state |-> "DIRTY", stamp |-> sb.stamp]
    /\ entries' = entries \o <<[block |-> S1, image |-> sb'],
                               [block |-> S0, image |-> sb']>>
    /\ pc' = "images"
    /\ NoFault
    /\ UNCHANGED <<device, ro, orig, poisoned, goal, err>>

nsfs_tx_write_images ==
    /\ pc = "images"
    /\ WriteSlots(entries, Len(entries))
    /\ pc' = "imgflush"
    /\ NoFault
    /\ UNCHANGED fs

\* Mutation: no barrier between the redo images and the commit record.
nsfs_tx_flush_images_NoBarrier ==
    /\ pc = "imgflush"
    /\ pc' = "header"
    /\ NoFault
    /\ UNCHANGED <<device, fs>>

nsfs_tx_flush_images ==
    /\ pc = "imgflush"
    /\ Flush
    /\ pc' = "header"
    /\ NoFault
    /\ UNCHANGED fs

nsfs_tx_write_commit ==
    /\ pc = "header"
    /\ WriteHeader(CommitHeader)
    /\ pc' = "commitflush"
    /\ NoFault
    /\ UNCHANGED fs

\* The commit point: from here on transaction->durable_commit is true.
nsfs_tx_flush_commit ==
    /\ pc = "commitflush"
    /\ Flush
    /\ pc' = "homes"
    /\ NoFault
    /\ UNCHANGED fs

nsfs_tx_write_homes ==
    /\ pc = "homes"
    /\ WriteHomes(entries, Len(entries))
    /\ pc' = "homeflush"
    /\ NoFault
    /\ UNCHANGED fs

\* Mutation: no barrier between the home blocks and the clear record.
nsfs_tx_flush_homes_NoBarrier ==
    /\ pc = "homeflush"
    /\ pc' = "clear"
    /\ NoFault
    /\ UNCHANGED <<device, fs>>

nsfs_tx_flush_homes ==
    /\ pc = "homeflush"
    /\ Flush
    /\ pc' = "clear"
    /\ NoFault
    /\ UNCHANGED fs

\* Mutation: the journal is not cleared after a commit.
nsfs_clear_journal_write_Skipped ==
    /\ pc = "clear"
    /\ pc' = "clearflush"
    /\ NoFault
    /\ UNCHANGED <<device, fs>>

\* nsfs_clear_journal: an EMPTY header with the transaction's identifier ...
nsfs_clear_journal_write ==
    /\ pc = "clear"
    /\ WriteHeader(EmptyHeader(sb.last_txid))
    /\ pc' = "clearflush"
    /\ NoFault
    /\ UNCHANGED fs

\* Mutation: the clear record is not made durable.
nsfs_clear_journal_flush_NoBarrier ==
    /\ pc = "clearflush"
    /\ entries' = <<>>
    /\ pc' = "idle"
    /\ NoFault
    /\ UNCHANGED <<device, ro, sb, orig, poisoned, goal, err>>

\* ... made durable before nsfs_tx_commit returns success.
nsfs_clear_journal_flush ==
    /\ pc = "clearflush"
    /\ Flush
    /\ entries' = <<>>
    /\ pc' = "idle"
    /\ NoFault
    /\ UNCHANGED <<ro, sb, orig, poisoned, goal, err>>

\* failed_before_commit: an error up to and including the commit barrier
\* discards the transaction and leaves the filesystem usable.
nsfs_tx_failed_before_commit ==
    /\ \/ /\ pc = "images" /\ Fault("images")
          /\ \E k \in 0..Len(entries) : WriteSlots(entries, k)
       \/ pc = "imgflush" /\ Fault("imgflush") /\ UNCHANGED device
       \/ pc = "header" /\ Fault("header") /\ UNCHANGED device
       \/ pc = "header" /\ Fault("header_late") /\ WriteHeader(CommitHeader)
       \/ pc = "commitflush" /\ Fault("commitflush") /\ UNCHANGED device
    /\ nsfs_tx_release

\* Mutation: an error after the commit barrier does not poison the filesystem.
nsfs_tx_failed_after_commit_NotPoisoned ==
    /\ \/ /\ pc = "homes" /\ Fault("homes")
          /\ \E k \in 0..Len(entries) : WriteHomes(entries, k)
       \/ pc = "homeflush" /\ Fault("homeflush") /\ UNCHANGED device
       \/ pc = "clear" /\ Fault("clear") /\ UNCHANGED device
       \/ pc = "clearflush" /\ Fault("clearflush") /\ UNCHANGED device
    /\ entries' = <<>>
    /\ pc' = "idle"
    /\ UNCHANGED <<ro, sb, orig, poisoned, goal, err>>

\* failed_after_commit: an error after the commit barrier poisons the
\* filesystem; the in-memory superblock is kept.
nsfs_tx_failed_after_commit ==
    /\ \/ /\ pc = "homes" /\ Fault("homes")
          /\ \E k \in 0..Len(entries) : WriteHomes(entries, k)
       \/ pc = "homeflush" /\ Fault("homeflush") /\ UNCHANGED device
       \/ /\ pc = "clear" /\ Fault("clear")
          /\ UNCHANGED device \/ WriteHeader(EmptyHeader(sb.last_txid))
       \/ pc = "clearflush" /\ Fault("clearflush") /\ UNCHANGED device
    /\ poisoned' = TRUE
    /\ entries' = <<>>
    /\ pc' = "idle"
    /\ UNCHANGED <<ro, sb, orig, goal, err>>

----------------------------------------------------------------------------
\* Mount, recovery, unmount.

\* Every redo image read back has the checksum its descriptor records.
ChecksumsMatch ==
    \A i \in DOMAIN hdr.entries : slot[i] = hdr.entries[i].image

\* nsfs_mount up to and including the reads of nsfs_recover_journal.  A mount
\* that fails releases the filesystem and has written nothing.
nsfs_mount(read_only, require_clean) ==
    LET best == nsfs_read_superblocks
        fail(e) == pc' = "off" /\ err' = e /\ UNCHANGED <<ro, sb, entries>>
        go(next, es) ==
            /\ pc' = next /\ err' = "none" /\ ro' = read_only /\ sb' = best
            /\ entries' = es
    IN  /\ pc = "off"
        /\ best.generation < MaxGen \/ read_only
        /\ \/ require_clean /\ best.state # "CLEAN" /\ fail("EBUSY")
           \/ /\ ~require_clean \/ best.state = "CLEAN"
              /\ \/ hdr.state = "EMPTY" /\ go("reread", <<>>)
                 \/ hdr.state = "COMMITTED" /\ read_only /\ fail("EROFS")
                 \/ /\ hdr.state = "COMMITTED" /\ ~read_only
                    /\ ~ChecksumsMatch /\ fail("EIO")
                 \/ /\ hdr.state = "COMMITTED" /\ ~read_only
                    /\ ChecksumsMatch /\ go("rhomes", hdr.entries)
        /\ poisoned' = FALSE
        /\ NoFault
        /\ UNCHANGED <<device, orig, goal>>

\* nsfs_recover_journal: redo every image at its home block ...
nsfs_recover_write_homes ==
    /\ pc = "rhomes"
    /\ WriteHomes(entries, Len(entries))
    /\ pc' = "rflush"
    /\ NoFault
    /\ UNCHANGED fs

\* ... make the home blocks durable ...
nsfs_recover_flush ==
    /\ pc = "rflush"
    /\ Flush
    /\ pc' = "rclear"
    /\ NoFault
    /\ UNCHANGED fs

\* Mutation: recovery leaves the journal committed and starts over.
nsfs_recover_clear_write_Skipped ==
    /\ pc = "rclear"
    /\ pc' = "off"
    /\ NoFault
    /\ UNCHANGED <<device, fs>>

\* ... and only then clear the journal, keeping the header's identifier.
nsfs_recover_clear_write ==
    /\ pc = "rclear"
    /\ WriteHeader(EmptyHeader(hdr.txid))
    /\ pc' = "rclearflush"
    /\ NoFault
    /\ UNCHANGED fs

nsfs_recover_clear_flush ==
    /\ pc = "rclearflush"
    /\ Flush
    /\ entries' = <<>>
    /\ pc' = "reread"
    /\ NoFault
    /\ UNCHANGED <<ro, sb, orig, poisoned, goal, err>>

nsfs_recover_fail ==
    /\ \/ /\ pc = "rhomes" /\ Fault("homes")
          /\ \E k \in 0..Len(entries) : WriteHomes(entries, k)
       \/ pc = "rflush" /\ Fault("homeflush") /\ UNCHANGED device
       \/ /\ pc = "rclear" /\ Fault("clear")
          /\ UNCHANGED device \/ WriteHeader(EmptyHeader(hdr.txid))
       \/ pc = "rclearflush" /\ Fault("clearflush") /\ UNCHANGED device
    /\ entries' = <<>>
    /\ pc' = "off"
    /\ err' = "EDEV"
    /\ UNCHANGED <<ro, sb, orig, poisoned, goal>>

\* nsfs_validate_bitmaps: the population of the bitmaps agrees with the free
\* counters of the superblock.
nsfs_validate_bitmaps(s) == home[Bitmap] = [stamp |-> s.stamp]

\* nsfs_mount after recovery: read the superblocks again, validate, and mark
\* a writable mount dirty.
nsfs_mount_finish ==
    LET best == nsfs_read_superblocks
    IN  /\ pc = "reread"
        /\ \/ /\ ~nsfs_validate_bitmaps(best)
              /\ pc' = "off" /\ err' = "EIO" /\ UNCHANGED <<sb, goal>>
           \/ /\ nsfs_validate_bitmaps(best) /\ ro
              /\ pc' = "idle" /\ sb' = best /\ UNCHANGED <<err, goal>>
           \/ /\ nsfs_validate_bitmaps(best) /\ ~ro
              /\ pc' = "sb1" /\ sb' = SealPair(best, "DIRTY")
              /\ goal' = "mount" /\ UNCHANGED err
        /\ NoFault
        /\ UNCHANGED <<device, ro, orig, entries, poisoned>>

nsfs_sync ==
    /\ pc = "idle" /\ ~poisoned
    /\ \/ Flush /\ NoFault
       \/ UNCHANGED device /\ Fault("sync")
    /\ UNCHANGED <<pc, fs>>

\* A read-only unmount only flushes; a poisoned filesystem cannot be
\* unmounted, only abandoned.
nsfs_unmount ==
    /\ pc = "idle" /\ ~poisoned
    /\ \/ ro /\ pc' = "uflush" /\ UNCHANGED <<sb, goal>>
       \/ /\ ~ro /\ sb.generation < MaxGen
          /\ sb' = SealPair(sb, "CLEAN")
          /\ goal' = "unmount"
          /\ pc' = "sb1"
    /\ NoFault
    /\ UNCHANGED <<device, ro, orig, entries, poisoned, err>>

\* The last flush of nsfs_unmount; on an error the filesystem stays mounted.
nsfs_unmount_flush ==
    /\ pc = "uflush"
    /\ \/ Flush /\ NoFault /\ pc' = "off"
       \/ UNCHANGED device /\ Fault("uflush") /\ pc' = "idle"
    /\ UNCHANGED fs

nsfs_abandon ==
    /\ pc = "idle"
    /\ pc' = "off"
    /\ NoFault
    /\ UNCHANGED <<device, fs>>

----------------------------------------------------------------------------
\* A freshly formatted, unmounted filesystem (nsfs_format).
FormatSuper == [generation |-> 1, last_txid |-> 0, state |-> "CLEAN", stamp |-> 0]

nsfs_format ==
    /\ home = [b \in Target |-> IF b \in Home THEN [stamp |-> 0]
                                ELSE FormatSuper]
    /\ homeM = [b \in Target |-> {home[b]}]
    /\ slot = [i \in Slot |-> [stamp |-> 0]]
    /\ slotM = [i \in Slot |-> {slot[i]}]
    /\ hdr = EmptyHeader(0)
    /\ hdrM = {hdr}

Init ==
    /\ nsfs_format
    /\ pc = "off" /\ ro = FALSE
    /\ sb = FormatSuper /\ orig = FormatSuper /\ entries = <<>>
    /\ poisoned = FALSE /\ goal = "mount" /\ err = "none"
    /\ seq = 0 /\ faults = 0 /\ crashes = 0

\* Steps of a running call: the filesystem takes them without being asked.
CommitStep ==
    \/ nsfs_tx_commit \/ nsfs_tx_write_images \/ nsfs_tx_flush_images
    \/ nsfs_tx_write_commit \/ nsfs_tx_flush_commit
    \/ nsfs_tx_write_homes \/ nsfs_tx_flush_homes
    \/ nsfs_clear_journal_write \/ nsfs_clear_journal_flush

MountStep ==
    \/ nsfs_recover_write_homes \/ nsfs_recover_flush
    \/ nsfs_recover_clear_write \/ nsfs_recover_clear_flush
    \/ nsfs_mount_finish

PairStep ==
    \/ nsfs_write_super_pair_write(S1, "sb1", "sb1flush")
    \/ nsfs_write_super_pair_flush1
    \/ nsfs_write_super_pair_write(S0, "sb0", "sb0flush")
    \/ nsfs_write_super_pair_flush0

\* Calls of the users of the filesystem.
Call ==
    \/ \E r, c \in BOOLEAN : nsfs_mount(r, c)
    \/ \E blocks \in Footprint : nsfs_tx_begin(blocks)
    \/ nsfs_tx_abort
    \/ nsfs_sync \/ nsfs_unmount \/ nsfs_abandon

DeviceError ==
    \/ nsfs_tx_failed_before_commit \/ nsfs_tx_failed_after_commit
    \/ nsfs_recover_fail \/ nsfs_write_super_pair_fail

Next ==
    \/ CommitStep \/ MountStep \/ PairStep \/ nsfs_unmount_flush
    \/ Call \/ DeviceError \/ Crash

Spec == Init /\ [][Next]_vars

\* A call that has started runs to its end, and the system mounts a
\* filesystem that is down: the kernel mounts its root for writing at boot.
Fairness ==
    /\ WF_vars(CommitStep \/ MountStep \/ PairStep \/ nsfs_unmount_flush)
    /\ WF_vars(nsfs_mount(FALSE, FALSE))

FairSpec == Spec /\ Fairness

----------------------------------------------------------------------------
\* Properties.

\* A mount fails only for a device error, a refused flag or a dirty journal
\* on a read-only mount: nsfs_recover_journal never meets a redo image whose
\* checksum is wrong, and nsfs_validate_bitmaps never finds free counters
\* that disagree with the bitmaps.
RecoverySucceeds == err # "EIO"

\* Whatever subset of the cached writes a power cut preserves, a commit
\* record on the medium finds exactly the redo images it describes: the
\* images are durable before the record and untouched until it is cleared.
JournalIntact ==
    \A h \in hdrM : h.state = "COMMITTED" =>
        \A i \in DOMAIN h.entries : slotM[i] = {h.entries[i].image}

\* A superblock marked clean is never found beside a journal that still has
\* to be replayed, so a read-only mount of a cleanly unmounted filesystem is
\* not refused with EROFS.
CleanNeedsNoReplay ==
    pc = "off" /\ nsfs_read_superblocks.state = "CLEAN"
        => hdr.state = "EMPTY"

\* The superblock generation that a mount arrives at, in the worst case that
\* a power cut now may leave: the newer copy, or what replay installs in both.
CertainGeneration ==
    LET least(S) == CHOOSE g \in S : \A x \in S : g <= x
        copy(b) == least({s.generation : s \in homeM[b]})
        found(h) == IF h.state = "COMMITTED"
                    THEN h.entries[Len(h.entries)].image.generation
                    ELSE IF copy(S0) >= copy(S1) THEN copy(S0) ELSE copy(S1)
    IN  least({found(h) : h \in hdrM})

\* That generation never goes back: no barrier, replay or failure gives up a
\* superblock that was certain to be found.
GenerationNeverRegresses ==
    [][CertainGeneration' >= CertainGeneration]_vars

\* What a call reported as done is done: between calls, and when an unmount
\* has written its clean superblocks, no cut and no replay of an older
\* transaction can bring back an older superblock than the one in memory.
AcknowledgedIsDurable ==
    pc \in {"idle", "uflush"} /\ ~poisoned /\ ~ro
        => CertainGeneration >= sb.generation

\* A filesystem that is down comes up again once power cuts and device errors
\* stop, unless the modelled range of generations is used up.
MountCompletes ==
    pc = "off" ~> (pc = "idle" \/ nsfs_read_superblocks.generation >= MaxGen)

\* The journal implements an atomic store of the metadata blocks: what a mount
\* would find now changes by whole transactions, at the commit barrier or when
\* power is lost before the barrier returned.
Contents ==
    [b \in Home |->
        IF hdr.state = "COMMITTED" /\ pc # "commitflush"
           /\ \E i \in DOMAIN hdr.entries : hdr.entries[i].block = b
        THEN hdr.entries[CHOOSE i \in DOMAIN hdr.entries :
                            hdr.entries[i].block = b].image
        ELSE home[b]]

Phase ==
    CASE pc \in {"staged", "images", "imgflush", "header", "commitflush"} -> "open"
      [] pc \in {"homes", "homeflush", "clear", "clearflush"} -> "applied"
      [] OTHER -> "idle"

Update ==
    IF Phase = "open"
    THEN {entries[i] : i \in {j \in DOMAIN entries : entries[j].block \in Home}}
    ELSE {}

Store == INSTANCE AtomicStore
    WITH Key <- Home, Value <- Image, store <- Contents,
         phase <- Phase, update <- Update

ImplementsAtomicStore == Store!Spec
====
